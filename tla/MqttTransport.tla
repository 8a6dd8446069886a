---------------------------- MODULE MqttTransport ----------------------------
(***************************************************************************)
(* core/adapter_manager and the protocol clients: the connection of the    *)
(* simulator to the MQTT broker, the subscriptions it holds there, and     *)
(* what the loss of that connection does.                                  *)
(*                                                                         *)
(* main() connects the clients and subscribes the loaded devices, the CLI  *)
(* thread subscribes and unsubscribes as devices come and go, the          *)
(* scheduler thread publishes device states, and libmosquitto's thread     *)
(* reconnects after a loss.  The broker and libmosquitto are modelled by   *)
(* what the code relies on: a call without a session fails with            *)
(* MOSQ_ERR_NO_CONN, one whose topic is not valid for it with              *)
(* MOSQ_ERR_INVAL, and a clean session forgets its subscriptions.  (Rooms  *)
(* and identifiers reach the topics unchecked; a + or # can only be        *)
(* subscribed to, as a level of its own, and never published on.)          *)
(***************************************************************************)
EXTENDS Integers

CONSTANTS
    DeviceIds,    \* device identifiers; a device's command topic names it
    Proto,        \* Proto[d]: protocol of the device's model
    Topic,        \* Topic[d]: what the device's room and identifier make of
                  \* its topics: "plain", a "filter" or "malformed"
    MaxLosses,    \* bound on losses and refusals of the connection
    NoDevice      \* the scheduler is not publishing

ASSUME TransportAssumption ==
    /\ Proto \in [DeviceIds -> {"rest", "mqtt"}]
    /\ Topic \in [DeviceIds -> {"plain", "filter", "malformed"}]
    /\ MaxLosses \in Nat
    /\ NoDevice \notin DeviceIds

VARIABLES
    phase,       \* where main() is
    clients,     \* protocols with a client in clients_
    connected,   \* protocols whose client has connected_ set
    session,     \* libmosquitto has a session with the broker
    subs,        \* devices whose command topic the session subscribes to
    todo,        \* topics init_subscriptions() has still to subscribe
    devices,     \* devices_
    sending,     \* device whose state is about to be sent
    losses       \* times the session was lost, or refused

vars == <<phase, clients, connected, session, subs, todo, devices, sending, losses>>

-----------------------------------------------------------------------------
(* load_from_db() has built some devices, of no, one or both protocols.    *)
Init ==
    /\ devices \in SUBSET DeviceIds
    /\ phase = "connectRest"
    /\ clients = {Proto[d] : d \in devices}
    /\ connected = {}
    /\ session = FALSE
    /\ subs = {}
    /\ todo = {}
    /\ sending = NoDevice
    /\ losses = 0

(* Mutation: register_client() keeps one client. *)
ReplaceClients(p) == clients' = {p}

(* A device's constructor reuses the client of its protocol or registers a *)
(* new one, which nobody connects.                                         *)
RegisterClient(p) == clients' = clients \cup {p}

(* What libmosquitto accepts from a client that has connected_ set.        *)
Accepts(d) == "mqtt" \in connected /\ session /\ Topic[d] # "malformed"

(* MQTTClient::subscribe() throws without connected_ and whatever error    *)
(* libmosquitto reports; every caller catches and keeps the device.        *)
(* Without a client: nothing.                                              *)
SubscribeTopic(d) == subs' = IF Accepts(d) THEN subs \cup {d} ELSE subs

(* MQTTClient::unsubscribe(): likewise.                                    *)
UnsubscribeTopic(d) == subs' = IF Accepts(d) THEN subs \ {d} ELSE subs

(* RestServer, which keeps a RestClient in step with itself.               *)
RestConnect == connected' = connected \cup {"rest"}
RestDisconnect == connected' = connected \ {"rest"}

(* RestServer::send() and MQTTClient::publish() throw runtime_error; the   *)
(* latter whatever error libmosquitto reports: no session, or a topic that *)
(* nobody can publish on.                                                  *)
RestThrows == "rest" \notin connected
MqttThrows(d) == "mqtt" \notin connected \/ ~session \/ Topic[d] # "plain"
SendThrows(d) == IF Proto[d] = "mqtt" THEN MqttThrows(d) ELSE RestThrows

-----------------------------------------------------------------------------
(* main(): connect_all() and init_subscriptions().                         *)

MqttTopics == {d \in devices : Proto[d] = "mqtt"}

(* Mutation: each connect has a try block of its own. *)
ConnectRestAlone ==
    /\ phase = "connectRest"
    /\ phase' = "connectMqtt"
    /\ connected' \in {connected, connected \cup (clients \cap {"rest"})}
    /\ UNCHANGED <<clients, session, subs, todo, devices, sending, losses>>

(* Both connects are in one try block: when REST has no client, or no      *)
(* endpoint, main() goes on with the subscriptions.                        *)
ConnectRest ==
    /\ phase = "connectRest"
    /\ \/ /\ "rest" \in clients
          /\ RestConnect
          /\ phase' = "connectMqtt"
          /\ UNCHANGED todo
       \/ /\ phase' = "subscribe"
          /\ todo' = MqttTopics
          /\ UNCHANGED connected
    /\ UNCHANGED <<clients, session, subs, devices, sending, losses>>

(* mosquitto_connect() fails when the broker is not there; then the loop   *)
(* that would reconnect is not started either.  The loop may fail to       *)
(* start.  A broker that refuses the session is only told to on_connect(). *)
ConnectMqtt ==
    /\ phase = "connectMqtt"
    /\ \/ UNCHANGED <<session, connected, losses>>
       \/ /\ "mqtt" \in clients
          /\ session' = TRUE
          /\ UNCHANGED <<connected, losses>>
       \/ /\ "mqtt" \in clients
          /\ session' = TRUE
          /\ connected' = connected \cup {"mqtt"}
          /\ UNCHANGED losses
       \/ /\ "mqtt" \in clients
          /\ losses < MaxLosses /\ losses' = losses + 1
          /\ connected' = connected \cup {"mqtt"}
          /\ UNCHANGED session
    /\ phase' = "subscribe"
    /\ todo' = MqttTopics
    /\ UNCHANGED <<clients, subs, devices, sending>>

(* Mutation: the try block is around the loop. *)
SubscribeUntilRefused(d) ==
    /\ phase = "subscribe"
    /\ d \in todo
    /\ SubscribeTopic(d)
    /\ todo' = IF Accepts(d) THEN todo \ {d} ELSE {}
    /\ UNCHANGED <<phase, clients, connected, session, devices, sending, losses>>

(* Each topic has a try block of its own. *)
SubscribeOne(d) ==
    /\ phase = "subscribe"
    /\ d \in todo
    /\ SubscribeTopic(d)
    /\ todo' = todo \ {d}
    /\ UNCHANGED <<phase, clients, connected, session, devices, sending, losses>>

StartThreads ==
    /\ phase = "subscribe"
    /\ todo = {}
    /\ phase' = "running"
    /\ UNCHANGED <<clients, connected, session, subs, todo, devices, sending, losses>>

-----------------------------------------------------------------------------
(* The CLI thread.                                                         *)

(* add_device(): build the device and insert its row, which may fail, then *)
(* subscribe to its command topic.                                         *)
AddDevice(d) ==
    /\ phase = "running"
    /\ d \notin devices
    /\ RegisterClient(Proto[d])
    /\ \/ devices' = devices \cup {d} /\ SubscribeTopic(d)
       \/ UNCHANGED <<devices, subs>>
    /\ UNCHANGED <<phase, connected, session, todo, sending, losses>>

RemoveDevice(d) ==
    /\ phase = "running"
    /\ d \in devices
    /\ UnsubscribeTopic(d)
    /\ devices' = devices \ {d}
    /\ UNCHANGED <<phase, clients, connected, session, todo, sending, losses>>

-----------------------------------------------------------------------------
(* The scheduler thread, at the end of update_state() or of a handler.     *)

(* Mutation: the guard looks for a client only. *)
PublishUnguarded(d) ==
    /\ phase = "running"
    /\ sending = NoDevice
    /\ d \in devices
    /\ Proto[d] \in clients
    /\ sending' = d
    /\ UNCHANGED <<phase, clients, connected, session, subs, todo, devices, losses>>

(* publish_state(): nothing without a connected client.                    *)
PublishState(d) ==
    /\ phase = "running"
    /\ sending = NoDevice
    /\ d \in devices
    /\ Proto[d] \in connected
    /\ sending' = d
    /\ UNCHANGED <<phase, clients, connected, session, subs, todo, devices, losses>>

(* What send() throws ends the process: the devices catch json::exception  *)
(* only, and nobody further up the scheduler thread catches.               *)
Send ==
    /\ phase = "running" /\ sending # NoDevice
    /\ IF SendThrows(sending)
       THEN /\ phase' = "dead"
            /\ subs' = {} /\ session' = FALSE
            /\ connected' = {}
            /\ UNCHANGED sending
       ELSE /\ sending' = NoDevice
            /\ UNCHANGED <<phase, subs, session, connected>>
    /\ UNCHANGED <<clients, todo, devices, losses>>

-----------------------------------------------------------------------------
(* Broker and libmosquitto.                                                *)

(* Mutation: the session is not a clean one. *)
ConnectionLostKept ==
    /\ session
    /\ losses < MaxLosses
    /\ losses' = losses + 1
    /\ session' = FALSE
    /\ UNCHANGED <<phase, clients, connected, subs, todo, devices, sending>>

(* The connection breaks: connected_ is not told, the clean session ends.  *)
ConnectionLost ==
    /\ session
    /\ losses < MaxLosses
    /\ losses' = losses + 1
    /\ session' = FALSE
    /\ subs' = {}
    /\ UNCHANGED <<phase, clients, connected, todo, devices, sending>>

(* mosquitto_loop_start()'s thread reconnects; on_connect() only looks at  *)
(* the return code.                                                        *)
Reconnect ==
    /\ "mqtt" \in connected
    /\ ~session
    /\ session' = TRUE
    /\ UNCHANGED <<phase, clients, connected, subs, todo, devices, sending, losses>>

-----------------------------------------------------------------------------
(* main() after the CLI loop: the scheduler thread is joined, then         *)
(* disconnect_all(), REST first.                                           *)

DisconnectRest ==
    /\ phase = "running"
    /\ sending = NoDevice
    /\ RestDisconnect
    /\ phase' = "disconnectMqtt"
    /\ UNCHANGED <<clients, session, subs, todo, devices, sending, losses>>

(* Mutation: disconnect() gives up when libmosquitto has no session. *)
DisconnectIfOpen ==
    /\ phase = "disconnectMqtt"
    /\ session' = FALSE
    /\ subs' = {}
    /\ connected' = IF session THEN connected \ {"mqtt"} ELSE connected
    /\ phase' = "down"
    /\ UNCHANGED <<clients, todo, devices, sending, losses>>

DisconnectMqtt ==
    /\ phase = "disconnectMqtt"
    /\ session' = FALSE
    /\ subs' = {}
    /\ connected' = connected \ {"mqtt"}
    /\ phase' = "down"
    /\ UNCHANGED <<clients, todo, devices, sending, losses>>

-----------------------------------------------------------------------------
Next ==
    \/ ConnectRest \/ ConnectMqtt \/ StartThreads
    \/ \E d \in DeviceIds :
          SubscribeOne(d) \/ AddDevice(d) \/ RemoveDevice(d) \/ PublishState(d)
    \/ Send \/ ConnectionLost \/ Reconnect
    \/ DisconnectRest \/ DisconnectMqtt

Spec == Init /\ [][Next]_vars

-----------------------------------------------------------------------------
(* Types of the variables. *)
TypeOK ==
    /\ phase \in {"connectRest", "connectMqtt", "subscribe", "running",
                  "disconnectMqtt", "down", "dead"}
    /\ clients \subseteq {"rest", "mqtt"}
    /\ connected \subseteq clients
    /\ session \in BOOLEAN
    /\ subs \subseteq DeviceIds
    /\ todo \subseteq devices
    /\ devices \subseteq DeviceIds
    /\ sending \in DeviceIds \cup {NoDevice}
    /\ losses \in 0..MaxLosses

(* The broker never routes commands for a device that was removed, also    *)
(* when the unsubscribe failed: a subscription the code could not cancel   *)
(* died with its session.                                                  *)
NoGhostSubscription == subs \subseteq devices

(* As long as the first connection holds, each MQTT device whose topic can *)
(* be subscribed to is subscribed, in whatever order it came and whichever *)
(* topics of others were refused before it.  (After a loss nobody          *)
(* subscribes again.)                                                      *)
SubscribedUntilLoss ==
    phase = "running" /\ "mqtt" \in connected /\ losses = 0
        => {d \in MqttTopics : Topic[d] # "malformed"} \subseteq subs

(* A publish is fatal only on MQTT, and only after the session was lost or *)
(* refused, or on a topic nobody can publish on: the guard of              *)
(* publish_state() covers REST, and every client that was never connected. *)
FatalNeedsLossOrTopic ==
    phase = "dead" => Proto[sending] = "mqtt" /\ (losses > 0 \/ Topic[sending] # "plain")

(* Connecting is all or nothing from REST on: in a running simulator MQTT  *)
(* is connected only beside REST, so never without a REST device at start. *)
MqttNeedsRest == phase = "running" /\ "mqtt" \in connected => "rest" \in connected

(* disconnect_all() leaves no client connected and no session open, in     *)
(* whatever state the connection was.                                      *)
DownIsDisconnected == phase = "down" => connected = {} /\ ~session

(* event_scheduler.hpp:28, run() "returns only after stop() is called":    *)
(* publishing a state never ends the scheduler thread, and the process     *)
(* with it, while main() has not asked for it.                             *)
PublishIsNeverFatal == phase # "dead"
=============================================================================
