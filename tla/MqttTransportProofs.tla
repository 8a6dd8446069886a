------------------------- MODULE MqttTransportProofs --------------------------
(***************************************************************************)
(* Proofs of the safety invariants of MqttTransport, for every set of      *)
(* devices, any protocols and topics and any number of losses.             *)
(***************************************************************************)
EXTENDS MqttTransport, TLAPS

-----------------------------------------------------------------------------
(* A subscription lives in a session of a connected client, which will     *)
(* accept to cancel it.                                                    *)
SubscribedInSession ==
    /\ subs # {} => session /\ "mqtt" \in connected
    /\ \A d \in subs : Topic[d] # "malformed"

(* Until the session is lost or refused, connected_ tells the truth.       *)
ConnectedUntilLoss == "mqtt" \in connected /\ losses = 0 => session

(* init_subscriptions() has its topics to itself, and leaves none out.     *)
SubscribesAll ==
    /\ phase # "subscribe" => todo = {}
    /\ phase = "subscribe" /\ "mqtt" \in connected /\ losses = 0
          => {d \in MqttTopics \ todo : Topic[d] # "malformed"} \subseteq subs

(* Who publishes has seen its client connected, and main() waits for it.   *)
SendsConnected ==
    sending # NoDevice =>
        phase = "dead" \/ (phase = "running" /\ Proto[sending] \in connected)

Places ==
    /\ phase \in {"connectRest", "connectMqtt"} => "mqtt" \notin connected /\ ~session
    /\ phase = "connectMqtt" => "rest" \in connected
    /\ phase \in {"subscribe", "running"} /\ "mqtt" \in connected => "rest" \in connected
    /\ phase = "disconnectMqtt" => "rest" \notin connected

IInv ==
    /\ TypeOK /\ NoGhostSubscription /\ SubscribedUntilLoss
    /\ FatalNeedsLossOrTopic /\ MqttNeedsRest /\ DownIsDisconnected
    /\ SubscribedInSession /\ ConnectedUntilLoss /\ SubscribesAll /\ SendsConnected /\ Places

USE TransportAssumption DEF MqttTopics

-----------------------------------------------------------------------------
(* The strengthening holds in the initial state. *)
LEMMA Initially == Init => IInv
<1> SUFFICES ASSUME Init PROVE IInv
    OBVIOUS
<1>1. TypeOK
  <2>1. devices \subseteq DeviceIds /\ \A d \in DeviceIds : Proto[d] \in {"rest", "mqtt"}
      BY DEF Init
  <2>2. clients \subseteq {"rest", "mqtt"}
    <3>1. clients = {Proto[d] : d \in devices}
        BY DEF Init
    <3> QED
        BY <2>1, <3>1
  <2>3. losses \in 0..MaxLosses
      BY DEF Init
  <2>4. /\ connected = {} /\ todo = {} /\ subs = {}
        /\ sending = NoDevice
        /\ session \in BOOLEAN /\ phase = "connectRest"
      BY DEF Init
  <2> QED
      BY <2>1, <2>2, <2>3, <2>4 DEF TypeOK
<1> QED
    BY <1>1 DEF Init, IInv, NoGhostSubscription, SubscribedUntilLoss, FatalNeedsLossOrTopic, MqttNeedsRest,
        DownIsDisconnected, SubscribedInSession, ConnectedUntilLoss, SubscribesAll,
        SendsConnected, Places

(* Every step of every thread preserves it.                                *)
LEMMA Preserved == IInv /\ [Next]_vars => IInv'
<1> USE DEF IInv, TypeOK, NoGhostSubscription, SubscribedUntilLoss, FatalNeedsLossOrTopic, MqttNeedsRest,
            DownIsDisconnected, SubscribedInSession, ConnectedUntilLoss, SubscribesAll,
            SendsConnected, Places
<1> SUFFICES ASSUME IInv, [Next]_vars PROVE IInv'
    OBVIOUS
<1>1. CASE ConnectRest
    BY <1>1 DEF ConnectRest, RestConnect
<1>2. CASE ConnectMqtt
  <2>1. losses' \in 0..MaxLosses /\ (losses' = losses \/ losses' > 0)
      BY <1>2 DEF ConnectMqtt
  <2>2. connected' = connected \/ (connected' = connected \cup {"mqtt"} /\ "mqtt" \in clients)
      BY <1>2 DEF ConnectMqtt
  <2>3. session' \in BOOLEAN /\ ("mqtt" \in connected' => session' \/ losses' > 0)
    <3>1. CASE UNCHANGED <<session, connected>>
        BY <1>2, <3>1 DEF ConnectMqtt
    <3>2. CASE session' = TRUE
        BY <3>2
    <3>3. CASE losses' = losses + 1 /\ UNCHANGED session
        BY <3>3
    <3> QED
        BY <1>2, <3>1, <3>2, <3>3 DEF ConnectMqtt
  <2>4. /\ phase = "connectMqtt" /\ phase' = "subscribe" /\ todo' = MqttTopics
        /\ UNCHANGED <<clients, subs, devices, sending>>
      BY <1>2 DEF ConnectMqtt
  <2>5. TypeOK'
      BY <2>1, <2>2, <2>3, <2>4
  <2>6. (/\ NoGhostSubscription /\ SubscribedUntilLoss /\ FatalNeedsLossOrTopic
         /\ MqttNeedsRest /\ DownIsDisconnected /\ SubscribedInSession)'
      BY <2>4
  <2>7. (ConnectedUntilLoss /\ SubscribesAll /\ SendsConnected /\ Places)'
      BY <2>1, <2>2, <2>3, <2>4
  <2> QED
      BY <2>5, <2>6, <2>7
<1>3. ASSUME NEW d \in DeviceIds, SubscribeOne(d) PROVE IInv'
    BY <1>3 DEF SubscribeOne, SubscribeTopic, Accepts
<1>4. CASE StartThreads
    BY <1>4 DEF StartThreads
<1>5. ASSUME NEW d \in DeviceIds, AddDevice(d) PROVE IInv'
  <2>1. /\ phase = "running" /\ clients' = clients \cup {Proto[d]}
        /\ UNCHANGED <<phase, connected, session, todo, sending, losses>>
      BY <1>5 DEF AddDevice, RegisterClient
  <2>2. Proto[d] \in {"rest", "mqtt"}
      OBVIOUS
  <2>3. CASE devices' = devices \cup {d} /\ SubscribeTopic(d)
      BY <2>1, <2>2, <2>3 DEF SubscribeTopic, Accepts
  <2>4. CASE UNCHANGED <<devices, subs>>
    <3>1. TypeOK'
        BY <2>1, <2>2, <2>4
    <3> QED
        BY <2>1, <2>4, <3>1
  <2> QED
      BY <1>5, <2>3, <2>4 DEF AddDevice
<1>6. ASSUME NEW d \in DeviceIds, RemoveDevice(d) PROVE IInv'
  <2>1. /\ phase = "running" /\ devices' = devices \ {d}
        /\ UNCHANGED <<phase, clients, connected, session, todo, sending, losses>>
      BY <1>6 DEF RemoveDevice
  <2>2. subs' = (IF Accepts(d) THEN subs \ {d} ELSE subs)
      BY <1>6 DEF RemoveDevice, UnsubscribeTopic
  <2>3. d \in subs => Accepts(d)
      BY DEF Accepts
  <2> QED
      BY <2>1, <2>2, <2>3
<1>7. ASSUME NEW d \in DeviceIds, PublishState(d) PROVE IInv'
    BY <1>7 DEF PublishState
<1>8. CASE Send
  <2>0. Proto[sending] \in connected /\ sending \in DeviceIds
      BY <1>8 DEF Send
  <2>1. CASE SendThrows(sending)
    <3>1. Proto[sending] = "mqtt" /\ (~session \/ Topic[sending] # "plain")
        BY <2>0, <2>1 DEF SendThrows, MqttThrows, RestThrows
    <3>2. losses > 0 \/ Topic[sending] # "plain"
        BY <2>0, <3>1
    <3> QED
        BY <1>8, <2>1, <3>1, <3>2 DEF Send
  <2>2. CASE ~SendThrows(sending)
      BY <1>8, <2>2 DEF Send
  <2> QED
      BY <2>1, <2>2
<1>9. CASE ConnectionLost
  <2>1. losses' \in 0..MaxLosses /\ losses' > 0
      BY <1>9 DEF ConnectionLost
  <2>2. session /\ session' = FALSE /\ subs' = {}
      BY <1>9 DEF ConnectionLost
  <2>3. UNCHANGED <<phase, clients, connected, todo, devices, sending>>
      BY <1>9 DEF ConnectionLost
  <2>4. TypeOK'
      BY <2>1, <2>2, <2>3
  <2>5. (FatalNeedsLossOrTopic /\ MqttNeedsRest /\ SubscribedUntilLoss /\ ConnectedUntilLoss)'
      BY <2>1, <2>3
  <2>6. (NoGhostSubscription /\ DownIsDisconnected /\ SubscribedInSession)'
      BY <2>2, <2>3
  <2>7. (SubscribesAll /\ SendsConnected /\ Places)'
      BY <2>1, <2>2, <2>3
  <2> QED
      BY <2>4, <2>5, <2>6, <2>7
<1>10. CASE Reconnect
    BY <1>10 DEF Reconnect
<1>11. CASE DisconnectRest
    BY <1>11 DEF DisconnectRest, RestDisconnect
<1>12. CASE DisconnectMqtt
  <2>1. connected \ {"mqtt"} = {}
      BY <1>12 DEF DisconnectMqtt
  <2> QED
      BY <1>12, <2>1 DEF DisconnectMqtt
<1>13. CASE UNCHANGED vars
    BY <1>13 DEF vars
<1> QED
    BY <1>1, <1>2, <1>3, <1>4, <1>5, <1>6, <1>7, <1>8, <1>9, <1>10, <1>11, <1>12, <1>13 DEF Next

(* The inductive invariant of the transport.                               *)
THEOREM Invariance == Spec => []IInv
BY Initially, Preserved, PTL DEF Spec

(* The variables keep their types.                                         *)
THEOREM TypeCorrect == Spec => []TypeOK
<1>1. IInv => TypeOK
    BY DEF IInv
<1> QED
    BY Invariance, <1>1, PTL

(* The broker holds no subscription for a device that was removed.         *)
THEOREM NoGhosts == Spec => []NoGhostSubscription
<1>1. IInv => NoGhostSubscription
    BY DEF IInv
<1> QED
    BY Invariance, <1>1, PTL

(* Until the session is lost or refused it subscribes to every MQTT device *)
(* whose topic can be subscribed to.                                       *)
THEOREM Subscribed == Spec => []SubscribedUntilLoss
<1>1. IInv => SubscribedUntilLoss
    BY DEF IInv
<1> QED
    BY Invariance, <1>1, PTL

(* A publish ends the process only on MQTT, after a loss or a refusal of   *)
(* the session or on a topic nobody can publish on.                        *)
THEOREM Fatal == Spec => []FatalNeedsLossOrTopic
<1>1. IInv => FatalNeedsLossOrTopic
    BY DEF IInv
<1> QED
    BY Invariance, <1>1, PTL

(* MQTT is connected beside REST only.                                     *)
THEOREM NeedsRest == Spec => []MqttNeedsRest
<1>1. IInv => MqttNeedsRest
    BY DEF IInv
<1> QED
    BY Invariance, <1>1, PTL

(* disconnect_all() leaves nothing connected.                              *)
THEOREM Disconnected == Spec => []DownIsDisconnected
<1>1. IInv => DownIsDisconnected
    BY DEF IInv
<1> QED
    BY Invariance, <1>1, PTL
=============================================================================
