------------------------------- MODULE ApiBridge ------------------------------
(***************************************************************************)
(* src/api, the Node.js bridge between HTTP/WebSocket clients and the      *)
(* broker, together with the simulator as it sees it: devices that publish *)
(* their whole state on home/<room>/<id>/state and take commands on        *)
(* home/<room>/<id>.  The bridge merges what it hears into a cache that    *)
(* answers GET, and turns POST into a publication on                       *)
(* home/<type>/<id>/command.                                               *)
(*                                                                         *)
(* Publications have QoS 0 and are not retained: one made while the bridge *)
(* has no subscription never reaches it, and the ones on their way when    *)
(* its connection breaks are lost.  On one connection they keep the order. *)
(* The simulator's own connection is MqttTransport's and does not fail     *)
(* here; node runs every callback to its end, so a callback is one step.   *)
(***************************************************************************)
EXTENDS Integers, Sequences, FiniteSets

CONSTANTS
    DeviceIds,   \* devices whose model has protocol mqtt
    Rooms,       \* values of --room
    Types,       \* device types
    Variables,   \* Variables[t]: state keys of a device of type t
    Values,      \* their values
    Initial,     \* the value a variable starts with
    MaxFlight,   \* bound on state messages under way
    MaxCommands, \* bound on commands under way
    NoRoom,      \* the device does not exist
    NoType,      \* likewise
    NoState      \* nothing in the cache

ASSUME BridgeAssumption ==
    /\ Rooms \cap Types = {}
    /\ NoRoom \notin Rooms /\ NoType \notin Types
    /\ \A t \in Types : Variables[t] # {}
    /\ Initial \in Values
    /\ MaxFlight \in Nat /\ MaxCommands \in Nat
    /\ \A V \in SUBSET UNION {Variables[t] : t \in Types} : NoState \notin [V -> Values]

VARIABLES
    room,      \* room_ of each device
    type,      \* its type
    state,     \* states_ of each device
    link,      \* the bridge's connection: down, connected, subscribed
    inbox,     \* state messages on their way to the bridge
    commands,  \* commands on their way to the simulator
    store,     \* states in state/store.js, by "<second level>/<third level>"
    heard      \* devices whose last publication went out to the bridge and
               \* was not lost since

vars == <<room, type, state, link, inbox, commands, store, heard>>

-----------------------------------------------------------------------------
Names == Rooms \cup Types

Init ==
    /\ room = [d \in DeviceIds |-> NoRoom]
    /\ type = [d \in DeviceIds |-> NoType]
    /\ state = [d \in DeviceIds |-> <<>>]
    /\ link = "down"
    /\ inbox = <<>>
    /\ commands = {}
    /\ store = [n \in Names |-> [d \in DeviceIds |-> NoState]]
    /\ heard = {}

(* command_topic() and state_topic(). *)
CommandTopic(d) == <<"home", room[d], d>>
StateTopic(d) == <<"home", room[d], d, "state">>

-----------------------------------------------------------------------------
(* The simulator.                                                          *)

AddDevice(d, r, t) ==
    /\ room[d] = NoRoom
    /\ room' = [room EXCEPT ![d] = r]
    /\ type' = [type EXCEPT ![d] = t]
    /\ state' = [state EXCEPT ![d] = [k \in Variables[t] |-> Initial]]
    /\ UNCHANGED <<link, inbox, commands, store, heard>>

RemoveDevice(d) ==
    /\ room[d] # NoRoom
    /\ room' = [room EXCEPT ![d] = NoRoom]
    /\ type' = [type EXCEPT ![d] = NoType]
    /\ state' = [state EXCEPT ![d] = <<>>]
    /\ heard' = heard \ {d}
    /\ UNCHANGED <<link, inbox, commands, store>>

(* A state change, whether it brings a known variable or not, ends with    *)
(* publish_state(), which sends all of states_; the broker passes it on.   *)
Update(d, k, v) ==
    /\ room[d] # NoRoom
    /\ state' = IF k \in DOMAIN state[d] THEN [state EXCEPT ![d][k] = v] ELSE state
    /\ \/ /\ link = "subscribed"
          /\ Len(inbox) < MaxFlight
          /\ inbox' = Append(inbox, [topic |-> StateTopic(d), state |-> state'[d]])
          /\ heard' = heard \cup {d}
       \/ /\ link # "subscribed"
          /\ heard' = heard \ {d}
          /\ UNCHANGED inbox
    /\ UNCHANGED <<room, type, link, store>>

(* From the CLI or from a trigger. *)
LocalChange(d, k, v) == Update(d, k, v) /\ UNCHANGED commands

(* The broker passes a command on to who subscribed to its topic, and the  *)
(* simulator has subscribed to the command topics of its devices.          *)
CommandArrives(c) ==
    /\ c \in commands
    /\ commands' = commands \ {c}
    /\ \/ \E d \in DeviceIds : c.topic = CommandTopic(d) /\ Update(d, c.key, c.value)
       \/ /\ \A d \in DeviceIds : c.topic # CommandTopic(d)
          /\ UNCHANGED <<room, type, state, link, inbox, store, heard>>

-----------------------------------------------------------------------------
(* The bridge.                                                             *)

(* on('connect'): subscribe, at the first connection and at every one      *)
(* mqtt.js makes after it lost one; the broker confirms later.             *)
Connected ==
    /\ link = "down"
    /\ link' = "connected"
    /\ UNCHANGED <<room, type, state, inbox, commands, store, heard>>

Subscribed ==
    /\ link = "connected"
    /\ link' = "subscribed"
    /\ UNCHANGED <<room, type, state, inbox, commands, store, heard>>

(* Mutation: { ...patch, ...states.get(key) }. *)
MergedUnder(old, patch) ==
    IF old = NoState THEN patch
    ELSE [k \in DOMAIN old \cup DOMAIN patch |->
            IF k \in DOMAIN old THEN old[k] ELSE patch[k]]

(* setState(): the state received goes over the one in the cache.          *)
Merged(old, patch) ==
    IF old = NoState THEN patch
    ELSE [k \in DOMAIN old \cup DOMAIN patch |->
            IF k \in DOMAIN patch THEN patch[k] ELSE old[k]]

(* on('message'). *)
Receive ==
    /\ inbox # <<>>
    /\ LET m == Head(inbox)
           n == m.topic[2]
           d == m.topic[3]
       IN store' = [store EXCEPT ![n][d] = Merged(@, m.state)]
    /\ inbox' = Tail(inbox)
    /\ UNCHANGED <<room, type, state, link, commands, heard>>

PostTopic(n, d) == <<"home", n, d, "command">>

(* POST /devices/:type/:id answers 503 without a connection; the client    *)
(* chooses what it takes for :type.                                        *)
Post(n, d, k, v) ==
    /\ link # "down"
    /\ Cardinality(commands) < MaxCommands
    /\ commands' = commands \cup
            {[topic |-> PostTopic(n, d), key |-> k, value |-> v]}
    /\ UNCHANGED <<room, type, state, link, inbox, store, heard>>

(* A client with an MQTT connection of its own needs no bridge. *)
Direct(d, k, v) ==
    /\ room[d] # NoRoom
    /\ Cardinality(commands) < MaxCommands
    /\ commands' = commands \cup {[topic |-> CommandTopic(d), key |-> k, value |-> v]}
    /\ UNCHANGED <<room, type, state, link, inbox, store, heard>>

UnderWay == {inbox[i].topic[3] : i \in DOMAIN inbox}

Lost ==
    /\ link # "down"
    /\ link' = "down"
    /\ heard' = heard \ UnderWay
    /\ inbox' = <<>>
    /\ commands' = {c \in commands : c.topic # PostTopic(c.topic[2], c.topic[3])}
    /\ UNCHANGED <<room, type, state, store>>

(* The cache is in memory only. *)
Restart ==
    /\ link' = "down"
    /\ inbox' = <<>>
    /\ commands' = {c \in commands : c.topic # PostTopic(c.topic[2], c.topic[3])}
    /\ store' = [n \in Names |-> [d \in DeviceIds |-> NoState]]
    /\ heard' = {}
    /\ UNCHANGED <<room, type, state>>

-----------------------------------------------------------------------------
AllVariables == UNION {Variables[t] : t \in Types}

Simulator ==
    \/ \E d \in DeviceIds : RemoveDevice(d)
    \/ \E d \in DeviceIds, r \in Rooms, t \in Types : AddDevice(d, r, t)
    \/ \E d \in DeviceIds, k \in AllVariables, v \in Values : LocalChange(d, k, v)
    \/ \E c \in commands : CommandArrives(c)

Bridge == Connected \/ Subscribed \/ Receive \/ Lost \/ Restart

Client ==
    \E d \in DeviceIds, k \in AllVariables, v \in Values :
        Direct(d, k, v) \/ \E n \in Names : Post(n, d, k, v)

Next == Simulator \/ Bridge \/ Client

Spec == Init /\ [][Next]_vars

-----------------------------------------------------------------------------
(* Types of the variables. *)
TypeOK ==
    /\ room \in [DeviceIds -> Rooms \cup {NoRoom}]
    /\ type \in [DeviceIds -> Types \cup {NoType}]
    /\ DOMAIN state = DeviceIds
    /\ \A d \in DeviceIds : room[d] # NoRoom =>
            /\ type[d] # NoType
            /\ state[d] \in [Variables[type[d]] -> Values]
    /\ link \in {"down", "connected", "subscribed"}
    /\ link # "subscribed" => inbox = <<>>
    /\ Len(inbox) <= MaxFlight
    /\ heard \subseteq DeviceIds

(* One publication that gets through is enough: however many were lost     *)
(* before, whatever else the cache holds, and wherever the device stood    *)
(* in earlier lives, the cache then has its state, variable by variable.   *)
CacheCatchesUp ==
    \A d \in heard \ UnderWay :
        /\ store[room[d]][d] # NoState
        /\ \A k \in DOMAIN state[d] : store[room[d]][d][k] = state[d][k]
=============================================================================
