----------------------------- MODULE DeviceState ------------------------------
(***************************************************************************)
(* devices/: what one virtual device does to its states_ when the          *)
(* scheduler thread hands it a state change (VirtualDevice::update_state)  *)
(* or an event it has a handler for, and what it then publishes.           *)
(*                                                                         *)
(* A payload names variables by state key, by capability or by alias; two  *)
(* pieces of code translate such names, resolve_state_key() for state      *)
(* changes and accepted_keys_for_capability() for events.  The items of a  *)
(* state change are applied one step each, since the CLI thread reads      *)
(* states_ in between.  A payload that does not parse changes nothing and  *)
(* has no action, except for the two handlers that ignore their payload.   *)
(***************************************************************************)
EXTENDS Integers, FiniteSets

CONSTANTS
    Models,    \* rows of device_models, with capabilities, aliases, events
    Keys,      \* names of variables
    Rank,      \* Rank[k]: place of k in the order of std::map<std::string>
    Values,    \* values of variables
    Bodies,    \* JSON objects payloads parse to: some Keys to Values
    NoKey,     \* the name is unknown
    NoReport   \* nothing published yet

ASSUME StateAssumption ==
    /\ {"on", "brightness", "color", "motion", "presence", "temperature",
        "target_temperature", "mode", "humidity", "value"} \subseteq Keys
    /\ {"true", "false", "100", "#ffffff", "20.0", "21.0", "auto", "50.0"} \subseteq Values
    /\ NoKey \notin Keys
    /\ Rank \in [Keys -> Nat] /\ \A k, l \in Keys : Rank[k] = Rank[l] => k = l
    /\ \A body \in Bodies :
        /\ DOMAIN body \subseteq Keys /\ IsFiniteSet(DOMAIN body)
        /\ \A k \in DOMAIN body : body[k] \in Values
    /\ \A m \in Models :
        /\ m.type \in {"light", "motion", "thermostat"}
        /\ m.caps \subseteq Keys
        /\ DOMAIN m.alias \subseteq Keys /\ \A a \in DOMAIN m.alias : m.alias[a] \in Keys

VARIABLES
    model,      \* *model_
    states,     \* states_
    pc,         \* idle, in the loop of apply_state_payload, about to publish
    todo,       \* items of the payload still to apply
    connected,  \* is_connected() of the protocol client
    reported    \* last payload sent to state_topic()

vars == <<model, states, pc, todo, connected, reported>>

-----------------------------------------------------------------------------
(* state_key_for_capability(). *)
StateKey(m, c) == IF m.type = "light" /\ c = "on_off" THEN "on" ELSE c

(* init_states(). *)
InitialKeys(m) ==
    CASE m.type = "light"      -> {"on"} \cup ({"brightness", "color"} \cap m.caps)
      [] m.type = "motion"     -> {"motion", "presence"}
      [] m.type = "thermostat" -> {"temperature", "target_temperature"}

Default(k) ==
    CASE k = "brightness"         -> "100"
      [] k = "color"              -> "#ffffff"
      [] k = "temperature"        -> "20.0"
      [] k = "target_temperature" -> "21.0"
      [] k = "mode"               -> "auto"
      [] k = "humidity"           -> "50.0"
      [] OTHER                    -> "false"

InitialState(m) == [k \in InitialKeys(m) |-> Default(k)]

(* accepted_keys_for_capability(): the state key, the capability, aliases; *)
(* every handler that uses it then falls back to "value".                  *)
Aliases(m, c) == {a \in DOMAIN m.alias : m.alias[a] = c}

Names(m, c) == <<{StateKey(m, c)}, {c}, Aliases(m, c), {"value"}>>

(* The event handlers: the state they set, the names they take its value   *)
(* from, in order, and the value when there is none.                       *)
Handler(e, k, names, default) == [event |-> e, key |-> k, names |-> names, default |-> default]

(* A handler that sets the state of a capability.                          *)
ForCapability(m, e, c) == Handler(e, StateKey(m, c), Names(m, c), Default(StateKey(m, c)))

LightHandlers(m) ==
    {Handler("turned_on", "on", <<>>, "true") : c \in {"on_off"} \cap m.caps}
        \cup {Handler("turned_off", "on", <<>>, "false") : c \in {"on_off"} \cap m.caps}
        \cup {ForCapability(m, "brightness_changed", c) : c \in {"brightness"} \cap m.caps}
        \cup {ForCapability(m, "color_changed", c) : c \in {"color"} \cap m.caps}

MotionHandlers(m) ==
    {Handler("motion_detected", "motion", Names(m, "motion"), "true"),
     Handler("motion_cleared", "motion", Names(m, "motion"), "false"),
     Handler("presence_detected", "presence", Names(m, "presence"), "true"),
     Handler("presence_cleared", "presence", Names(m, "presence"), "false")}

ThermostatHandlers(m) ==
    {ForCapability(m, "temperature_changed", "temperature"),
     ForCapability(m, "setpoint_changed", "target_temperature"),
     Handler("mode_changed", "mode", <<{"mode"}, {"value"}>>, Default("mode")),
     Handler("humidity_changed", "humidity", <<{"humidity"}, {"value"}>>, Default("humidity"))}

(* register_event_handlers(). *)
Handlers(m) ==
    {h \in CASE m.type = "light"      -> LightHandlers(m)
             [] m.type = "motion"     -> MotionHandlers(m)
             [] m.type = "thermostat" -> ThermostatHandlers(m)
        : h.event \in m.events}

(* Mutation: what only events have made is forgotten. *)
ResolveCapabilities(k) ==
    IF k \in model.caps THEN StateKey(model, k)
    ELSE IF k \in DOMAIN model.alias THEN StateKey(model, model.alias[k])
    ELSE IF \E c \in model.caps : StateKey(model, c) = k THEN k
    ELSE NoKey

(* resolve_state_key(). *)
Resolve(k) ==
    IF k \in DOMAIN states THEN k
    ELSE IF k \in model.caps THEN StateKey(model, k)
    ELSE IF k \in DOMAIN model.alias THEN StateKey(model, model.alias[k])
    ELSE IF \E c \in model.caps : StateKey(model, c) = k THEN k
    ELSE NoKey

(* set_state(). *)
SetState(k, v) ==
    states' = [l \in DOMAIN states \cup {k} |-> IF l = k THEN v ELSE states[l]]

(* first_present_value(): of the names the body has, the first in the      *)
(* order of names (aliases: in that of their map).                         *)
FirstPresent(body, h) ==
    LET found == {i \in DOMAIN h.names : h.names[i] \cap DOMAIN body # {}}
        first == CHOOSE i \in found : \A j \in found : i <= j
        names == h.names[first] \cap DOMAIN body
    IN IF found = {} THEN h.default
       ELSE body[CHOOSE k \in names : \A l \in names : Rank[k] <= Rank[l]]

-----------------------------------------------------------------------------
Init ==
    /\ model \in Models
    /\ states = InitialState(model)
    /\ pc = "idle"
    /\ todo = <<>>
    /\ connected = FALSE
    /\ reported = NoReport

(* connect_all(), when main() gets to it. *)
Connect ==
    /\ ~connected
    /\ connected' = TRUE
    /\ UNCHANGED <<model, states, pc, todo, reported>>

(* update_state(): the payload has parsed to an object, or is empty.       *)
UpdateState(body) ==
    /\ pc = "idle"
    /\ todo' = body
    /\ pc' = IF DOMAIN body = {} THEN "publish" ELSE "apply"
    /\ UNCHANGED <<model, states, connected, reported>>

(* Mutation: the items from the last to the first. *)
IsNextBackwards(k) == k \in DOMAIN todo /\ \A l \in DOMAIN todo : Rank[l] <= Rank[k]

(* items() goes through the keys in their order. *)
IsNext(k) == k \in DOMAIN todo /\ \A l \in DOMAIN todo : Rank[k] <= Rank[l]

(* Mutation: an unknown name is not skipped. *)
ApplyItemUnchecked(k) ==
    /\ pc = "apply"
    /\ IsNext(k)
    /\ SetState(Resolve(k), todo[k])
    /\ todo' = [l \in DOMAIN todo \ {k} |-> todo[l]]
    /\ pc' = IF DOMAIN todo = {k} THEN "publish" ELSE "apply"
    /\ UNCHANGED <<model, connected, reported>>

(* One turn of the loop.                                                   *)
ApplyItem(k) ==
    /\ pc = "apply"
    /\ IsNext(k)
    /\ IF Resolve(k) = NoKey THEN UNCHANGED states ELSE SetState(Resolve(k), todo[k])
    /\ todo' = [l \in DOMAIN todo \ {k} |-> todo[l]]
    /\ pc' = IF DOMAIN todo = {k} THEN "publish" ELSE "apply"
    /\ UNCHANGED <<model, connected, reported>>

(* Mutation: a handler does not publish. *)
HandleEventSilently(h, body) ==
    /\ pc = "idle"
    /\ SetState(h.key, FirstPresent(body, h))
    /\ UNCHANGED <<model, pc, todo, connected, reported>>

(* A handler sets one state.  A payload that is no object has no names.    *)
HandleEvent(h, body) ==
    /\ pc = "idle"
    /\ SetState(h.key, FirstPresent(body, h))
    /\ pc' = "publish"
    /\ UNCHANGED <<model, todo, connected, reported>>

PublishState ==
    /\ pc = "publish"
    /\ reported' = IF connected THEN states ELSE reported
    /\ pc' = "idle"
    /\ UNCHANGED <<model, states, todo, connected>>

Next ==
    \/ Connect
    \/ \E body \in Bodies : UpdateState(body)
    \/ \E k \in Keys : ApplyItem(k)
    \/ \E h \in Handlers(model), body \in Bodies : HandleEvent(h, body)
    \/ PublishState

Spec == Init /\ [][Next]_vars

-----------------------------------------------------------------------------
(* Names no two variables share: an alias is not a name of another kind,   *)
(* and "value" names no variable.  The seed's models are like this; the    *)
(* tables do not force it.                                                 *)
StateKeys(m) ==
    InitialKeys(m) \cup {StateKey(m, c) : c \in m.caps} \cup {h.key : h \in Handlers(m)}

ASSUME AliasAssumption ==
    \A m \in Models :
        /\ \A a \in DOMAIN m.alias : a \notin m.caps \cup StateKeys(m) /\ m.alias[a] \in m.caps
        /\ "value" \notin m.caps \cup DOMAIN m.alias

(* Types of the variables. *)
TypeOK ==
    /\ model \in Models
    /\ DOMAIN states \subseteq Keys /\ \A k \in DOMAIN states : states[k] \in Values
    /\ pc \in {"idle", "apply", "publish"}
    /\ DOMAIN todo \subseteq Keys /\ \A k \in DOMAIN todo : todo[k] \in Values
    /\ pc = "apply" <=> DOMAIN todo # {}
    /\ connected \in BOOLEAN

(* Whatever names commands use, a variable has one entry in states_, under *)
(* its state key: no alias and no capability name gets an entry beside it. *)
OneEntryPerVariable == DOMAIN states \subseteq StateKeys(model)

INSTANCE PayloadEffect

(* What a state change makes of the names events take their values from,   *)
(* at any time of the device's life.  A name an event of a variable reads  *)
(* is resolved to that variable, with two exceptions, where it is passed   *)
(* over: "value", which every such event falls back to, and the names of a *)
(* variable that is no capability, until an event has made its entry.      *)
NamesAgree ==
    \A h \in Handlers(model) : \A i \in DOMAIN h.names : \A k \in h.names[i] :
        Resolve(k) = IF k # "value" /\ h.key \in Variables(model, states) THEN h.key ELSE NoKey

(* What is published is never behind: at rest, the last state a device     *)
(* has published is the state it has.                                      *)
ReportedIsCurrent ==
    pc = "idle" /\ reported # NoReport => reported = states

(* The loop over a payload is one change: whatever names the items use and *)
(* whatever entries the items before have made, each variable ends with    *)
(* the value of the last of its names, the others as they were, and that   *)
(* is what is published.  A device half-way through a payload counts as    *)
(* one that has applied it.                                                *)
Atomic == INSTANCE AtomicDevice WITH
    state   <- Effect(model, states, todo),
    pending <- pc # "idle"

ImplementsAtomic == Atomic!Spec
=============================================================================
