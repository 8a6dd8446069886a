------------------------------ MODULE EventFlow ------------------------------
(***************************************************************************)
(* core/event_engine: the way of an event from the CLI or the broker       *)
(* through the scheduler to a device, while devices come and go.  The      *)
(* scheduler is the agenda it was shown to implement (EventAgenda); one    *)
(* action is what EventEngine does between two looks at DeviceEngine or at *)
(* the scheduler.  run() may leave its loop between two events (stop()),   *)
(* and an exception of publish_state() leaves run() and ends the process:  *)
(* MqttTransport says when it comes, here it may come at any publication.  *)
(*                                                                         *)
(* A type is the sequence of its dot-separated parts, <<"trigger">> or     *)
(* <<"light", "turned_on">>; a topic the sequence of its levels, the fifth *)
(* of which is taken for a type.  A payload is what the JSON of event e    *)
(* holds: the items Subs[e] of its "events" array (<<>> when there is      *)
(* none), each an event of its own.                                        *)
(***************************************************************************)
EXTENDS Integers, Sequences

CONSTANTS
    Events,       \* calls of schedule_event() in one run
    Subs,         \* Subs[e]: the items of e's payload, if it is a trigger
    Item,         \* Item[s]: type, device_id and delay_ms of the item s
    Broken,       \* items that throw: no object, or a member of a wrong type
    EventTypes,   \* event.hpp: the subtypes of each category
    Ids,          \* device ids
    Models,       \* models, and the event types
    HandlerTypes, \*   each registers a handler for
    Topics,       \* command topics of MQTT devices: a room may hold slashes
    Delays,       \* delays given on the command line
    Absent,       \* a member an item does not have
    NoId,         \* the empty device_id
    NoEvent,      \* process_event is not running
    MaxTime       \* bound on the clock while nothing is pending

VARIABLES
    now, agenda, served,   \* the scheduler, see EventAgenda
    devices,               \* ids in DeviceEngine::devices_
    handlers,              \* keys of custom_handlers_
    type, dev, at,         \* members of each scheduled event
    origin,                \* who scheduled it: cli, broker or trigger
    pc, cur, pos,          \* process_event: where, of what, which item
    servedAt,              \* when the event was dispatched
    outcome,               \* what became of it
    loop,                  \* run(): goes on, has left its loop, has thrown
    absent                 \* events whose device was missing at some time
                           \* since they were scheduled

flow == <<devices, handlers, type, dev, at, origin, pc, cur, pos, servedAt,
          outcome, loop, absent>>
vars == <<now, agenda, served, flow>>

Agenda == INSTANCE EventAgenda WITH Times <- Int

StateChange == <<"state_change">>
Trigger == <<"trigger">>

SubsOf(e) == {Subs[e][i] : i \in DOMAIN Subs[e]}

Roots == Events \ UNION {SubsOf(e) : e \in Events}

(* Every item is an event of its own: the parser builds it anew.           *)
ASSUME FlowAssumption ==
    /\ Subs \in [Events -> Seq(Events)]
    /\ \A e, f \in Events : \A i \in DOMAIN Subs[e], j \in DOMAIN Subs[f] :
           Subs[e][i] = Subs[f][j] => e = f /\ i = j
    /\ \A e \in Events : Item[e].delay \in Int
    /\ Delays \subseteq Int
    /\ NoEvent \notin Events
    /\ \A p \in Topics : Len(p) = 5 => p[5] \in Seq(STRING) \ {<<>>} /\ p[2] \in STRING

Entered == served \cup {x.id : x \in agenda}

Init ==
    /\ Agenda!Init
    /\ devices = {} /\ handlers = {}
    /\ type = [e \in Events |-> <<>>]
    /\ dev = [e \in Events |-> NoId]
    /\ at = [e \in Events |-> 0]
    /\ origin = [e \in Events |-> "none"]
    /\ pc = "idle" /\ cur = NoEvent /\ pos = 1
    /\ servedAt = [e \in Events |-> 0]
    /\ outcome = [e \in Events |-> "none"]
    /\ loop = "runs"
    /\ absent = {}

(* Time matters to pending events only. *)
Tick ==
    /\ now < MaxTime \/ \E x \in agenda : x.at > now
    /\ Agenda!Advance
    /\ UNCHANGED flow

-----------------------------------------------------------------------------
(* Mutation: the stamp is the delay, from the start of the clock. *)
ScheduleAtDelay(e, t, d, delay, from) ==
    /\ Agenda!Enter([id |-> e, at |-> delay])
    /\ at' = [at EXCEPT ![e] = delay]
    /\ type' = [type EXCEPT ![e] = t]
    /\ dev' = [dev EXCEPT ![e] = d]
    /\ origin' = [origin EXCEPT ![e] = from]
    /\ absent' = IF d \in devices THEN absent ELSE absent \cup {e}
    /\ UNCHANGED <<devices, handlers, servedAt, loop>>

(* schedule_event() of an event its caller has just stamped.               *)
Schedule(e, t, d, delay, from) ==
    /\ Agenda!Enter([id |-> e, at |-> now + delay])
    /\ at' = [at EXCEPT ![e] = now + delay]
    /\ type' = [type EXCEPT ![e] = t]
    /\ dev' = [dev EXCEPT ![e] = d]
    /\ origin' = [origin EXCEPT ![e] = from]
    /\ absent' = IF d \in devices THEN absent ELSE absent \cup {e}
    /\ UNCHANGED <<devices, handlers, servedAt, loop>>

(* The commands state, event and trigger: `event` takes any type.          *)
CliEvent(e, t, d, delay) ==
    /\ loop # "died" /\ e \in Roots \ Entered
    /\ Schedule(e, t, d, delay, "cli")
    /\ UNCHANGED <<pc, cur, pos, outcome>>

(* Mutation: the type of a legacy event is its subtype, whole or not. *)
TopicTypeBare(p) ==
    IF Len(p) = 5 /\ p[4] = "event" THEN p[5] ELSE StateChange

(* Length 3: home/<room>/<id>.  Otherwise the legacy formats               *)
(* home/<type>/<id>/set and home/<type>/<id>/event/<subtype>.              *)
TopicType(p) ==
    IF Len(p) = 5 /\ p[4] = "event"
        THEN IF Len(p[5]) > 1 THEN p[5] ELSE <<p[2]>> \o p[5]
        ELSE StateChange

(* on_message(): topics of any other form are passed over.                 *)
OnMessage(e, p) ==
    /\ loop # "died" /\ e \in Roots \ Entered
    /\ p[1] = "home"
    /\ \/ Len(p) = 3
       \/ Len(p) = 4 /\ p[4] = "set"
       \/ Len(p) = 5 /\ p[4] = "event"
    /\ Schedule(e, TopicType(p), p[3], 0, "broker")
    /\ UNCHANGED <<pc, cur, pos, outcome>>

AddDevice(d, m) ==
    /\ loop # "died" /\ d \notin devices
    /\ devices' = devices \cup {d}
    /\ handlers' = handlers \cup {<<d, t>> : t \in HandlerTypes[m]}
    /\ UNCHANGED <<now, agenda, served, type, dev, at, origin, pc, cur, pos,
                   servedAt, outcome, loop, absent>>

(* The handlers of a removed device stay. *)
RemoveDevice(d) ==
    /\ loop # "died" /\ d \in devices
    /\ devices' = devices \ {d}
    /\ absent' = absent \cup {e \in Entered : dev[e] = d}
    /\ UNCHANGED <<now, agenda, served, handlers, type, dev, at, origin, pc, cur,
                   pos, servedAt, outcome, loop>>

-----------------------------------------------------------------------------
(* process_event(), on the scheduler's thread.                             *)

IsKnownEventType(t) ==
    Len(t) = 2 /\ t[1] \in DOMAIN EventTypes /\ t[2] \in EventTypes[t[1]]

(* Mutation: an event without a device needs one as well. *)
RouteKnownOnly(e) ==
    CASE type[e] \notin {StateChange, Trigger} /\ ~IsKnownEventType(type[e]) -> "drop"
      [] dev[e] \notin devices   -> "drop"
      [] type[e] = StateChange   -> "update"
      [] type[e] = Trigger       -> "trigger"
      [] OTHER                   -> "single"

Route(e) ==
    CASE type[e] \notin {StateChange, Trigger} /\ ~IsKnownEventType(type[e]) -> "drop"
      [] dev[e] # NoId /\ dev[e] \notin devices      -> "drop"
      [] type[e] = StateChange                       -> "update"
      [] type[e] = Trigger                           -> "trigger"
      [] OTHER                                       -> "single"

Return(e, o) ==
    /\ outcome' = [outcome EXCEPT ![e] = o]
    /\ pc' = "idle" /\ cur' = NoEvent /\ pos' = 1

(* Mutation: any event that is due, not the top of the heap. *)
DispatchAnyDue(x) ==
    /\ loop = "runs" /\ pc = "idle"
    /\ x \in agenda /\ x.at <= now
    /\ agenda' = agenda \ {x} /\ served' = served \cup {x.id} /\ UNCHANGED now
    /\ servedAt' = [servedAt EXCEPT ![x.id] = now]
    /\ IF Route(x.id) = "drop"
         THEN Return(x.id, "dropped")
         ELSE /\ pc' = Route(x.id) /\ cur' = x.id
              /\ UNCHANGED <<pos, outcome>>
    /\ UNCHANGED <<devices, handlers, type, dev, at, origin, loop, absent>>

(* Mutation: top() without pop(). *)
DispatchCopy(x) ==
    /\ loop = "runs" /\ pc = "idle"
    /\ x \in agenda /\ x.at <= now /\ \A y \in agenda : x.at <= y.at
    /\ served' = served \cup {x.id} /\ UNCHANGED <<now, agenda>>
    /\ servedAt' = [servedAt EXCEPT ![x.id] = now]
    /\ IF Route(x.id) = "drop"
         THEN Return(x.id, "dropped")
         ELSE /\ pc' = Route(x.id) /\ cur' = x.id
              /\ UNCHANGED <<pos, outcome>>
    /\ UNCHANGED <<devices, handlers, type, dev, at, origin, loop, absent>>

Dispatch(x) ==
    /\ loop = "runs" /\ pc = "idle"
    /\ Agenda!Serve(x)
    /\ servedAt' = [servedAt EXCEPT ![x.id] = now]
    /\ IF Route(x.id) = "drop"
         THEN Return(x.id, "dropped")
         ELSE /\ pc' = Route(x.id) /\ cur' = x.id
              /\ UNCHANGED <<pos, outcome>>
    /\ UNCHANGED <<devices, handlers, type, dev, at, origin, loop, absent>>

(* run() finds running_ down: before its first event, or after one.  The   *)
(* CLI and the broker's thread go on.                                      *)
Leave ==
    /\ loop = "runs" /\ pc = "idle"
    /\ loop' = "left"
    /\ UNCHANGED <<now, agenda, served, devices, handlers, type, dev, at, origin,
                   pc, cur, pos, servedAt, outcome, absent>>

(* process_event() has come to p and no exception has ended it there.      *)
In(p) == pc = p /\ loop # "died"

(* handle_state_change(): update_device_state() looks the device up again. *)
Update ==
    /\ In("update")
    /\ Return(cur, IF dev[cur] \in devices THEN "applied" ELSE "dropped")
    /\ UNCHANGED <<now, agenda, served, devices, handlers, type, dev, at, origin,
                   servedAt, loop, absent>>

Single ==
    /\ In("single")
    /\ Return(cur, IF <<dev[cur], type[cur]>> \in handlers THEN "handled" ELSE "dropped")
    /\ UNCHANGED <<now, agenda, served, devices, handlers, type, dev, at, origin,
                   servedAt, loop, absent>>

(* Both ways to a device end in publish_state(): what it throws is no      *)
(* json::exception, and nobody up to the thread of run() catches it.       *)
PublishThrows ==
    /\ \/ In("update") /\ dev[cur] \in devices
       \/ In("single") /\ <<dev[cur], type[cur]>> \in handlers
    /\ loop' = "died"
    /\ UNCHANGED <<now, agenda, served, devices, handlers, type, dev, at, origin,
                   pc, cur, pos, servedAt, outcome, absent>>

ValueOr(v, default) == IF v = Absent THEN default ELSE v

(* Mutation: the exception is not caught and leaves run(). *)
TriggerItemThrows ==
    /\ In("trigger") /\ pos <= Len(Subs[cur])
    /\ LET s == Subs[cur][pos] IN
       IF s \in Broken
         THEN /\ loop' = "died"
              /\ UNCHANGED <<now, agenda, served, devices, handlers, type, dev, at,
                             origin, pc, cur, pos, servedAt, outcome, absent>>
         ELSE /\ Schedule(s, ValueOr(Item[s].type, StateChange), ValueOr(Item[s].dev, NoId),
                          Item[s].delay, "trigger")
              /\ pos' = pos + 1
              /\ UNCHANGED <<pc, cur, outcome>>

(* Mutation: an exception skips the item and not the rest. *)
TriggerItemSkipped ==
    /\ In("trigger") /\ pos <= Len(Subs[cur])
    /\ pos' = pos + 1
    /\ IF Subs[cur][pos] \in Broken
         THEN UNCHANGED <<now, agenda, served, devices, handlers, type, dev, at,
                          origin, servedAt, loop, absent>>
         ELSE LET s == Subs[cur][pos] IN
              Schedule(s, ValueOr(Item[s].type, StateChange), ValueOr(Item[s].dev, NoId),
                       Item[s].delay, "trigger")
    /\ UNCHANGED <<pc, cur, outcome>>

(* One turn of handle_trigger()'s loop: what throws ends the loop, and     *)
(* what was scheduled stays scheduled.                                     *)
TriggerItem ==
    /\ In("trigger") /\ pos <= Len(Subs[cur])
    /\ LET s == Subs[cur][pos] IN
       IF s \in Broken
         THEN /\ Return(cur, "cut")
              /\ UNCHANGED <<now, agenda, served, devices, handlers, type, dev, at,
                             origin, servedAt, loop, absent>>
         ELSE /\ Schedule(s, ValueOr(Item[s].type, StateChange), ValueOr(Item[s].dev, NoId),
                          Item[s].delay, "trigger")
              /\ pos' = pos + 1
              /\ UNCHANGED <<pc, cur, outcome>>

TriggerDone ==
    /\ In("trigger") /\ pos > Len(Subs[cur])
    /\ Return(cur, "expanded")
    /\ UNCHANGED <<now, agenda, served, devices, handlers, type, dev, at, origin,
                   servedAt, loop, absent>>

-----------------------------------------------------------------------------
Engine ==
    \/ \E x \in agenda : Dispatch(x)
    \/ Update \/ Single \/ PublishThrows \/ TriggerItem \/ TriggerDone

(* Types and ids a user can name on the command line. *)
CliTypes == {StateChange, Trigger, <<"other">>} \cup
            {<<c, s>> : c \in DOMAIN EventTypes, s \in UNION {EventTypes[c] : c \in DOMAIN EventTypes}}

Next ==
    \/ Tick
    \/ \E e \in Events :
           \/ \E t \in CliTypes, d \in Ids \cup {NoId}, delay \in Delays :
                  CliEvent(e, t, d, delay)
           \/ \E p \in Topics : OnMessage(e, p)
    \/ \E d \in Ids : RemoveDevice(d) \/ \E m \in Models : AddDevice(d, m)
    \/ Engine \/ Leave

Spec == Init /\ [][Next]_vars

(* The clock runs, and the scheduler's thread as long as it is in its      *)
(* loop.  Nobody has to add a device, type a command, send a message or    *)
(* call stop().                                                            *)
FairSpec == Spec /\ WF_vars(Tick) /\ WF_vars(Engine)
-----------------------------------------------------------------------------
(* Types of the variables; process_event works on a served event that has  *)
(* no outcome yet, and every other served event has one.                   *)
TypeOK ==
    /\ now \in Int
    /\ agenda \subseteq [id : Events, at : Int] /\ served \subseteq Events
    /\ devices \subseteq Ids
    /\ at \in [Events -> Int] /\ servedAt \in [Events -> Int]
    /\ DOMAIN type = Events /\ DOMAIN dev = Events
    /\ origin \in [Events -> {"none", "cli", "broker", "trigger"}]
    /\ pc \in {"idle", "update", "single", "trigger"}
    /\ cur \in Events \cup {NoEvent}
    /\ cur = NoEvent <=> pc = "idle"
    /\ pos \in Nat
    /\ outcome \in [Events -> {"none", "dropped", "applied", "handled",
                               "expanded", "cut"}]
    /\ loop \in {"runs", "left", "died"}
    /\ absent \subseteq Events
    /\ \A e \in Events : e \in served <=> outcome[e] # "none" \/ e = cur
    /\ cur # NoEvent => outcome[cur] = "none"

(* The items of a trigger run in the order of their stamps, whatever order *)
(* the payload lists them in and whatever else is pending: when an item is *)
(* served, no item with an earlier stamp is still to come.                 *)
SiblingsInOrder ==
    \A e \in Events : \A a, b \in SubsOf(e) :
        (a \in Entered /\ b \in served /\ at[a] < at[b]) => a \in served

(* delay_ms counts from the dispatch of the trigger: delays add up along   *)
(* nested triggers, and a late trigger makes its items late.               *)
DelaysAdd ==
    \A e \in Events : \A s \in SubsOf(e) :
        s \in served => e \in served /\ servedAt[s] >= servedAt[e] + Item[s].delay

(* Of a trigger that was expanded, exactly the items before the first      *)
(* malformed one are scheduled; of any other event, none.                  *)
PrefixScheduled ==
    \A e \in Events : e # cur =>
        \A i \in DOMAIN Subs[e] :
            Subs[e][i] \in Entered
                <=> /\ outcome[e] \in {"expanded", "cut"}
                    /\ \A j \in 1..i : Subs[e][j] \notin Broken

(* A message of the broker never schedules other events, even if its topic *)
(* names the type trigger: a legacy type has two parts.                    *)
BrokerNeverTriggers ==
    \A e \in Events :
        origin[e] = "broker" => outcome[e] \notin {"expanded", "cut"} /\ (pc = "trigger" => cur # e)

(* A state change is dropped only if its device was missing at some time   *)
(* since it was scheduled, and so is a trigger that names a device.        *)
DropHasReason ==
    \A e \in Events :
        /\ outcome[e] = "dropped" /\ type[e] = StateChange => e \in absent
        /\ outcome[e] = "dropped" /\ type[e] = Trigger => dev[e] # NoId /\ e \in absent

(* Why run() may serve no more: it has left its loop, or publish_state()   *)
(* has thrown through it.                                                  *)
Ended == loop = "left" \/ (loop = "died" /\ pc \in {"update", "single"})

(* Every scheduled event, the items of triggers included, comes to its     *)
(* end: what is malformed, unknown or without its device holds nothing up  *)
(* and ends nothing.  Only a stop() and an exception of publish_state()    *)
(* leave events unprocessed.                                               *)
AllProcessed ==
    \A e \in Events : e \in Entered ~> outcome[e] # "none" \/ Ended
=============================================================================
