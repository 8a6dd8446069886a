--------------------------- MODULE EventFlowProofs ---------------------------
(* Proofs about EventFlow, for any events, payloads, delays and devices.   *)
EXTENDS EventFlow, TLAPS

-----------------------------------------------------------------------------
(* The inductive invariant, one part per idea.                             *)

(* Entries of the agenda carry the stamps of their events, and wait.       *)
AgendaSound == \A x \in agenda : x.at = at[x.id] /\ x.id \notin served

ServedLate == \A e \in served : at[e] <= servedAt[e] /\ servedAt[e] <= now

(* Items are scheduled by their trigger, after it was dispatched.          *)
ItemsAfterTrigger ==
    \A e \in Events : \A s \in SubsOf(e) :
        s \in Entered => e \in served /\ at[s] >= servedAt[e] + Item[s].delay

(* While process_event works on cur, the items before pos are scheduled,   *)
(* sound, and not served: the thread that would serve them is busy.        *)
LoopShape ==
    /\ pc # "trigger" => pos = 1
    /\ pc # "idle" =>
         /\ pos \in 1..(Len(Subs[cur]) + 1)
         /\ \A i \in DOMAIN Subs[cur] : Subs[cur][i] \in Entered <=> i < pos
         /\ \A i \in 1..(pos - 1) : Subs[cur][i] \notin Broken
         /\ \A s \in SubsOf(cur) : s \notin served

(* Which types go which way.                                               *)
RouteTypes ==
    /\ pc = "update" => type[cur] = StateChange
    /\ pc = "single" => type[cur] \notin {StateChange, Trigger}
    /\ pc = "trigger" => type[cur] = Trigger
    /\ \A e \in Events :
         /\ outcome[e] \in {"expanded", "cut"} => type[e] = Trigger
         /\ origin[e] = "broker" => type[e] # Trigger

AbsentKnown == \A e \in Entered : dev[e] \notin devices => e \in absent

IInv ==
    /\ TypeOK /\ AgendaSound /\ ServedLate /\ ItemsAfterTrigger
    /\ LoopShape /\ RouteTypes /\ AbsentKnown
    /\ SiblingsInOrder /\ PrefixScheduled /\ DropHasReason

-----------------------------------------------------------------------------
(* Facts about payloads: an item belongs to one place of one trigger.      *)

LEMMA ItemFacts ==
    ASSUME NEW e \in Events
    PROVE  /\ Subs[e] \in Seq(Events) /\ Len(Subs[e]) \in Nat
           /\ DOMAIN Subs[e] = 1..Len(Subs[e])
           /\ SubsOf(e) \subseteq Events
           /\ \A s \in SubsOf(e) : s \notin Roots /\ Item[s].delay \in Int
           /\ \A f \in Events : f # e => SubsOf(e) \cap SubsOf(f) = {}
BY FlowAssumption DEF SubsOf, Roots

LEMMA TypesDiffer == StateChange # Trigger
<1>1. "state_change" # "trigger"
    OBVIOUS
<1> QED
    BY <1>1 DEF StateChange, Trigger

(* A type read from a topic is no trigger.                                 *)
LEMMA TopicsName ==
    ASSUME NEW p \in Topics
    PROVE  TopicType(p) # Trigger
<1>1. CASE Len(p) = 5 /\ p[4] = "event"
  <2>1. p[5] \in Seq(STRING) /\ p[5] # <<>> /\ p[2] \in STRING
    BY <1>1, FlowAssumption
  <2>2. Len(p[5]) \in Nat /\ Len(p[5]) > 0
    BY <2>1
  <2>3. <<p[2]>> \o p[5] \in Seq(STRING) /\ Len(<<p[2]>> \o p[5]) = 1 + Len(p[5])
    BY <2>1
  <2>4. Len(Trigger) = 1
    BY DEF Trigger
  <2>5. TopicType(p) = IF Len(p[5]) > 1 THEN p[5] ELSE <<p[2]>> \o p[5]
    BY <1>1 DEF TopicType
  <2>6. CASE Len(p[5]) > 1
    <3>1. \A n \in Nat : n > 1 => n # 1
      OBVIOUS
    <3>2. Len(p[5]) # 1
      BY <2>2, <2>6, <3>1
    <3> QED
      BY <2>4, <2>5, <2>6, <3>2
  <2>7. CASE ~(Len(p[5]) > 1)
    <3>1. Len(<<p[2]>> \o p[5]) # 1
      BY <2>2, <2>3
    <3> QED
      BY <2>4, <2>5, <2>7, <3>1
  <2> QED
    BY <2>6, <2>7
<1>2. CASE ~(Len(p) = 5 /\ p[4] = "event")
    BY <1>2, TypesDiffer DEF TopicType
<1> QED
    BY <1>1, <1>2

-----------------------------------------------------------------------------
(* What schedule_event() of a new event leaves and changes.                *)
LEMMA ScheduleFacts ==
    ASSUME IInv, NEW e \in Events, NEW t, NEW d, NEW delay \in Int,
           NEW from \in {"cli", "broker", "trigger"},
           Schedule(e, t, d, delay, from)
    PROVE  /\ e \notin Entered /\ Entered' = Entered \cup {e}
           /\ UNCHANGED <<now, served, devices, handlers, servedAt, loop>>
           /\ agenda' \subseteq [id : Events, at : Int]
           /\ AgendaSound' /\ ServedLate' /\ AbsentKnown'
           /\ at' \in [Events -> Int] /\ at'[e] = now + delay
           /\ origin' \in [Events -> {"none", "cli", "broker", "trigger"}]
           /\ origin'[e] = from
           /\ DOMAIN type' = Events /\ DOMAIN dev' = Events /\ type'[e] = t
           /\ absent \subseteq absent' /\ absent' \subseteq Events
           /\ \A f \in Events \ {e} : /\ at'[f] = at[f] /\ type'[f] = type[f]
                                      /\ dev'[f] = dev[f] /\ origin'[f] = origin[f]
<1> DEFINE x == [id |-> e, at |-> now + delay]
<1>1. /\ e \notin Entered /\ agenda' = agenda \cup {x}
      /\ UNCHANGED <<now, served, devices, handlers, servedAt, loop>>
    BY DEF Schedule, Agenda!Enter, Entered
<1>2. Entered' = Entered \cup {e} /\ served \subseteq Entered
  <2>1. {y.id : y \in agenda \cup {x}} = {y.id : y \in agenda} \cup {x.id}
    OBVIOUS
  <2>2. x.id = e
    OBVIOUS
  <2> HIDE DEF x
  <2> QED
    BY <1>1, <2>1, <2>2 DEF Entered
<1>3. /\ now + delay \in Int
      /\ at' \in [Events -> Int] /\ at'[e] = now + delay
      /\ origin' \in [Events -> {"none", "cli", "broker", "trigger"}]
      /\ origin'[e] = from
      /\ \A f \in Events \ {e} : at'[f] = at[f] /\ origin'[f] = origin[f]
    BY DEF IInv, TypeOK, Schedule
<1>4. /\ DOMAIN type' = Events /\ DOMAIN dev' = Events
      /\ type'[e] = t /\ dev'[e] = d
      /\ \A f \in Events \ {e} : type'[f] = type[f] /\ dev'[f] = dev[f]
    BY DEF IInv, TypeOK, Schedule
<1>5. /\ absent \subseteq absent' /\ absent' \subseteq Events
      /\ d \notin devices => e \in absent'
    BY DEF IInv, TypeOK, Schedule
<1>6. agenda' \subseteq [id : Events, at : Int]
    BY <1>1, <1>3 DEF IInv, TypeOK
<1>7. AgendaSound'
  <2> SUFFICES ASSUME NEW y \in agenda' PROVE y.at = at'[y.id] /\ y.id \notin served
    BY <1>1 DEF AgendaSound
  <2>1. CASE y \in agenda
    <3>1. y.id \in Events /\ y.id \in Entered
      BY <2>1 DEF IInv, TypeOK, Entered
    <3> QED
      BY <1>1, <1>3, <2>1, <3>1 DEF IInv, AgendaSound
  <2>2. CASE y = x
    BY <1>1, <1>2, <1>3, <2>2
  <2> QED
    BY <1>1, <2>1, <2>2
<1>8. ServedLate'
    BY <1>1, <1>2, <1>3 DEF IInv, TypeOK, ServedLate
<1>9. AbsentKnown'
  <2>1. Entered \subseteq Events
    BY DEF IInv, TypeOK, Entered
  <2> QED
    BY <1>1, <1>2, <1>4, <1>5, <2>1 DEF IInv, AbsentKnown
<1> QED
    BY <1>1, <1>2, <1>3, <1>4, <1>5, <1>6, <1>7, <1>8, <1>9

(* An event that was not scheduled yet is not being processed and has no   *)
(* outcome.                                                                *)
LEMMA NotYet ==
    ASSUME IInv, NEW e \in Events, e \notin Entered
    PROVE  e # cur /\ outcome[e] = "none" /\ e \notin served
<1>1. e \notin served
    BY DEF Entered
<1> QED
    BY <1>1 DEF IInv, TypeOK

(* An event of the CLI or of the broker is no item of any trigger.         *)
LEMMA RootStep ==
    ASSUME IInv, NEW e \in Roots \ Entered, NEW t, NEW d, NEW delay \in Int,
           NEW from \in {"cli", "broker"},
           from = "broker" => t # Trigger,
           Schedule(e, t, d, delay, from),
           UNCHANGED <<pc, cur, pos, outcome>>
    PROVE  IInv'
<1> USE ItemFacts
<1>e. e \in Events /\ \A f \in Events : e \notin SubsOf(f)
    BY DEF Roots
<1>n. e # cur /\ outcome[e] = "none" /\ e \notin served
    BY <1>e, NotYet
<1>1. /\ Entered' = Entered \cup {e}
      /\ UNCHANGED <<now, served, devices, handlers, servedAt, loop>>
      /\ agenda' \subseteq [id : Events, at : Int]
      /\ AgendaSound' /\ ServedLate' /\ AbsentKnown'
      /\ at' \in [Events -> Int]
      /\ origin' \in [Events -> {"none", "cli", "broker", "trigger"}]
      /\ origin'[e] = from
      /\ DOMAIN type' = Events /\ DOMAIN dev' = Events /\ type'[e] = t
      /\ absent \subseteq absent' /\ absent' \subseteq Events
      /\ \A f \in Events \ {e} : /\ at'[f] = at[f] /\ type'[f] = type[f]
                                 /\ dev'[f] = dev[f] /\ origin'[f] = origin[f]
    BY <1>e, ScheduleFacts
<1>2. TypeOK'
    BY <1>1 DEF IInv, TypeOK
<1>3. \A f \in Events : \A s \in SubsOf(f) :
          /\ s \in Entered' <=> s \in Entered
          /\ at'[s] = at[s]
  <2> SUFFICES ASSUME NEW f \in Events, NEW s \in SubsOf(f)
               PROVE  (s \in Entered' <=> s \in Entered) /\ at'[s] = at[s]
    OBVIOUS
  <2> QED
    BY <1>e, <1>1
<1>4. ItemsAfterTrigger' /\ SiblingsInOrder'
    BY <1>1, <1>3 DEF IInv, ItemsAfterTrigger, SiblingsInOrder, SubsOf
<1>5. LoopShape'
  <2>1. CASE pc = "idle"
    BY <1>1, <2>1 DEF IInv, LoopShape
  <2>2. CASE pc # "idle"
    <3>1. cur \in Events
      BY <2>2 DEF IInv, TypeOK
    <3>2. \A i \in DOMAIN Subs[cur] : Subs[cur][i] \in Entered' <=> Subs[cur][i] \in Entered
      BY <1>3, <3>1 DEF SubsOf
    <3> QED
      BY <1>1, <2>2, <3>2 DEF IInv, LoopShape
  <2> QED
    BY <2>1, <2>2
<1>6. RouteTypes'
  <2>1. pc # "idle" => type'[cur] = type[cur]
    BY <1>n, <1>1 DEF IInv, TypeOK
  <2>2. \A f \in Events : /\ outcome[f] \in {"expanded", "cut"} => type'[f] = Trigger
                          /\ origin'[f] = "broker" => type'[f] # Trigger
    BY <1>n, <1>1 DEF IInv, RouteTypes
  <2> QED
    BY <2>1, <2>2 DEF IInv, TypeOK, RouteTypes
<1>7. PrefixScheduled'
    BY <1>1, <1>3 DEF IInv, PrefixScheduled, SubsOf
<1>8. DropHasReason'
    BY <1>n, <1>1 DEF IInv, TypeOK, DropHasReason
<1> QED
    BY <1>1, <1>2, <1>4, <1>5, <1>6, <1>7, <1>8 DEF IInv

(* The clock, the end of the loop, and devices that come and go.            *)
LEMMA WorldStep ==
    ASSUME IInv,
           Tick \/ Leave \/ PublishThrows \/ \E d \in Ids : RemoveDevice(d) \/ \E m \in Models : AddDevice(d, m)
    PROVE  IInv'
<1>1. /\ UNCHANGED <<agenda, served, type, dev, at, origin, pc, cur, pos, servedAt,
                     outcome>>
      /\ Entered' = Entered
    BY DEF Tick, Leave, PublishThrows, RemoveDevice, AddDevice, Agenda!Advance, flow, Entered
<1>2. now' \in Int /\ devices' \subseteq Ids /\ loop' \in {"runs", "left", "died"}
    BY DEF IInv, TypeOK, Tick, Leave, PublishThrows, RemoveDevice, AddDevice, Agenda!Advance, flow
<1>3. absent \subseteq absent' /\ absent' \subseteq Events /\ AbsentKnown'
  <2>1. Entered \subseteq Events
    BY DEF IInv, TypeOK, Entered
  <2> QED
    BY <1>1, <2>1 DEF IInv, TypeOK, AbsentKnown, Tick, Leave, PublishThrows, RemoveDevice, AddDevice, flow
<1>4. TypeOK'
    BY <1>1, <1>2, <1>3 DEF IInv, TypeOK
<1>5. AgendaSound' /\ ItemsAfterTrigger' /\ SiblingsInOrder'
    BY <1>1 DEF IInv, AgendaSound, ItemsAfterTrigger, SiblingsInOrder, SubsOf
<1>6. LoopShape' /\ RouteTypes' /\ PrefixScheduled' /\ DropHasReason'
    BY <1>1, <1>3 DEF IInv, LoopShape, RouteTypes, PrefixScheduled, DropHasReason, SubsOf
<1>7. ServedLate'
  <2>1. now <= now'
    BY DEF IInv, TypeOK, Tick, Leave, PublishThrows, RemoveDevice, AddDevice, Agenda!Advance
  <2> QED
    BY <1>1, <1>2, <2>1 DEF IInv, TypeOK, ServedLate
<1> QED
    BY <1>3, <1>4, <1>5, <1>6, <1>7 DEF IInv

(* The top of the agenda is dispatched: no sibling with an earlier stamp   *)
(* can still be there, and none can come, for their trigger is done.       *)
LEMMA DispatchStep ==
    ASSUME IInv, NEW x \in agenda, Dispatch(x)
    PROVE  IInv'
<1> USE ItemFacts
<1> DEFINE e == x.id
<1>1. /\ pc = "idle" /\ cur = NoEvent /\ pos = 1
      /\ e \in Events /\ e \notin served /\ outcome[e] = "none"
      /\ x.at = at[e] /\ x.at <= now
      /\ \A y \in agenda : x.at <= y.at
    BY DEF IInv, TypeOK, AgendaSound, LoopShape, Dispatch, Agenda!Serve
<1>2. /\ agenda' = agenda \ {x} /\ served' = served \cup {e}
      /\ UNCHANGED <<now, devices, handlers, type, dev, at, origin, loop, absent>>
      /\ servedAt' = [servedAt EXCEPT ![e] = now]
      /\ pos' = 1
    BY <1>1 DEF Dispatch, Agenda!Serve, Return
<1>3. \/ /\ Route(e) = "drop" /\ pc' = "idle" /\ cur' = NoEvent
         /\ outcome' = [outcome EXCEPT ![e] = "dropped"]
      \/ /\ Route(e) \in {"update", "single", "trigger"}
         /\ pc' = Route(e) /\ cur' = e /\ outcome' = outcome
    BY DEF Dispatch, Return, Route
<1>4. Entered' = Entered
  <2>1. Entered' \subseteq Entered
    BY <1>2 DEF Entered
  <2>2. ASSUME NEW z \in Entered PROVE z \in Entered'
    <3>1. CASE z \in served \/ z = e
      BY <1>2, <3>1 DEF Entered
    <3>2. CASE z # e /\ \E y \in agenda : z = y.id
      BY <1>2, <3>2 DEF Entered
    <3> QED
      BY <2>2, <3>1, <3>2 DEF Entered
  <2> QED
    BY <2>1, <2>2
<1>5. TypeOK'
  <2>1. /\ servedAt' \in [Events -> Int]
        /\ outcome' \in [Events -> {"none", "dropped", "applied", "handled",
                                    "expanded", "cut"}]
    BY <1>1, <1>2, <1>3 DEF IInv, TypeOK
  <2>2. \A f \in Events : f \in served' <=> outcome'[f] # "none" \/ f = cur'
    BY <1>1, <1>2, <1>3, FlowAssumption DEF IInv, TypeOK
  <2>3. /\ pc' \in {"idle", "update", "single", "trigger"}
        /\ cur' \in Events \cup {NoEvent}
        /\ cur' = NoEvent <=> pc' = "idle"
    BY <1>1, <1>3, FlowAssumption
  <2>4. agenda' \subseteq [id : Events, at : Int] /\ served' \subseteq Events
    BY <1>1, <1>2 DEF IInv, TypeOK
  <2>5. cur' # NoEvent => outcome'[cur'] = "none"
    BY <1>1, <1>3
  <2> QED
    BY <1>2, <2>1, <2>2, <2>3, <2>4, <2>5 DEF IInv, TypeOK
<1>6. AgendaSound'
  <2> SUFFICES ASSUME NEW y \in agenda' PROVE y.at = at[y.id] /\ y.id \notin served'
    BY <1>2 DEF AgendaSound
  <2>1. y \in agenda /\ y # x
    BY <1>2
  <2>2. y.at = at[y.id] /\ y.id \notin served
    BY <2>1 DEF IInv, AgendaSound
  <2>3. y = [id |-> y.id, at |-> y.at] /\ x = [id |-> x.id, at |-> x.at]
    BY <2>1 DEF IInv, TypeOK
  <2>4. y.id # x.id
    BY <1>1, <2>1, <2>2, <2>3
  <2> QED
    BY <1>2, <2>2, <2>4
<1>7. ServedLate'
    BY <1>1, <1>2 DEF IInv, TypeOK, ServedLate
<1>8. \A s \in SubsOf(e) : s \notin Entered
    BY <1>1 DEF IInv, ItemsAfterTrigger
<1>9. ItemsAfterTrigger'
  <2> SUFFICES ASSUME NEW f \in Events, NEW s \in SubsOf(f), s \in Entered
               PROVE  f \in served' /\ at[s] >= servedAt'[f] + Item[s].delay
    BY <1>2, <1>4 DEF ItemsAfterTrigger
  <2>1. f # e
    BY <1>8
  <2> QED
    BY <1>1, <1>2, <2>1 DEF IInv, TypeOK, ItemsAfterTrigger
<1>10. LoopShape'
  <2>1. CASE pc' = "idle"
    BY <1>2, <2>1 DEF LoopShape
  <2>2. CASE pc' # "idle"
    <3>1. cur' = e /\ pos' = 1
      BY <1>2, <1>3, <2>2
    <3>2. \A i \in DOMAIN Subs[e] : Subs[e][i] \notin Entered /\ ~(i < 1)
      BY <1>1, <1>8 DEF SubsOf
    <3>3. \A s \in SubsOf(e) : s \notin served'
      BY <1>4, <1>8 DEF Entered
    <3>4. 1 \in 1..(Len(Subs[e]) + 1) /\ \A i \in 1..(1 - 1) : FALSE
      BY <1>1
    <3> QED
      BY <1>4, <3>1, <3>2, <3>3, <3>4 DEF LoopShape
  <2> QED
    BY <2>1, <2>2
<1>11. RouteTypes'
  <2>1. /\ Route(e) = "update" => type[e] = StateChange
        /\ Route(e) = "single" => type[e] \notin {StateChange, Trigger}
        /\ Route(e) = "trigger" => type[e] = Trigger
    BY DEF Route
  <2>2. \A f \in Events : outcome'[f] \in {"expanded", "cut"} => outcome[f] = outcome'[f]
    BY <1>1, <1>3 DEF IInv, TypeOK
  <2> QED
    BY <1>2, <1>3, <2>1, <2>2 DEF IInv, RouteTypes
<1>12. AbsentKnown'
    BY <1>2, <1>4 DEF IInv, AbsentKnown
<1>13. SiblingsInOrder'
  <2> SUFFICES ASSUME NEW f \in Events, NEW a \in SubsOf(f), NEW b \in SubsOf(f),
                      a \in Entered, b \in served', at[a] < at[b]
               PROVE  a \in served'
    BY <1>2, <1>4 DEF SiblingsInOrder
  <2>1. CASE b \in served
    BY <1>2, <2>1 DEF IInv, SiblingsInOrder
  <2>2. CASE b = e
    <3>1. ASSUME a \notin served PROVE FALSE
      <4>1. PICK y \in agenda : y.id = a
        BY <3>1 DEF Entered
      <4>2. y.at = at[a] /\ x.at <= y.at
        BY <1>1, <4>1 DEF IInv, AgendaSound
      <4>3. at[a] \in Int /\ at[b] \in Int
        BY DEF IInv, TypeOK
      <4> QED
        BY <1>1, <2>2, <4>2, <4>3
    <3> QED
      BY <1>2, <3>1
  <2> QED
    BY <1>2, <2>1, <2>2
<1>14. PrefixScheduled'
  <2> SUFFICES ASSUME NEW f \in Events, f # cur', NEW i \in DOMAIN Subs[f]
               PROVE  Subs[f][i] \in Entered
                        <=> /\ outcome'[f] \in {"expanded", "cut"}
                            /\ \A j \in 1..i : Subs[f][j] \notin Broken
    BY <1>4 DEF PrefixScheduled
  <2>1. CASE f = e
    <3>1. Subs[f][i] \notin Entered
      BY <1>8, <2>1 DEF SubsOf
    <3>2. outcome'[f] = "dropped"
      BY <1>1, <1>3, <2>1 DEF IInv, TypeOK
    <3> QED
      BY <3>1, <3>2
  <2>2. CASE f # e
    <3>1. f # cur /\ outcome'[f] = outcome[f]
      BY <1>1, <1>3, <2>2, FlowAssumption DEF IInv, TypeOK
    <3> QED
      BY <3>1 DEF IInv, PrefixScheduled
  <2> QED
    BY <2>1, <2>2
<1>15. DropHasReason'
  <2>1. e \in Entered
    BY DEF Entered
  <2>2. Route(e) = "drop" =>
          /\ type[e] # StateChange \/ dev[e] \notin devices
          /\ type[e] # Trigger \/ (dev[e] # NoId /\ dev[e] \notin devices)
    BY DEF Route
  <2>3. ASSUME NEW f \in Events, outcome'[f] = "dropped"
        PROVE  outcome[f] = "dropped" \/ (f = e /\ Route(e) = "drop")
    BY <1>3, <2>3 DEF IInv, TypeOK
  <2> QED
    BY <1>2, <2>1, <2>2, <2>3 DEF IInv, DropHasReason, AbsentKnown
<1> QED
    BY <1>5, <1>6, <1>7, <1>9, <1>10, <1>11, <1>12, <1>13, <1>14, <1>15 DEF IInv

-----------------------------------------------------------------------------
(* process_event returns: what it worked on has its outcome.               *)
LEMMA ReturnStep ==
    ASSUME IInv, pc # "idle",
           NEW o \in {"dropped", "applied", "handled", "expanded", "cut"},
           Return(cur, o), UNCHANGED loop,
           UNCHANGED <<now, agenda, served, devices, handlers, type, dev, at, origin,
                       servedAt, absent>>,
           o \in {"expanded", "cut"} => pc = "trigger",
           o = "dropped" => pc # "trigger" /\ (pc = "update" => dev[cur] \notin devices),
           \A i \in DOMAIN Subs[cur] :
               Subs[cur][i] \in Entered <=>
                   /\ o \in {"expanded", "cut"}
                   /\ \A j \in 1..i : Subs[cur][j] \notin Broken
    PROVE  IInv'
<1>1. /\ cur \in Events /\ cur # NoEvent /\ cur \in served
      /\ outcome' = [outcome EXCEPT ![cur] = o]
      /\ pc' = "idle" /\ cur' = NoEvent /\ pos' = 1
    BY DEF IInv, TypeOK, Return
<1>2. Entered' = Entered
    BY DEF Entered
<1>3. \A f \in Events : outcome'[f] = IF f = cur THEN o ELSE outcome[f]
    BY <1>1 DEF IInv, TypeOK
<1>4. TypeOK'
  <2>1. outcome' \in [Events -> {"none", "dropped", "applied", "handled",
                                 "expanded", "cut"}]
    BY <1>1 DEF IInv, TypeOK
  <2>2. \A f \in Events : f \in served' <=> outcome'[f] # "none" \/ f = cur'
    BY <1>1, <1>3, FlowAssumption DEF IInv, TypeOK
  <2> QED
    BY <1>1, <2>1, <2>2 DEF IInv, TypeOK
<1>5. AgendaSound' /\ ServedLate' /\ AbsentKnown'
    BY <1>2 DEF IInv, AgendaSound, ServedLate, AbsentKnown
<1>6. ItemsAfterTrigger' /\ SiblingsInOrder'
    BY <1>2 DEF IInv, ItemsAfterTrigger, SiblingsInOrder, SubsOf
<1>7. LoopShape'
    BY <1>1 DEF LoopShape
<1>8. RouteTypes'
    BY <1>1, <1>3 DEF IInv, RouteTypes
<1>9. PrefixScheduled'
    BY <1>1, <1>2, <1>3 DEF IInv, PrefixScheduled
<1>10. DropHasReason'
  <2>1. cur \in Entered
    BY <1>1 DEF Entered
  <2>2. o = "dropped" => type[cur] # Trigger /\ (type[cur] = StateChange => dev[cur] \notin devices)
    BY TypesDiffer DEF IInv, TypeOK, RouteTypes
  <2> QED
    BY <1>1, <1>3, <2>1, <2>2 DEF IInv, DropHasReason, AbsentKnown
<1> QED
    BY <1>4, <1>5, <1>6, <1>7, <1>8, <1>9, <1>10 DEF IInv

(* An item is scheduled: neither it nor a sibling of it can have been      *)
(* served, and it belongs to no other trigger.                             *)
LEMMA ItemStep ==
    ASSUME IInv, pc = "trigger", pos <= Len(Subs[cur]),
           NEW s, s = Subs[cur][pos], s \notin Broken,
           NEW t, NEW d, Schedule(s, t, d, Item[s].delay, "trigger"),
           pos' = pos + 1, UNCHANGED <<pc, cur, outcome>>
    PROVE  IInv'
<1> USE ItemFacts
<1>1. /\ cur \in Events /\ cur \in served
      /\ pos \in DOMAIN Subs[cur] /\ s \in SubsOf(cur) /\ s \in Events
      /\ Item[s].delay \in Int
    BY DEF IInv, TypeOK, LoopShape, SubsOf
<1>2. /\ s \notin Entered /\ Entered' = Entered \cup {s}
      /\ UNCHANGED <<now, served, devices, handlers, servedAt, loop>>
      /\ agenda' \subseteq [id : Events, at : Int]
      /\ AgendaSound' /\ ServedLate' /\ AbsentKnown'
      /\ at' \in [Events -> Int] /\ at'[s] = now + Item[s].delay
      /\ origin' \in [Events -> {"none", "cli", "broker", "trigger"}]
      /\ origin'[s] = "trigger"
      /\ DOMAIN type' = Events /\ DOMAIN dev' = Events
      /\ absent \subseteq absent' /\ absent' \subseteq Events
      /\ \A f \in Events \ {s} : /\ at'[f] = at[f] /\ type'[f] = type[f]
                                 /\ dev'[f] = dev[f] /\ origin'[f] = origin[f]
    BY <1>1, ScheduleFacts
<1>3. s # cur /\ outcome[s] = "none" /\ s \notin served
    BY <1>1, <1>2, NotYet
<1>4. \A f \in Events \ {cur} : s \notin SubsOf(f)
    BY <1>1
<1>5. TypeOK'
  <2>1. pos' \in Nat
    BY DEF IInv, TypeOK
  <2>2. /\ UNCHANGED <<now, served, devices, servedAt, pc, cur, outcome, loop>>
        /\ agenda' \subseteq [id : Events, at : Int]
        /\ at' \in [Events -> Int]
        /\ origin' \in [Events -> {"none", "cli", "broker", "trigger"}]
        /\ DOMAIN type' = Events /\ DOMAIN dev' = Events
        /\ absent' \subseteq Events
    BY <1>2
  <2> QED
    BY <2>1, <2>2 DEF IInv, TypeOK
<1>6. ItemsAfterTrigger'
  <2> SUFFICES ASSUME NEW f \in Events, NEW r \in SubsOf(f), r \in Entered'
               PROVE  f \in served /\ at'[r] >= servedAt[f] + Item[r].delay
    BY <1>2 DEF ItemsAfterTrigger
  <2>1. CASE r = s
    <3>1. f = cur
      BY <1>4, <2>1
    <3>2. servedAt[cur] <= now /\ servedAt[cur] \in Int /\ now \in Int
      BY <1>1 DEF IInv, TypeOK, ServedLate
    <3> QED
      BY <1>1, <1>2, <2>1, <3>1, <3>2
  <2>2. CASE r # s
    BY <1>2, <2>2 DEF IInv, ItemsAfterTrigger
  <2> QED
    BY <2>1, <2>2
<1>7. LoopShape'
  <2>1. \A i \in DOMAIN Subs[cur] : Subs[cur][i] = s <=> i = pos
    BY <1>1, FlowAssumption
  <2>2. pos \in Nat /\ pos + 1 \in 1..(Len(Subs[cur]) + 1)
    BY <1>1 DEF IInv, TypeOK
  <2>3. \A i \in DOMAIN Subs[cur] : Subs[cur][i] \in Entered' <=> i < pos + 1
    BY <1>1, <1>2, <2>1, <2>2 DEF IInv, LoopShape
  <2>4. \A i \in 1..((pos + 1) - 1) : Subs[cur][i] \notin Broken
    BY <1>1, <2>2 DEF IInv, LoopShape
  <2>5. \A r \in SubsOf(cur) : r \notin served
    BY DEF IInv, LoopShape
  <2> QED
    BY <1>2, <2>2, <2>3, <2>4, <2>5 DEF LoopShape
<1>8. RouteTypes'
  <2>1. type'[cur] = type[cur]
    BY <1>1, <1>2, <1>3
  <2>2. \A f \in Events : /\ outcome[f] \in {"expanded", "cut"} => type'[f] = Trigger
                          /\ origin'[f] = "broker" => type'[f] # Trigger
    BY <1>2, <1>3 DEF IInv, RouteTypes
  <2> QED
    BY <2>1, <2>2 DEF IInv, RouteTypes
<1>9. SiblingsInOrder'
  <2> SUFFICES ASSUME NEW f \in Events, NEW a \in SubsOf(f), NEW b \in SubsOf(f),
                      a \in Entered', b \in served, at'[a] < at'[b]
               PROVE  a \in served
    BY <1>2 DEF SiblingsInOrder
  <2>1. f # cur
    BY DEF IInv, LoopShape
  <2>2. a # s /\ b # s
    BY <1>4, <2>1
  <2>3. Entered \subseteq Events /\ b \in Entered
    BY DEF IInv, TypeOK, Entered
  <2>4. a \in Entered /\ at'[a] = at[a] /\ at'[b] = at[b]
    BY <1>2, <2>2, <2>3
  <2> QED
    BY <2>4 DEF IInv, SiblingsInOrder
<1>10. PrefixScheduled'
  <2> SUFFICES ASSUME NEW f \in Events, f # cur, NEW i \in DOMAIN Subs[f]
               PROVE  Subs[f][i] \in Entered' <=> Subs[f][i] \in Entered
    BY <1>2 DEF IInv, PrefixScheduled
  <2>1. Subs[f][i] # s
    BY <1>4 DEF SubsOf
  <2> QED
    BY <1>2, <2>1
<1>11. DropHasReason'
    BY <1>2, <1>3 DEF IInv, DropHasReason
<1> QED
    BY <1>2, <1>5, <1>6, <1>7, <1>8, <1>9, <1>10, <1>11 DEF IInv

-----------------------------------------------------------------------------
(* The inductive invariant of the flow.                                    *)
THEOREM Invariance == Spec => []IInv
<1> USE ItemFacts
<1>1. Init => IInv
  <2> SUFFICES ASSUME Init PROVE IInv
    OBVIOUS
  <2>1. /\ agenda = {} /\ served = {} /\ now = 0 /\ Entered = {}
        /\ pc = "idle" /\ cur = NoEvent /\ pos = 1
        /\ \A e \in Events : outcome[e] = "none" /\ origin[e] = "none"
    BY DEF Init, Agenda!Init, Entered
  <2>2. TypeOK
    BY <2>1, FlowAssumption DEF Init, TypeOK
  <2>3. PrefixScheduled
    BY <2>1 DEF PrefixScheduled
  <2> QED
    BY <2>1, <2>2, <2>3
       DEF IInv, AgendaSound, ServedLate, ItemsAfterTrigger, LoopShape, RouteTypes,
           AbsentKnown, SiblingsInOrder, DropHasReason
<1>2. IInv /\ [Next]_vars => IInv'
  <2> SUFFICES ASSUME IInv, [Next]_vars PROVE IInv'
    OBVIOUS
  <2>1. CASE Tick \/ Leave \/ PublishThrows \/ \E d \in Ids : RemoveDevice(d) \/ \E m \in Models : AddDevice(d, m)
    BY <2>1, WorldStep
  <2>2. ASSUME NEW e \in Events, NEW t, NEW d, NEW delay \in Delays,
               CliEvent(e, t, d, delay)
        PROVE  IInv'
    BY <2>2, RootStep, FlowAssumption DEF CliEvent
  <2>3. ASSUME NEW e \in Events, NEW p \in Topics, OnMessage(e, p) PROVE IInv'
    BY <2>3, RootStep, TopicsName DEF OnMessage
  <2>4. ASSUME NEW x \in agenda, Dispatch(x) PROVE IInv'
    BY <2>4, DispatchStep
  <2>5. CASE Update \/ Single
    <3>1. \A i \in DOMAIN Subs[cur] : Subs[cur][i] \notin Entered
      <4>1. pos = 1 /\ cur \in Events
        BY <2>5 DEF IInv, TypeOK, LoopShape, Update, Single, In
      <4> QED
        BY <2>5, <4>1 DEF IInv, LoopShape, Update, Single, In
    <3>2. PICK r \in {"dropped", "applied", "handled"} :
            Return(cur, r) /\ (r = "dropped" => (pc = "update" => dev[cur] \notin devices))
      BY <2>5 DEF Update, Single, In
    <3> QED
      BY <2>5, <3>1, <3>2, ReturnStep DEF Update, Single, In
  <2>6. CASE TriggerItem
    <3>1. CASE Subs[cur][pos] \in Broken
      <4>1. pc = "trigger" /\ cur \in Events /\ pos \in DOMAIN Subs[cur] /\ pos \in Nat
        BY <2>6 DEF IInv, TypeOK, LoopShape, TriggerItem, In
      <4>2. \A i \in DOMAIN Subs[cur] :
               Subs[cur][i] \in Entered <=> \A j \in 1..i : Subs[cur][j] \notin Broken
        BY <3>1, <4>1 DEF IInv, LoopShape
      <4> QED
        BY <2>6, <3>1, <4>1, <4>2, ReturnStep DEF TriggerItem, In
    <3>2. CASE Subs[cur][pos] \notin Broken
      BY <2>6, <3>2, ItemStep DEF TriggerItem, In
    <3> QED
      BY <3>1, <3>2
  <2>7. CASE TriggerDone
    <3>1. pc = "trigger" /\ cur \in Events /\ pos \in Nat /\ pos = Len(Subs[cur]) + 1
      <4>1. pc = "trigger" /\ pos > Len(Subs[cur])
        BY <2>7 DEF TriggerDone, In
      <4>2. cur \in Events /\ pos \in Nat /\ pos \in 1..(Len(Subs[cur]) + 1)
        BY <4>1 DEF IInv, TypeOK, LoopShape
      <4> QED
        BY <4>1, <4>2
    <3>2. \A i \in DOMAIN Subs[cur] :
             Subs[cur][i] \in Entered <=> \A j \in 1..i : Subs[cur][j] \notin Broken
      BY <3>1 DEF IInv, LoopShape
    <3> QED
      BY <2>7, <3>1, <3>2, ReturnStep DEF TriggerDone, In
  <2>8. CASE UNCHANGED vars
    BY <2>8 DEF vars, flow, IInv, TypeOK, AgendaSound, ServedLate, ItemsAfterTrigger,
                LoopShape, RouteTypes, AbsentKnown, SiblingsInOrder, PrefixScheduled,
                DropHasReason, Entered, SubsOf
  <2> QED
    BY <2>1, <2>2, <2>3, <2>4, <2>5, <2>6, <2>7, <2>8 DEF Next, Engine
<1> QED
    BY <1>1, <1>2, PTL DEF Spec

(* The variables keep their types, and exactly the events served, but for  *)
(* the one process_event works on, have an outcome.                        *)
THEOREM TypeCorrect == Spec => []TypeOK
<1>1. IInv => TypeOK
    BY DEF IInv
<1> QED
    BY <1>1, Invariance, PTL

(* The items of a trigger are dispatched in the order of their stamps.     *)
THEOREM Siblings == Spec => []SiblingsInOrder
<1>1. IInv => SiblingsInOrder
    BY DEF IInv
<1> QED
    BY <1>1, Invariance, PTL

(* Delays count from the dispatch of the trigger and add up.               *)
THEOREM Delayed == Spec => []DelaysAdd
<1>1. IInv => DelaysAdd
  <2> SUFFICES ASSUME IInv, NEW e \in Events, NEW s \in SubsOf(e), s \in served
               PROVE  e \in served /\ servedAt[s] >= servedAt[e] + Item[s].delay
    BY DEF DelaysAdd
  <2>1. s \in Events /\ Item[s].delay \in Int /\ s \in Entered
    BY ItemFacts DEF Entered
  <2>2. /\ e \in served /\ at[s] >= servedAt[e] + Item[s].delay
        /\ servedAt[s] >= at[s]
    BY <2>1 DEF IInv, ItemsAfterTrigger, ServedLate
  <2>3. at[s] \in Int /\ servedAt[s] \in Int /\ servedAt[e] \in Int
    BY <2>1 DEF IInv, TypeOK
  <2> QED
    BY <2>1, <2>2, <2>3
<1> QED
    BY <1>1, Invariance, PTL

(* A trigger schedules exactly the items before the first malformed one.   *)
THEOREM Prefix == Spec => []PrefixScheduled
<1>1. IInv => PrefixScheduled
    BY DEF IInv
<1> QED
    BY <1>1, Invariance, PTL

(* No message of the broker schedules further events.                      *)
THEOREM BrokerLeaf == Spec => []BrokerNeverTriggers
<1>1. IInv => BrokerNeverTriggers
    BY DEF IInv, RouteTypes, BrokerNeverTriggers
<1> QED
    BY <1>1, Invariance, PTL

(* Changes and triggers are dropped only for want of their device.         *)
THEOREM Drops == Spec => []DropHasReason
<1>1. IInv => DropHasReason
    BY DEF IInv
<1> QED
    BY <1>1, Invariance, PTL
=============================================================================
