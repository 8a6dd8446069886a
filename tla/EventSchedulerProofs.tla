------------------------ MODULE EventSchedulerProofs -------------------------
(***************************************************************************)
(* Proofs about EventScheduler: its types, that no queued event is slept   *)
(* over, and that it implements EventAgenda.                               *)
(***************************************************************************)
EXTENDS EventScheduler, TLAPS

(* What run() knows between testing a predicate and falling asleep: mutex_ *)
(* is still held, so nothing has been pushed since.                        *)
BlocksOnFreshTest ==
    /\ pc = "block" => queue = {}
    /\ pc = "timedBlock" => \A e \in queue : ~(at[e] < due)

(* process_event is always working on some event.                          *)
ProcessesAnEvent == pc = "process" => cur \in Events

IInv ==
    /\ TypeOK
    /\ Accounted
    /\ NoEventSleptOver
    /\ BlocksOnFreshTest
    /\ ProcessesAnEvent

(* A stamp made within the bounds is one of Stamps.                        *)
LEMMA StampInRange ==
    ASSUME NEW t \in 0..MaxTime, NEW d \in Delays
    PROVE  t + d \in Stamps
BY DEF Stamps

(* Stamps are integers, the initial one among them.                        *)
LEMMA StampsAreInts == Stamps \subseteq Int /\ 0 \in Stamps
BY SchedulerAssumption DEF Stamps

(* The constructor's state.                                                *)
LEMMA InitInv == Init => IInv
<1> SUFFICES ASSUME Init PROVE IInv
    OBVIOUS
<1>1. TypeOK
  <2>1. now \in 0..MaxTime /\ due \in Int
      BY SchedulerAssumption DEF Init
  <2>2. at \in [Events -> Stamps]
      BY StampsAreInts DEF Init
  <2> QED
      BY <2>1, <2>2 DEF Init, TypeOK
<1>2. Accounted /\ NoEventSleptOver /\ BlocksOnFreshTest /\ ProcessesAnEvent
    BY DEF Init, Accounted, NoEventSleptOver, BlocksOnFreshTest, ProcessesAnEvent
<1> QED
    BY <1>1, <1>2 DEF IInv

(* Time passing.                                                           *)
LEMMA TickInv == IInv /\ Tick => IInv'
<1> SUFFICES ASSUME IInv, Tick PROVE IInv'
    OBVIOUS
<1> USE DEF IInv, Tick
<1>1. TypeOK'
    BY SchedulerAssumption DEF TypeOK
<1>2. (Accounted /\ NoEventSleptOver /\ BlocksOnFreshTest /\ ProcessesAnEvent)'
    BY DEF Accounted, NoEventSleptOver, BlocksOnFreshTest, ProcessesAnEvent
<1> QED
    BY <1>1, <1>2

(* A caller stamps its event: the event is not queued yet, so no stamp of  *)
(* a queued event changes.                                                 *)
LEMMA StampInv ==
    ASSUME NEW e \in Events, NEW d \in Delays, IInv, Stamp(e, d)
    PROVE  IInv'
<1> USE DEF IInv, Stamp
<1>1. e \notin queue
    BY DEF Accounted
<1>2. TypeOK'
    BY StampInRange DEF TypeOK
<1>3. Accounted'
    BY DEF Accounted, TypeOK
<1>4. \A f \in queue : at'[f] = at[f] /\ call'[f] = call[f]
    BY <1>1 DEF TypeOK
<1>5. NoEventSleptOver'
    BY <1>4 DEF NoEventSleptOver
<1>6. BlocksOnFreshTest' /\ ProcessesAnEvent'
    BY <1>4 DEF BlocksOnFreshTest, ProcessesAnEvent
<1> QED
    BY <1>2, <1>3, <1>5, <1>6

(* A push: whoever sleeps over the event is about to be notified of it.    *)
LEMMA PushInv ==
    ASSUME NEW e \in Events, IInv, Push(e)
    PROVE  IInv'
<1> USE DEF IInv, Push
<1>1. TypeOK'
    BY DEF TypeOK
<1>2. Accounted'
    BY DEF Accounted, TypeOK
<1>3. NoEventSleptOver'
    BY DEF NoEventSleptOver, TypeOK
<1>4. BlocksOnFreshTest' /\ ProcessesAnEvent'
    BY DEF BlocksOnFreshTest, ProcessesAnEvent, MutexHeld
<1> QED
    BY <1>1, <1>2, <1>3, <1>4

(* A notification wakes the scheduler, or finds it awake.                  *)
LEMMA NotifyInv ==
    ASSUME IInv, Notify, UNCHANGED <<running, queue, due, cur, now, at, served>>,
           stop' \in [StopCalls -> {"none", "flagged", "returned"}],
           lost' \subseteq StopCalls,
           call' \in [Events -> {"none", "stamped", "pushed", "returned"}],
           \A f \in Events : call'[f] \in {"pushed", "returned"}
                                 <=> call[f] \in {"pushed", "returned"}
    PROVE  IInv'
<1> USE DEF IInv, Notify
<1>1. TypeOK'
    BY DEF TypeOK
<1>2. Accounted'
    BY DEF Accounted
<1>3. pc' # "wait" /\ pc' # "timedWait"
    BY DEF TypeOK
<1>4. NoEventSleptOver'
    BY <1>3 DEF NoEventSleptOver
<1>5. BlocksOnFreshTest' /\ ProcessesAnEvent'
    BY DEF BlocksOnFreshTest, ProcessesAnEvent
<1> QED
    BY <1>1, <1>2, <1>4, <1>5

(* The steps of run() that only move on.                                   *)
LEMMA ControlInv ==
    ASSUME IInv,
           \/ Start \/ LoopTest \/ WaitTest \/ Block \/ Leave
           \/ TimedTest \/ TimedOut \/ Processed
    PROVE  IInv'
<1> USE DEF IInv, Start, LoopTest, WaitTest, Block, Leave, TimedTest, TimedOut,
            Processed, Goto
<1>1. TypeOK'
    BY DEF TypeOK
<1>2. Accounted'
    BY DEF Accounted
<1>3. NoEventSleptOver'
    BY DEF NoEventSleptOver, BlocksOnFreshTest, TypeOK
<1>4. BlocksOnFreshTest'
    BY DEF BlocksOnFreshTest, TypeOK
<1>5. ProcessesAnEvent'
    BY DEF ProcessesAnEvent, TypeOK
<1> QED
    BY <1>1, <1>2, <1>3, <1>4, <1>5

(* run() turns to the top of the heap: too early, or popped.               *)
LEMMA TopInv ==
    ASSUME NEW e \in Events, IInv, Defer(e) \/ Pop(e)
    PROVE  IInv'
<1> USE DEF IInv, Defer, Pop, IsTop
<1>1. TypeOK'
    BY StampsAreInts DEF TypeOK
<1>2. Accounted'
    BY DEF Accounted
<1>3. NoEventSleptOver' /\ BlocksOnFreshTest' /\ ProcessesAnEvent'
    BY DEF NoEventSleptOver, BlocksOnFreshTest, ProcessesAnEvent
<1> QED
    BY <1>1, <1>2, <1>3

(* The inductive invariant of the scheduler.                               *)
THEOREM Invariance == Spec => []IInv
<1>1. IInv /\ [Next]_vars => IInv'
  <2> SUFFICES ASSUME IInv, [Next]_vars PROVE IInv'
      OBVIOUS
  <2>1. CASE Tick
      BY <2>1, TickInv
  <2>2. ASSUME NEW e \in Events, NEW d \in Delays, Stamp(e, d) PROVE IInv'
      BY <2>2, StampInv
  <2>3. ASSUME NEW e \in Events, Push(e) PROVE IInv'
      BY <2>3, PushInv
  <2>4. ASSUME NEW e \in Events, NotifyOne(e) PROVE IInv'
      BY <2>4, NotifyInv DEF NotifyOne, IInv, TypeOK
  <2>5. ASSUME NEW s \in StopCalls, StopFlag(s) PROVE IInv'
      BY <2>5 DEF StopFlag, IInv, TypeOK, Accounted, NoEventSleptOver,
                  BlocksOnFreshTest, ProcessesAnEvent
  <2>6. ASSUME NEW s \in StopCalls, StopNotify(s) PROVE IInv'
      BY <2>6, NotifyInv DEF StopNotify, IInv, TypeOK
  <2>7. CASE SpuriousWakeup
      BY <2>7, NotifyInv DEF SpuriousWakeup, IInv, TypeOK
  <2>8. CASE Start
      BY <2>8, ControlInv
  <2>9. CASE Run
      BY <2>9, ControlInv, TopInv DEF Run
  <2>10. CASE UNCHANGED vars
      BY <2>10 DEF vars, IInv, TypeOK, Accounted, NoEventSleptOver,
                   BlocksOnFreshTest, ProcessesAnEvent
  <2> QED
      BY <2>1, <2>2, <2>3, <2>4, <2>5, <2>6, <2>7, <2>8, <2>9, <2>10
      DEF Next, Producer
<1> QED
    BY InitInv, <1>1, PTL DEF Spec

(* Type correctness for any events, delays and callers of stop().          *)
THEOREM TypeCorrect == Spec => []TypeOK
BY Invariance, PTL DEF IInv

(* run() never sleeps over an event that no notification is coming for.    *)
THEOREM NoLostEventWakeup == Spec => []NoEventSleptOver
BY Invariance, PTL DEF IInv

(* No pushed event is lost or served twice.                                *)
THEOREM Accounting == Spec => []Accounted
BY Invariance, PTL DEF IInv

-----------------------------------------------------------------------------
(* Which calls of stop() are heard.                                        *)

(* running_ stays down once a stop() has cleared it during run(), so that  *)
(* run() cannot come to a sleep it would not be woken from.                *)
StopInv ==
    /\ StopLostByRaceOnly
    /\ \A s \in StopCalls \ lost :
          stop[s] # "none" => pc # "idle" /\ ~running

LEMMA StopInvStep == IInv /\ StopInv /\ [Next]_vars => StopInv'
<1> SUFFICES ASSUME IInv, StopInv, [Next]_vars PROVE StopInv'
    OBVIOUS
<1> USE DEF StopInv, StopLostByRaceOnly
<1>1. CASE UNCHANGED <<pc, running, stop, lost>>
    BY <1>1
<1>2. ASSUME NEW e \in Events, NotifyOne(e) PROVE StopInv'
    BY <1>2 DEF NotifyOne, Notify
<1>3. ASSUME NEW s \in StopCalls, StopFlag(s) PROVE StopInv'
    BY <1>3 DEF StopFlag, IInv, TypeOK
<1>4. ASSUME NEW s \in StopCalls, StopNotify(s) PROVE StopInv'
    BY <1>4 DEF StopNotify, Notify, IInv, TypeOK
<1>5. CASE SpuriousWakeup
    BY <1>5 DEF SpuriousWakeup, Notify
<1>6. CASE Start
    BY <1>6 DEF Start, IInv, TypeOK
<1>7. CASE LoopTest \/ WaitTest \/ Block \/ Leave \/ TimedTest \/ TimedOut
    BY <1>7 DEF LoopTest, WaitTest, Block, Leave, TimedTest, TimedOut, Goto
<1>8. CASE Processed
    BY <1>8 DEF Processed
<1>9. ASSUME NEW e \in Events, Defer(e) \/ Pop(e) PROVE StopInv'
    BY <1>9 DEF Defer, Pop
<1>10. CASE Tick \/ \E e \in Events : Push(e) \/ \E d \in Delays : Stamp(e, d)
    BY <1>1, <1>10 DEF Tick, Push, Stamp
<1> QED
    BY <1>1, <1>2, <1>3, <1>4, <1>5, <1>6, <1>7, <1>8, <1>9, <1>10
    DEF Next, Producer, Run, vars

(* A stop() that neither race undoes is heard: run() is on its way out.    *)
THEOREM StopHeard == Spec => []StopLostByRaceOnly
<1>1. Init => StopInv
    BY DEF Init, StopInv, StopLostByRaceOnly
<1>2. IInv /\ StopInv /\ [Next]_vars => StopInv'
    BY StopInvStep
<1>3. StopInv => StopLostByRaceOnly
    BY DEF StopInv
<1> QED
    BY <1>1, <1>2, <1>3, Invariance, PTL DEF Spec

-----------------------------------------------------------------------------
(* The agenda entry of a queued event, and back.                           *)
LEMMA AgendaEntry ==
    ASSUME TypeOK, NEW e \in Events
    PROVE  [id |-> e, at |-> at[e]] \in Agenda!Entry
BY DEF TypeOK, Agenda!Entry

(* The threaded scheduler implements the agenda: earliest first, never     *)
(* early, each event at most once.                                         *)
THEOREM AgendaImplemented == Spec => ImplementsAgenda
<1> DEFINE entry(e) == [id |-> e, at |-> at[e]]
           agenda == {entry(e) : e \in queue}
<1>1. Init => Agenda!Init
    BY DEF Init, Agenda!Init
<1>2. IInv /\ [Next]_vars => [Agenda!Next]_Agenda!vars
  <2> SUFFICES ASSUME IInv, [Next]_vars PROVE [Agenda!Next]_Agenda!vars
      OBVIOUS
  <2>1. CASE Tick
      BY <2>1 DEF Tick, Agenda!Next, Agenda!Advance, Agenda!vars
  <2>2. ASSUME NEW e \in Events, NEW d \in Delays, Stamp(e, d)
        PROVE  UNCHANGED Agenda!vars
    <3>1. \A f \in queue : at'[f] = at[f]
        BY <2>2 DEF Stamp, IInv, Accounted, TypeOK
    <3> QED
        BY <2>2, <3>1 DEF Stamp, Agenda!vars
  <2>3. ASSUME NEW e \in Events, Push(e) PROVE Agenda!Next
    <3>1. Agenda!Enter(entry(e))
        BY <2>3 DEF Push, Agenda!Enter, IInv, Accounted, TypeOK
    <3>2. entry(e) \in Agenda!Entry
        BY AgendaEntry DEF IInv
    <3> HIDE DEF entry
    <3> QED
        BY <3>1, <3>2 DEF Agenda!Next, Agenda!Enter
  <2>4. ASSUME NEW e \in Events, Pop(e) PROVE Agenda!Next
    <3>1. entry(e) \in agenda /\ entry(e).at <= now
        BY <2>4 DEF Pop, IsTop
    <3>2. \A y \in agenda : entry(e).at <= y.at
        BY <2>4 DEF Pop, IsTop
    <3>3. agenda' = agenda \ {entry(e)}
        BY <2>4 DEF Pop, IsTop
    <3>4. Agenda!Serve(entry(e))
        BY <2>4, <3>1, <3>2, <3>3 DEF Pop, Agenda!Serve
    <3>5. entry(e) \in Agenda!Entry
        BY AgendaEntry DEF IInv
    <3> HIDE DEF entry
    <3> QED
        BY <3>4, <3>5 DEF Agenda!Next, Agenda!Serve
  <2>5. ASSUME NEW e \in Events, NotifyOne(e) \/ Defer(e)
        PROVE  UNCHANGED Agenda!vars
      BY <2>5 DEF NotifyOne, Defer, Agenda!vars
  <2>6. ASSUME NEW s \in StopCalls, StopFlag(s) \/ StopNotify(s)
        PROVE  UNCHANGED Agenda!vars
      BY <2>6 DEF StopFlag, StopNotify, Agenda!vars
  <2>7. CASE \/ Start \/ LoopTest \/ WaitTest \/ Block \/ Leave
             \/ TimedTest \/ TimedOut \/ Processed \/ SpuriousWakeup
      BY <2>7 DEF Start, LoopTest, WaitTest, Block, Leave, TimedTest, TimedOut,
                  Processed, SpuriousWakeup, Goto, Agenda!vars
  <2>8. CASE UNCHANGED vars
      BY <2>8 DEF vars, Agenda!vars
  <2> QED
      BY <2>1, <2>2, <2>3, <2>4, <2>5, <2>6, <2>7, <2>8
      DEF Next, Producer, Run, Agenda!Next
<1> QED
    BY <1>1, <1>2, Invariance, PTL DEF Spec, ImplementsAgenda, Agenda!Spec

-----------------------------------------------------------------------------
(* The refinement of StopLoop.                                             *)

(* The lock, the queue and the clock decide between steps of StopLoop, and *)
(* add none to them.                                                       *)
LEMMA LoopStep == IInv /\ [Next]_vars => [Loop!Next]_Loop!vars
<1> SUFFICES ASSUME IInv, [Next]_vars PROVE [Loop!Next]_Loop!vars
    OBVIOUS
<1> USE DEF Loop!Next, Loop!vars, Place
<1>1. CASE UNCHANGED <<pc, running, stop>>
    BY <1>1
<1>2. CASE Start
    BY <1>2 DEF Start, Loop!Start
<1>3. CASE LoopTest \/ WaitTest \/ Leave \/ TimedTest
    BY <1>3 DEF LoopTest, WaitTest, Leave, TimedTest, Goto, Loop!Look
<1>4. CASE Block \/ TimedOut
    BY <1>4 DEF Block, TimedOut, Goto, Loop!Move
<1>5. CASE Processed
    BY <1>5 DEF Processed, Loop!Move
<1>6. ASSUME NEW e \in Events, Defer(e) \/ Pop(e) PROVE [Loop!Next]_Loop!vars
    BY <1>6 DEF Defer, Pop, Loop!Look
<1>7. ASSUME Notify, UNCHANGED <<running, stop>> PROVE [Loop!Next]_Loop!vars
    BY <1>7 DEF Notify, Loop!Move
<1>8. ASSUME NEW s \in StopCalls, StopFlag(s) PROVE [Loop!Next]_Loop!vars
    BY <1>8 DEF StopFlag, Loop!Lower
<1>9. ASSUME NEW s \in StopCalls, StopNotify(s) PROVE [Loop!Next]_Loop!vars
    BY <1>9 DEF StopNotify, Notify, Loop!Wake
<1>10. CASE \/ Tick \/ SpuriousWakeup
            \/ \E e \in Events : Producer(e) \/ \E d \in Delays : Stamp(e, d)
    BY <1>1, <1>7, <1>10 DEF Tick, SpuriousWakeup, Producer, Push, NotifyOne, Stamp
<1> QED
    BY <1>1, <1>2, <1>3, <1>4, <1>5, <1>6, <1>8, <1>9, <1>10 DEF Next, Run, vars

(* run() and stop() implement StopLoop: nothing is processed and no sleep  *)
(* begun but after running_ was seen up.                                   *)
THEOREM LoopImplemented == Spec => ImplementsLoop
<1>1. Init => Loop!Init
    BY DEF Init, Loop!Init, Place
<1> QED
    BY <1>1, LoopStep, Invariance, PTL DEF Spec, ImplementsLoop, Loop!Spec
=============================================================================
