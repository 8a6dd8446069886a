--------------------------- MODULE EventScheduler ----------------------------
(***************************************************************************)
(* core/scheduler/event_scheduler.cpp: the simulation's main loop, run by  *)
(* one thread, fed by any number of threads through schedule_event() and   *)
(* ended by stop().  One action is what a thread does between two points   *)
(* where another thread can be observed: a lock or unlock of mutex_, a     *)
(* read or write of the atomic running_, a block on cv_.                   *)
(*                                                                         *)
(* An event stands for one call of schedule_event() with the stamp its     *)
(* caller gave it (CLI, MQTT callback, or EventEngine::handle_trigger on   *)
(* the scheduler's own thread for the sub-events Sub[e] of a trigger e).   *)
(***************************************************************************)
EXTENDS Integers

CONSTANTS
    Events,     \* the events scheduled during one run
    Sub,        \* Sub[e]: the sub-events in the payload of trigger e
    Delays,     \* values of delay_ms given by the CLI and by triggers
    MaxTime,    \* bound on the clock and on stamps
    StopCalls,  \* calls of stop(): SIGTERM handler, end of main()
    NoEvent     \* process_event is not running

ASSUME SchedulerAssumption ==
    /\ Sub \in [Events -> SUBSET Events]
    /\ Delays \subseteq Int
    /\ MaxTime \in Nat
    /\ NoEvent \notin Events

VARIABLES
    pc,        \* where the scheduler thread is in run()
    running,   \* running_
    queue,     \* contents of queue_
    due,       \* local `due`: the stamp run() sleeps towards
    cur,       \* local `event`: what process_event is working on
    now,       \* steady_clock::now()
    at,        \* scheduled_at of each event
    call,      \* progress of the schedule_event() call of each event
    served,    \* events handed to process_event
    stop,      \* progress of each call of stop()
    lost       \* history: calls of stop() that one of two races has undone

vars == <<pc, running, queue, due, cur, now, at, call, served, stop, lost>>

-----------------------------------------------------------------------------
(* Mutation: the wait gives up the lock before it sleeps. *)
LockLostBeforeSleep == pc \in {"check", "timedTest"}

(* mutex_ is held across steps by the scheduler thread only: producers     *)
(* lock, push and unlock in one step.                                      *)
MutexHeld == pc \in {"check", "block", "timedTest", "timedBlock"}

(* Mutation: the comparator of the heap is the wrong way round. *)
IsLatest(e) == e \in queue /\ \A f \in queue : at[f] <= at[e]

IsTop(e) == e \in queue /\ \A f \in queue : at[e] <= at[f]

Roots == Events \ UNION {Sub[e] : e \in Events}

(* Every stamp an event can carry.                                         *)
Stamps == {0} \cup {t + d : t \in 0..MaxTime, d \in Delays}

InCall(e) == call[e] \in {"stamped", "pushed"}

(* cv_.notify_one() and notify_all(): only the scheduler waits on cv_.     *)
Notify ==
    pc' = CASE pc = "wait"      -> "woken"
            [] pc = "timedWait" -> "timedWoken"
            [] OTHER            -> pc

Init ==
    /\ pc = "idle"
    /\ running = FALSE
    /\ queue = {}
    /\ due = 0
    /\ cur = NoEvent
    /\ now = 0
    /\ at = [e \in Events |-> 0]
    /\ call = [e \in Events |-> "none"]
    /\ served = {}
    /\ stop = [s \in StopCalls |-> "none"]
    /\ lost = {}

Tick ==
    /\ now < MaxTime
    /\ now' = now + 1
    /\ UNCHANGED <<pc, running, queue, due, cur, at, call, served, stop, lost>>

-----------------------------------------------------------------------------
(* schedule_event(): the caller stamps the event, then pushes it under the *)
(* lock, then notifies after the unlock.  Sub-events are scheduled one     *)
(* after the other while process_event handles their trigger.              *)

Stamp(e, d) ==
    /\ call[e] = "none"
    /\ \/ e \in Roots
       \/ /\ pc = "process"
          /\ e \in Sub[cur]
          /\ \A f \in Sub[cur] : ~InCall(f)
    /\ now + d <= MaxTime
    /\ at' = [at EXCEPT ![e] = now + d]
    /\ call' = [call EXCEPT ![e] = "stamped"]
    /\ UNCHANGED <<pc, running, queue, due, cur, now, served, stop, lost>>

Push(e) ==
    /\ call[e] = "stamped"
    /\ ~MutexHeld
    /\ queue' = queue \cup {e}
    /\ call' = [call EXCEPT ![e] = "pushed"]
    /\ UNCHANGED <<pc, running, due, cur, now, at, served, stop, lost>>

(* Mutation: schedule_event() does not notify. *)
NotifyNobody(e) ==
    /\ call[e] = "pushed"
    /\ call' = [call EXCEPT ![e] = "returned"]
    /\ UNCHANGED <<pc, running, queue, due, cur, now, at, served, stop, lost>>

NotifyOne(e) ==
    /\ call[e] = "pushed"
    /\ Notify
    /\ call' = [call EXCEPT ![e] = "returned"]
    /\ UNCHANGED <<running, queue, due, cur, now, at, served, stop, lost>>

Producer(e) == Push(e) \/ NotifyOne(e)

-----------------------------------------------------------------------------
(* stop(): clears running_ and notifies, both without taking mutex_.  run()*)
(* sets running_ again when it begins, and hears no notification between a *)
(* predicate and its sleep.                                                *)

StopFlag(s) ==
    /\ stop[s] = "none"
    /\ running' = FALSE
    /\ stop' = [stop EXCEPT ![s] = "flagged"]
    /\ lost' = IF pc = "idle" THEN lost \cup {s} ELSE lost
    /\ UNCHANGED <<pc, queue, due, cur, now, at, call, served>>

StopNotify(s) ==
    /\ stop[s] = "flagged"
    /\ Notify
    /\ stop' = [stop EXCEPT ![s] = "returned"]
    /\ lost' = IF pc \in {"block", "timedBlock"} THEN lost \cup {s} ELSE lost
    /\ UNCHANGED <<running, queue, due, cur, now, at, call, served>>

-----------------------------------------------------------------------------
(* run(), in the order of its lines.                                       *)

(* A step of run() that changes nothing but its place.                     *)
Goto(place) ==
    /\ pc' = place
    /\ UNCHANGED <<running, queue, due, cur, now, at, call, served, stop, lost>>

Start ==
    /\ pc = "idle"
    /\ running' = TRUE
    /\ pc' = "loop"
    /\ UNCHANGED <<queue, due, cur, now, at, call, served, stop, lost>>

LoopTest ==
    /\ pc = "loop"
    /\ Goto(IF running THEN "lock" ELSE "exited")

(* Mutation: the predicate of cv_.wait looks at the queue only. *)
WaitTestQueue ==
    /\ pc \in {"lock", "woken"}
    /\ Goto(IF queue # {} THEN "check" ELSE "block")

(* Lock (first entry) or lock again (woken by a notification), then the    *)
(* predicate of cv_.wait.                                                  *)
WaitTest ==
    /\ pc \in {"lock", "woken"}
    /\ Goto(IF queue # {} \/ ~running THEN "check" ELSE "block")

(* A wait unlocks mutex_ and sleeps in one step; until then a notify is    *)
(* not heard.                                                              *)
Block ==
    \/ pc = "block" /\ Goto("wait")
    \/ pc = "timedBlock" /\ Goto("timedWait")

(* The wait is over because of stop().                                     *)
Leave ==
    /\ pc = "check"
    /\ ~running
    /\ Goto("exited")

(* The top of the heap is not due yet.                                     *)
Defer(e) ==
    /\ pc = "check"
    /\ running
    /\ IsTop(e)
    /\ at[e] > now
    /\ due' = at[e]
    /\ pc' = "timedTest"
    /\ UNCHANGED <<running, queue, cur, now, at, call, served, stop, lost>>

(* Mutation: the event is dropped and nothing is processed. *)
PopNothing(e) ==
    /\ pc = "check" /\ running
    /\ IsTop(e) /\ at[e] <= now
    /\ queue' = queue \ {e}
    /\ cur' = NoEvent
    /\ served' = served \cup {e}
    /\ pc' = "process"
    /\ UNCHANGED <<running, due, now, at, call, stop, lost>>

(* Mutation: running_ is not looked at again after the wait. *)
PopStopping(e) ==
    /\ pc = "check"
    /\ IsTop(e) /\ at[e] <= now
    /\ queue' = queue \ {e}
    /\ cur' = e
    /\ served' = served \cup {e}
    /\ pc' = "process"
    /\ UNCHANGED <<running, due, now, at, call, stop, lost>>

(* Pop and unlock; which of several events with the same stamp is on top   *)
(* is up to the heap.                                                      *)
Pop(e) ==
    /\ pc = "check"
    /\ running
    /\ IsTop(e)
    /\ at[e] <= now
    /\ queue' = queue \ {e}
    /\ cur' = e
    /\ served' = served \cup {e}
    /\ pc' = "process"
    /\ UNCHANGED <<running, due, now, at, call, stop, lost>>

(* The predicate of cv_.wait_until, on entry and after each wake-up; a     *)
(* wake-up past the deadline is a timeout, whatever caused it.             *)
TimedTest ==
    /\ pc \in {"timedTest", "timedWoken"}
    /\ Goto(IF \/ ~running
               \/ \E e \in queue : at[e] < due
               \/ pc = "timedWoken" /\ now >= due
            THEN "loop" ELSE "timedBlock")

TimedOut ==
    /\ pc = "timedWait"
    /\ now >= due
    /\ Goto("loop")

(* process_event returns; a malformed sub-event ends the trigger early, so *)
(* sub-events may be left unscheduled.                                     *)
Processed ==
    /\ pc = "process"
    /\ \A f \in Sub[cur] : ~InCall(f)
    /\ cur' = NoEvent
    /\ pc' = "loop"
    /\ UNCHANGED <<running, queue, due, now, at, call, served, stop, lost>>

(* The standard allows a wait to return without a notification.            *)
SpuriousWakeup ==
    /\ pc \in {"wait", "timedWait"}
    /\ Notify
    /\ UNCHANGED <<running, queue, due, cur, now, at, call, served, stop, lost>>

Run ==
    \/ LoopTest \/ WaitTest \/ Block \/ Leave
    \/ \E e \in Events : Defer(e) \/ Pop(e)
    \/ TimedTest \/ TimedOut \/ Processed

-----------------------------------------------------------------------------
Next ==
    \/ Tick
    \/ \E e \in Events, d \in Delays : Stamp(e, d)
    \/ \E e \in Events : Producer(e)
    \/ \E s \in StopCalls : StopFlag(s) \/ StopNotify(s)
    \/ Start
    \/ Run
    \/ SpuriousWakeup

Spec == Init /\ [][Next]_vars

(* Time passes, main() starts the thread, and every thread that can take   *)
(* its next instruction eventually does.  Nobody has to schedule an event, *)
(* to call stop(), or to be woken for no reason.                           *)
Fairness ==
    /\ WF_vars(Tick)
    /\ WF_vars(Start)
    /\ WF_vars(Run)
    /\ \A e \in Events : WF_vars(Producer(e))
    /\ \A s \in StopCalls : WF_vars(StopNotify(s))

FairSpec == Spec /\ Fairness

-----------------------------------------------------------------------------
(* Types of the variables. *)
TypeOK ==
    /\ pc \in {"idle", "loop", "lock", "block", "wait", "woken", "check",
               "timedTest", "timedBlock", "timedWait", "timedWoken",
               "process", "exited"}
    /\ running \in BOOLEAN
    /\ queue \subseteq Events
    /\ due \in Int
    /\ cur \in Events \cup {NoEvent}
    /\ pc = "process" => cur \in Events
    /\ now \in 0..MaxTime
    /\ at \in [Events -> Stamps]
    /\ call \in [Events -> {"none", "stamped", "pushed", "returned"}]
    /\ served \subseteq Events
    /\ stop \in [StopCalls -> {"none", "flagged", "returned"}]
    /\ lost \subseteq StopCalls

(* No event is slept over: when run() sleeps on cv_ although the queue     *)
(* holds something it should look at (anything, in the untimed wait; an    *)
(* event earlier than `due` in the timed one), some schedule_event() call  *)
(* still has its notify_one() to make.                                     *)
NoEventSleptOver ==
    (pc = "wait" /\ queue # {})
        \/ (pc = "timedWait" /\ \E e \in queue : at[e] < due)
    => \E f \in queue : call[f] = "pushed"

(* Every event whose push is done is in exactly one place: still queued,   *)
(* or handed to process_event; nothing else is there.                      *)
Accounted ==
    /\ queue \cap served = {}
    /\ queue \cup served = {e \in Events : call[e] \in {"pushed", "returned"}}

(* Two races undo a stop(), and only they: its flag is cleared before run()*)
(* has set it, or its notification comes between a predicate and the sleep.*)
(* Any other stop() that has returned leaves run() with the flag down and  *)
(* no wait between it and its end, whatever else notifies or is queued.    *)
StopLostByRaceOnly ==
    \A s \in StopCalls \ lost :
        stop[s] = "returned" =>
            ~running /\ pc \notin {"idle", "block", "wait", "timedBlock", "timedWait"}

(* The scheduler keeps the promise of EventAgenda: the heap is the agenda. *)
Agenda == INSTANCE EventAgenda
            WITH Times <- Stamps,
                 agenda <- {[id |-> e, at |-> at[e]] : e \in queue}

ImplementsAgenda == Agenda!Spec

(* Nor does it process or sleep without having seen running_ up: run() and *)
(* stop() are StopLoop's, with both waits as one sleep.                    *)
Place ==
    CASE pc = "idle"                     -> "created"
      [] pc = "process"                  -> "process"
      [] pc \in {"block", "timedBlock"}  -> "block"
      [] pc \in {"wait", "timedWait"}    -> "sleep"
      [] pc = "exited"                   -> "ended"
      [] OTHER                           -> "test"

Loop == INSTANCE StopLoop WITH Stops <- StopCalls, loop <- Place

ImplementsLoop == Loop!Spec

(* Every queued event is eventually dispatched, unless stop() is called.   *)
QueuedIsServed ==
    \A e \in Events :
        e \in queue ~> (e \in served \/ \E s \in StopCalls : stop[s] # "none")

(* stop() during run() ends the loop whenever the queue is not empty:      *)
(* there is a notification on its way or a sleep with an end.              *)
StopWithWorkExits ==
    (pc # "idle" /\ ~running /\ queue # {}) ~> (pc = "exited")

(* event_scheduler.hpp:31, "Signal the main loop to exit cleanly": a       *)
(* stop() made while run() is running makes it return.                     *)
StopEndsRun ==
    (pc # "idle" /\ ~running) ~> (pc = "exited")

=============================================================================
