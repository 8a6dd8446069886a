------------------------------- MODULE StopLoop -------------------------------
(***************************************************************************)
(* EventScheduler::run() and stop() as whoever stops the simulator sees    *)
(* them: a loop that looks at a flag, processes or sleeps, and ends when   *)
(* it finds the flag down; and calls that lower the flag and then wake it. *)
(* There is no queue, lock or clock here.  EventScheduler.tla (run() in    *)
(* full) and SimulatorLifecycle.tla (run() among the other threads) are    *)
(* both shown to implement this module.                                    *)
(***************************************************************************)

CONSTANT Stops      \* calls of stop()

VARIABLES
    loop,       \* where run() is
    running,    \* running_
    stop        \* progress of each call of stop()

vars == <<loop, running, stop>>

Init ==
    /\ loop = "created"
    /\ running = FALSE
    /\ stop = [s \in Stops |-> "none"]

Start ==
    /\ loop = "created"
    /\ loop' = "test"
    /\ running' = TRUE
    /\ UNCHANGED stop

(* The flag is looked at, and only then is anything processed, or the way  *)
(* to sleep begun.                                                         *)
Look ==
    /\ loop = "test"
    /\ loop' \in IF running THEN {"process", "block"} ELSE {"ended"}
    /\ UNCHANGED <<running, stop>>

Move(from, to) == loop = from /\ loop' = to /\ UNCHANGED <<running, stop>>

Lower(s) ==
    /\ stop[s] = "none"
    /\ running' = FALSE
    /\ stop' = [stop EXCEPT ![s] = "flagged"]
    /\ UNCHANGED loop

(* Who is not asleep yet does not hear it. *)
Wake(s) ==
    /\ stop[s] = "flagged"
    /\ loop' = IF loop = "sleep" THEN "test" ELSE loop
    /\ stop' = [stop EXCEPT ![s] = "returned"]
    /\ UNCHANGED running

Next ==
    \/ Start
    \/ Look
    \/ Move("process", "test") \/ Move("block", "sleep") \/ Move("sleep", "test")
    \/ \E s \in Stops : Lower(s) \/ Wake(s)

Spec == Init /\ [][Next]_vars
=============================================================================
