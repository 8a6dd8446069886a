----------------------------- MODULE EventAgenda -----------------------------
(***************************************************************************)
(* What EventScheduler promises to the rest of the simulator: an agenda of *)
(* stamped events.  An event enters once, is served once, never before its *)
(* time, and never while an event with an earlier stamp is on the agenda.  *)
(* Nothing is said of threads, locks or notifications; EventScheduler.tla  *)
(* is shown to implement this module.                                      *)
(***************************************************************************)
EXTENDS Integers

CONSTANTS
    Events,   \* identities of the events scheduled during one run
    Times     \* the stamps they may carry

VARIABLES
    now,      \* steady_clock::now()
    agenda,   \* entries [id, at] accepted and not yet served
    served    \* identities of the events handed to EventEngine

vars == <<now, agenda, served>>

Entry == [id : Events, at : Times]

Init ==
    /\ now = 0
    /\ agenda = {}
    /\ served = {}

Advance ==
    /\ now' = now + 1
    /\ UNCHANGED <<agenda, served>>

Enter(x) ==
    /\ x.id \notin served \cup {y.id : y \in agenda}
    /\ agenda' = agenda \cup {x}
    /\ UNCHANGED <<now, served>>

Serve(x) ==
    /\ x \in agenda
    /\ x.at <= now
    /\ \A y \in agenda : x.at <= y.at
    /\ agenda' = agenda \ {x}
    /\ served' = served \cup {x.id}
    /\ UNCHANGED now

Next == Advance \/ \E x \in Entry : Enter(x) \/ Serve(x)

Spec == Init /\ [][Next]_vars
=============================================================================
