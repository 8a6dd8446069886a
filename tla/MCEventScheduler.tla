-------------------------- MODULE MCEventScheduler ---------------------------
(* A trigger with one sub-event, and an event of another thread.        *)
EXTENDS EventScheduler

CONSTANTS trigger, child, other

MCEvents == {trigger, child, other}
MCSub == [e \in MCEvents |-> IF e = trigger THEN {child} ELSE {}]
MCNow == {0}
MCDelays == {-1, 0, 1}
=============================================================================
