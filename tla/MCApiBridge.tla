----------------------------- MODULE MCApiBridge ------------------------------
(* One device id that lives in two rooms and as two types, one after the   *)
(* other; the types share a variable and each has one of its own.          *)
EXTENDS ApiBridge

MCTypes == {"light", "motion"}
MCVariables == [t \in MCTypes |-> IF t = "light" THEN {"on", "level"} ELSE {"on"}]
=============================================================================
