----------------------------- MODULE AtomicDevice -----------------------------
(***************************************************************************)
(* What a virtual device promises to who commands it and to who listens to *)
(* it: a state change or an event takes effect at once and as a whole, the *)
(* result is published before the next command, and nothing else changes   *)
(* the states.  There is no loop over a payload here, and no name is       *)
(* looked up; DeviceState.tla is shown to implement this module.           *)
(***************************************************************************)
EXTENDS PayloadEffect

CONSTANTS
    Models, Bodies,
    InitialState(_),    \* states of a new device of a model
    Handlers(_),        \* events a model handles, with the key each sets
    FirstPresent(_, _), \* value an event takes from a payload
    NoReport

VARIABLES
    model,
    state,
    pending,            \* a command has taken effect and is not published
    connected,
    reported

vars == <<model, state, pending, connected, reported>>

Init ==
    /\ model \in Models
    /\ state = InitialState(model)
    /\ pending = FALSE
    /\ connected = FALSE
    /\ reported = NoReport

Connect ==
    /\ ~connected
    /\ connected' = TRUE
    /\ UNCHANGED <<model, state, pending, reported>>

Change(body) ==
    /\ ~pending
    /\ state' = Effect(model, state, body)
    /\ pending' = TRUE
    /\ UNCHANGED <<model, connected, reported>>

Event(h, body) ==
    /\ ~pending
    /\ state' = [k \in DOMAIN state \cup {h.key} |->
                    IF k = h.key THEN FirstPresent(body, h) ELSE state[k]]
    /\ pending' = TRUE
    /\ UNCHANGED <<model, connected, reported>>

Publish ==
    /\ pending
    /\ reported' = IF connected THEN state ELSE reported
    /\ pending' = FALSE
    /\ UNCHANGED <<model, state, connected>>

Next ==
    \/ Connect
    \/ \E body \in Bodies : Change(body) \/ \E h \in Handlers(model) : Event(h, body)
    \/ Publish

Spec == Init /\ [][Next]_vars
=============================================================================
