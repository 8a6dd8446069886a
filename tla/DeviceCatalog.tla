---------------------------- MODULE DeviceCatalog -----------------------------
(***************************************************************************)
(* What DeviceEngine and SqliteStore promise together: one catalog of      *)
(* devices.  Adding and removing are single steps, a restart loses nothing *)
(* and fills gaps from the seed, and whoever looks sees the catalog of one *)
(* moment.  There is no disk here and no memory, no object and no lock;    *)
(* DeviceRegistry.tla is shown to implement this module.                   *)
(***************************************************************************)
EXTENDS Naturals

CONSTANTS
    DeviceIds, Models, Supported,
    Seed,       \* model each device has in the seed, or NoModel
    NoModel

VARIABLES
    catalog,    \* model of each device
    running,    \* the process runs
    answer      \* what GET /devices is answering with

vars == <<catalog, running, answer>>

Init ==
    /\ catalog = [d \in DeviceIds |-> NoModel]
    /\ running = FALSE
    /\ answer = {}

Start ==
    /\ ~running
    /\ running' = TRUE
    /\ catalog' = [d \in DeviceIds |-> IF catalog[d] = NoModel THEN Seed[d] ELSE catalog[d]]
    /\ UNCHANGED answer

Stop ==
    /\ running
    /\ running' = FALSE
    /\ answer' = {}
    /\ UNCHANGED catalog

Add(d, m) ==
    /\ running
    /\ catalog[d] = NoModel
    /\ m \in Supported
    /\ catalog' = [catalog EXCEPT ![d] = m]
    /\ UNCHANGED <<running, answer>>

Remove(d) ==
    /\ running
    /\ catalog' = [catalog EXCEPT ![d] = NoModel]
    /\ UNCHANGED <<running, answer>>

(* Devices of an unsupported type are in the catalog and not on view.      *)
OnView == {[id |-> d, model |-> catalog[d]] : d \in {e \in DeviceIds : catalog[e] \in Supported}}

Look ==
    /\ running
    /\ answer' = OnView
    /\ UNCHANGED <<catalog, running>>

Answered ==
    /\ answer' = {}
    /\ UNCHANGED <<catalog, running>>

Next ==
    \/ Start \/ Stop \/ Look \/ Answered
    \/ \E d \in DeviceIds : Remove(d) \/ \E m \in Models : Add(d, m)

Spec == Init /\ [][Next]_vars
=============================================================================
