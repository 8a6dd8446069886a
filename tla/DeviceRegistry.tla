--------------------------- MODULE DeviceRegistry ----------------------------
(***************************************************************************)
(* core/device_engine, the handler table of core/event_engine and the      *)
(* device rows of core/db/sqlite_store: which devices exist, on disk and   *)
(* in memory, and which object an event is handed to.                      *)
(*                                                                         *)
(* Three threads meet here.  The CLI thread runs add_device() and          *)
(* remove_device() under DeviceEngine::mutex_; the scheduler thread runs   *)
(* EventEngine::process_event(), which takes that mutex for its lookups of *)
(* devices but reads the handler table without any lock; the HTTP thread   *)
(* copies the device list.  The process may die at any time and boot again *)
(* from the database.                                                      *)
(*                                                                         *)
(* Calls that change nothing here (a refused command, an unknown event     *)
(* type) have no action.  Subscriptions and clients made on the way are    *)
(* MqttTransport's; their exceptions are caught, so they do not change     *)
(* what happens here.                                                      *)
(***************************************************************************)
EXTENDS Integers

CONSTANTS
    DeviceIds,    \* device identifiers
    Models,       \* rows of device_models
    Supported,    \* models whose type create_device() can instantiate
    EventTypes,   \* event types other than state_change and trigger
    Handles,      \* Handles[m]: types a device of model m registers for
    Seed,         \* Seed[d]: model of device d in seed.sql, or NoModel
    NoModel,      \* no row
    NoObject,     \* null device pointer, or no handler
    MaxObjects    \* bound on add_device() calls of one process

ASSUME RegistryAssumption ==
    /\ Supported \subseteq Models
    /\ NoModel \notin Models
    /\ Handles \in [Models -> SUBSET EventTypes]
    /\ Seed \in [DeviceIds -> Models \cup {NoModel}]
    /\ NoObject \notin [gen : Nat, id : DeviceIds, model : Models]
    /\ MaxObjects \in Nat
    /\ "state_change" \notin EventTypes

VARIABLES
    rows,       \* devices table: model of each stored device
    up,         \* the process is running, boot done
    devices,    \* devices_: the object of each device id
    handlers,   \* custom_handlers_: the object each handler captured as `this`
    made,       \* objects built by add_device() in this process
    cli,        \* where the CLI thread is in add_device()/remove_device()
    cliDev,     \* its device_id
    cliObj,     \* its local `device`
    sched,      \* where the scheduler thread is in process_event()
    schedEv,    \* its event: [dev, type]
    schedObj,   \* the object it is working on
    schedRef,   \* objects its local shared_ptr owns a share of
    gone,       \* history: its device was erased since is_known_device()
    api,        \* objects the HTTP thread's snapshot keeps alive
    told        \* what the user was last told of each device

vars == <<rows, up, devices, handlers, made, cli, cliDev, cliObj,
          sched, schedEv, schedObj, schedRef, gone, api, told>>

cliVars   == <<made, cli, cliDev, cliObj, told>>
schedVars == <<sched, schedEv, schedObj, schedRef, gone>>

-----------------------------------------------------------------------------
(* A device object; two builds of one device are two objects.              *)
Object == [gen : Nat, id : DeviceIds, model : Models]

EventType == EventTypes \cup {"state_change"}

NoEvent == [dev |-> "", type |-> ""]

MutexFree == cli = "idle"

CliRefs == IF cli \in {"register", "insert", "emplace"} THEN {cliObj} ELSE {}

(* The last shared_ptr to go destroys the object. *)
Alive(o) ==
    o \in {devices[d] : d \in DeviceIds} \cup CliRefs \cup schedRef \cup api

(* Mutation: emplace() instead of assignment in add_event_handler(). *)
RegisteredIfAbsent(table, o) ==
    [table EXCEPT ![o.id] =
        [t \in EventTypes |-> IF t \in Handles[o.model] /\ @[t] = NoObject THEN o ELSE @[t]]]

(* handlers after the object o has registered for its types.               *)
Registered(table, o) ==
    [table EXCEPT ![o.id] =
        [t \in EventTypes |-> IF t \in Handles[o.model] THEN o ELSE @[t]]]

NoHandlers == [d \in DeviceIds |-> [t \in EventTypes |-> NoObject]]

Init ==
    /\ rows = [d \in DeviceIds |-> NoModel]
    /\ told = [d \in DeviceIds |-> "nothing"]
    /\ up = FALSE
    /\ devices = [d \in DeviceIds |-> NoObject]
    /\ handlers = NoHandlers
    /\ made = 0
    /\ cli = "idle" /\ cliDev = "" /\ cliObj = NoObject
    /\ sched = "idle" /\ schedEv = NoEvent /\ schedObj = NoObject
    /\ schedRef = {} /\ gone = FALSE
    /\ api = {}

-----------------------------------------------------------------------------
(* The process.                                                            *)

(* initialize() runs the seed: INSERT OR IGNORE. *)
SeededRows == [d \in DeviceIds |-> IF rows[d] = NoModel THEN Seed[d] ELSE rows[d]]

(* create_device(): null when the type is not supported. *)
Built(d, m) == IF m \in Supported THEN [gen |-> 0, id |-> d, model |-> m] ELSE NoObject

(* load_from_db(): build a device for every row; each registers for its    *)
(* events.  No other thread exists yet.                                    *)
Boot ==
    /\ ~up
    /\ up' = TRUE
    /\ rows' = SeededRows
    /\ devices' = [d \in DeviceIds |-> Built(d, rows'[d])]
    /\ handlers' = [d \in DeviceIds |-> [t \in EventTypes |->
            IF rows'[d] \in Supported /\ t \in Handles[rows'[d]]
            THEN devices'[d] ELSE NoObject]]
    /\ UNCHANGED <<cliVars, schedVars, api>>

(* Exit, kill, or an exception nobody catches (SqliteStore throws on any   *)
(* error but a constraint): memory is gone, rows stay.                     *)
Crash ==
    /\ up
    /\ up' = FALSE
    /\ devices' = [d \in DeviceIds |-> NoObject]
    /\ handlers' = NoHandlers
    /\ made' = 0
    /\ cli' = "idle" /\ cliDev' = "" /\ cliObj' = NoObject
    /\ sched' = "idle" /\ schedEv' = NoEvent /\ schedObj' = NoObject
    /\ schedRef' = {} /\ gone' = FALSE
    /\ api' = {}
    /\ UNCHANGED <<rows, told>>

-----------------------------------------------------------------------------
(* CLI thread: add_device(), remove_device().                              *)

(* Lock, check, build the object.                                          *)
AddCheck(d, m) ==
    /\ up /\ cli = "idle"
    /\ devices[d] = NoObject
    /\ m \in Supported
    /\ made < MaxObjects
    /\ made' = made + 1
    /\ cli' = "register"
    /\ cliDev' = d
    /\ cliObj' = [gen |-> made', id |-> d, model |-> m]
    /\ told' = [told EXCEPT ![d] = "nothing"]
    /\ UNCHANGED <<rows, up, devices, handlers, schedVars, api>>

(* init_states() of the object registers its event handlers.               *)
AddRegister ==
    /\ cli = "register"
    /\ handlers' = Registered(handlers, cliObj)
    /\ cli' = "insert"
    /\ UNCHANGED <<rows, up, devices, made, cliDev, cliObj, told, schedVars, api>>

(* Mutation: the result of insert_device() is not looked at. *)
AddInsertUnchecked ==
    /\ cli = "insert"
    /\ rows' = [rows EXCEPT ![cliDev] = IF @ = NoModel THEN cliObj.model ELSE @]
    /\ cli' = "emplace"
    /\ UNCHANGED <<up, devices, handlers, made, cliDev, cliObj, told, schedVars, api>>

(* insert_device(): fails when the row exists.                             *)
AddInsert ==
    /\ cli = "insert"
    /\ \/ /\ rows[cliDev] = NoModel
          /\ rows' = [rows EXCEPT ![cliDev] = cliObj.model]
          /\ cli' = "emplace"
          /\ UNCHANGED <<cliDev, cliObj>>
       \/ /\ rows[cliDev] # NoModel
          /\ cli' = "idle" /\ cliDev' = "" /\ cliObj' = NoObject
          /\ UNCHANGED rows
    /\ UNCHANGED <<up, devices, handlers, made, told, schedVars, api>>

AddEmplace ==
    /\ cli = "emplace"
    /\ devices' = [devices EXCEPT ![cliDev] = cliObj]
    /\ told' = [told EXCEPT ![cliDev] = "added"]
    /\ cli' = "idle" /\ cliDev' = "" /\ cliObj' = NoObject
    /\ UNCHANGED <<rows, up, handlers, made, schedVars, api>>

RemoveBegin(d) ==
    /\ up /\ cli = "idle"
    /\ cli' = "delete"
    /\ cliDev' = d
    /\ told' = [told EXCEPT ![d] = "nothing"]
    /\ UNCHANGED <<rows, up, devices, handlers, made, cliObj, schedVars, api>>

(* Mutation: the row is not deleted, only the object. *)
RemoveKeepsRow ==
    /\ cli = "delete"
    /\ rows[cliDev] # NoModel
    /\ cli' = "erase"
    /\ UNCHANGED <<rows, up, devices, handlers, made, cliDev, cliObj, told, schedVars, api>>

(* delete_device(): false when no row was deleted.                         *)
RemoveDelete ==
    /\ cli = "delete"
    /\ rows' = [rows EXCEPT ![cliDev] = NoModel]
    /\ \/ /\ rows[cliDev] # NoModel
          /\ cli' = "erase"
          /\ UNCHANGED cliDev
       \/ /\ rows[cliDev] = NoModel
          /\ cli' = "idle" /\ cliDev' = ""
    /\ UNCHANGED <<up, devices, handlers, made, cliObj, told, schedVars, api>>

(* The map drops its reference; handlers are not unregistered.  A row that *)
(* had no object is reported as not found.                                 *)
RemoveErase ==
    /\ cli = "erase"
    /\ devices' = [devices EXCEPT ![cliDev] = NoObject]
    /\ told' = [told EXCEPT ![cliDev] =
                    IF devices[cliDev] # NoObject THEN "removed" ELSE "nothing"]
    /\ gone' = (gone \/ schedEv.dev = cliDev)
    /\ cli' = "idle" /\ cliDev' = ""
    /\ UNCHANGED <<rows, up, handlers, made, cliObj, sched, schedEv, schedObj, schedRef, api>>

-----------------------------------------------------------------------------
(* Scheduler thread: process_event().                                      *)

(* is_known_device(): lock, look, unlock.                                  *)
Dispatch(d, t) ==
    /\ up /\ sched = "idle"
    /\ MutexFree
    /\ devices[d] # NoObject
    /\ sched' = "route"
    /\ schedEv' = [dev |-> d, type |-> t]
    /\ gone' = FALSE
    /\ UNCHANGED <<rows, up, devices, handlers, cliVars, schedObj, schedRef, api>>

(* Mutation: the pointer is not checked. *)
RouteUnchecked ==
    /\ sched = "route" /\ schedEv.type = "state_change"
    /\ MutexFree
    /\ schedObj' = devices[schedEv.dev]
    /\ schedRef' = {schedObj'} \ {NoObject}
    /\ sched' = "update"
    /\ UNCHANGED <<rows, up, devices, handlers, cliVars, schedEv, gone, api>>

(* Mutation: get_device() instead of get_device_shared(). *)
RouteRaw ==
    /\ sched = "route" /\ schedEv.type = "state_change"
    /\ MutexFree
    /\ schedObj' = devices[schedEv.dev]
    /\ \/ /\ devices[schedEv.dev] # NoObject
          /\ sched' = "update"
          /\ UNCHANGED schedEv
       \/ /\ devices[schedEv.dev] = NoObject
          /\ sched' = "idle" /\ schedEv' = NoEvent
    /\ UNCHANGED <<rows, up, devices, handlers, cliVars, schedRef, gone, api>>

(* update_device_state(): get_device_shared() takes a share of the object  *)
(* under the lock; null when the device has gone since is_known_device().  *)
RouteStateChange ==
    /\ sched = "route" /\ schedEv.type = "state_change"
    /\ MutexFree
    /\ schedObj' = devices[schedEv.dev]
    /\ schedRef' = {schedObj'} \ {NoObject}
    /\ \/ /\ devices[schedEv.dev] # NoObject
          /\ sched' = "update"
          /\ UNCHANGED schedEv
       \/ /\ devices[schedEv.dev] = NoObject
          /\ sched' = "idle" /\ schedEv' = NoEvent
    /\ UNCHANGED <<rows, up, devices, handlers, cliVars, gone, api>>

(* handle_single_event(): the handler table is read without a lock, also   *)
(* while AddRegister writes it; the lookup then sees it before or after    *)
(* (or the process dies: Crash).                                           *)
RouteSingle ==
    /\ sched = "route" /\ schedEv.type # "state_change"
    /\ schedObj' = handlers[schedEv.dev][schedEv.type]
    /\ \/ /\ handlers[schedEv.dev][schedEv.type] # NoObject
          /\ sched' = "call"
          /\ UNCHANGED schedEv
       \/ /\ handlers[schedEv.dev][schedEv.type] = NoObject
          /\ sched' = "idle" /\ schedEv' = NoEvent
    /\ UNCHANGED <<rows, up, devices, handlers, cliVars, schedRef, gone, api>>

(* update_state() returns and the local shared_ptr goes; or the handler,   *)
(* which was called on a raw `this`, returns.                              *)
Handled ==
    /\ sched \in {"update", "call"}
    /\ sched' = "idle" /\ schedEv' = NoEvent /\ schedObj' = NoObject
    /\ schedRef' = {}
    /\ UNCHANGED <<rows, up, devices, handlers, cliVars, gone, api>>

-----------------------------------------------------------------------------
(* HTTP thread: GET /devices works on a copy of the pointers.              *)

(* Mutation: the list is copied without the lock. *)
ApiSnapshotUnlocked ==
    /\ up /\ api = {}
    /\ api' = {devices[d] : d \in DeviceIds} \ {NoObject}
    /\ UNCHANGED <<rows, up, devices, handlers, cliVars, schedVars>>

ApiSnapshot ==
    /\ up /\ api = {}
    /\ MutexFree
    /\ api' = {devices[d] : d \in DeviceIds} \ {NoObject}
    /\ UNCHANGED <<rows, up, devices, handlers, cliVars, schedVars>>

ApiAnswered ==
    /\ api # {}
    /\ api' = {}
    /\ UNCHANGED <<rows, up, devices, handlers, cliVars, schedVars>>

-----------------------------------------------------------------------------
Cli ==
    \/ \E d \in DeviceIds, m \in Models : AddCheck(d, m)
    \/ AddRegister \/ AddInsert \/ AddEmplace
    \/ \E d \in DeviceIds : RemoveBegin(d)
    \/ RemoveDelete \/ RemoveErase

Scheduler ==
    \/ \E d \in DeviceIds, t \in EventType : Dispatch(d, t)
    \/ RouteStateChange \/ RouteSingle \/ Handled

Api == ApiSnapshot \/ ApiAnswered

Next == Boot \/ Crash \/ Cli \/ Scheduler \/ Api

Spec == Init /\ [][Next]_vars

-----------------------------------------------------------------------------
(* Types of the variables. *)
TypeOK ==
    /\ rows \in [DeviceIds -> Models \cup {NoModel}]
    /\ up \in BOOLEAN
    /\ devices \in [DeviceIds -> Object \cup {NoObject}]
    /\ handlers \in [DeviceIds -> [EventTypes -> Object \cup {NoObject}]]
    /\ made \in 0..MaxObjects
    /\ cli \in {"idle", "register", "insert", "emplace", "delete", "erase"}
    /\ cliDev \in DeviceIds \cup {""}
    /\ cliObj \in Object \cup {NoObject}
    /\ sched \in {"idle", "route", "update", "call"}
    /\ schedEv \in [dev : DeviceIds, type : EventType] \cup {NoEvent}
    /\ schedObj \in Object \cup {NoObject}
    /\ schedRef \subseteq Object
    /\ sched \in {"update", "call"} => schedObj # NoObject
    /\ gone \in BOOLEAN
    /\ api \subseteq Object
    /\ told \in [DeviceIds -> {"nothing", "added", "removed"}]

(* Memory mirrors the database: a device is in devices_ exactly when its   *)
(* row is stored with a supported model, and with that model, except for   *)
(* the one row add_device() or remove_device() is in the middle of.        *)
MemoryMirrorsDisk ==
    up => \A d \in DeviceIds :
        (cli \in {"emplace", "erase"} => d # cliDev) =>
            IF rows[d] \in Supported
            THEN devices[d] # NoObject /\ devices[d].model = rows[d]
            ELSE devices[d] = NoObject

(* What the CLI reported survives crashes and restarts: an added device    *)
(* stays stored; a removed one stays gone, unless the seed brings it back. *)
Durable ==
    \A d \in DeviceIds :
        /\ told[d] = "added" => rows[d] # NoModel
        /\ told[d] = "removed" /\ Seed[d] = NoModel => rows[d] = NoModel

(* Whatever was registered before under its id, a device in devices_ gets  *)
(* the events its own model handles.                                       *)
OwnHandlersInstalled ==
    \A d \in DeviceIds :
        devices[d] # NoObject =>
            \A t \in Handles[devices[d].model] : handlers[d][t] = devices[d]

(* A handler runs on the device its event was for, hence on an allocated   *)
(* object, unless remove_device() erased that device after                 *)
(* is_known_device(), or its model does not handle the type and the        *)
(* handler is one an earlier device of the id has left: those are the only *)
(* two ways to a freed object, whatever is added meanwhile.                *)
HandlerOfOwnDevice ==
    sched = "call" /\ ~gone /\ schedEv.type \in Handles[devices[schedEv.dev].model]
        => schedObj = devices[schedEv.dev]

(* A state change works on its device's object, or on one that is still    *)
(* allocated although remove_device() erased the device after              *)
(* is_known_device() and before update_state() returned, and an object of  *)
(* another type may have taken its place.                                  *)
StateChangeOnLiveObject ==
    sched = "update" => Alive(schedObj) /\ (schedObj = devices[schedEv.dev] \/ gone)

(* The registry is a catalog, for all its copies on disk and in memory: a  *)
(* command takes effect when its row changes, and the HTTP thread sees the *)
(* catalog of one moment, crashes or not.                                  *)
Catalog == INSTANCE DeviceCatalog WITH
    catalog <- rows,
    running <- up,
    answer  <- {[id |-> o.id, model |-> o.model] : o \in api}

ImplementsCatalog == Catalog!Spec

(* device_engine.hpp:23, DeviceEngine "owns all VirtualDevice instances    *)
(* and dispatches events to them": a handler runs on an object that is     *)
(* still allocated.                                                        *)
HandlerOnLiveObject == sched = "call" => Alive(schedObj)
=============================================================================
