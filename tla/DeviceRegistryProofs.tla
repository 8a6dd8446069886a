------------------------ MODULE DeviceRegistryProofs -------------------------
(***************************************************************************)
(* Proofs about DeviceRegistry: memory mirrors the database, reports are   *)
(* durable, devices get their own events, and state changes never touch a  *)
(* freed object, for any sets of devices, models and event types.          *)
(***************************************************************************)
EXTENDS DeviceRegistry, TLAPS

(* What add_device() and remove_device() have established at each of their *)
(* steps; mutex_ keeps it true until the next one.                         *)
CliInv ==
    /\ cli # "idle" => up /\ cliDev \in DeviceIds /\ told[cliDev] = "nothing"
    /\ cli \in {"register", "insert", "emplace"} =>
            /\ cliObj \in Object
            /\ cliObj.id = cliDev
            /\ cliObj.model \in Supported
            /\ devices[cliDev] = NoObject
    /\ cli \in {"insert", "emplace"} =>
            \A t \in Handles[cliObj.model] : handlers[cliDev][t] = cliObj
    /\ cli = "emplace" => rows[cliDev] = cliObj.model
    /\ cli = "erase" => rows[cliDev] = NoModel

(* The scheduler's event is a real one while it is being routed, and the   *)
(* object of a state change is one its shared_ptr owns a share of.         *)
SchedInv ==
    /\ sched # "idle" => up /\ schedEv \in [dev : DeviceIds, type : EventType]
    /\ sched = "update" => schedObj \in schedRef

IInv ==
    /\ TypeOK
    /\ CliInv
    /\ SchedInv
    /\ MemoryMirrorsDisk
    /\ Durable
    /\ OwnHandlersInstalled

USE RegistryAssumption

(* Objects carry what they were built from and are not the null pointer.   *)
LEMMA ObjectFacts ==
    ASSUME NEW g \in Nat, NEW d \in DeviceIds, NEW m \in Models
    PROVE  LET o == [gen |-> g, id |-> d, model |-> m]
           IN  o \in Object /\ o # NoObject /\ o.id = d /\ o.model = m
BY DEF Object

(* Everything in memory of a process that does not run has its type.       *)
LEMMA DownTypes ==
    /\ 0 \in 0..MaxObjects
    /\ [d \in DeviceIds |-> NoObject] \in [DeviceIds -> Object \cup {NoObject}]
    /\ NoHandlers \in [DeviceIds -> [EventTypes -> Object \cup {NoObject}]]
<1>1. 0 \in 0..MaxObjects
    OBVIOUS
<1>2. NoHandlers \in [DeviceIds -> [EventTypes -> Object \cup {NoObject}]]
    BY DEF NoHandlers
<1> QED
    BY <1>1, <1>2

(* The process is not started and the database is empty.                   *)
LEMMA InitInv == Init => IInv
<1> SUFFICES ASSUME Init PROVE IInv
    OBVIOUS
<1>1. TypeOK
    BY DownTypes DEF Init, TypeOK
<1>2. CliInv /\ SchedInv /\ MemoryMirrorsDisk /\ Durable /\ OwnHandlersInstalled
    BY DEF Init, CliInv, SchedInv, MemoryMirrorsDisk, Durable, OwnHandlersInstalled
<1> QED
    BY <1>1, <1>2 DEF IInv

(* load_from_db() builds memory from the rows.                             *)
LEMMA BootInv == IInv /\ Boot => IInv'
<1> SUFFICES ASSUME IInv, Boot PROVE IInv'
    OBVIOUS
<1> USE DEF IInv, Boot, SeededRows, Built, cliVars, schedVars
<1>1. rows' \in [DeviceIds -> Models \cup {NoModel}]
    BY DEF TypeOK
<1>2. \A d \in DeviceIds : rows'[d] \in Supported =>
          LET o == [gen |-> 0, id |-> d, model |-> rows'[d]]
          IN  devices'[d] = o /\ o \in Object /\ o # NoObject /\ o.model = rows'[d]
    BY <1>1, ObjectFacts
<1>3. \A d \in DeviceIds : rows'[d] \notin Supported => devices'[d] = NoObject
    OBVIOUS
<1>4. devices' \in [DeviceIds -> Object \cup {NoObject}]
    BY <1>2, <1>3
<1>5. handlers' \in [DeviceIds -> [EventTypes -> Object \cup {NoObject}]]
    BY <1>4
<1>6. TypeOK'
    BY <1>1, <1>4, <1>5 DEF TypeOK
<1>7. CliInv' /\ SchedInv'
    BY DEF CliInv, SchedInv
<1>8. MemoryMirrorsDisk'
    BY <1>2, <1>3 DEF MemoryMirrorsDisk
<1>9. Durable'
    BY DEF Durable, TypeOK
<1>10. OwnHandlersInstalled'
    BY <1>1, <1>2, <1>3 DEF OwnHandlersInstalled
<1> QED
    BY <1>6, <1>7, <1>8, <1>9, <1>10

(* A crash keeps the rows and what the user was told.                      *)
LEMMA CrashInv == IInv /\ Crash => IInv'
<1> SUFFICES ASSUME IInv, Crash PROVE IInv'
    OBVIOUS
<1> USE DEF IInv, Crash
<1>1. TypeOK'
    BY DownTypes DEF TypeOK
<1>2. (CliInv /\ SchedInv /\ MemoryMirrorsDisk /\ Durable /\ OwnHandlersInstalled)'
    BY DEF CliInv, SchedInv, MemoryMirrorsDisk, Durable, OwnHandlersInstalled
<1> QED
    BY <1>1, <1>2

(* add_device() starts: the new object is nowhere but in the CLI thread.   *)
LEMMA AddCheckInv ==
    ASSUME NEW d \in DeviceIds, NEW m \in Models, IInv, AddCheck(d, m)
    PROVE  IInv'
<1> USE DEF IInv, AddCheck, schedVars
<1>1. made' \in 0..MaxObjects
  <2>1. made \in 0..MaxObjects /\ made' = made + 1 /\ made < MaxObjects
      BY DEF TypeOK
  <2> HIDE DEF AddCheck, IInv
  <2> QED
      BY <2>1
<1>2. cliObj' \in Object /\ cliObj'.id = d /\ cliObj'.model = m
    BY <1>1, ObjectFacts
<1>3. TypeOK'
    BY <1>1, <1>2 DEF TypeOK
<1>4. CliInv'
    BY <1>2 DEF CliInv, TypeOK
<1>5. (SchedInv /\ MemoryMirrorsDisk /\ OwnHandlersInstalled)'
    BY DEF SchedInv, MemoryMirrorsDisk, OwnHandlersInstalled
<1>6. Durable'
    BY DEF Durable, TypeOK
<1> QED
    BY <1>3, <1>4, <1>5, <1>6

(* Registration overwrites the handlers of one id, which has no device in  *)
(* devices_ yet.                                                           *)
LEMMA AddRegisterInv == IInv /\ AddRegister => IInv'
<1> SUFFICES ASSUME IInv, AddRegister PROVE IInv'
    OBVIOUS
<1> USE DEF IInv, AddRegister, schedVars
<1>1. /\ cliDev \in DeviceIds /\ cliObj \in Object /\ cliObj.id = cliDev
      /\ cliObj.model \in Supported /\ devices[cliDev] = NoObject
    BY DEF CliInv
<1>2. handlers' \in [DeviceIds -> [EventTypes -> Object \cup {NoObject}]]
  <2>1. handlers \in [DeviceIds -> [EventTypes -> Object \cup {NoObject}]]
      BY DEF TypeOK
  <2>2. [t \in EventTypes |-> IF t \in Handles[cliObj.model] THEN cliObj
                                 ELSE handlers[cliDev][t]]
            \in [EventTypes -> Object \cup {NoObject}]
      BY <1>1, <2>1
  <2>3. handlers' = [handlers EXCEPT ![cliDev] =
            [t \in EventTypes |-> IF t \in Handles[cliObj.model] THEN cliObj
                                    ELSE handlers[cliDev][t]]]
      BY <1>1 DEF Registered
  <2> HIDE DEF AddRegister, IInv
  <2> QED
      BY <2>1, <2>2, <2>3
<1>3. \A t \in Handles[cliObj.model] : handlers'[cliDev][t] = cliObj
    BY <1>1 DEF Registered, TypeOK
<1>4. \A d \in DeviceIds : d # cliDev => handlers'[d] = handlers[d]
    BY <1>1 DEF Registered, TypeOK
<1>5. TypeOK'
    BY <1>2 DEF TypeOK
<1>6. CliInv'
    BY <1>1, <1>3 DEF CliInv
<1>7. (SchedInv /\ MemoryMirrorsDisk /\ Durable)'
    BY DEF SchedInv, MemoryMirrorsDisk, Durable
<1>8. OwnHandlersInstalled'
    BY <1>1, <1>4 DEF OwnHandlersInstalled
<1> QED
    BY <1>5, <1>6, <1>7, <1>8

(* The row is stored, or the command is refused because there is one.      *)
LEMMA AddInsertInv == IInv /\ AddInsert => IInv'
<1> SUFFICES ASSUME IInv, AddInsert PROVE IInv'
    OBVIOUS
<1> USE DEF IInv, AddInsert, schedVars
<1>1. /\ cliDev \in DeviceIds /\ cliObj \in Object /\ cliObj.id = cliDev
      /\ cliObj.model \in Supported /\ cliObj.model \in Models
      /\ devices[cliDev] = NoObject
    BY DEF CliInv
<1>2. TypeOK'
    BY <1>1 DEF TypeOK
<1>3. CliInv'
  <2>1. CASE rows[cliDev] = NoModel
    <3>1. rows'[cliDev] = cliObj.model
        BY <1>1, <2>1 DEF TypeOK
    <3>2. \A t \in Handles[cliObj.model] : handlers[cliDev][t] = cliObj
        BY DEF CliInv
    <3> QED
        BY <1>1, <2>1, <3>1, <3>2 DEF CliInv
  <2>2. CASE rows[cliDev] # NoModel
      BY <2>2 DEF CliInv
  <2> QED
      BY <2>1, <2>2
<1>4. SchedInv' /\ OwnHandlersInstalled'
    BY DEF SchedInv, OwnHandlersInstalled
<1>5. MemoryMirrorsDisk'
    BY <1>1 DEF MemoryMirrorsDisk, TypeOK
<1>6. Durable'
    BY <1>1 DEF Durable, CliInv, TypeOK
<1> QED
    BY <1>2, <1>3, <1>4, <1>5, <1>6

(* The device appears in memory after its row and its handlers.            *)
LEMMA AddEmplaceInv == IInv /\ AddEmplace => IInv'
<1> SUFFICES ASSUME IInv, AddEmplace PROVE IInv'
    OBVIOUS
<1> USE DEF IInv, AddEmplace, schedVars
<1>1. /\ cliDev \in DeviceIds /\ cliObj \in Object /\ cliObj # NoObject
      /\ cliObj.model \in Supported /\ rows[cliDev] = cliObj.model
      /\ \A t \in Handles[cliObj.model] : handlers[cliDev][t] = cliObj
    BY DEF CliInv, Object
<1>2. TypeOK'
    BY <1>1 DEF TypeOK
<1>3. CliInv' /\ SchedInv'
    BY DEF CliInv, SchedInv
<1>4. MemoryMirrorsDisk'
    BY <1>1 DEF MemoryMirrorsDisk, TypeOK
<1>5. Durable'
    BY <1>1 DEF Durable, TypeOK
<1>6. OwnHandlersInstalled'
    BY <1>1 DEF OwnHandlersInstalled, TypeOK
<1> QED
    BY <1>2, <1>3, <1>4, <1>5, <1>6

(* remove_device() starts: nothing but the CLI thread has changed.         *)
LEMMA RemoveBeginInv ==
    ASSUME NEW d \in DeviceIds, IInv, RemoveBegin(d)
    PROVE  IInv'
<1> USE DEF IInv, RemoveBegin, schedVars
<1>1. TypeOK'
    BY DEF TypeOK
<1>2. CliInv'
    BY DEF CliInv, TypeOK
<1>3. (SchedInv /\ MemoryMirrorsDisk /\ OwnHandlersInstalled)'
    BY DEF SchedInv, MemoryMirrorsDisk, OwnHandlersInstalled
<1>4. Durable'
    BY DEF Durable, TypeOK
<1> QED
    BY <1>1, <1>2, <1>3, <1>4

(* The row goes first; without a row there was no device in memory.        *)
LEMMA RemoveDeleteInv == IInv /\ RemoveDelete => IInv'
<1> SUFFICES ASSUME IInv, RemoveDelete PROVE IInv'
    OBVIOUS
<1> USE DEF IInv, RemoveDelete, schedVars
<1>1. cliDev \in DeviceIds /\ told[cliDev] = "nothing" /\ up
    BY DEF CliInv
<1>2. rows'[cliDev] = NoModel /\ \A d \in DeviceIds : d # cliDev => rows'[d] = rows[d]
    BY <1>1 DEF TypeOK
<1>3. TypeOK'
    BY DEF TypeOK
<1>4. CliInv'
    BY <1>1, <1>2 DEF CliInv
<1>5. SchedInv' /\ OwnHandlersInstalled'
    BY DEF SchedInv, OwnHandlersInstalled
<1>6. MemoryMirrorsDisk'
  <2>1. CASE rows[cliDev] = NoModel
    <3>1. \A d \in DeviceIds : rows'[d] = rows[d]
        BY <1>2, <2>1
    <3> QED
        BY <2>1, <3>1 DEF MemoryMirrorsDisk
  <2>2. CASE rows[cliDev] # NoModel
      BY <1>2, <2>2 DEF MemoryMirrorsDisk
  <2> QED
      BY <2>1, <2>2
<1>7. Durable'
    BY <1>1, <1>2 DEF Durable
<1> QED
    BY <1>3, <1>4, <1>5, <1>6, <1>7

(* The device goes last, when its row is gone.                             *)
LEMMA RemoveEraseInv == IInv /\ RemoveErase => IInv'
<1> SUFFICES ASSUME IInv, RemoveErase PROVE IInv'
    OBVIOUS
<1> USE DEF IInv, RemoveErase, schedVars
<1>1. cliDev \in DeviceIds /\ rows[cliDev] = NoModel /\ up
    BY DEF CliInv
<1>2. /\ devices'[cliDev] = NoObject
      /\ \A d \in DeviceIds : d # cliDev => devices'[d] = devices[d]
    BY <1>1 DEF TypeOK
<1>3. TypeOK'
    BY DEF TypeOK
<1>4. CliInv' /\ SchedInv'
    BY DEF CliInv, SchedInv
<1>5. MemoryMirrorsDisk'
    BY <1>1, <1>2 DEF MemoryMirrorsDisk
<1>6. Durable'
    BY <1>1 DEF Durable, TypeOK
<1>7. OwnHandlersInstalled'
    BY <1>2 DEF OwnHandlersInstalled
<1> QED
    BY <1>3, <1>4, <1>5, <1>6, <1>7

(* The scheduler and HTTP threads change nothing but their own variables.  *)
LEMMA ReadersInv == IInv /\ (Scheduler \/ Api) => IInv'
<1> SUFFICES ASSUME IInv, Scheduler \/ Api PROVE IInv'
    OBVIOUS
<1> USE DEF IInv, Scheduler, Api, Dispatch, RouteStateChange, RouteSingle,
            Handled, ApiSnapshot, ApiAnswered
<1>1. TypeOK' /\ SchedInv'
  <2> USE DEF SchedInv, TypeOK, cliVars, schedVars
  <2>1. CASE Api
    <3>1. api' \subseteq Object
      <4>1. \A d \in DeviceIds : devices[d] \in Object \cup {NoObject}
          OBVIOUS
      <4>2. api' = {} \/ api' = {devices[d] : d \in DeviceIds} \ {NoObject}
          BY <2>1
      <4> HIDE DEF IInv, TypeOK, SchedInv, Api, Scheduler
      <4> QED
          BY <4>1, <4>2
    <3>2. UNCHANGED <<rows, up, devices, handlers, made, cli, cliDev, cliObj, told,
                      sched, schedEv, schedObj, schedRef, gone>>
        BY <2>1
    <3> HIDE DEF Api, Scheduler
    <3> QED
        BY <3>1, <3>2
  <2>2. ASSUME NEW d \in DeviceIds, NEW t \in EventType, Dispatch(d, t)
        PROVE  TypeOK' /\ SchedInv'
    <3>1. schedEv' \in [dev : DeviceIds, type : EventType]
        BY <2>2
    <3>2. up /\ sched' = "route" /\ gone' = FALSE /\ UNCHANGED <<rows, up, devices, handlers, made,
              cli, cliDev, cliObj, told, schedObj, schedRef, api>>
        BY <2>2
    <3> HIDE DEF Dispatch, Scheduler, Api
    <3> QED
        BY <3>1, <3>2
  <2>3. CASE RouteStateChange
    <3>1. schedEv.dev \in DeviceIds
        BY <2>3
    <3>2. schedObj' \in Object \cup {NoObject}
        BY <2>3, <3>1
    <3>3. schedRef' \subseteq Object /\ (sched' = "update" => schedObj' \in schedRef')
        BY <2>3, <3>2
    <3> QED
        BY <2>3, <3>2, <3>3
  <2>4. CASE RouteSingle
    <3>1. schedEv.dev \in DeviceIds /\ schedEv.type \in EventTypes
        BY <2>4 DEF EventType
    <3>2. handlers[schedEv.dev][schedEv.type] \in Object \cup {NoObject}
      <4>1. handlers \in [DeviceIds -> [EventTypes -> Object \cup {NoObject}]]
          OBVIOUS
      <4> HIDE DEF IInv, TypeOK, SchedInv, RouteSingle, Scheduler, Api
      <4> QED
          BY <3>1, <4>1
    <3>3. schedObj' \in Object \cup {NoObject}
        BY <2>4, <3>2
    <3> QED
        BY <2>4, <3>2, <3>3
  <2>5. CASE Handled
      BY <2>5
  <2> QED
      BY <2>1, <2>2, <2>3, <2>4, <2>5
<1>2. UNCHANGED <<rows, up, devices, handlers, cliVars>>
    BY DEF cliVars
<1>3. (CliInv /\ MemoryMirrorsDisk /\ Durable /\ OwnHandlersInstalled)'
    BY <1>2 DEF CliInv, MemoryMirrorsDisk, Durable, OwnHandlersInstalled, cliVars
<1> QED
    BY <1>1, <1>3

(* The inductive invariant of the registry.                                *)
THEOREM Invariance == Spec => []IInv
<1>1. IInv /\ [Next]_vars => IInv'
  <2> SUFFICES ASSUME IInv, [Next]_vars PROVE IInv'
      OBVIOUS
  <2>1. CASE Boot \/ Crash
      BY <2>1, BootInv, CrashInv
  <2>2. CASE Cli
      BY <2>2, AddCheckInv, AddRegisterInv, AddInsertInv, AddEmplaceInv,
         RemoveBeginInv, RemoveDeleteInv, RemoveEraseInv
      DEF Cli
  <2>3. CASE Scheduler \/ Api
      BY <2>3, ReadersInv
  <2>4. CASE UNCHANGED vars
    <3>1. TypeOK'
        BY <2>4 DEF vars, IInv, TypeOK
    <3>2. (CliInv /\ SchedInv)'
        BY <2>4 DEF vars, IInv, CliInv, SchedInv
    <3>3. (MemoryMirrorsDisk /\ Durable /\ OwnHandlersInstalled)'
        BY <2>4 DEF vars, IInv, MemoryMirrorsDisk, Durable, OwnHandlersInstalled
    <3> QED
        BY <3>1, <3>2, <3>3 DEF IInv
  <2> QED
      BY <2>1, <2>2, <2>3, <2>4 DEF Next
<1> QED
    BY InitInv, <1>1, PTL DEF Spec

(* Type correctness.                                                       *)
THEOREM TypeCorrect == Spec => []TypeOK
BY Invariance, PTL DEF IInv

(* devices_ is the set of supported rows, outside the step of the one      *)
(* command that is between them.                                           *)
THEOREM Mirrored == Spec => []MemoryMirrorsDisk
BY Invariance, PTL DEF IInv

(* What the user was told survives any sequence of crashes and restarts.   *)
THEOREM Durability == Spec => []Durable
BY Invariance, PTL DEF IInv

(* A device in devices_ is the one its own events reach.                   *)
THEOREM OwnHandlers == Spec => []OwnHandlersInstalled
BY Invariance, PTL DEF IInv

-----------------------------------------------------------------------------
(* Which object a handler, or a state change, works on.                    *)

(* Until its device is erased the event under way has one; its handler was *)
(* found in the table when that table held the device's own, or its object *)
(* in devices_.                                                            *)
CallInv ==
    /\ sched # "idle" /\ ~gone => devices[schedEv.dev] # NoObject
    /\ sched = "update" /\ ~gone => schedObj = devices[schedEv.dev]
    /\ HandlerOfOwnDevice

(* add_device() fills only empty places, so it takes no device from under  *)
(* an event; remove_device() is what `gone` records.                       *)
LEMMA CallStep == IInv /\ CallInv /\ [Next]_vars => CallInv'
<1> SUFFICES ASSUME IInv, CallInv, [Next]_vars PROVE CallInv'
    OBVIOUS
<1>1. CASE UNCHANGED <<devices, schedVars>>
    BY <1>1 DEF CallInv, HandlerOfOwnDevice, schedVars
<1>2. CASE Boot
    BY <1>2 DEF Boot, schedVars, CallInv, HandlerOfOwnDevice, IInv, SchedInv
<1>3. CASE Crash
    BY <1>3 DEF Crash, CallInv, HandlerOfOwnDevice
<1>4. CASE AddEmplace
  <2>1. /\ devices[cliDev] = NoObject
        /\ \A d \in DeviceIds : d # cliDev => devices'[d] = devices[d]
        /\ UNCHANGED <<sched, schedEv, schedObj, gone>>
      BY <1>4 DEF AddEmplace, schedVars, IInv, CliInv, TypeOK
  <2>2. sched # "idle" => schedEv.dev \in DeviceIds
      BY DEF IInv, SchedInv
  <2> QED
      BY <2>1, <2>2 DEF CallInv, HandlerOfOwnDevice
<1>5. CASE RemoveErase
  <2>1. /\ \A d \in DeviceIds : d # cliDev => devices'[d] = devices[d]
        /\ gone' = (gone \/ schedEv.dev = cliDev)
        /\ UNCHANGED <<sched, schedEv, schedObj>>
      BY <1>5 DEF RemoveErase, IInv, TypeOK
  <2>2. sched # "idle" => schedEv.dev \in DeviceIds
      BY DEF IInv, SchedInv
  <2> QED
      BY <2>1, <2>2 DEF CallInv, HandlerOfOwnDevice
<1>6. CASE RouteSingle
  <2>1. ~gone => devices[schedEv.dev] # NoObject /\ schedEv.dev \in DeviceIds
      BY <1>6 DEF RouteSingle, CallInv, IInv, SchedInv
  <2>2. ~gone /\ schedEv.type \in Handles[devices[schedEv.dev].model]
            => handlers[schedEv.dev][schedEv.type] = devices[schedEv.dev]
      BY <2>1 DEF IInv, OwnHandlersInstalled
  <2> QED
      BY <1>6, <2>1, <2>2 DEF RouteSingle, CallInv, HandlerOfOwnDevice
<1>7. CASE Scheduler /\ ~RouteSingle
    BY <1>7 DEF Scheduler, Dispatch, RouteStateChange, Handled, CallInv, HandlerOfOwnDevice
<1>8. CASE Cli /\ ~AddEmplace /\ ~RemoveErase
    BY <1>1, <1>8 DEF Cli, AddCheck, AddRegister, AddInsert, RemoveBegin, RemoveDelete
<1>9. CASE Api
    BY <1>1, <1>9 DEF Api, ApiSnapshot, ApiAnswered
<1> QED
    BY <1>1, <1>2, <1>3, <1>4, <1>5, <1>6, <1>7, <1>8, <1>9 DEF Next, vars, schedVars

(* Only the two documented ways lead a handler to another object than the  *)
(* device its event was for, and so to a freed one.                        *)
THEOREM HandlerOwner == Spec => []HandlerOfOwnDevice
<1>1. Init => CallInv
    BY DEF Init, CallInv, HandlerOfOwnDevice
<1> QED
    BY <1>1, CallStep, Invariance, PTL DEF Spec, CallInv

-----------------------------------------------------------------------------
(* The refinement of DeviceCatalog.                                        *)

(* devices_ files each object under its own id.                            *)
Filed == \A d \in DeviceIds : devices[d] # NoObject => devices[d].id = d

LEMMA FiledStep == IInv /\ Filed /\ [Next]_vars => Filed'
<1> SUFFICES ASSUME IInv, Filed, [Next]_vars PROVE Filed'
    OBVIOUS
<1>1. CASE UNCHANGED devices
    BY <1>1 DEF Filed
<1>2. CASE Boot
  <2> SUFFICES ASSUME NEW d \in DeviceIds, devices'[d] # NoObject
               PROVE  devices'[d].id = d
      BY DEF Filed
  <2>1. devices'[d] = [gen |-> 0, id |-> d, model |-> rows'[d]]
      BY <1>2 DEF Boot, Built
  <2> QED
      BY <2>1
<1>3. CASE Crash
    BY <1>3 DEF Crash, Filed
<1>4. CASE AddEmplace
    BY <1>4 DEF AddEmplace, Filed, IInv, CliInv, TypeOK
<1>5. CASE RemoveErase
    BY <1>5 DEF RemoveErase, Filed, IInv, CliInv, TypeOK
<1>6. CASE Cli /\ ~AddEmplace /\ ~RemoveErase
    BY <1>1, <1>6 DEF Cli, AddCheck, AddRegister, AddInsert, RemoveBegin, RemoveDelete
<1>7. CASE Scheduler \/ Api
    BY <1>1, <1>7 DEF Scheduler, Api, Dispatch, RouteStateChange, RouteSingle, Handled,
                      ApiSnapshot, ApiAnswered
<1> QED
    BY <1>1, <1>2, <1>3, <1>4, <1>5, <1>6, <1>7 DEF Next, vars

(* The list the HTTP thread copies is the supported part of the rows.      *)
LEMMA SnapshotIsCatalog ==
    ASSUME IInv, Filed, ApiSnapshot
    PROVE  {[id |-> o.id, model |-> o.model] : o \in api'} = Catalog!OnView
<1> DEFINE Shown == {d \in DeviceIds : rows[d] \in Supported}
<1>1. \A d \in DeviceIds :
        /\ d \in Shown <=> devices[d] # NoObject
        /\ d \in Shown => devices[d].id = d /\ devices[d].model = rows[d]
    BY DEF IInv, MemoryMirrorsDisk, Filed, ApiSnapshot, MutexFree
<1>2. api' = {devices[d] : d \in Shown}
    BY <1>1 DEF ApiSnapshot
<1>3. {[id |-> o.id, model |-> o.model] : o \in api'}
        = {[id |-> devices[d].id, model |-> devices[d].model] : d \in Shown}
    BY <1>2
<1>4. {[id |-> devices[d].id, model |-> devices[d].model] : d \in Shown}
        = {[id |-> d, model |-> rows[d]] : d \in Shown}
    BY <1>1
<1> QED
    BY <1>3, <1>4 DEF Catalog!OnView

(* Every step is a step of the catalog, or leaves it as it is.             *)
LEMMA CatalogStep == IInv /\ Filed /\ [Next]_vars => [Catalog!Next]_Catalog!vars
<1> SUFFICES ASSUME IInv, Filed, [Next]_vars PROVE [Catalog!Next]_Catalog!vars
    OBVIOUS
<1>1. CASE UNCHANGED <<rows, up, api>>
    BY <1>1 DEF Catalog!vars
<1>2. CASE Boot
    BY <1>2 DEF Boot, SeededRows, Catalog!Next, Catalog!Start
<1>3. CASE Crash
  <2>1. {[id |-> o.id, model |-> o.model] : o \in api'} = {}
      BY <1>3 DEF Crash
  <2> QED
      BY <1>3, <2>1 DEF Crash, Catalog!Next, Catalog!Stop
<1>4. CASE AddInsert
  <2>1. CASE rows[cliDev] = NoModel
    <3>1. /\ up /\ cliDev \in DeviceIds
          /\ cliObj.model \in Supported /\ cliObj.model \in Models
        BY <1>4 DEF AddInsert, IInv, CliInv
    <3>2. Catalog!Add(cliDev, cliObj.model)
        BY <1>4, <2>1, <3>1 DEF AddInsert, Catalog!Add
    <3> QED
        BY <3>1, <3>2 DEF Catalog!Next
  <2>2. CASE rows[cliDev] # NoModel
      BY <1>1, <1>4, <2>2 DEF AddInsert
  <2> QED
      BY <2>1, <2>2
<1>5. CASE RemoveDelete
  <2>1. up /\ cliDev \in DeviceIds
      BY <1>5 DEF RemoveDelete, IInv, CliInv
  <2>2. Catalog!Remove(cliDev)
      BY <1>5, <2>1 DEF RemoveDelete, Catalog!Remove
  <2> QED
      BY <2>1, <2>2 DEF Catalog!Next
<1>6. CASE ApiSnapshot
    BY <1>6, SnapshotIsCatalog DEF ApiSnapshot, Catalog!Next, Catalog!Look
<1>7. CASE ApiAnswered
  <2>1. {[id |-> o.id, model |-> o.model] : o \in api'} = {}
      BY <1>7 DEF ApiAnswered
  <2> QED
      BY <1>7, <2>1 DEF ApiAnswered, Catalog!Next, Catalog!Answered
<1>8. CASE Cli /\ ~AddInsert /\ ~RemoveDelete
    BY <1>1, <1>8 DEF Cli, AddCheck, AddRegister, AddEmplace, RemoveBegin, RemoveErase
<1>9. CASE Scheduler
    BY <1>1, <1>9 DEF Scheduler, Dispatch, RouteStateChange, RouteSingle, Handled
<1> QED
    BY <1>1, <1>2, <1>3, <1>4, <1>5, <1>6, <1>7, <1>8, <1>9 DEF Next, Api, vars

(* The registry implements DeviceCatalog: each command takes effect in one *)
(* step, and the HTTP thread never sees half of one.                       *)
THEOREM CatalogImplemented == Spec => ImplementsCatalog
<1>1. Init => Filed /\ Catalog!Init
    BY DEF Init, Filed, Catalog!Init
<1>2. IInv /\ Filed /\ [Next]_vars => Filed' /\ [Catalog!Next]_Catalog!vars
    BY FiledStep, CatalogStep
<1> QED
    BY <1>1, <1>2, Invariance, PTL DEF Spec, ImplementsCatalog, Catalog!Spec

(* The share that get_device_shared() takes keeps the object of a state    *)
(* change allocated while its device is removed or replaced; it is the     *)
(* device's own unless that has happened.                                  *)
THEOREM StateChangeSafety == Spec => []StateChangeOnLiveObject
<1>1. Init => CallInv
    BY DEF Init, CallInv, HandlerOfOwnDevice
<1>2. IInv /\ CallInv => StateChangeOnLiveObject
    BY DEF IInv, SchedInv, CallInv, StateChangeOnLiveObject, Alive
<1> QED
    BY <1>1, <1>2, CallStep, Invariance, PTL DEF Spec
=============================================================================
