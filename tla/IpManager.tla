------------------------------ MODULE IpManager ------------------------------
(***************************************************************************)
(* core/ip_manager: the pool of local IP bytes REST devices draw from.     *)
(* Every method runs under mutex_ from its first read to its last write,   *)
(* so a call is one step, whatever thread makes it.  Calls that throw (an  *)
(* empty id, an exhausted pool) or find nothing to do change nothing.      *)
(***************************************************************************)
EXTENDS Integers

CONSTANTS
    DeviceIds,     \* ids handed to the manager
    FirstIpByte    \* constructor argument

ASSUME IpAssumption == FirstIpByte \in 2..254

VARIABLES
    available,   \* available_ip_bytes_
    byteOf       \* ip_byte_by_device_id_; NoByte when there is no entry

vars == <<available, byteOf>>

(* build_pool(): the constructor throws outside 2..254. *)
Pool == FirstIpByte..254

NoByte == 0

Init ==
    /\ available = Pool
    /\ byteOf = [d \in DeviceIds |-> NoByte]

(* assign_ip_byte() for an id without a byte: begin() of the ordered set.  *)
Assign(d) ==
    /\ byteOf[d] = NoByte
    /\ \E b \in available :
        /\ \A c \in available : b <= c
        /\ available' = available \ {b}
        /\ byteOf' = [byteOf EXCEPT ![d] = b]

(* Mutation: the byte does not go back to the pool. *)
RemoveLeaks(d) ==
    /\ byteOf[d] # NoByte
    /\ byteOf' = [byteOf EXCEPT ![d] = NoByte]
    /\ UNCHANGED available

Remove(d) ==
    /\ byteOf[d] # NoByte
    /\ available' = available \cup {byteOf[d]}
    /\ byteOf' = [byteOf EXCEPT ![d] = NoByte]

Clear ==
    /\ byteOf' = [d \in DeviceIds |-> NoByte]
    /\ available' = Pool

Next == Clear \/ \E d \in DeviceIds : Assign(d) \/ Remove(d)

Spec == Init /\ [][Next]_vars

-----------------------------------------------------------------------------
Used == {byteOf[d] : d \in DeviceIds} \ {NoByte}

(* Types of the variables. *)
TypeOK ==
    /\ available \subseteq Pool
    /\ byteOf \in [DeviceIds -> Pool \cup {NoByte}]

(* No byte leaks and none is handed out twice: the free bytes and the used *)
(* ones split the pool, and no two devices use the same one.               *)
PoolPartitioned ==
    /\ available = Pool \ Used
    /\ \A d, e \in DeviceIds : byteOf[d] = byteOf[e] /\ byteOf[d] # NoByte => d = e

(* A device that keeps its entry keeps its byte, and a device gets the     *)
(* lowest byte no other device holds.                                      *)
LowestFreeByte ==
    [][\A d \in DeviceIds : byteOf'[d] \notin {byteOf[d], NoByte} =>
            /\ byteOf[d] = NoByte
            /\ \A b \in Pool : b < byteOf'[d] => b \in Used]_vars
=============================================================================
