--------------------------- MODULE IpManagerProofs ---------------------------
(* Proofs about IpManager, for any ids and any first byte.                 *)
EXTENDS IpManager, TLAPS

IInv == TypeOK /\ PoolPartitioned

(* The map hands out bytes of the pool only, and 0 is not one of them.     *)
LEMMA NoByteOutside == NoByte \notin Pool /\ Pool \subseteq Int
BY IpAssumption DEF NoByte, Pool

(* An assignment moves one byte from the free ones to the used ones.       *)
LEMMA AssignInv ==
    ASSUME NEW d \in DeviceIds, IInv, Assign(d)
    PROVE  IInv'
<1> USE NoByteOutside DEF IInv
<1>1. PICK b \in available : /\ available' = available \ {b}
                             /\ byteOf' = [byteOf EXCEPT ![d] = b]
    BY DEF Assign
<1>2. b \in Pool \ Used /\ b # NoByte /\ byteOf[d] = NoByte
    BY DEF PoolPartitioned, Assign, TypeOK
<1>3. byteOf'[d] = b /\ \A e \in DeviceIds : e # d => byteOf'[e] = byteOf[e]
    BY <1>1 DEF TypeOK
<1>4. TypeOK'
    BY <1>1, <1>2 DEF TypeOK
<1>5. Used' = Used \cup {b}
    BY <1>2, <1>3 DEF Used
<1>6. PoolPartitioned'
    BY <1>1, <1>2, <1>3, <1>5 DEF PoolPartitioned, Used
<1> QED
    BY <1>4, <1>6

(* A removal gives the byte back; nobody else held it.                     *)
LEMMA RemoveInv ==
    ASSUME NEW d \in DeviceIds, IInv, Remove(d)
    PROVE  IInv'
<1> USE NoByteOutside DEF IInv
<1>1. /\ byteOf'[d] = NoByte
      /\ \A e \in DeviceIds : e # d => byteOf'[e] = byteOf[e]
      /\ byteOf[d] \in Pool
    BY DEF Remove, TypeOK
<1>2. \A e \in DeviceIds : e # d => byteOf[e] # byteOf[d]
    BY DEF PoolPartitioned, Remove
<1>3. TypeOK'
    BY <1>1 DEF Remove, TypeOK
<1>4. Used' = Used \ {byteOf[d]}
    BY <1>1, <1>2 DEF Used
<1>5. PoolPartitioned'
    BY <1>1, <1>4 DEF PoolPartitioned, Remove
<1> QED
    BY <1>3, <1>5

(* The inductive invariant.                                                *)
THEOREM Invariance == Spec => []IInv
<1>1. ASSUME available = Pool, byteOf = [d \in DeviceIds |-> NoByte]
      PROVE  IInv
    BY <1>1, NoByteOutside DEF IInv, TypeOK, PoolPartitioned, Used
<1>2. Init => IInv
    BY <1>1 DEF Init
<1>3. IInv /\ [Next]_vars => IInv'
  <2> SUFFICES ASSUME IInv, [Next]_vars PROVE IInv'
      OBVIOUS
  <2>1. CASE Clear
      BY <2>1, NoByteOutside DEF Clear, IInv, TypeOK, PoolPartitioned, Used
  <2>2. CASE UNCHANGED vars
      BY <2>2 DEF vars, IInv, TypeOK, PoolPartitioned, Used
  <2> QED
      BY <2>1, <2>2, AssignInv, RemoveInv DEF Next
<1> QED
    BY <1>2, <1>3, PTL DEF Spec

(* The variables keep their types.                                         *)
THEOREM TypeCorrect == Spec => []TypeOK
BY Invariance, PTL DEF IInv

(* No byte leaks, none is used twice.                                      *)
THEOREM Partitioned == Spec => []PoolPartitioned
BY Invariance, PTL DEF IInv

(* A step never changes a byte in use and hands out the lowest free one.   *)
THEOREM Lowest == Spec => LowestFreeByte
<1> DEFINE Change ==
        \A d \in DeviceIds : byteOf'[d] \notin {byteOf[d], NoByte} =>
            /\ byteOf[d] = NoByte
            /\ \A b \in Pool : b < byteOf'[d] => b \in Used
<1>1. IInv /\ [Next]_vars => [Change]_vars
  <2> SUFFICES ASSUME IInv, Next PROVE Change
      OBVIOUS
  <2>1. CASE Clear
      BY <2>1 DEF Clear
  <2>2. ASSUME NEW d \in DeviceIds, Assign(d) PROVE Change
    <3>1. PICK b \in available : /\ \A c \in available : b <= c
                                 /\ byteOf' = [byteOf EXCEPT ![d] = b]
        BY <2>2 DEF Assign
    <3>2. \A c \in Pool : c < b => c \in Used
        BY <3>1, NoByteOutside DEF IInv, TypeOK, PoolPartitioned
    <3>3. byteOf[d] = NoByte /\ byteOf'[d] = b
        BY <2>2, <3>1 DEF Assign, IInv, TypeOK
    <3>4. \A e \in DeviceIds : e # d => byteOf'[e] = byteOf[e]
        BY <3>1 DEF IInv, TypeOK
    <3> QED
        BY <3>2, <3>3, <3>4
  <2>3. ASSUME NEW d \in DeviceIds, Remove(d) PROVE Change
      BY <2>3 DEF Remove, IInv, TypeOK
  <2> QED
      BY <2>1, <2>2, <2>3 DEF Next
<1> QED
    BY <1>1, Invariance, PTL DEF Spec, LowestFreeByte
=============================================================================
