--------------------------- MODULE ApiBridgeProofs ----------------------------
(* Proofs about ApiBridge: the cache catches up, for any devices, rooms,    *)
(* types and any number of messages under way.                              *)
EXTENDS ApiBridge, TLAPS

(* States that are published: variables of some type, with values.         *)
States == UNION {[V -> Values] : V \in SUBSET AllVariables}

StateTopics == {<<"home", r, d, "state">> : r \in Rooms, d \in DeviceIds}

Message == [topic : StateTopics, state : States]

TrafficOK ==
    /\ inbox \in Seq(Message)
    /\ \A c \in commands : c.key \in AllVariables /\ c.value \in Values

CacheOK == store \in [Names -> [DeviceIds -> States \cup {NoState}]]

Covers(d) ==
    /\ store[room[d]][d] # NoState
    /\ \A k \in DOMAIN state[d] : store[room[d]][d][k] = state[d][k]

About(i, d) == inbox[i].topic[3] = d

(* Message i is the last one on its way about d.                           *)
LastAbout(i, d) == About(i, d) /\ \A j \in 1..Len(inbox) : j > i => ~About(j, d)

(* The last message about a device that is heard tells where and how it    *)
(* is; if there is none, the cache knows.                                  *)
HeardIsTrue ==
    \A d \in heard :
        /\ room[d] # NoRoom
        /\ \A i \in 1..Len(inbox) : LastAbout(i, d) =>
               inbox[i].topic[2] = room[d] /\ inbox[i].state = state[d]
        /\ (\A i \in 1..Len(inbox) : ~About(i, d)) => Covers(d)

IInv == TypeOK /\ TrafficOK /\ CacheOK /\ HeardIsTrue

-----------------------------------------------------------------------------
LEMMA StateFacts ==
    ASSUME NEW s \in States
    PROVE  /\ s # NoState /\ DOMAIN s \subseteq AllVariables
           /\ s = [k \in DOMAIN s |-> s[k]] /\ \A k \in DOMAIN s : s[k] \in Values
BY BridgeAssumption DEF States, AllVariables

LEMMA MessageFacts ==
    ASSUME NEW m \in Message
    PROVE  m.topic[2] \in Names /\ m.topic[3] \in DeviceIds /\ m.state \in States
BY DEF Message, StateTopics, Names

(* Merging a state into the cache takes all of the state over.             *)
LEMMA MergedFacts ==
    ASSUME NEW old \in States \cup {NoState}, NEW patch \in States
    PROVE  /\ Merged(old, patch) \in States /\ Merged(old, patch) # NoState
           /\ \A k \in DOMAIN patch : Merged(old, patch)[k] = patch[k]
<1>1. CASE old = NoState
    BY <1>1, StateFacts DEF Merged
<1>2. CASE old # NoState
  <2> DEFINE V == DOMAIN old \cup DOMAIN patch
             s == [k \in V |-> IF k \in DOMAIN patch THEN patch[k] ELSE old[k]]
  <2>1. V \subseteq AllVariables
      BY <1>2, StateFacts
  <2>2. s \in [V -> Values]
      BY <1>2, StateFacts
  <2>3. s \in States
      BY <2>1, <2>2 DEF States
  <2>4. Merged(old, patch) = s
      BY <1>2 DEF Merged
  <2>5. \A k \in DOMAIN patch : s[k] = patch[k]
      OBVIOUS
  <2> QED
      BY <2>3, <2>4, <2>5, StateFacts
<1> QED
    BY <1>1, <1>2

-----------------------------------------------------------------------------
(* A publication joins the end of the queue, or the device is not heard.   *)
LEMMA UpdateStep ==
    ASSUME IInv, NEW d \in DeviceIds, NEW k \in AllVariables, NEW v \in Values,
           Update(d, k, v), commands' \subseteq commands
    PROVE  IInv'
<1>1. /\ room[d] # NoRoom /\ type[d] \in Types
      /\ state[d] \in [Variables[type[d]] -> Values]
      /\ room[d] \in Rooms
      /\ UNCHANGED <<room, type, link, store>>
    BY DEF IInv, TypeOK, Update
<1>2. /\ DOMAIN state' = DeviceIds
      /\ state'[d] \in [Variables[type[d]] -> Values]
      /\ \A e \in DeviceIds : e # d => state'[e] = state[e]
  <2>1. CASE k \in DOMAIN state[d]
    <3>1. state' = [state EXCEPT ![d] = [@ EXCEPT ![k] = v]]
        BY <2>1 DEF Update
    <3>2. [state[d] EXCEPT ![k] = v] \in [Variables[type[d]] -> Values]
        BY <1>1
    <3> QED
        BY <3>1, <3>2 DEF IInv, TypeOK
  <2>2. CASE k \notin DOMAIN state[d]
      BY <1>1, <2>2 DEF IInv, TypeOK, Update
  <2> QED
      BY <2>1, <2>2
<1>3. state'[d] \in States
    BY <1>1, <1>2 DEF States, AllVariables
<1>4. CASE link = "subscribed"
  <2> DEFINE m == [topic |-> StateTopic(d), state |-> state'[d]]
  <2>0. PICK n \in Nat : n = Len(inbox)
      BY DEF IInv, TrafficOK
  <2>1. /\ inbox' = Append(inbox, m) /\ heard' = heard \cup {d}
        /\ n \in Nat /\ n < MaxFlight
      BY <1>4, <2>0 DEF IInv, TypeOK, TrafficOK, Update
  <2>2. m \in Message /\ m.topic[2] = room[d] /\ m.topic[3] = d /\ m.state = state'[d]
      BY <1>1, <1>3 DEF Message, StateTopics, StateTopic
  <2> HIDE DEF m
  <2>3. /\ inbox' \in Seq(Message) /\ Len(inbox') = n + 1
        /\ inbox'[n + 1] = m
        /\ \A i \in 1..n : inbox'[i] = inbox[i]
      BY <2>0, <2>1, <2>2 DEF IInv, TrafficOK
  <2>4. TypeOK'
      BY <1>1, <1>2, <1>4, <2>1, <2>3, BridgeAssumption DEF IInv, TypeOK
  <2>5. TrafficOK' /\ CacheOK'
      BY <1>1, <2>3 DEF IInv, TrafficOK, CacheOK
  <2>6. HeardIsTrue'
    <3> SUFFICES ASSUME NEW e \in heard'
                 PROVE  /\ room[e] # NoRoom
                        /\ \A i \in 1..Len(inbox') : LastAbout(i, e)' =>
                              inbox'[i].topic[2] = room[e] /\ inbox'[i].state = state'[e]
                        /\ (\A i \in 1..Len(inbox') : ~About(i, e)') => Covers(e)'
        BY <1>1 DEF HeardIsTrue
    <3>1. CASE e = d
      <4>1. About(n + 1, d)' /\ n + 1 \in 1..Len(inbox')
          BY <2>1, <2>2, <2>3 DEF About
      <4>2. \A i \in 1..Len(inbox') : LastAbout(i, d)' => i = n + 1
          BY <2>1, <2>3, <4>1 DEF LastAbout
      <4> QED
          BY <1>1, <2>2, <2>3, <3>1, <4>1, <4>2
    <3>2. CASE e # d
      <4>1. e \in heard /\ e \in DeviceIds /\ state'[e] = state[e]
          BY <1>2, <2>1, <3>2 DEF IInv, TypeOK
      <4>2. ~About(n + 1, e)' /\ \A i \in 1..n : About(i, e)' <=> About(i, e)
          BY <2>2, <2>3, <3>2 DEF About
      <4>3. \A i \in 1..Len(inbox') : LastAbout(i, e)' => i \in 1..n /\ LastAbout(i, e)
          BY <2>0, <2>1, <2>3, <4>2 DEF LastAbout
      <4>4. Covers(e)' <=> Covers(e)
          BY <1>1, <4>1 DEF Covers
      <4>5. \A i \in 1..n : i \in 1..Len(inbox')
          BY <2>1, <2>3
      <4> QED
          BY <1>1, <2>0, <2>3, <4>1, <4>2, <4>3, <4>4, <4>5 DEF IInv, HeardIsTrue
    <3> QED
        BY <3>1, <3>2
  <2> QED
      BY <2>4, <2>5, <2>6 DEF IInv
<1>5. CASE link # "subscribed"
  <2>1. heard' = heard \ {d} /\ inbox' = inbox
      BY <1>5 DEF Update
  <2>2. TypeOK' /\ TrafficOK' /\ CacheOK'
      BY <1>1, <1>2, <2>1 DEF IInv, TypeOK, TrafficOK, CacheOK
  <2>3. \A e \in heard' : e \in heard /\ state'[e] = state[e]
      BY <1>2, <2>1 DEF IInv, TypeOK
  <2>4. HeardIsTrue'
      BY <1>1, <2>1, <2>3 DEF IInv, HeardIsTrue, LastAbout, About, Covers
  <2> QED
      BY <2>2, <2>4 DEF IInv
<1> QED
    BY <1>4, <1>5

(* A device that appears is not heard yet; one that goes is not heard any  *)
(* more.                                                                   *)
LEMMA DeviceStep ==
    ASSUME IInv,
           \/ \E d \in DeviceIds, r \in Rooms, t \in Types : AddDevice(d, r, t)
           \/ \E d \in DeviceIds : RemoveDevice(d)
    PROVE  IInv'
<1>1. PICK d \in DeviceIds :
          /\ d \notin heard'
          /\ \A e \in DeviceIds : e # d => /\ room'[e] = room[e] /\ type'[e] = type[e]
                                           /\ state'[e] = state[e]
    BY DEF IInv, TypeOK, HeardIsTrue, AddDevice, RemoveDevice
<1>2. /\ UNCHANGED <<link, inbox, commands, store>> /\ heard' \subseteq heard
    BY DEF AddDevice, RemoveDevice
<1>3. TypeOK'
  <2>1. CASE \E e \in DeviceIds, r \in Rooms, t \in Types : AddDevice(e, r, t)
    <3>1. PICK e \in DeviceIds, r \in Rooms, t \in Types : AddDevice(e, r, t)
        BY <2>1
    <3>2. [k \in Variables[t] |-> Initial] \in [Variables[t] -> Values] /\ t # NoType
        BY BridgeAssumption
    <3> QED
        BY <3>1, <3>2 DEF AddDevice, IInv, TypeOK
  <2>2. CASE \E e \in DeviceIds : RemoveDevice(e)
      BY <2>2 DEF RemoveDevice, IInv, TypeOK
  <2> QED
      BY <2>1, <2>2
<1>4. TrafficOK' /\ CacheOK'
    BY <1>2 DEF IInv, TrafficOK, CacheOK
<1>5. \A e \in heard' : e \in heard /\ room'[e] = room[e] /\ state'[e] = state[e]
    BY <1>1, <1>2 DEF IInv, TypeOK
<1>6. HeardIsTrue'
    BY <1>2, <1>5 DEF IInv, HeardIsTrue, LastAbout, About, Covers
<1> QED
    BY <1>3, <1>4, <1>6 DEF IInv

(* The first message goes into the cache.  If it is the last about its     *)
(* device, the cache covers the device from then on.                       *)
LEMMA ReceiveStep == IInv /\ Receive => IInv'
<1> SUFFICES ASSUME IInv, Receive PROVE IInv'
    OBVIOUS
<1> DEFINE m == Head(inbox)
           c == m.topic[2]
           b == m.topic[3]
<1>1. /\ inbox \in Seq(Message) /\ inbox # <<>>
      /\ UNCHANGED <<room, type, state, link, commands, heard>>
      /\ inbox' = Tail(inbox)
      /\ store' = [store EXCEPT ![c][b] = Merged(store[c][b], m.state)]
    BY DEF IInv, TrafficOK, Receive
<1>2. /\ m = inbox[1] /\ m \in Message
      /\ Len(inbox) \in Nat /\ Len(inbox) >= 1
      /\ inbox' \in Seq(Message) /\ Len(inbox') = Len(inbox) - 1
      /\ \A i \in 1..Len(inbox') : inbox'[i] = inbox[i + 1]
    BY <1>1
<1>3. c \in Names /\ b \in DeviceIds /\ m.state \in States
    BY <1>2, MessageFacts
<1>4. /\ store[c][b] \in States \cup {NoState}
      /\ store' \in [Names -> [DeviceIds -> States \cup {NoState}]]
      /\ store'[c][b] # NoState
      /\ \A k \in DOMAIN m.state : store'[c][b][k] = m.state[k]
      /\ \A n \in Names, e \in DeviceIds : e # b => store'[n][e] = store[n][e]
  <2>1. store[c][b] \in States \cup {NoState}
      BY <1>3 DEF IInv, CacheOK
  <2>2. /\ Merged(store[c][b], m.state) \in States
        /\ Merged(store[c][b], m.state) # NoState
        /\ \A k \in DOMAIN m.state : Merged(store[c][b], m.state)[k] = m.state[k]
      BY <1>3, <2>1, MergedFacts
  <2> HIDE DEF m
  <2> QED
      BY <1>1, <1>3, <2>1, <2>2 DEF IInv, CacheOK
<1> HIDE DEF m
<1>5. TypeOK'
  <2>1. link = "subscribed"
      BY <1>1 DEF IInv, TypeOK
  <2>2. Len(inbox') <= MaxFlight
      BY <1>2, BridgeAssumption DEF IInv, TypeOK
  <2> QED
      BY <1>1, <2>1, <2>2 DEF IInv, TypeOK
<1>6. TrafficOK' /\ CacheOK'
    BY <1>1, <1>2, <1>4 DEF IInv, TrafficOK, CacheOK
<1>7. HeardIsTrue'
  <2> SUFFICES ASSUME NEW d \in heard
               PROVE  /\ room[d] # NoRoom
                      /\ \A i \in 1..Len(inbox') : LastAbout(i, d)' =>
                            inbox'[i].topic[2] = room[d] /\ inbox'[i].state = state[d]
                      /\ (\A i \in 1..Len(inbox') : ~About(i, d)') => Covers(d)'
      BY <1>1 DEF HeardIsTrue
  <2>1. d \in DeviceIds /\ room[d] # NoRoom /\ room[d] \in Names
      BY DEF IInv, TypeOK, HeardIsTrue, Names
  <2>2. \A i \in 1..Len(inbox') : i + 1 \in 1..Len(inbox) /\ (About(i, d)' <=> About(i + 1, d))
      BY <1>2 DEF About
  <2>3. \A j \in 1..Len(inbox) : j > 1 => j - 1 \in 1..Len(inbox') /\ (j - 1) + 1 = j
      BY <1>2
  <2>4. ASSUME NEW i \in 1..Len(inbox'), LastAbout(i, d)'
        PROVE  inbox'[i].topic[2] = room[d] /\ inbox'[i].state = state[d]
    <3>1. LastAbout(i + 1, d)
      <4>1. About(i + 1, d)
          BY <2>2, <2>4 DEF LastAbout
      <4>2. ASSUME NEW j \in 1..Len(inbox), j > i + 1 PROVE ~About(j, d)
        <5>1. j > 1 /\ j - 1 > i
            BY <4>2
        <5>2. ~About(j - 1, d)'
            BY <2>3, <2>4, <5>1 DEF LastAbout
        <5> QED
            BY <2>2, <2>3, <5>1, <5>2
      <4> QED
          BY <4>1, <4>2 DEF LastAbout
    <3> QED
        BY <1>2, <2>2, <3>1 DEF IInv, HeardIsTrue
  <2>5. ASSUME \A i \in 1..Len(inbox') : ~About(i, d)'
        PROVE  Covers(d)'
    <3>1. \A j \in 1..Len(inbox) : j > 1 => ~About(j, d)
        BY <2>2, <2>3, <2>5
    <3>2. CASE b = d
      <4>1. LastAbout(1, d) /\ 1 \in 1..Len(inbox)
          BY <1>2, <3>1, <3>2 DEF LastAbout, About
      <4>2. c = room[d] /\ m.state = state[d]
          BY <1>2, <4>1 DEF IInv, HeardIsTrue
      <4> QED
          BY <1>1, <1>4, <3>2, <4>2 DEF Covers
    <3>3. CASE b # d
      <4>1. \A i \in 1..Len(inbox) : ~About(i, d)
          BY <1>2, <3>1, <3>3 DEF About
      <4>2. Covers(d)
          BY <4>1 DEF IInv, HeardIsTrue
      <4>3. store'[room[d]][d] = store[room[d]][d]
          BY <1>4, <2>1, <3>3
      <4> QED
          BY <1>1, <4>2, <4>3 DEF Covers
    <3> QED
        BY <3>2, <3>3
  <2> QED
      BY <2>1, <2>4, <2>5
<1> QED
    BY <1>5, <1>6, <1>7 DEF IInv

(* A connection that breaks takes the messages under way with it.          *)
LEMMA BreakStep == IInv /\ (Lost \/ Restart) => IInv'
<1> SUFFICES ASSUME IInv, Lost \/ Restart PROVE IInv'
    OBVIOUS
<1>1. /\ UNCHANGED <<room, type, state>> /\ link' = "down" /\ inbox' = <<>>
      /\ commands' \subseteq commands
      /\ heard' \subseteq heard \ UnderWay
      /\ Restart => heard' = {}
    BY DEF Lost, Restart
<1>2. Len(inbox') = 0 /\ inbox' \in Seq(Message)
    BY <1>1
<1>3. TypeOK' /\ TrafficOK'
    BY <1>1, <1>2, BridgeAssumption DEF IInv, TypeOK, TrafficOK
<1>4. CacheOK'
    BY DEF IInv, CacheOK, Lost, Restart
<1>5. CASE Lost
  <2>1. \A d \in heard' : d \in heard /\ \A i \in 1..Len(inbox) : ~About(i, d)
      BY <1>1 DEF UnderWay, About, IInv, TrafficOK
  <2>2. store' = store
      BY <1>5 DEF Lost
  <2>3. \A d \in heard' : room[d] # NoRoom /\ Covers(d)'
      BY <1>1, <2>1, <2>2 DEF IInv, HeardIsTrue, Covers
  <2> QED
      BY <1>1, <1>2, <1>3, <1>4, <2>3 DEF IInv, HeardIsTrue
<1>6. CASE Restart
    BY <1>1, <1>3, <1>4, <1>6 DEF IInv, HeardIsTrue
<1> QED
    BY <1>5, <1>6

(* Connecting and posting change nothing the cache depends on.             *)
LEMMA QuietStep ==
    ASSUME IInv,
           \/ Connected \/ Subscribed
           \/ \E d \in DeviceIds, k \in AllVariables, v \in Values :
                 Direct(d, k, v) \/ \E n \in Names : Post(n, d, k, v)
           \/ UNCHANGED vars
    PROVE  IInv'
<1>1. /\ UNCHANGED <<room, type, state, inbox, store, heard>>
      /\ link' \in {"down", "connected", "subscribed"}
      /\ link' # "subscribed" => inbox = <<>>
    BY DEF Connected, Subscribed, Direct, Post, vars, IInv, TypeOK
<1>2. TypeOK' /\ CacheOK'
    BY <1>1 DEF IInv, TypeOK, CacheOK
<1>3. \A c \in commands' : c.key \in AllVariables /\ c.value \in Values
    BY DEF Connected, Subscribed, Direct, Post, vars, IInv, TrafficOK
<1>4. TrafficOK'
    BY <1>1, <1>3 DEF IInv, TrafficOK
<1>5. HeardIsTrue'
    BY <1>1 DEF IInv, HeardIsTrue, LastAbout, About, Covers
<1> QED
    BY <1>2, <1>4, <1>5 DEF IInv

-----------------------------------------------------------------------------
(* The inductive invariant.                                                *)
THEOREM Invariance == Spec => []IInv
<1>1. Init => IInv
  <2> SUFFICES ASSUME Init PROVE IInv
      OBVIOUS
  <2>1. Len(inbox) = 0 /\ inbox \in Seq(Message)
      BY DEF Init
  <2> QED
      BY <2>1, BridgeAssumption
         DEF Init, IInv, TypeOK, TrafficOK, CacheOK, HeardIsTrue
<1>2. IInv /\ [Next]_vars => IInv'
  <2> SUFFICES ASSUME IInv, [Next]_vars PROVE IInv'
      OBVIOUS
  <2>1. ASSUME NEW d \in DeviceIds, NEW k \in AllVariables, NEW v \in Values,
               LocalChange(d, k, v)
        PROVE  IInv'
      BY <2>1, UpdateStep DEF LocalChange
  <2>2. ASSUME NEW c \in commands, CommandArrives(c) PROVE IInv'
    <3>1. commands' \subseteq commands /\ c.key \in AllVariables /\ c.value \in Values
        BY <2>2 DEF CommandArrives, IInv, TrafficOK
    <3>2. CASE \E d \in DeviceIds : Update(d, c.key, c.value)
        BY <3>1, <3>2, UpdateStep
    <3>3. CASE UNCHANGED <<room, type, state, link, inbox, store, heard>>
        BY <3>1, <3>3 DEF IInv, TypeOK, TrafficOK, CacheOK, HeardIsTrue, LastAbout,
                          About, Covers
    <3> QED
        BY <2>2, <3>2, <3>3 DEF CommandArrives
  <2>3. CASE \/ \E d \in DeviceIds, r \in Rooms, t \in Types : AddDevice(d, r, t)
             \/ \E d \in DeviceIds : RemoveDevice(d)
      BY <2>3, DeviceStep
  <2>4. CASE Receive \/ Lost \/ Restart
      BY <2>4, ReceiveStep, BreakStep
  <2>5. CASE Connected \/ Subscribed \/ Client \/ UNCHANGED vars
      BY <2>5, QuietStep DEF Client
  <2> QED
      BY <2>1, <2>2, <2>3, <2>4, <2>5 DEF Next, Simulator, Bridge
<1> QED
    BY <1>1, <1>2, PTL DEF Spec

(* The variables keep their types.                                         *)
THEOREM TypeCorrect == Spec => []TypeOK
<1>1. IInv => TypeOK
    BY DEF IInv
<1> QED
    BY <1>1, Invariance, PTL

(* One publication that gets through brings the cache up to date.          *)
THEOREM CatchesUp == Spec => []CacheCatchesUp
<1>1. IInv => CacheCatchesUp
  <2> SUFFICES ASSUME IInv, NEW d \in heard \ UnderWay PROVE Covers(d)
      BY DEF CacheCatchesUp, Covers
  <2>1. \A i \in 1..Len(inbox) : ~About(i, d)
      BY DEF UnderWay, About, IInv, TrafficOK
  <2> QED
      BY <2>1 DEF IInv, HeardIsTrue
<1> QED
    BY <1>1, Invariance, PTL
=============================================================================
