-------------------------- MODULE DeviceStateProofs ---------------------------
(***************************************************************************)
(* Proofs about DeviceState, for every set of models whose aliases are     *)
(* names of their own (AliasAssumption), and for every payload.            *)
(***************************************************************************)
EXTENDS DeviceState, FiniteSetTheorems, TLAPS

-----------------------------------------------------------------------------
(* Only a connected client publishes, and nothing disconnects it. *)
PublishedWhenConnected == reported # NoReport => connected = TRUE

IInv ==
    /\ model \in Models
    /\ OneEntryPerVariable
    /\ ReportedIsCurrent
    /\ PublishedWhenConnected

-----------------------------------------------------------------------------
(* The capability on_off of a light never names an entry of states_. *)
LEMMA OnOffIsNoStateKey ==
    ASSUME NEW m \in Models, m.type = "light"
    PROVE  "on_off" \notin StateKeys(m)
<1>1. "on_off" \notin InitialKeys(m)
    BY DEF InitialKeys
<1>2. \A c \in m.caps : StateKey(m, c) # "on_off"
    BY DEF StateKey
<1>3. ASSUME NEW h \in Handlers(m) PROVE h.key # "on_off"
  <2>1. h \in LightHandlers(m)
      BY DEF Handlers
  <2>2. h.key \in {"on", "brightness", "color"}
      BY <2>1 DEF LightHandlers, ForCapability, Handler, StateKey
  <2> QED
      BY <2>2
<1> QED
    BY <1>1, <1>2, <1>3 DEF StateKeys

(* resolve_state_key() finds a state key or nothing.                       *)
LEMMA ResolvesToStateKey ==
    ASSUME model \in Models, OneEntryPerVariable, NEW k \in Keys, Resolve(k) # NoKey
    PROVE  Resolve(k) \in StateKeys(model)
<1>1. CASE k \in DOMAIN states
    BY <1>1 DEF Resolve, OneEntryPerVariable
<1>2. CASE k \notin DOMAIN states /\ k \in model.caps
    BY <1>2 DEF Resolve, StateKeys
<1>3. CASE k \notin DOMAIN states /\ k \notin model.caps /\ k \in DOMAIN model.alias
    BY <1>3, AliasAssumption DEF Resolve, StateKeys
<1>4. CASE k \notin DOMAIN states /\ k \notin model.caps /\ k \notin DOMAIN model.alias
  <2>1. Resolve(k) = IF \E c \in model.caps : StateKey(model, c) = k THEN k ELSE NoKey
      BY <1>4 DEF Resolve
  <2> QED
      BY <2>1 DEF StateKeys
<1> QED
    BY <1>1, <1>2, <1>3, <1>4

(* Key, name and aliases of a capability are resolved to its key.          *)
LEMMA CapabilityNames ==
    ASSUME model \in Models, OneEntryPerVariable, NEW c \in model.caps,
           NEW k \in {StateKey(model, c), c} \cup Aliases(model, c)
    PROVE  Resolve(k) = StateKey(model, c)
<1>1. CASE k = StateKey(model, c)
  <2>1. k \in StateKeys(model)
      BY <1>1 DEF StateKeys
  <2>2. k \notin DOMAIN model.alias
      BY <2>1, AliasAssumption
  <2>3. StateKey(model, k) = k
      BY <1>1 DEF StateKey
  <2> QED
      BY <1>1, <2>2, <2>3 DEF Resolve
<1>2. CASE k = c
  <2>1. CASE c \in DOMAIN states
    <3>1. c \in StateKeys(model)
        BY <2>1 DEF OneEntryPerVariable
    <3>2. StateKey(model, c) = c
        BY <3>1, OnOffIsNoStateKey DEF StateKey
    <3> QED
        BY <1>2, <2>1, <3>2 DEF Resolve
  <2>2. CASE c \notin DOMAIN states
      BY <1>2, <2>2 DEF Resolve
  <2> QED
      BY <2>1, <2>2
<1>3. CASE k \in Aliases(model, c)
  <2>1. k \in DOMAIN model.alias /\ model.alias[k] = c
      BY <1>3 DEF Aliases
  <2>2. k \notin model.caps /\ k \notin DOMAIN states
      BY <2>1, AliasAssumption DEF OneEntryPerVariable
  <2> QED
      BY <2>1, <2>2 DEF Resolve
<1> QED
    BY <1>1, <1>2, <1>3

-----------------------------------------------------------------------------
(* The strengthening holds in the initial state. *)
LEMMA Initially == Init => IInv
BY DEF Init, InitialState, IInv, OneEntryPerVariable, ReportedIsCurrent, PublishedWhenConnected, StateKeys

(* Every step preserves it.                                                *)
LEMMA Preserved == IInv /\ [Next]_vars => IInv'
<1> SUFFICES ASSUME IInv, [Next]_vars PROVE IInv'
    OBVIOUS
<1>0. model \in Models /\ OneEntryPerVariable
    BY DEF IInv
<1> USE DEF IInv, ReportedIsCurrent, PublishedWhenConnected
<1>1. CASE Connect
    BY <1>1 DEF Connect, OneEntryPerVariable
<1>2. ASSUME NEW body \in Bodies, UpdateState(body) PROVE IInv'
    BY <1>2 DEF UpdateState, OneEntryPerVariable
<1>3. ASSUME NEW k \in Keys, ApplyItem(k) PROVE IInv'
  <2>1. /\ UNCHANGED <<model, connected, reported>> /\ pc' # "idle"
      BY <1>3 DEF ApplyItem
  <2>2. DOMAIN states' \subseteq DOMAIN states \cup StateKeys(model)
    <3>1. CASE Resolve(k) = NoKey
        BY <1>3, <3>1 DEF ApplyItem
    <3>2. CASE Resolve(k) # NoKey
      <4>1. Resolve(k) \in StateKeys(model)
          BY <1>0, <3>2, ResolvesToStateKey
      <4>2. DOMAIN states' = DOMAIN states \cup {Resolve(k)}
          BY <1>3, <3>2 DEF ApplyItem, SetState
      <4> QED
          BY <4>1, <4>2
    <3> QED
        BY <3>1, <3>2
  <2>3. OneEntryPerVariable'
      BY <1>0, <2>1, <2>2 DEF OneEntryPerVariable
  <2> QED
      BY <2>1, <2>3
<1>4. ASSUME NEW h \in Handlers(model), NEW body \in Bodies, HandleEvent(h, body) PROVE IInv'
  <2>1. /\ UNCHANGED <<model, connected, reported>> /\ pc' # "idle"
      BY <1>4 DEF HandleEvent
  <2>2. DOMAIN states' = DOMAIN states \cup {h.key}
      BY <1>4 DEF HandleEvent, SetState
  <2>3. h.key \in StateKeys(model)
      BY DEF StateKeys
  <2>4. OneEntryPerVariable'
      BY <1>0, <2>1, <2>2, <2>3 DEF OneEntryPerVariable
  <2> QED
      BY <2>1, <2>4
<1>5. CASE PublishState
    BY <1>5 DEF PublishState, OneEntryPerVariable
<1>6. CASE UNCHANGED vars
    BY <1>6 DEF vars, OneEntryPerVariable
<1> QED
    BY <1>1, <1>2, <1>3, <1>4, <1>5, <1>6 DEF Next

(* The inductive invariant of a device.                                    *)
THEOREM Invariance == Spec => []IInv
BY Initially, Preserved, PTL DEF Spec

(* No name of a variable gets an entry beside the variable's own.          *)
THEOREM OneEntry == Spec => []OneEntryPerVariable
<1>1. IInv => OneEntryPerVariable
    BY DEF IInv
<1> QED
    BY Invariance, <1>1, PTL

(* At rest, the last state published is the state.                         *)
THEOREM Current == Spec => []ReportedIsCurrent
<1>1. IInv => ReportedIsCurrent
    BY DEF IInv
<1> QED
    BY Invariance, <1>1, PTL

-----------------------------------------------------------------------------
(* What a handler takes out of a payload is a value.                       *)
LEMMA DefaultFacts == \A k : Default(k) \in Values
BY StateAssumption DEF Default

(* Names, key and default of a handler have their types.                   *)
LEMMA HandlerFacts ==
    ASSUME NEW m \in Models, NEW h \in Handlers(m)
    PROVE  /\ h.key \in Keys /\ h.default \in Values
           /\ DOMAIN h.names \subseteq Nat
<1>1. m.caps \subseteq Keys /\ "on" \in Keys /\ {"true", "false"} \subseteq Values
    BY StateAssumption
<1>2. CASE h \in LightHandlers(m)
    BY <1>1, <1>2, DefaultFacts
       DEF LightHandlers, Handler, ForCapability, StateKey, Names
<1>3. CASE h \in MotionHandlers(m)
    BY <1>3, StateAssumption DEF MotionHandlers, Handler, Names
<1>4. CASE h \in ThermostatHandlers(m)
    BY <1>4, StateAssumption, DefaultFacts
       DEF ThermostatHandlers, Handler, ForCapability, StateKey, Names
<1> QED
    BY <1>2, <1>3, <1>4, StateAssumption DEF Handlers

(* A non-empty set of naturals has a least element.                        *)
LEMMA LeastNat ==
    ASSUME NEW S \in SUBSET Nat, S # {}
    PROVE  \E n \in S : \A p \in S : n <= p
<1>1. PICK n \in S : \A p \in S : <<p, n>> \notin OpToRel(<, Nat)
    BY NatLessThanWellFounded, WFMin, Zenon
<1>2. \A p \in S : <<p, n>> \in Nat \X Nat /\ <<p, n>>[1] = p /\ <<p, n>>[2] = n
    OBVIOUS
<1>3. \A p \in S : ~(p < n)
    BY <1>1, <1>2 DEF OpToRel
<1> QED
    BY <1>3

(* FirstPresent picks the value of the first name the payload has.         *)
LEMMA FirstPresentFacts ==
    ASSUME NEW m \in Models, NEW h \in Handlers(m), NEW body \in Bodies
    PROVE  FirstPresent(body, h) \in Values
<1> DEFINE found == {i \in DOMAIN h.names : h.names[i] \cap DOMAIN body # {}}
           first == CHOOSE i \in found : \A j \in found : i <= j
           names == h.names[first] \cap DOMAIN body
           name == CHOOSE k \in names : \A l \in names : Rank[k] <= Rank[l]
<1>1. CASE found = {}
    BY <1>1, HandlerFacts DEF FirstPresent
<1>2. CASE found # {}
  <2>1. first \in found
    <3>1. \E i \in found : \A j \in found : i <= j
        BY <1>2, HandlerFacts, LeastNat
    <3> QED
        BY <3>1
  <2>2. names # {} /\ names \subseteq Keys
      BY <2>1, StateAssumption
  <2> HIDE DEF names
  <2>3. name \in names
    <3>1. {Rank[k] : k \in names} \in SUBSET Nat
        BY <2>2, StateAssumption
    <3>2. \E n \in {Rank[k] : k \in names} : \A p \in {Rank[k] : k \in names} : n <= p
        BY <2>2, <3>1, LeastNat
    <3>3. \E k \in names : \A l \in names : Rank[k] <= Rank[l]
        BY <3>2
    <3> QED
        BY <3>3
  <2>4. name \in DOMAIN body
      BY <2>3 DEF names
  <2>5. FirstPresent(body, h) = body[name]
      BY <1>2 DEF FirstPresent, names
  <2> QED
      BY <2>4, <2>5, StateAssumption
<1> QED
    BY <1>1, <1>2

(* The variables keep their types, what a payload brings included.         *)
THEOREM TypeCorrect == Spec => []TypeOK
<1>1. ASSUME Init PROVE TypeOK
  <2>1. model \in Models
      BY <1>1 DEF Init
  <2>2. InitialKeys(model) \subseteq Keys
    <3>1. CASE model.type = "light"
        BY <3>1, StateAssumption DEF InitialKeys
    <3>2. CASE model.type = "motion"
        BY <3>2, StateAssumption DEF InitialKeys
    <3>3. CASE model.type = "thermostat"
        BY <3>3, StateAssumption DEF InitialKeys
    <3> QED
        BY <2>1, <3>1, <3>2, <3>3, StateAssumption
  <2>3. DOMAIN <<>> = {}
      OBVIOUS
  <2> QED
      BY <1>1, <2>2, <2>3, DefaultFacts DEF Init, InitialState, TypeOK
<1>2. TypeOK /\ [Next]_vars => TypeOK'
  <2> SUFFICES ASSUME TypeOK, [Next]_vars PROVE TypeOK'
      OBVIOUS
  <2>1. CASE Connect
      BY <2>1 DEF Connect, TypeOK
  <2>2. ASSUME NEW body \in Bodies, UpdateState(body) PROVE TypeOK'
      BY <2>2, StateAssumption DEF UpdateState, TypeOK
  <2>3. ASSUME NEW k \in Keys, ApplyItem(k) PROVE TypeOK'
    <3>1. /\ UNCHANGED <<model, connected>> /\ k \in DOMAIN todo
          /\ todo' = [l \in DOMAIN todo \ {k} |-> todo[l]]
          /\ pc' = IF DOMAIN todo = {k} THEN "publish" ELSE "apply"
        BY <2>3 DEF ApplyItem, IsNext
    <3>2. Resolve(k) # NoKey => Resolve(k) \in Keys
        BY StateAssumption DEF Resolve, StateKey, TypeOK
    <3>3. DOMAIN states' \subseteq Keys /\ \A l \in DOMAIN states' : states'[l] \in Values
      <4>1. CASE Resolve(k) = NoKey
          BY <2>3, <4>1 DEF ApplyItem, TypeOK
      <4>2. CASE Resolve(k) # NoKey
          BY <2>3, <3>1, <3>2, <4>2 DEF ApplyItem, SetState, TypeOK
      <4> QED
          BY <4>1, <4>2
    <3>4. /\ DOMAIN todo' = DOMAIN todo \ {k}
          /\ \A l \in DOMAIN todo' : todo'[l] \in Values
          /\ DOMAIN todo \ {k} = {} <=> DOMAIN todo = {k}
        BY <3>1 DEF TypeOK
    <3> QED
        BY <3>1, <3>3, <3>4 DEF TypeOK
  <2>4. ASSUME NEW h \in Handlers(model), NEW body \in Bodies, HandleEvent(h, body)
        PROVE  TypeOK'
    <3>1. h.key \in Keys /\ FirstPresent(body, h) \in Values
        BY HandlerFacts, FirstPresentFacts DEF TypeOK
    <3> QED
        BY <2>4, <3>1 DEF HandleEvent, SetState, TypeOK
  <2>5. CASE PublishState
      BY <2>5 DEF PublishState, TypeOK
  <2>6. CASE UNCHANGED vars
      BY <2>6 DEF vars, TypeOK
  <2> QED
      BY <2>1, <2>2, <2>3, <2>4, <2>5, <2>6 DEF Next
<1> QED
    BY <1>1, <1>2, PTL DEF Spec
-----------------------------------------------------------------------------
(* The refinement of AtomicDevice.                                         *)

(* Among finitely many names one is last in the order of std::map, and     *)
(* LastOf picks it.                                                        *)
LEMMA LastFacts ==
    ASSUME NEW names \in SUBSET Keys, IsFiniteSet(names), names # {}
    PROVE  /\ LastOf(names) \in names
           /\ \A l \in names : Rank[l] <= Rank[LastOf(names)]
<1> DEFINE IsLast(S, n) == n \in S /\ \A l \in S : Rank[l] <= Rank[n]
           Without == {S \in SUBSET names : S # {} /\ \A n \in S : ~IsLast(S, n)}
           Sizes == {Cardinality(S) : S \in Without}
<1>1. \A S \in SUBSET names : IsFiniteSet(S) /\ Cardinality(S) \in Nat
    BY FS_Subset, FS_CardinalityType
<1>2. Without = {}
  <2> SUFFICES ASSUME Without # {} PROVE FALSE
      OBVIOUS
  <2>1. PICK S \in Without : \A T \in Without : Cardinality(S) <= Cardinality(T)
    <3>1. Sizes \in SUBSET Nat /\ Sizes # {}
        BY <1>1
    <3>2. PICK n \in Sizes : \A p \in Sizes : n <= p
        BY <3>1, LeastNat
    <3>3. PICK S \in Without : n = Cardinality(S)
        BY <3>2
    <3>4. \A T \in Without : Cardinality(T) \in Sizes
        OBVIOUS
    <3> QED
        BY <3>2, <3>3, <3>4
  <2>2. PICK x \in S : TRUE
      OBVIOUS
  <2> DEFINE T == S \ {x}
  <2>3. T \in SUBSET names /\ Cardinality(T) = Cardinality(S) - 1
      BY <1>1, <2>2, FS_RemoveElement
  <2>4. T \notin Without
    <3>1. Cardinality(S) \in Nat
        BY <1>1
    <3>2. ~(Cardinality(S) <= Cardinality(S) - 1)
        BY <3>1
    <3> QED
        BY <2>1, <2>3, <3>2
  <2>5. x \in Keys /\ Rank[x] \in Nat /\ \A l \in S : Rank[l] \in Nat
      BY StateAssumption
  <2>6. CASE T = {}
    <3>1. IsLast(S, x)
        BY <2>5, <2>6
    <3> QED
        BY <2>2, <3>1
  <2>7. CASE T # {}
    <3>1. PICK n \in T : IsLast(T, n)
        BY <2>3, <2>4, <2>7
    <3>2. IsLast(S, n) \/ IsLast(S, x)
        BY <2>5, <3>1
    <3> QED
        BY <2>2, <3>1, <3>2
  <2> QED
      BY <2>6, <2>7
<1>3. \E n \in names : \A l \in names : Rank[l] <= Rank[n]
    BY <1>2
<1> QED
    BY <1>3 DEF LastOf

(* State keys are names.                                                   *)
LEMMA StateKeysAreKeys == \A m \in Models : StateKeys(m) \subseteq Keys
<1> SUFFICES ASSUME NEW m \in Models PROVE StateKeys(m) \subseteq Keys
    OBVIOUS
<1>1. InitialKeys(m) \subseteq Keys
    BY StateAssumption DEF InitialKeys
<1>2. \A c \in m.caps : StateKey(m, c) \in Keys
    BY StateAssumption DEF StateKey
<1> QED
    BY <1>1, <1>2, HandlerFacts DEF StateKeys

(* What looks a name up by cases finds the variable that has this name,    *)
(* and finds nothing when none has.                                        *)
LEMMA ResolveFinds ==
    ASSUME model \in Models, OneEntryPerVariable, NEW k
    PROVE  /\ Resolve(k) \in Variables(model, states) \cup {NoKey}
           /\ \A v \in Variables(model, states) :
                  k \in NamesOf(model, v) <=> Resolve(k) = v
<1>1. ASSUME NEW v \in Variables(model, states) PROVE v \in StateKeys(model) /\ v # NoKey
    BY StateKeysAreKeys, StateAssumption DEF Variables, StateKeys, OneEntryPerVariable
<1>2. \A c \in model.caps : \A n \in {StateKey(model, c), c} \cup Aliases(model, c) :
          Resolve(n) = StateKey(model, c)
    BY CapabilityNames
<1>3. ASSUME NEW v \in Variables(model, states), k \in NamesOf(model, v)
      PROVE  Resolve(k) = v
  <2>1. CASE k = v
    <3>1. CASE v \in DOMAIN states
        BY <2>1, <3>1 DEF Resolve
    <3>2. CASE v \notin DOMAIN states
        BY <1>2, <2>1, <3>2 DEF Variables
    <3> QED
        BY <3>1, <3>2
  <2>2. CASE k \in model.caps /\ StateKey(model, k) = v
      BY <1>2, <2>2
  <2>3. CASE k \in DOMAIN model.alias /\ StateKey(model, model.alias[k]) = v
    <3>1. model.alias[k] \in model.caps /\ k \in Aliases(model, model.alias[k])
        BY <2>3, AliasAssumption DEF Aliases
    <3> QED
        BY <1>2, <2>3, <3>1
  <2> QED
      BY <1>3, <2>1, <2>2, <2>3 DEF NamesOf
<1>4. /\ Resolve(k) \in Variables(model, states) \cup {NoKey}
      /\ Resolve(k) # NoKey => k \in NamesOf(model, Resolve(k))
  <2>1. CASE k \in DOMAIN states
      BY <2>1 DEF Resolve, Variables, NamesOf
  <2>2. CASE k \notin DOMAIN states /\ k \in model.caps
      BY <2>2 DEF Resolve, Variables, NamesOf
  <2>3. CASE k \notin DOMAIN states /\ k \notin model.caps /\ k \in DOMAIN model.alias
      BY <2>3, AliasAssumption DEF Resolve, Variables, NamesOf
  <2>4. CASE k \notin DOMAIN states /\ k \notin model.caps /\ k \notin DOMAIN model.alias
    <3>1. Resolve(k) = IF \E c \in model.caps : StateKey(model, c) = k THEN k ELSE NoKey
        BY <2>4 DEF Resolve
    <3> QED
        BY <3>1 DEF Variables, NamesOf
  <2> QED
      BY <2>1, <2>2, <2>3, <2>4
<1> QED
    BY <1>1, <1>3, <1>4

(* What an event reads beside "value" are names of its variable.           *)
LEMMA EventNames ==
    ASSUME NEW m \in Models, NEW h \in Handlers(m), NEW i \in DOMAIN h.names,
           NEW k \in h.names[i], k # "value"
    PROVE  k \in NamesOf(m, h.key)
<1>1. ASSUME NEW c, c \in m.caps \/ StateKey(m, c) = c,
             h.key = StateKey(m, c), h.names = Names(m, c)
      PROVE  k \in NamesOf(m, h.key)
  <2>1. k \in {StateKey(m, c)} \cup {c} \cup Aliases(m, c)
      BY <1>1 DEF Names
  <2> QED
      BY <1>1, <2>1 DEF NamesOf, Aliases
<1>2. CASE m.type = "light"
  <2>1. h \in LightHandlers(m)
      BY <1>2 DEF Handlers
  <2>2. h.names = <<>> \/ \E c \in m.caps : h = ForCapability(m, h.event, c)
      BY <2>1 DEF LightHandlers, Handler, ForCapability
  <2> QED
      BY <1>1, <2>2 DEF ForCapability, Handler
<1>3. CASE m.type = "motion"
  <2>1. h \in MotionHandlers(m)
      BY <1>3 DEF Handlers
  <2>2. h.key \in {"motion", "presence"} /\ h.names = Names(m, h.key)
      BY <2>1 DEF MotionHandlers, Handler
  <2>3. StateKey(m, h.key) = h.key
      BY <1>3 DEF StateKey
  <2> QED
      BY <1>1, <2>2, <2>3
<1>4. CASE m.type = "thermostat"
  <2>1. h \in ThermostatHandlers(m)
      BY <1>4 DEF Handlers
  <2>2. \A c : StateKey(m, c) = c
      BY <1>4 DEF StateKey
  <2>3. \/ h.key \in {"temperature", "target_temperature"} /\ h.names = Names(m, h.key)
        \/ h.key \in {"mode", "humidity"} /\ h.names = <<{h.key}, {"value"}>>
      BY <2>1, <2>2 DEF ThermostatHandlers, ForCapability, Handler
  <2>4. CASE h.names = <<{h.key}, {"value"}>>
      BY <2>4 DEF NamesOf
  <2> QED
      BY <1>1, <2>2, <2>3, <2>4
<1> QED
    BY <1>2, <1>3, <1>4, StateAssumption

(* "value" is the name of no variable.                                     *)
LEMMA ValueNamesNothing ==
    ASSUME NEW m \in Models
    PROVE  "value" \notin StateKeys(m)
<1>1. "value" \notin InitialKeys(m)
    BY StateAssumption DEF InitialKeys
<1>2. \A c \in m.caps : StateKey(m, c) # "value"
    BY AliasAssumption DEF StateKey
<1>3. ASSUME NEW h \in Handlers(m) PROVE h.key # "value"
  <2>1. h \in LightHandlers(m) \cup MotionHandlers(m) \cup ThermostatHandlers(m)
      BY StateAssumption DEF Handlers
  <2>2. h.key \in {"on", "motion", "presence", "mode", "humidity"}
            \cup {StateKey(m, c) : c \in {"brightness", "color", "temperature", "target_temperature"}}
      BY <2>1 DEF LightHandlers, MotionHandlers, ThermostatHandlers, ForCapability, Handler
  <2>3. \A c \in {"brightness", "color", "temperature", "target_temperature"} : StateKey(m, c) = c
      BY DEF StateKey
  <2> QED
      BY <2>2, <2>3
<1> QED
    BY <1>1, <1>2, <1>3 DEF StateKeys

(* The agreement on names is a consequence of OneEntryPerVariable.         *)
LEMMA Agreement ==
    ASSUME model \in Models, OneEntryPerVariable
    PROVE  NamesAgree
<1> SUFFICES ASSUME NEW h \in Handlers(model), NEW i \in DOMAIN h.names, NEW k \in h.names[i]
             PROVE  Resolve(k) = IF k # "value" /\ h.key \in Variables(model, states)
                                   THEN h.key ELSE NoKey
    BY DEF NamesAgree
<1>1. /\ Resolve(k) \in Variables(model, states) \cup {NoKey}
      /\ \A v \in Variables(model, states) : k \in NamesOf(model, v) <=> Resolve(k) = v
    BY ResolveFinds
<1>2. Variables(model, states) \subseteq StateKeys(model)
    BY DEF Variables, StateKeys, OneEntryPerVariable
<1>3. CASE k = "value"
  <2>1. ASSUME NEW v \in Variables(model, states) PROVE k \notin NamesOf(model, v)
    <3>1. k \notin StateKeys(model) /\ k \notin model.caps \cup DOMAIN model.alias
        BY <1>3, ValueNamesNothing, AliasAssumption
    <3> QED
        BY <1>2, <3>1 DEF NamesOf
  <2> QED
      BY <1>1, <1>3, <2>1
<1>4. CASE k # "value" /\ h.key \in Variables(model, states)
    BY <1>1, <1>4, EventNames
<1>5. CASE k # "value" /\ h.key \notin Variables(model, states)
  <2>1. k \in NamesOf(model, h.key)
      BY <1>5, EventNames
  <2>2. k = h.key
      BY <1>5, <2>1, AliasAssumption DEF NamesOf, Variables
  <2>3. ASSUME NEW v \in Variables(model, states) PROVE k \notin NamesOf(model, v)
    <3>1. k # v /\ k \in StateKeys(model)
        BY <1>5, <2>2 DEF StateKeys
    <3>2. k \notin DOMAIN model.alias
        BY <3>1, AliasAssumption
    <3>3. ASSUME k \in model.caps PROVE StateKey(model, k) = k
        BY <3>1, OnOffIsNoStateKey DEF StateKey
    <3>4. k \notin model.caps
        BY <1>5, <2>2, <3>3 DEF Variables
    <3> QED
        BY <3>1, <3>2, <3>4 DEF NamesOf
  <2> QED
      BY <1>1, <1>5, <2>3
<1> QED
    BY <1>3, <1>4, <1>5

(* What a state change makes of each name an event reads: the variable of  *)
(* the event, but for "value" and for variables only events make.          *)
THEOREM Agree == Spec => []NamesAgree
<1>1. IInv => NamesAgree
    BY Agreement DEF IInv
<1> QED
    BY Invariance, <1>1, PTL

(* states_ is a map, and payloads have finitely many items.                *)
Shape ==
    /\ TypeOK /\ IInv
    /\ states = [k \in DOMAIN states |-> states[k]]
    /\ IsFiniteSet(DOMAIN todo)

(* An item applied is an item less to apply: the effect of the rest of the *)
(* payload on what the item has made is that of the whole on what was.     *)
LEMMA ItemKeepsEffect ==
    ASSUME Shape, NEW k \in Keys, ApplyItem(k)
    PROVE  Effect(model, states', todo') = Effect(model, states, todo)
<1> DEFINE r == Resolve(k)
<1>1. /\ model \in Models /\ OneEntryPerVariable /\ k \in DOMAIN todo
      /\ DOMAIN todo \subseteq Keys /\ IsFiniteSet(DOMAIN todo)
      /\ \A l \in DOMAIN todo : Rank[k] <= Rank[l]
    BY DEF Shape, IInv, TypeOK, ApplyItem, IsNext
<1>2. /\ DOMAIN todo' = DOMAIN todo \ {k}
      /\ \A l \in DOMAIN todo' : todo'[l] = todo[l]
    BY DEF ApplyItem
<1>3. /\ r \in Variables(model, states) \cup {NoKey}
      /\ \A v \in Variables(model, states) : k \in NamesOf(model, v) <=> r = v
    BY <1>1, ResolveFinds
<1>4. NoKey \notin Variables(model, states)
    BY <1>1, StateKeysAreKeys, StateAssumption DEF Variables, StateKeys, OneEntryPerVariable
<1>5. /\ DOMAIN states' = DOMAIN states \cup ({r} \ {NoKey})
      /\ \A v \in DOMAIN states' : states'[v] = IF v = r THEN todo[k] ELSE states[v]
  <2>1. CASE r = NoKey
      BY <1>4, <2>1 DEF ApplyItem, Variables
  <2>2. CASE r # NoKey
      BY <2>2 DEF ApplyItem, SetState
  <2> QED
      BY <2>1, <2>2
<1>6. Variables(model, states') = Variables(model, states)
    BY <1>3, <1>5 DEF Variables
<1> HIDE DEF r
<1>7. ASSUME NEW v \in Variables(model, states)
      PROVE  Named(model, todo', v) = IF v = r THEN Named(model, todo, v) \ {k}
                                               ELSE Named(model, todo, v)
    BY <1>2, <1>3 DEF Named
<1>8. r \in Variables(model, states) => k \in Named(model, todo, r)
    BY <1>1, <1>3 DEF Named
<1>9. DOMAIN states' \cup Changed(model, states', todo')
          = DOMAIN states \cup Changed(model, states, todo)
  <2>1. Changed(model, states', todo') \subseteq Changed(model, states, todo)
      BY <1>6, <1>7 DEF Changed
  <2>2. Changed(model, states, todo) \subseteq Changed(model, states', todo') \cup {r}
      BY <1>6, <1>7 DEF Changed
  <2>3. r # NoKey => r \in Changed(model, states, todo)
      BY <1>3, <1>8 DEF Changed
  <2>4. NoKey \notin Changed(model, states, todo)
      BY <1>4 DEF Changed
  <2> QED
      BY <1>5, <2>1, <2>2, <2>3, <2>4
<1>10. ASSUME NEW v \in DOMAIN states \cup Changed(model, states, todo)
       PROVE  (IF Named(model, todo', v) # {} THEN todo'[LastOf(Named(model, todo', v))]
                                              ELSE states'[v])
            = (IF Named(model, todo, v) # {} THEN todo[LastOf(Named(model, todo, v))]
                                             ELSE states[v])
  <2> DEFINE old == Named(model, todo, v)
             new == Named(model, todo', v)
  <2>1. v \in Variables(model, states) /\ v # NoKey
      BY <1>4 DEF Variables, Changed
  <2>2. /\ old \in SUBSET Keys /\ IsFiniteSet(old) /\ new \subseteq old
        /\ new \subseteq DOMAIN todo' /\ IsFiniteSet(new)
    <3>1. old \in SUBSET DOMAIN todo /\ new \subseteq old /\ new \subseteq DOMAIN todo'
        BY <1>2 DEF Named
    <3> QED
        BY <1>1, <3>1, FS_Subset
  <2>3. CASE v # r
    <3>1. old = new
        BY <1>7, <2>1, <2>3
    <3>2. CASE new = {}
        BY <1>5, <1>9, <2>3, <3>1, <3>2 DEF Changed
    <3>3. CASE new # {}
      <4>1. LastOf(new) \in new
          BY <2>2, <3>3, LastFacts
      <4> QED
          BY <1>2, <2>2, <3>1, <3>3, <4>1
    <3> QED
        BY <3>2, <3>3
  <2>4. CASE v = r
    <3>1. k \in old /\ new = old \ {k}
        BY <1>7, <1>8, <2>1, <2>4
    <3>2. LastOf(old) \in old /\ \A l \in old : Rank[l] <= Rank[LastOf(old)]
        BY <2>2, <3>1, LastFacts
    <3>3. CASE new = {}
      <4>1. LastOf(old) = k
          BY <3>1, <3>2, <3>3
      <4>2. states'[v] = todo[k]
          BY <1>5, <2>1, <2>4
      <4> QED
          BY <3>1, <3>3, <4>1, <4>2
    <3>4. CASE new # {}
      <4>1. LastOf(new) \in new /\ \A l \in new : Rank[l] <= Rank[LastOf(new)]
          BY <2>2, <3>4, LastFacts
      <4>2. LastOf(old) = LastOf(new)
        <5>1. Rank \in [Keys -> Nat] /\ \A a, b \in Keys : Rank[a] = Rank[b] => a = b
            BY StateAssumption
        <5>2. old \subseteq DOMAIN todo
            BY DEF Named
        <5>3. Rank[k] <= Rank[LastOf(new)]
            BY <1>1, <2>2, <4>1, <5>2
        <5>4. Rank[LastOf(new)] <= Rank[LastOf(old)]
            BY <2>2, <3>2, <4>1
        <5>5. Rank[LastOf(old)] <= Rank[LastOf(new)]
            BY <3>1, <3>2, <4>1, <5>3
        <5>6. LastOf(old) \in Keys /\ LastOf(new) \in Keys
            BY <2>2, <3>2, <4>1
        <5>7. Rank[LastOf(old)] = Rank[LastOf(new)]
            BY <5>1, <5>4, <5>5, <5>6
        <5> QED
            BY <5>1, <5>6, <5>7
      <4> QED
          BY <1>2, <2>2, <3>1, <3>4, <4>1, <4>2
    <3> QED
        BY <3>3, <3>4
  <2> QED
      BY <2>3, <2>4
<1> QED
    BY <1>9, <1>10 DEF Effect

(* Without items there is no effect.                                       *)
LEMMA NoItemsNoEffect ==
    ASSUME NEW s, s = [k \in DOMAIN s |-> s[k]], NEW body, DOMAIN body = {}
    PROVE  Effect(model, s, body) = s
<1>1. \A k : Named(model, body, k) = {}
    BY DEF Named
<1>2. Changed(model, s, body) = {}
    BY <1>1 DEF Changed
<1> QED
    BY <1>1, <1>2 DEF Effect

(* Both modules mean the same by the effect of a payload.                  *)
LEMMA SameEffect == \A m, s, body : Atomic!Effect(m, s, body) = Effect(m, s, body)
BY DEF Atomic!Effect, Atomic!Changed, Atomic!Named, Atomic!NamesOf, Atomic!Variables,
       Atomic!LastOf, Effect, Changed, Named, NamesOf, Variables, LastOf

(* The invariant under which the steps map.                                *)
LEMMA ShapeStep == Shape /\ TypeOK' /\ IInv' /\ [Next]_vars => Shape'
<1> SUFFICES ASSUME Shape, TypeOK', IInv', [Next]_vars PROVE Shape'
    OBVIOUS
<1>1. states' = [k \in DOMAIN states' |-> states'[k]]
    BY DEF Shape, Next, vars, Connect, UpdateState, ApplyItem, SetState, HandleEvent, PublishState
<1>2. IsFiniteSet(DOMAIN todo')
  <2>1. ASSUME NEW body \in Bodies, UpdateState(body) PROVE IsFiniteSet(DOMAIN todo')
      BY <2>1, StateAssumption DEF UpdateState
  <2>2. ASSUME NEW k \in Keys, ApplyItem(k) PROVE IsFiniteSet(DOMAIN todo')
    <3>1. DOMAIN todo' = DOMAIN todo \ {k}
        BY <2>2 DEF ApplyItem
    <3> QED
        BY <3>1, FS_RemoveElement DEF Shape
  <2>3. CASE UNCHANGED todo
      BY <2>3 DEF Shape
  <2> QED
      BY <2>1, <2>2, <2>3 DEF Next, vars, Connect, HandleEvent, PublishState
<1> QED
    BY <1>1, <1>2 DEF Shape

(* Each step is a step of AtomicDevice, or changes nothing there.          *)
LEMMA AtomicStep == Shape /\ [Next]_vars => [Atomic!Next]_Atomic!vars
<1> SUFFICES ASSUME Shape, [Next]_vars PROVE [Atomic!Next]_Atomic!vars
    OBVIOUS
<1>1. DOMAIN todo = {} => Effect(model, states, todo) = states
    BY NoItemsNoEffect DEF Shape
<1>2. pc # "apply" => DOMAIN todo = {}
    BY DEF Shape, TypeOK
<1>3. CASE Connect
    BY <1>3 DEF Connect, Atomic!Next, Atomic!Connect
<1>4. ASSUME NEW body \in Bodies, UpdateState(body) PROVE Atomic!Next
  <2>1. Atomic!Change(body)
      BY <1>1, <1>2, <1>4, SameEffect DEF UpdateState, Atomic!Change
  <2> QED
      BY <2>1 DEF Atomic!Next
<1>5. ASSUME NEW k \in Keys, ApplyItem(k) PROVE UNCHANGED Atomic!vars
    BY <1>5, ItemKeepsEffect DEF ApplyItem, Atomic!vars
<1>6. ASSUME NEW h \in Handlers(model), NEW body \in Bodies, HandleEvent(h, body)
      PROVE  Atomic!Next
  <2>1. /\ Effect(model, states, todo) = states
        /\ Effect(model, states', todo) = states'
      BY <1>1, <1>2, <1>6, NoItemsNoEffect DEF HandleEvent, SetState
  <2>2. Atomic!Event(h, body)
      BY <1>6, <2>1 DEF HandleEvent, SetState, Atomic!Event
  <2> QED
      BY <2>2 DEF Atomic!Next
<1>7. CASE PublishState
  <2>1. Atomic!Publish
      BY <1>1, <1>2, <1>7 DEF PublishState, Atomic!Publish
  <2> QED
      BY <2>1 DEF Atomic!Next
<1>8. CASE UNCHANGED vars
    BY <1>8 DEF vars, Atomic!vars
<1> QED
    BY <1>3, <1>4, <1>5, <1>6, <1>7, <1>8 DEF Next

(* A device implements AtomicDevice: whatever names a payload uses, its    *)
(* items take effect together, and that is what is published next.         *)
THEOREM AtomicImplemented == Spec => ImplementsAtomic
<1>1. Init /\ TypeOK /\ IInv => Shape /\ Atomic!Init
  <2> SUFFICES ASSUME Init, TypeOK, IInv PROVE Shape /\ Atomic!Init
      OBVIOUS
  <2>1. DOMAIN todo = {} /\ states = [k \in DOMAIN states |-> states[k]]
      BY DEF Init, TypeOK, InitialState
  <2>2. IsFiniteSet(DOMAIN todo)
      BY <2>1, FS_EmptySet
  <2>3. Effect(model, states, todo) = states
      BY <2>1, NoItemsNoEffect
  <2> QED
      BY <2>1, <2>2, <2>3 DEF Init, Shape, Atomic!Init
<1>2. Shape /\ TypeOK' /\ IInv' /\ [Next]_vars => Shape' /\ [Atomic!Next]_Atomic!vars
    BY ShapeStep, AtomicStep
<1> QED
    BY <1>1, <1>2, Invariance, TypeCorrect, PTL DEF Spec, ImplementsAtomic, Atomic!Spec
=============================================================================
