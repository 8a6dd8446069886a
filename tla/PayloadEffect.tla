---------------------------- MODULE PayloadEffect -----------------------------
(***************************************************************************)
(* What a payload means for the states of a device, said without the loop  *)
(* that applies it: a variable takes the value of the last of its names in *)
(* the payload, and what the payload does not name keeps its value.        *)
(***************************************************************************)
EXTENDS Naturals

CONSTANTS
    Rank,           \* place of each name in the order of std::map
    StateKey(_, _)  \* StateKey(m, c): where model m keeps capability c

(* A device has a variable per capability, and those events have made.     *)
Variables(m, s) == DOMAIN s \cup {StateKey(m, c) : c \in m.caps}

(* Its own key, its capability, and the aliases of that capability.        *)
NamesOf(m, k) ==
    {k} \cup {c \in m.caps : StateKey(m, c) = k}
        \cup {a \in DOMAIN m.alias : StateKey(m, m.alias[a]) = k}

(* Names of variable k that the payload has.                               *)
Named(m, body, k) == NamesOf(m, k) \cap DOMAIN body

LastOf(names) == CHOOSE n \in names : \A l \in names : Rank[l] <= Rank[n]

Changed(m, s, body) == {k \in Variables(m, s) : Named(m, body, k) # {}}

Effect(m, s, body) ==
    [k \in DOMAIN s \cup Changed(m, s, body) |->
        IF Named(m, body, k) # {} THEN body[LastOf(Named(m, body, k))] ELSE s[k]]
=============================================================================
