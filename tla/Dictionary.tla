----------------------------- MODULE Dictionary -----------------------------
(***************************************************************************)
(* What map.hpp, set.hpp and hashmap.hpp promise: a dictionary, to which   *)
(* every call makes one change at one key, or all keys go at once.         *)
(***************************************************************************)
CONSTANTS Keys, Values, None

NoneAssumption == None \notin Values

VARIABLE dict

Init == dict = [k \in Keys |-> None]

\* The first conjunct follows from the second; it spares TLC most comparisons.
Becomes(k, v) == dict'[k] = v /\ dict' = [dict EXCEPT ![k] = v]

Insert(k, v) == dict[k] = None /\ Becomes(k, v)
Assign(k, v) == dict[k] # None /\ Becomes(k, v)
Remove(k)    == dict[k] # None /\ Becomes(k, None)
Clear        == dict' = [k \in Keys |-> None]

Next ==
  \/ \E k \in Keys : Remove(k) \/ \E v \in Values : Insert(k, v) \/ Assign(k, v)
  \/ Clear

Spec == Init /\ [][Next]_dict

=============================================================================
