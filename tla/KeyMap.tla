------------------------------- MODULE KeyMap -------------------------------
(***************************************************************************)
(* What the hash map promises: a map from keys to values, where a key that *)
(* was set keeps its value until it is set again or unset, and a map that  *)
(* was saved and loaded has the values that can be saved.                  *)
(***************************************************************************)
CONSTANTS
  Keys,
  Values,
  Absent,      \* the value of a key that is not in the map
  Saved(_)     \* the value that is loaded again, or Absent

VARIABLE map

Init == map = [k \in Keys |-> Absent]

Set(k, v) == map' = [map EXCEPT ![k] = v]

Unset(k) == map' = [map EXCEPT ![k] = Absent]

Reload == map' = [k \in Keys |-> Saved(map[k])]

Next ==
  \/ \E k \in Keys : Unset(k) \/ \E v \in Values : Set(k, v)
  \/ Reload

Spec == Init /\ [][Next]_map
=============================================================================
