-------------------------------- MODULE MCMap --------------------------------
(***************************************************************************)
(* A small instance of ShMap: three keys that share one chain in the first *)
(* array, are apart after its first expansion and together after the next. *)
(***************************************************************************)
EXTENDS ShMap

MCKeys == {"a", "b", "c"}

MCHash == [k \in MCKeys |-> CASE k = "a" -> 0 [] k = "b" -> 8 [] k = "c" -> 2]
=============================================================================
