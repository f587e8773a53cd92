------------------------- MODULE MCConnectionStore -------------------------
(* Instances of ConnectionStore for TLC. *)
EXTENDS ConnectionStore, TLC

Symmetry ==
  Permutations(Workers) \cup Permutations(Ids) \cup Permutations(Versions)
=============================================================================
