---------------------------- MODULE MCSettlement ----------------------------
(* Settlement with a few calls and keys.                                   *)
EXTENDS Settlement, TLC

Symmetry ==
  Permutations(Players) \cup Permutations(Requests) \cup Permutations(Clicks)
    \cup Permutations(Removals) \cup Permutations(Sweeps)
=============================================================================
