---------------------------- MODULE MCTableActors ---------------------------
(* TableActors on a heads-up hand: the big blind decides last before the   *)
(* flop and first on it.                                                   *)
EXTENDS TableActors, TLC

CONSTANTS alice, bob

HeadsUp  == <<alice, bob, bob>>
Symmetry == Permutations(Ids)
=============================================================================
