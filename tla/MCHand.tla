------------------------------- MODULE MCHand -------------------------------
(* Hand on a small table whose seats are all alike.                        *)
EXTENDS Hand, TLC

Symmetry == Permutations(Players)
=============================================================================
