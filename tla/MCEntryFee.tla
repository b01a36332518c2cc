------------------------------ MODULE MCEntryFee ------------------------------
(* One player, two requests at a time, three tables of one tier.           *)
EXTENDS EntryFee, TLC

(* Requests are told apart by nothing, and neither are tables.             *)
Symmetry == Permutations(Requests) \cup Permutations(Rooms)
===============================================================================
