---------------------------- MODULE AtomicTable -----------------------------
(***************************************************************************)
(* What the actors of a table promise together: one row, changed by one    *)
(* move at a time, each of them legal in the row it changes.               *)
(***************************************************************************)
EXTENDS TableRow

VARIABLE row

Init == row = FirstRow

(* The row tells the move it was changed by.                               *)
Next ==
  /\ row'.entry \in Moves
  /\ Accepts(row, row'.entry)
  /\ row' = Apply(row, row'.entry)

Spec == Init /\ [][Next]_row
=============================================================================
