------------------------------ MODULE TableRow ------------------------------
(***************************************************************************)
(* The stored row of a table, as its actors share it: what a move needs    *)
(* and what it makes of the row.  Of the poker only the order of decisions *)
(* is kept: who decides, one decision after another, until a hand is over. *)
(***************************************************************************)
EXTENDS Naturals, Sequences

CONSTANTS
  Players,
  Nobody,
  Ids,        \* the ids clients give their commands
  NoId,       \* of what the server does by itself
  OutcomeId,  \* of the entry that logs how a hand came out
  Order       \* the players of a hand in the order they decide

ASSUME OrderAssumption ==
  /\ Order \in Seq(Players) /\ Nobody \notin Players
  /\ NoId \notin Ids /\ OutcomeId \notin Ids /\ NoId # OutcomeId

Kinds == {"seed", "act", "peek", "timeout", "deal", "outcome"}

(* hand and version tell the position a move was made for: the one the     *)
(* client had seen, or the one a timer was armed on.  retried tells that   *)
(* the handler reached the row at the second attempt.                      *)
Moves ==
  [kind : Kinds, player : Players \cup {Nobody}, id : Ids \cup {NoId, OutcomeId},
   hand : Nat, version : Nat, retried : BOOLEAN]

Move(kind, player, id, row) ==
  [kind |-> kind, player |-> player, id |-> id, hand |-> row.hand,
   version |-> row.version, retried |-> FALSE]

(* gameplay is the last version that changed anything a player can see;    *)
(* entry is the move the row was committed with.                           *)
Rows ==
  [version : Nat, gameplay : Nat, hand : Nat, decisions : 0 .. Len(Order),
   seen : SUBSET Ids, entry : Moves]

(* A table whose first hand has just been dealt; versions count from here. *)
FirstRow ==
  [version |-> 1, gameplay |-> 1, hand |-> 1, decisions |-> 0, seen |-> {},
   entry |-> [kind |-> "seed", player |-> Nobody, id |-> NoId, hand |-> 1,
              version |-> 1, retried |-> FALSE]]

Over(row)    == row.decisions = Len(Order)
OnClock(row) == IF Over(row) THEN Nobody ELSE Order[row.decisions + 1]

Decides(m) == m.kind \in {"act", "timeout"}

(* What the engine checks before it changes anything.                      *)
Accepts(row, m) ==
  /\ m.kind # "seed"
  /\ Decides(m) => OnClock(row) = m.player /\ m.player # Nobody
  /\ m.kind = "act" => m.id \in Ids \ row.seen
  /\ m.kind = "deal" => Over(row)

Apply(row, m) ==
  [version   |-> row.version + 1,
   gameplay  |-> IF m.kind = "peek" THEN row.gameplay ELSE row.version + 1,
   hand      |-> IF m.kind = "deal" THEN row.hand + 1 ELSE row.hand,
   decisions |-> IF m.kind = "deal" THEN 0
                 ELSE IF Decides(m) THEN row.decisions + 1 ELSE row.decisions,
   seen      |-> IF m.kind = "deal" THEN {}
                 ELSE IF m.kind = "act" THEN row.seen \cup {m.id} ELSE row.seen,
   entry     |-> m]
=============================================================================
