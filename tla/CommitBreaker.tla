---------------------------- MODULE CommitBreaker -----------------------------
(***************************************************************************)
(* The circuit in front of one table's commits in one process.  A run of   *)
(* refused commits opens it; while it is open no commit reaches the store; *)
(* once the cooldown is over one commit at a time is let through, and its  *)
(* verdict closes the circuit or opens it again.                           *)
(***************************************************************************)
EXTENDS Naturals

CONSTANT MaxRejections   \* refused commits in a row that open the circuit

ASSUME BreakerAssumption == MaxRejections \in Nat \ {0}

Circuits == [state : {"closed", "open", "halfOpen"}, rejections : Nat]

Closed == [state |-> "closed", rejections |-> 0]
Opened == [state |-> "open", rejections |-> 0]

(* A cooldown is over.                                                     *)
Cooled(c) == [c EXCEPT !.state = "halfOpen"]

Admits(c) == c.state # "open"

(* The store took the commit.                                              *)
AfterSuccess(c) == Closed

(* The version or the guard of the commit was refused.  A probe that is    *)
(* refused opens the circuit at once.                                      *)
AfterRejection(c) ==
  IF c.state = "halfOpen" \/ c.rejections + 1 >= MaxRejections THEN Opened
  ELSE [c EXCEPT !.rejections = @ + 1]

(* The store could not be asked, which says nothing of the commit.         *)
AfterOutage(c) == c
=============================================================================
