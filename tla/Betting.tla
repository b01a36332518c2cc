------------------------------ MODULE Betting ------------------------------
(***************************************************************************)
(* One betting round: the rules of engine/betting, as operators on a       *)
(* round.  A round is a record                                             *)
(*                                                                         *)
(*   stack, contributed   chips behind and chips put in, per player        *)
(*   folded, allIn        the players who can act no more                  *)
(*   acted                the players that responded to the current bet    *)
(*                        level since the last full raise                  *)
(*   currentBet, minRaise, lastActor                                       *)
(*                                                                         *)
(* and its players are DOMAIN r.stack.  Each action is a guard CanX(r, p)  *)
(* (the code's error returns) and a result X(r, p).                        *)
(***************************************************************************)
EXTENDS Integers

CONSTANT Nobody      \* the absence of a player: "" in the code

Least(a, b) == IF a <= b THEN a ELSE b

NewRound(stack, allIn, currentBet, minRaise) ==
  [stack       |-> stack,
   contributed |-> [p \in DOMAIN stack |-> 0],
   folded      |-> {},
   allIn       |-> allIn,
   acted       |-> {},
   currentBet  |-> currentBet,
   minRaise    |-> minRaise,
   lastActor   |-> Nobody]

(* Chips already in the middle when the round starts: the posted blinds.   *)
Seed(r, p, amount) == [r EXCEPT !.contributed[p] = amount]

Live(r, p)    == p \notin r.folded
MayAct(r, p)  == p \notin r.folded \cup r.allIn
Owed(r, p)    == r.currentBet - r.contributed[p]
AllInTo(r, p) == r.contributed[p] + r.stack[p]

Responded(r, p) == [r EXCEPT !.acted = @ \cup {p}, !.lastActor = p]

(* Move n chips from p's stack into the round; the last one is an all-in.  *)
Pay(r, p, n) ==
  [r EXCEPT !.stack[p]       = @ - n,
            !.contributed[p] = @ + n,
            !.allIn          = IF n = r.stack[p] THEN @ \cup {p} ELSE @]

Fold(r, p) == [r EXCEPT !.folded = @ \cup {p}, !.lastActor = p]

CanCheck(r, p) == r.contributed[p] >= r.currentBet
Check(r, p)    == Responded(r, p)

CanCall(r, p) == Owed(r, p) > 0
Call(r, p)    == Responded(Pay(r, p, Least(Owed(r, p), r.stack[p])), p)

(* A raise names the total the player wants in; a target beyond the stack  *)
(* is an all-in for what the stack allows, and is sized by that.           *)
RaiseTarget(r, p, amount) == Least(amount, AllInTo(r, p))
RaiseSize(r, p, amount)   == RaiseTarget(r, p, amount) - r.currentBet

(* A mutated form: the raise is sized by the amount asked for.             *)
FullRaiseByAmount(r, p, amount) == amount - r.currentBet >= r.minRaise

IsFullRaise(r, p, amount) == RaiseSize(r, p, amount) >= r.minRaise

CanRaise(r, p, amount) ==
  /\ p \notin r.acted
  /\ amount > r.currentBet
  /\ amount > r.contributed[p]
  /\ RaiseSize(r, p, amount) > 0
  /\ IsFullRaise(r, p, amount) \/ amount >= AllInTo(r, p)

(* Only a full raise reopens the action of the players who already acted.  *)
Reopened(r, p, amount) ==
  IF IsFullRaise(r, p, amount)
  THEN [r EXCEPT !.minRaise = RaiseSize(r, p, amount), !.acted = {}]
  ELSE r

Raise(r, p, amount) ==
  LET target == RaiseTarget(r, p, amount)
      paid   == Pay(Reopened(r, p, amount), p, target - r.contributed[p])
  IN  Responded([paid EXCEPT !.currentBet = target], p)

(* A mutated form: having acted is enough, matching the bet is not asked.  *)
PendingIfNotActed(r, p) == MayAct(r, p) /\ p \notin r.acted

(* A decision is still wanted from p.                                      *)
Pending(r, p) ==
  /\ MayAct(r, p)
  /\ p \notin r.acted \/ r.contributed[p] # r.currentBet

IsComplete(r) ==
  \/ \A p, q \in DOMAIN r.stack : Live(r, p) /\ Live(r, q) => p = q
  \/ \A p \in DOMAIN r.stack : ~Pending(r, p)
=============================================================================
