---------------------------- MODULE BettingRound ----------------------------
(***************************************************************************)
(* A betting round played to its end by the N players dealt in, seated     *)
(* clockwise 0 .. N-1: the rules of Betting, and the order in which the    *)
(* hand engine puts players on the clock (actionScanOrder).  Seat 0 is the *)
(* small blind and seat 1 the big blind; heads-up, seat 0 is the button.   *)
(***************************************************************************)
EXTENDS Betting

CONSTANTS
  N,           \* players dealt in
  SmallBlind,
  BigBlind,
  MaxStack     \* bound: the largest stack a player starts the round with

Players == 0 .. N - 1

ASSUME PlayersAssumption == N \in Nat \ {0, 1} /\ Nobody \notin Players
ASSUME BlindsAssumption ==
  /\ SmallBlind \in Nat \ {0} /\ BigBlind \in Nat \ {0} /\ SmallBlind <= BigBlind
  /\ MaxStack \in Nat

VARIABLES
  round,
  anchor,      \* the seat that acts first on this street
  start,       \* history: each player's chips when the round began
  licence,     \* history: who may still raise by the rules of poker
  answered     \* history: answered[p] = who acted since p last did

vars == <<round, anchor, start, licence, answered>>

----------------------------------------------------------------------------
(* Clockwise distance from seat s to seat p.                               *)
Distance(s, p) == (p - s) % N

(* A mutated form: always scan from the street's first seat.               *)
ScanFromAnchor == anchor

ScanStart == IF round.lastActor = Nobody THEN anchor ELSE (round.lastActor + 1) % N

(* The player who must act now: the first one with a pending decision,     *)
(* clockwise from the last actor.                                          *)
OnClock(p) ==
  /\ Pending(round, p)
  /\ \A q \in Players :
       Pending(round, q) => Distance(ScanStart, p) <= Distance(ScanStart, q)

----------------------------------------------------------------------------
PostBlind(r, p, amount) == Pay(r, p, Least(amount, r.stack[p]))

(* A mutated form: an entrant in a blind seat pays twice.                  *)
EveryEntrant(entrants) == entrants

(* A player who came in mid-hand posts a big blind of their own, unless    *)
(* the deal already put them in a blind seat.                              *)
ExtraPosters(entrants) == entrants \ {0, 1}

PostEntries(r, posters) ==
  [r EXCEPT
     !.stack       = [p \in Players |->
                        IF p \in posters THEN @[p] - Least(BigBlind, @[p]) ELSE @[p]],
     !.contributed = [p \in Players |->
                        IF p \in posters THEN @[p] + Least(BigBlind, r.stack[p]) ELSE @[p]],
     !.allIn       = @ \cup {p \in posters : r.stack[p] <= BigBlind}]

PreFlopRound(stack, entrants) ==
  LET fresh  == NewRound(stack, {}, BigBlind, BigBlind)
      blinds == PostBlind(PostBlind(fresh, 0, SmallBlind), 1, BigBlind)
  IN  PostEntries(blinds, ExtraPosters(entrants))

(* A later street starts only when two players can still bet.              *)
LaterRound(stack) == NewRound(stack, {p \in Players : stack[p] = 0}, 0, BigBlind)

Init ==
  /\ start \in [Players -> 0 .. MaxStack]
  /\ \/ /\ \E entrants \in SUBSET Players :
             round = PreFlopRound(start, entrants)
        /\ anchor = 2 % N
     \/ /\ \E p, q \in Players : p # q /\ start[p] > 0 /\ start[q] > 0
        /\ round = LaterRound(start)
        /\ anchor = IF N = 2 THEN 1 ELSE 0
  /\ licence = Players
  /\ answered = [p \in Players |-> Players]

(* p's decision takes the round to r.                                      *)
Decide(p, r) ==
  /\ round' = r
  /\ licence' = IF r.currentBet > round.currentBet
                   /\ r.currentBet - round.currentBet >= round.minRaise
                THEN Players \ {p} ELSE licence \ {p}
  /\ answered' = [q \in Players |-> IF q = p THEN {} ELSE answered[q] \cup {p}]
  /\ UNCHANGED <<anchor, start>>

ActFold(p)  == OnClock(p) /\ Decide(p, Fold(round, p))
ActCheck(p) == OnClock(p) /\ CanCheck(round, p) /\ Decide(p, Check(round, p))
ActCall(p)  == OnClock(p) /\ CanCall(round, p) /\ Decide(p, Call(round, p))
ActRaise(p) ==
  /\ OnClock(p)
  /\ \E amount \in 1 .. N * MaxStack :
       CanRaise(round, p, amount) /\ Decide(p, Raise(round, p, amount))

(* The turn timer checks for a player who owes nothing, folds any other.   *)
TurnTimeout(p) == IF CanCheck(round, p) THEN ActCheck(p) ELSE ActFold(p)

Next ==
  /\ ~IsComplete(round)
  /\ \E p \in Players : ActFold(p) \/ ActCheck(p) \/ ActCall(p) \/ ActRaise(p)

(* Players owe the table nothing, the timer does: it alone is fair.        *)
Spec ==
  /\ Init /\ [][Next]_vars
  /\ WF_vars(~IsComplete(round) /\ \E p \in Players : TurnTimeout(p))

----------------------------------------------------------------------------
RoundType ==
  [stack : [Players -> Nat], contributed : [Players -> Nat],
   folded : SUBSET Players, allIn : SUBSET Players, acted : SUBSET Players,
   currentBet : Nat, minRaise : Nat, lastActor : Players \cup {Nobody}]

TypeOK ==
  /\ round \in RoundType
  /\ anchor \in Players
  /\ start \in [Players -> Nat]
  /\ licence \subseteq Players
  /\ answered \in [Players -> SUBSET Players]

(* Chips only move from a player's own stack to their own contribution:    *)
(* an all-in for less, a clamped raise and a short blind never create or   *)
(* lose one (the deltas of betting.Round.Act).                             *)
ChipsConserved ==
  \A p \in Players : round.stack[p] + round.contributed[p] = start[p]

(* Nobody sees the next street for less than the bet unless they are out   *)
(* of chips, and nobody is ever asked for more than the bet: what the      *)
(* side-pot layers rely on when the round closes (betting.Round.IsComplete)*)
NoFreeRide ==
  /\ \A p \in Players : round.contributed[p] <= round.currentBet
  /\ IsComplete(round) =>
       \/ \A p, q \in Players : Live(round, p) /\ Live(round, q) => p = q
       \/ \A p \in Players : Live(round, p) /\ round.contributed[p] < round.currentBet
                               => round.stack[p] = 0

(* No seat acts twice while another seat still able to act has not         *)
(* answered in between: reopening the action must not let an earlier seat  *)
(* jump the queue (the LastActorID cursor).                                *)
NoSeatSkipped ==
  \A p, q \in Players :
    OnClock(p) /\ p # q /\ MayAct(round, q) => q \in answered[p]

(* A player who has acted raises again only after someone else made a full *)
(* raise, measured in the chips that really went in: a short all-in never  *)
(* reopens the action, whatever amount the client asked for.               *)
RaiseNeedsLicence ==
  [][\A p \in Players :
       round'.currentBet > round.currentBet /\ round'.lastActor = p => p \in licence]_vars

(* The round always ends: every raise shrinks a stack and every other      *)
(* response is wanted once per level, so no sequence of legal decisions    *)
(* leaves the table waiting on the same players for ever.                  *)
RoundEnds == <>IsComplete(round)
=============================================================================
