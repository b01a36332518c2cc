------------------------- MODULE BettingRoundProofs -------------------------
(***************************************************************************)
(* Theorems about a betting round, for any number of players, stacks and   *)
(* blinds.                                                                 *)
(***************************************************************************)
EXTENDS BettingRound, TLAPS

(* What a decision must preserve of the round itself: its type, every      *)
(* player's chips, and the two facts NoFreeRide rests on.                  *)
SoundRound(r) ==
  /\ r \in RoundType
  /\ \A p \in Players : r.stack[p] + r.contributed[p] = start[p]
  /\ \A p \in Players : r.contributed[p] <= r.currentBet
  /\ \A p \in r.allIn : r.stack[p] = 0

(* The inductive invariant: besides a sound round, whoever has not acted   *)
(* since the last full raise holds a licence to raise.                     *)
IInv ==
  /\ TypeOK
  /\ SoundRound(round)
  /\ \A p \in Players : MayAct(round, p) /\ p \notin round.acted => p \in licence

----------------------------------------------------------------------------
(* What moving n of p's own chips into the round does to the chips.        *)
PaidChips(r, p, n, q) ==
  /\ q.stack = [r.stack EXCEPT ![p] = r.stack[p] - n]
  /\ q.contributed = [r.contributed EXCEPT ![p] = r.contributed[p] + n]
  /\ q.allIn = IF n = r.stack[p] THEN r.allIn \cup {p} ELSE r.allIn

Paid(r, p, n, q) ==
  /\ q \in RoundType
  /\ PaidChips(r, p, n, q)
  /\ q.folded = r.folded /\ q.acted = r.acted
  /\ q.currentBet = r.currentBet /\ q.minRaise = r.minRaise
  /\ q.lastActor = r.lastActor

LEMMA PayFields ==
  ASSUME NEW r \in RoundType, NEW p \in Players, NEW n \in Nat, n <= r.stack[p]
  PROVE  Paid(r, p, n, Pay(r, p, n))
<1> DEFINE s == [r.stack EXCEPT ![p] = r.stack[p] - n]
           c == [r.contributed EXCEPT ![p] = r.contributed[p] + n]
           a == IF n = r.stack[p] THEN r.allIn \cup {p} ELSE r.allIn
           q == Pay(r, p, n)
<1>1. q = [r EXCEPT !.stack = s, !.contributed = c, !.allIn = a]
  BY Zenon DEF RoundType, Pay
<1>2. /\ r.stack \in [Players -> Nat] /\ r.contributed \in [Players -> Nat]
      /\ r.allIn \subseteq Players
  BY DEF RoundType
<1>3. s \in [Players -> Nat] /\ c \in [Players -> Nat] /\ a \in SUBSET Players
  BY <1>2
<1> HIDE DEF s, c, a, q
<1>4. /\ q \in RoundType
      /\ q.stack = s /\ q.contributed = c /\ q.allIn = a
      /\ q.folded = r.folded /\ q.acted = r.acted
      /\ q.currentBet = r.currentBet /\ q.minRaise = r.minRaise
      /\ q.lastActor = r.lastActor
  BY <1>1, <1>3 DEF RoundType
<1> QED  BY <1>4, Zenon DEF Paid, PaidChips, s, c, a, q

(* A well-typed round in which p paid n chips, and no more than the bet    *)
(* now is, is sound.                                                       *)
LEMMA PaidSound ==
  ASSUME NEW r, SoundRound(r), start \in [Players -> Nat],
         NEW p \in Players, NEW n \in Nat, n <= r.stack[p],
         NEW q \in RoundType, PaidChips(r, p, n, q),
         r.currentBet <= q.currentBet, r.contributed[p] + n <= q.currentBet
  PROVE  SoundRound(q)
<1>1. /\ r.stack \in [Players -> Nat] /\ r.contributed \in [Players -> Nat]
      /\ r.allIn \subseteq Players /\ r.currentBet \in Nat /\ q.currentBet \in Nat
  BY DEF SoundRound, RoundType
<1>2. \A s \in Players : /\ q.stack[s] + q.contributed[s] = start[s]
                         /\ q.contributed[s] <= q.currentBet
  BY <1>1 DEF SoundRound, PaidChips
<1>3. \A s \in q.allIn : q.stack[s] = 0
  BY <1>1 DEF SoundRound, PaidChips
<1> QED  BY <1>2, <1>3 DEF SoundRound

(* Who pays is level with the bet or out of chips, and nobody else is any  *)
(* further from it than before.                                            *)
SettledBy(r, p, q) ==
  /\ p \in q.allIn \/ q.contributed[p] = q.currentBet
  /\ q.allIn \subseteq r.allIn \cup {p}
  /\ \A s \in Players \ {p} : q.contributed[s] = r.contributed[s]

LEMMA PaidSettles ==
  ASSUME NEW r \in RoundType, NEW p \in Players, NEW n, NEW q, PaidChips(r, p, n, q),
         n = r.stack[p] \/ r.contributed[p] + n = q.currentBet
  PROVE  SettledBy(r, p, q)
BY DEF RoundType, PaidChips, SettledBy

----------------------------------------------------------------------------
(* Each decision, field by field.  p is a player who may act.              *)
FoldedBy(r, p, q) ==
  /\ q \in RoundType
  /\ q.stack = r.stack /\ q.contributed = r.contributed /\ q.allIn = r.allIn
  /\ q.folded = r.folded \cup {p} /\ q.acted = r.acted
  /\ q.currentBet = r.currentBet /\ q.lastActor = p

LEMMA FoldFields ==
  ASSUME NEW r \in RoundType, NEW p \in Players
  PROVE  FoldedBy(r, p, Fold(r, p))
<1> DEFINE f == r.folded \cup {p}
           q == Fold(r, p)
<1>1. q = [r EXCEPT !.folded = f, !.lastActor = p]  BY Zenon DEF RoundType, Fold
<1>2. f \in SUBSET Players  BY DEF RoundType
<1> HIDE DEF f, q
<1>3. /\ q \in RoundType
      /\ q.stack = r.stack /\ q.contributed = r.contributed /\ q.allIn = r.allIn
      /\ q.folded = f /\ q.acted = r.acted
      /\ q.currentBet = r.currentBet /\ q.lastActor = p
  BY <1>1, <1>2 DEF RoundType
<1> QED  BY <1>3, Zenon DEF FoldedBy, f, q

RespondedBy(r, p, q) ==
  /\ q \in RoundType
  /\ q.stack = r.stack /\ q.contributed = r.contributed /\ q.allIn = r.allIn
  /\ q.folded = r.folded /\ q.acted = r.acted \cup {p}
  /\ q.currentBet = r.currentBet /\ q.minRaise = r.minRaise /\ q.lastActor = p

LEMMA RespondedFields ==
  ASSUME NEW r \in RoundType, NEW p \in Players
  PROVE  RespondedBy(r, p, Responded(r, p))
<1> DEFINE a == r.acted \cup {p}
           q == Responded(r, p)
<1>1. q = [r EXCEPT !.acted = a, !.lastActor = p]  BY Zenon DEF RoundType, Responded
<1>2. a \in SUBSET Players  BY DEF RoundType
<1> HIDE DEF a, q
<1>3. /\ q \in RoundType
      /\ q.stack = r.stack /\ q.contributed = r.contributed /\ q.allIn = r.allIn
      /\ q.folded = r.folded /\ q.acted = a
      /\ q.currentBet = r.currentBet /\ q.minRaise = r.minRaise /\ q.lastActor = p
  BY <1>1, <1>2 DEF RoundType
<1> QED  BY <1>3, Zenon DEF RespondedBy, a, q

(* A call pays what is owed, or all that is left.                          *)
LEMMA CallSound ==
  ASSUME NEW r, SoundRound(r), start \in [Players -> Nat],
         NEW p \in Players, CanCall(r, p)
  PROVE  LET q == Call(r, p) IN
         /\ SoundRound(q)
         /\ q.folded = r.folded /\ q.acted = r.acted \cup {p}
         /\ r.allIn \subseteq q.allIn
         /\ q.currentBet = r.currentBet /\ q.lastActor = p
         /\ SettledBy(r, p, q)
<1> DEFINE n    == Least(Owed(r, p), r.stack[p])
           paid == Pay(r, p, n)
           q    == Responded(paid, p)
<1>1. r \in RoundType  BY DEF SoundRound
<1>2. /\ r.stack[p] \in Nat /\ r.contributed[p] \in Nat /\ r.currentBet \in Nat
  BY <1>1 DEF RoundType
<1>3. n \in Nat /\ n <= r.stack[p] /\ r.contributed[p] + n <= r.currentBet
  BY <1>2 DEF CanCall, Owed, Least
<1>4. q = Call(r, p)  BY Zenon DEF Call
<1> HIDE DEF n
<1>5. Paid(r, p, n, paid)  BY <1>1, <1>3, PayFields
<1> HIDE DEF paid
<1>6. RespondedBy(paid, p, q)
  BY <1>5, RespondedFields DEF Paid
<1> HIDE DEF q
<1>7. PaidChips(r, p, n, q)  BY <1>5, <1>6 DEF Paid, PaidChips, RespondedBy
<1>8. /\ q \in RoundType /\ q.folded = r.folded /\ q.acted = r.acted \cup {p}
      /\ q.currentBet = r.currentBet /\ q.lastActor = p
  BY <1>5, <1>6 DEF Paid, RespondedBy
<1>9. SoundRound(q)  BY <1>2, <1>3, <1>7, <1>8, PaidSound
<1>10. r.allIn \subseteq q.allIn  BY <1>7 DEF PaidChips
<1>11. n = r.stack[p] \/ r.contributed[p] + n = r.currentBet
  BY <1>2 DEF n, Owed, Least
<1>12. SettledBy(r, p, q)  BY <1>1, <1>7, <1>8, <1>11, PaidSettles
<1> QED  BY <1>4, <1>8, <1>9, <1>10, <1>12

(* A raise pays up to its clamped target, which becomes the bet; acted     *)
(* starts again from p alone exactly when the raise is a full one.         *)
LEMMA RaiseSound ==
  ASSUME NEW r, SoundRound(r), start \in [Players -> Nat],
         NEW p \in Players, NEW amount \in Nat, CanRaise(r, p, amount)
  PROVE  LET q == Raise(r, p, amount) IN
         /\ SoundRound(q)
         /\ q.folded = r.folded
         /\ r.allIn \subseteq q.allIn
         /\ q.lastActor = p
         /\ IF q.currentBet - r.currentBet >= r.minRaise
            THEN q.acted = {p} ELSE q.acted = r.acted \cup {p}
         /\ q.currentBet > r.currentBet
         /\ SettledBy(r, p, q)
<1> DEFINE target == RaiseTarget(r, p, amount)
           n      == target - r.contributed[p]
           open   == Reopened(r, p, amount)
           paid   == Pay(open, p, n)
           bet    == [paid EXCEPT !.currentBet = target]
           q      == Responded(bet, p)
<1>1. r \in RoundType  BY DEF SoundRound
<1>2. /\ r.stack[p] \in Nat /\ r.contributed[p] \in Nat /\ r.currentBet \in Nat
      /\ r.minRaise \in Nat /\ r.contributed[p] <= r.currentBet
  BY <1>1 DEF RoundType, SoundRound
<1>3. /\ target \in Nat /\ target > r.currentBet /\ n \in Nat
      /\ n <= r.stack[p] /\ r.contributed[p] + n = target
      /\ RaiseSize(r, p, amount) = target - r.currentBet
  BY <1>2 DEF CanRaise, RaiseSize, RaiseTarget, AllInTo, Least
<1>4. q = Raise(r, p, amount)  BY Zenon DEF Raise
<1> HIDE DEF target, n
<1>5. /\ open \in RoundType
      /\ open.stack = r.stack /\ open.contributed = r.contributed
      /\ open.allIn = r.allIn /\ open.folded = r.folded
      /\ open.acted = IF target - r.currentBet >= r.minRaise THEN {} ELSE r.acted
  <2>1. CASE IsFullRaise(r, p, amount)
    <3> DEFINE m == RaiseSize(r, p, amount)
    <3>1. m \in Nat  BY <1>2, <1>3
    <3>2. open = [r EXCEPT !.minRaise = m, !.acted = {}]  BY <2>1, Zenon DEF Reopened
    <3> HIDE DEF m, open
    <3>3. /\ open \in RoundType
          /\ open.stack = r.stack /\ open.contributed = r.contributed
          /\ open.allIn = r.allIn /\ open.folded = r.folded /\ open.acted = {}
      BY <1>1, <3>1, <3>2 DEF RoundType
    <3> QED  BY <2>1, <1>3, <3>3 DEF IsFullRaise
  <2>2. CASE ~IsFullRaise(r, p, amount)
    <3>1. open = r  BY <2>2, Zenon DEF Reopened
    <3> QED  BY <2>2, <1>1, <1>3, <3>1 DEF IsFullRaise
  <2> QED  BY <2>1, <2>2
<1> HIDE DEF open
<1>6. Paid(open, p, n, paid)  BY <1>3, <1>5, PayFields
<1> HIDE DEF paid
<1>7. /\ bet \in RoundType
      /\ bet.stack = paid.stack /\ bet.contributed = paid.contributed
      /\ bet.allIn = paid.allIn /\ bet.folded = paid.folded /\ bet.acted = paid.acted
      /\ bet.currentBet = target
  BY <1>3, <1>6 DEF Paid, RoundType
<1> HIDE DEF bet
<1>8. RespondedBy(bet, p, q)  BY <1>7, RespondedFields
<1> HIDE DEF q
<1>9. PaidChips(r, p, n, q)
  BY <1>5, <1>6, <1>7, <1>8 DEF Paid, PaidChips, RespondedBy
<1>10. /\ q \in RoundType /\ q.folded = r.folded
       /\ q.currentBet = target /\ q.lastActor = p
       /\ q.acted = open.acted \cup {p}
  BY <1>5, <1>6, <1>7, <1>8 DEF Paid, RespondedBy
<1>11. SoundRound(q)  BY <1>2, <1>3, <1>9, <1>10, PaidSound
<1>12. r.allIn \subseteq q.allIn  BY <1>9 DEF PaidChips
<1>13. IF q.currentBet - r.currentBet >= r.minRaise
       THEN q.acted = {p} ELSE q.acted = r.acted \cup {p}
  BY <1>5, <1>10
<1>14. SettledBy(r, p, q)  BY <1>1, <1>3, <1>9, <1>10, PaidSettles
<1> QED  BY <1>3, <1>4, <1>10, <1>11, <1>12, <1>13, <1>14

----------------------------------------------------------------------------
(* Each decision of the player on the clock keeps the invariant.           *)
LEMMA DecideKeeps ==
  ASSUME IInv, NEW p \in Players, NEW r,
         MayAct(round, p),
         SoundRound(r), r.lastActor = p,
         Decide(p, r),
         round.folded \subseteq r.folded, round.allIn \subseteq r.allIn,
         r.currentBet >= round.currentBet,
         IF r.currentBet > round.currentBet
            /\ r.currentBet - round.currentBet >= round.minRaise
         THEN r.acted = {p}
         ELSE p \in r.acted \cup r.folded /\ round.acted \subseteq r.acted
  PROVE  IInv'
<1>1. /\ round' = r /\ anchor' = anchor /\ start' = start
      /\ licence' = IF r.currentBet > round.currentBet
                        /\ r.currentBet - round.currentBet >= round.minRaise
                     THEN Players \ {p} ELSE licence \ {p}
      /\ answered' = [q \in Players |-> IF q = p THEN {} ELSE answered[q] \cup {p}]
  BY DEF Decide
<1>2. TypeOK'
  <2>1. r \in RoundType  BY DEF SoundRound
  <2>2. licence' \subseteq Players  BY <1>1 DEF IInv, TypeOK
  <2>3. answered' \in [Players -> SUBSET Players]  BY <1>1 DEF IInv, TypeOK
  <2>4. anchor \in Players /\ start \in [Players -> Nat]  BY DEF IInv, TypeOK
  <2> QED  BY <1>1, <2>1, <2>2, <2>3, <2>4 DEF TypeOK, RoundType, Players
<1>3. SoundRound(round)'
  BY <1>1 DEF SoundRound, RoundType, Players
<1>4. (\A q \in Players : MayAct(round, q) /\ q \notin round.acted => q \in licence)'
  BY <1>1 DEF IInv, MayAct
<1> QED  BY <1>2, <1>3, <1>4 DEF IInv

LEMMA StepKeeps == IInv /\ [Next]_vars => IInv'
<1> SUFFICES ASSUME IInv, [Next]_vars PROVE IInv'
  OBVIOUS
<1>0. /\ SoundRound(round) /\ round \in RoundType /\ start \in [Players -> Nat]
  BY DEF IInv, TypeOK
<1>1. ASSUME NEW p \in Players, ActFold(p) PROVE IInv'
  <2> DEFINE r == Fold(round, p)
  <2>1. FoldedBy(round, p, r)  BY <1>0, FoldFields
  <2>2. MayAct(round, p) /\ Decide(p, r)  BY <1>1 DEF ActFold, OnClock, Pending
  <2> HIDE DEF r
  <2>3. SoundRound(r)  BY <1>0, <2>1 DEF SoundRound, FoldedBy
  <2>4. round.currentBet \in Nat /\ round.minRaise \in Nat  BY <1>0 DEF RoundType
  <2> QED  BY <2>1, <2>2, <2>3, <2>4, DecideKeeps DEF FoldedBy
<1>2. ASSUME NEW p \in Players, ActCheck(p) PROVE IInv'
  <2> DEFINE r == Responded(round, p)
  <2>1. RespondedBy(round, p, r)  BY <1>0, RespondedFields
  <2>2. MayAct(round, p) /\ Decide(p, r)  BY <1>2 DEF ActCheck, Check, OnClock, Pending
  <2> HIDE DEF r
  <2>3. SoundRound(r)  BY <1>0, <2>1 DEF SoundRound, RespondedBy
  <2>4. round.currentBet \in Nat /\ round.minRaise \in Nat  BY <1>0 DEF RoundType
  <2> QED  BY <2>1, <2>2, <2>3, <2>4, DecideKeeps DEF RespondedBy
<1>3. ASSUME NEW p \in Players, ActCall(p) PROVE IInv'
  <2> DEFINE r == Call(round, p)
  <2>1. CanCall(round, p) /\ MayAct(round, p) /\ Decide(p, r)
    BY <1>3 DEF ActCall, OnClock, Pending
  <2>2. /\ SoundRound(r)
        /\ r.folded = round.folded /\ r.acted = round.acted \cup {p}
        /\ round.allIn \subseteq r.allIn
        /\ r.currentBet = round.currentBet /\ r.lastActor = p
    BY <1>0, <2>1, CallSound
  <2> HIDE DEF r
  <2>3. round.currentBet \in Nat /\ round.minRaise \in Nat  BY <1>0 DEF RoundType
  <2> QED  BY <2>1, <2>2, <2>3, DecideKeeps
<1>4. ASSUME NEW p \in Players, ActRaise(p) PROVE IInv'
  <2>1. PICK amount \in 1 .. N * MaxStack :
          CanRaise(round, p, amount) /\ Decide(p, Raise(round, p, amount))
    BY <1>4 DEF ActRaise
  <2> DEFINE r == Raise(round, p, amount)
  <2>2. amount \in Nat  BY <2>1, PlayersAssumption, BlindsAssumption
  <2>3. MayAct(round, p)  BY <1>4 DEF ActRaise, OnClock, Pending
  <2>4. /\ SoundRound(r)
        /\ r.folded = round.folded
        /\ round.allIn \subseteq r.allIn
        /\ r.lastActor = p
        /\ IF r.currentBet - round.currentBet >= round.minRaise
           THEN r.acted = {p} ELSE r.acted = round.acted \cup {p}
        /\ r.currentBet > round.currentBet
    BY <1>0, <2>1, <2>2, RaiseSound
  <2>5. Decide(p, r)  BY <2>1
  <2> HIDE DEF r
  <2>6. r.currentBet \in Nat /\ round.currentBet \in Nat /\ round.minRaise \in Nat
    BY <1>0, <2>4 DEF SoundRound, RoundType
  <2> QED  BY <2>3, <2>4, <2>5, <2>6, DecideKeeps
<1>5. CASE UNCHANGED vars
  BY <1>5 DEF vars, IInv, TypeOK, SoundRound, RoundType, Players, MayAct
<1> QED  BY <1>1, <1>2, <1>3, <1>4, <1>5 DEF Next

----------------------------------------------------------------------------
(* A round as the deal seeds it: the blinds, then the entrants' posts.     *)
LEMMA PreFlopSound ==
  ASSUME start \in [Players -> Nat], NEW entrants \in SUBSET Players
  PROVE  SoundRound(PreFlopRound(start, entrants)) /\ PreFlopRound(start, entrants).acted = {}
<1> DEFINE fresh == NewRound(start, {}, BigBlind, BigBlind)
           small == PostBlind(fresh, 0, SmallBlind)
           big   == PostBlind(small, 1, BigBlind)
           posters == ExtraPosters(entrants)
           q     == PostEntries(big, posters)
           sb    == Least(SmallBlind, fresh.stack[0])
           bb    == Least(BigBlind, small.stack[1])
<1>1. 0 \in Players /\ 1 \in Players  BY PlayersAssumption DEF Players
<1>2. /\ SmallBlind \in Nat /\ BigBlind \in Nat /\ SmallBlind <= BigBlind
  BY BlindsAssumption
<1>3. /\ fresh \in RoundType /\ SoundRound(fresh)
      /\ fresh.stack = start /\ fresh.contributed = [p \in Players |-> 0]
      /\ fresh.currentBet = BigBlind /\ fresh.acted = {}
  BY <1>2 DEF NewRound, RoundType, SoundRound
<1> HIDE DEF fresh
<1>4. /\ sb \in Nat /\ sb <= fresh.stack[0] /\ sb <= BigBlind
  BY <1>1, <1>2, <1>3 DEF Least
<1>5. small = Pay(fresh, 0, sb)  BY Zenon DEF PostBlind
<1> HIDE DEF small, sb
<1>6. Paid(fresh, 0, sb, small)  BY <1>1, <1>3, <1>4, <1>5, PayFields
<1>7. /\ small \in RoundType /\ SoundRound(small) /\ small.currentBet = BigBlind
  <2>1. /\ small \in RoundType /\ PaidChips(fresh, 0, sb, small)
        /\ small.currentBet = fresh.currentBet
    BY <1>6 DEF Paid
  <2>2. fresh.contributed[0] + sb <= small.currentBet
    BY <1>1, <1>3, <1>4, <2>1
  <2>3. fresh.currentBet <= small.currentBet  BY <1>2, <1>3, <2>1
  <2> QED  BY <1>1, <1>3, <1>4, <2>1, <2>2, <2>3, PaidSound
<1>8. \A p \in Players \ {0} : small.contributed[p] = 0
  BY <1>3, <1>6 DEF Paid, PaidChips
<1>9. /\ bb \in Nat /\ bb <= small.stack[1] /\ bb <= BigBlind
  BY <1>1, <1>2, <1>7 DEF Least, RoundType
<1>10. big = Pay(small, 1, bb)  BY Zenon DEF PostBlind
<1> HIDE DEF big, bb
<1>11. Paid(small, 1, bb, big)  BY <1>1, <1>7, <1>9, <1>10, PayFields
<1>12. /\ big \in RoundType /\ SoundRound(big) /\ big.currentBet = BigBlind
  <2>1. /\ big \in RoundType /\ PaidChips(small, 1, bb, big)
        /\ big.currentBet = small.currentBet
    BY <1>11 DEF Paid
  <2>2. small.contributed[1] + bb <= big.currentBet
    BY <1>1, <1>7, <1>8, <1>9, <2>1
  <2>3. small.currentBet <= big.currentBet  BY <1>2, <1>7, <2>1
  <2> QED  BY <1>1, <1>7, <1>9, <2>1, <2>2, <2>3, PaidSound
<1>13. \A p \in Players \ {0, 1} : big.contributed[p] = 0
  BY <1>1, <1>7, <1>8, <1>11 DEF Paid, PaidChips, RoundType
<1>14. posters \subseteq Players \ {0, 1}  BY DEF ExtraPosters
<1> DEFINE s == [p \in Players |-> IF p \in posters
                   THEN big.stack[p] - Least(BigBlind, big.stack[p]) ELSE big.stack[p]]
           c == [p \in Players |-> IF p \in posters
                   THEN big.contributed[p] + Least(BigBlind, big.stack[p])
                   ELSE big.contributed[p]]
           a == big.allIn \cup {p \in posters : big.stack[p] <= BigBlind}
<1>15. q = [big EXCEPT !.stack = s, !.contributed = c, !.allIn = a]
  BY Zenon DEF PostEntries
<1> HIDE DEF posters
<1>16. /\ big.stack \in [Players -> Nat] /\ big.contributed \in [Players -> Nat]
       /\ big.allIn \subseteq Players
  BY <1>12 DEF RoundType
<1>17. s \in [Players -> Nat] /\ c \in [Players -> Nat] /\ a \in SUBSET Players
  BY <1>2, <1>14, <1>16 DEF Least
<1>18. \A p \in Players : s[p] + c[p] = start[p] /\ c[p] <= BigBlind
  BY <1>2, <1>12, <1>13, <1>14, <1>16 DEF Least, SoundRound
<1>19. \A p \in a : s[p] = 0
  <2>1. \A p \in a : p \in Players  BY <1>17
  <2>2. \A p \in big.allIn : big.stack[p] = 0  BY <1>12 DEF SoundRound
  <2>3. \A p \in a : big.stack[p] = 0 \/ (p \in posters /\ big.stack[p] <= BigBlind)
    BY <2>2
  <2> QED  BY <1>2, <1>16, <2>1, <2>3 DEF Least
<1>20. q = PreFlopRound(start, entrants)
  BY Zenon DEF PreFlopRound, fresh, small, big, posters
<1> HIDE DEF s, c, a, q
<1>21. /\ q \in RoundType /\ q.stack = s /\ q.contributed = c /\ q.allIn = a
       /\ q.currentBet = big.currentBet /\ q.acted = big.acted
  BY <1>12, <1>15, <1>17 DEF RoundType
<1>22. SoundRound(q)  BY <1>12, <1>18, <1>19, <1>21 DEF SoundRound
<1>23. q.acted = {}  BY <1>3, <1>6, <1>11, <1>21 DEF Paid
<1> QED  BY <1>20, <1>22, <1>23

LEMMA LaterSound ==
  ASSUME start \in [Players -> Nat]
  PROVE  SoundRound(LaterRound(start))
  BY BlindsAssumption DEF SoundRound, LaterRound, NewRound, RoundType

LEMMA InitHolds == Init => IInv
<1> SUFFICES ASSUME Init PROVE IInv
  OBVIOUS
<1>1. start \in [Players -> Nat]  BY BlindsAssumption DEF Init
<1>2. SoundRound(round)  BY <1>1, PreFlopSound, LaterSound DEF Init
<1>3. anchor \in Players
  BY PlayersAssumption DEF Init, Players
<1>4. licence = Players /\ answered \in [Players -> SUBSET Players]  BY DEF Init
<1> QED  BY <1>1, <1>2, <1>3, <1>4 DEF IInv, TypeOK, SoundRound

THEOREM Invariance == Spec => []IInv
  BY InitHolds, StepKeeps, PTL DEF Spec

(* Every state of a betting round is well typed: in particular no stack    *)
(* and no contribution is ever negative, whatever amount a client sends.   *)
THEOREM TypeCorrect == Spec => []TypeOK
  BY Invariance, PTL DEF IInv

(* No decision creates or destroys a chip (betting.Round.Act).             *)
THEOREM ChipsAreConserved == Spec => []ChipsConserved
<1>1. IInv => ChipsConserved  BY DEF IInv, SoundRound, ChipsConserved
<1> QED  BY <1>1, Invariance, PTL

(* A complete round has every live player level with the bet or out of     *)
(* chips (betting.Round.IsComplete).                                       *)
THEOREM NobodyRidesFree == Spec => []NoFreeRide
<1>1. IInv => NoFreeRide
  <2> SUFFICES ASSUME IInv PROVE NoFreeRide
    OBVIOUS
  <2>1. /\ round \in RoundType
        /\ \A p \in Players : round.contributed[p] <= round.currentBet
        /\ \A p \in round.allIn : round.stack[p] = 0
    BY DEF IInv, SoundRound
  <2>2. DOMAIN round.stack = Players  BY <2>1 DEF RoundType
  <2>3. ASSUME NEW p \in Players, ~Pending(round, p), Live(round, p),
               round.contributed[p] < round.currentBet
        PROVE  round.stack[p] = 0
    BY <2>1, <2>3 DEF Pending, MayAct, Live, RoundType
  <2> QED  BY <2>1, <2>2, <2>3 DEF NoFreeRide, IsComplete
<1> QED  BY <1>1, Invariance, PTL

(* A short all-in never reopens the action (betting.Round.Act).            *)
THEOREM RaisesAreLicensed == Spec => RaiseNeedsLicence
<1>1. ASSUME IInv, [Next]_vars, NEW p \in Players,
             round'.currentBet > round.currentBet, round'.lastActor = p
      PROVE  p \in licence
  <2>1. /\ SoundRound(round) /\ round \in RoundType /\ start \in [Players -> Nat]
        /\ round.currentBet \in Nat
    BY <1>1 DEF IInv, TypeOK, RoundType
  <2>2. ASSUME NEW q \in Players, ActFold(q) PROVE FALSE
    <3>1. round' = Fold(round, q)  BY <2>2 DEF ActFold, Decide
    <3>2. FoldedBy(round, q, Fold(round, q))  BY <2>1, FoldFields
    <3> QED  BY <1>1, <2>1, <3>1, <3>2 DEF FoldedBy
  <2>3. ASSUME NEW q \in Players, ActCheck(q) PROVE FALSE
    <3>1. round' = Responded(round, q)  BY <2>3 DEF ActCheck, Check, Decide
    <3>2. RespondedBy(round, q, Responded(round, q))  BY <2>1, RespondedFields
    <3> QED  BY <1>1, <2>1, <3>1, <3>2 DEF RespondedBy
  <2>4. ASSUME NEW q \in Players, ActCall(q) PROVE FALSE
    <3>1. round' = Call(round, q) /\ CanCall(round, q)  BY <2>4 DEF ActCall, Decide
    <3>2. Call(round, q).currentBet = round.currentBet  BY <2>1, <3>1, CallSound
    <3> QED  BY <1>1, <2>1, <3>1, <3>2
  <2>5. ASSUME NEW q \in Players, ActRaise(q) PROVE p \in licence
    <3>1. PICK amount \in 1 .. N * MaxStack :
            CanRaise(round, q, amount) /\ round' = Raise(round, q, amount)
      BY <2>5 DEF ActRaise, Decide
    <3>2. amount \in Nat  BY <3>1, PlayersAssumption, BlindsAssumption
    <3>3. Raise(round, q, amount).lastActor = q  BY <2>1, <3>1, <3>2, RaiseSound
    <3>4. p = q  BY <1>1, <3>1, <3>3
    <3>5. MayAct(round, q)  BY <2>5 DEF ActRaise, OnClock, Pending
    <3>6. q \notin round.acted  BY <3>1 DEF CanRaise
    <3> QED  BY <1>1, <3>4, <3>5, <3>6 DEF IInv
  <2>6. CASE UNCHANGED vars
    BY <1>1, <2>1, <2>6 DEF vars
  <2> QED  BY <1>1, <2>2, <2>3, <2>4, <2>5, <2>6 DEF Next
<1>2. IInv /\ [Next]_vars =>
        [\A p \in Players :
           round'.currentBet > round.currentBet /\ round'.lastActor = p => p \in licence]_vars
  BY <1>1
<1> QED  BY <1>2, Invariance, PTL DEF Spec, RaiseNeedsLicence

----------------------------------------------------------------------------
(* The order of the seats                                                  *)

(* A decision of p, as the clock sees it: p is asked no more, and either   *)
(* the others are as they were or, after a raise, are all asked.           *)
Decided(r, p, q) ==
  /\ q.lastActor = p /\ ~Pending(q, p)
  /\ \A s \in Players \ {p} : MayAct(q, s) <=> MayAct(r, s)
  /\ \/ \A s \in Players \ {p} : Pending(q, s) <=> Pending(r, s)
     \/ \A s \in Players \ {p} : MayAct(q, s) => Pending(q, s)

LEMMA StepDecides ==
  ASSUME IInv, NEW p \in Players, ActFold(p) \/ ActCheck(p) \/ ActCall(p) \/ ActRaise(p)
  PROVE  OnClock(p) /\ Decide(p, round') /\ Decided(round, p, round')
<1>1. /\ SoundRound(round) /\ round \in RoundType /\ start \in [Players -> Nat]
      /\ OnClock(p) /\ MayAct(round, p) /\ Nobody \notin Players
      /\ \A s \in Players : round.contributed[s] <= round.currentBet
  BY PlayersAssumption
  DEF IInv, TypeOK, SoundRound, ActFold, ActCheck, ActCall, ActRaise, OnClock, Pending
<1>2. CASE ActFold(p)
  <2>1. Decide(p, round') /\ round' = Fold(round, p)
    BY <1>2 DEF ActFold, Decide
  <2>2. FoldedBy(round, p, round')  BY <1>1, <2>1, FoldFields
  <2>3. Decided(round, p, round')
    BY <2>2 DEF FoldedBy, Decided, Pending, MayAct
  <2> QED  BY <1>1, <2>1, <2>3
<1>3. CASE ActCheck(p)
  <2>1. Decide(p, round') /\ round' = Responded(round, p) /\ round.contributed[p] >= round.currentBet
    BY <1>3 DEF ActCheck, Check, Decide, CanCheck
  <2>2. RespondedBy(round, p, round')  BY <1>1, <2>1, RespondedFields
  <2>3. round.contributed[p] = round.currentBet
    BY <1>1, <2>1 DEF RoundType
  <2>4. Decided(round, p, round')
    BY <2>2, <2>3 DEF RespondedBy, Decided, Pending, MayAct
  <2> QED  BY <1>1, <2>1, <2>4
<1>4. CASE ActCall(p)
  <2>1. Decide(p, round') /\ round' = Call(round, p) /\ CanCall(round, p)
    BY <1>4 DEF ActCall, Decide
  <2>2. /\ round'.folded = round.folded /\ round'.acted = round.acted \cup {p}
        /\ round.allIn \subseteq round'.allIn /\ round'.currentBet = round.currentBet
        /\ round'.lastActor = p /\ SettledBy(round, p, round')
    BY <1>1, <2>1, CallSound
  <2>3. ~Pending(round', p)
    BY <2>2 DEF SettledBy, Pending, MayAct
  <2>4. \A s \in Players \ {p} : /\ MayAct(round', s) <=> MayAct(round, s)
                                 /\ Pending(round', s) <=> Pending(round, s)
    BY <2>2 DEF SettledBy, Pending, MayAct
  <2> QED  BY <1>1, <2>1, <2>2, <2>3, <2>4 DEF Decided
<1>5. CASE ActRaise(p)
  <2>1. PICK amount \in 1 .. N * MaxStack :
          CanRaise(round, p, amount) /\ Decide(p, Raise(round, p, amount))
    BY <1>5 DEF ActRaise
  <2>2. amount \in Nat /\ round' = Raise(round, p, amount)
    BY <2>1, PlayersAssumption, BlindsAssumption DEF Decide
  <2>3. /\ SoundRound(round') /\ round'.folded = round.folded
        /\ round.allIn \subseteq round'.allIn /\ round'.lastActor = p
        /\ p \in round'.acted
        /\ round'.currentBet > round.currentBet /\ SettledBy(round, p, round')
    BY <1>1, <2>1, <2>2, RaiseSound
  <2>4. round.currentBet \in Nat /\ round'.currentBet \in Nat /\ \A s \in Players : round.contributed[s] \in Nat
    BY <1>1, <2>3 DEF SoundRound, RoundType
  <2>5. ~Pending(round', p)
    BY <2>3 DEF SettledBy, Pending, MayAct
  <2>6. ASSUME NEW s \in Players \ {p}
        PROVE  /\ MayAct(round', s) <=> MayAct(round, s)
               /\ MayAct(round', s) => Pending(round', s)
    <3>1. round'.contributed[s] = round.contributed[s] /\ (s \in round'.allIn <=> s \in round.allIn)
      BY <2>3 DEF SettledBy
    <3>2. round'.contributed[s] # round'.currentBet
      BY <1>1, <2>3, <2>4, <3>1
    <3> QED  BY <2>3, <3>1, <3>2 DEF Pending, MayAct
  <2> QED  BY <1>1, <2>1, <2>2, <2>3, <2>5, <2>6 DEF Decided
<1> QED  BY <1>2, <1>3, <1>4, <1>5

(* Clockwise distances, without the modulo.                                *)
LEMMA DistanceIs ==
  ASSUME NEW s \in Players, NEW p \in Players
  PROVE  Distance(s, p) = IF s <= p THEN p - s ELSE p - s + N
<1>1. N \in Nat \ {0, 1} /\ s \in 0 .. N - 1 /\ p \in 0 .. N - 1
  BY PlayersAssumption DEF Players
<1>2. CASE s <= p
  <2>1. p - s \in 0 .. N - 1  BY <1>1, <1>2
  <2>2. (p - s) % N = p - s  BY <1>1, <2>1
  <2> QED  BY <1>2, <2>2 DEF Distance
<1>3. CASE ~(s <= p)
  <2>1. p - s \in Int /\ -N <= p - s /\ p - s < 0  BY <1>1, <1>3
  <2>2. (p - s) % N = p - s + N  BY <1>1, <2>1
  <2> QED  BY <1>3, <2>2 DEF Distance
<1> QED  BY <1>2, <1>3

LEMMA NextSeatIs ==
  ASSUME NEW x \in Players
  PROVE  (x + 1) % N \in Players /\ (x + 1) % N = IF x = N - 1 THEN 0 ELSE x + 1
<1>1. N \in Nat \ {0, 1} /\ x \in 0 .. N - 1
  BY PlayersAssumption DEF Players
<1>2. CASE x = N - 1
  <2>1. x + 1 = N  BY <1>1, <1>2
  <2>2. N % N = 0  BY <1>1
  <2> QED  BY <1>1, <1>2, <2>1, <2>2 DEF Players
<1>3. CASE x # N - 1
  <2>1. x + 1 \in 0 .. N - 1  BY <1>1, <1>3
  <2>2. (x + 1) % N = x + 1  BY <1>1, <2>1
  <2> QED  BY <1>3, <2>1, <2>2 DEF Players
<1> QED  BY <1>2, <1>3

LEMMA DistanceTyped ==
  ASSUME NEW s \in Players
  PROVE  /\ \A p \in Players : Distance(s, p) \in Int
         /\ \A p, q \in Players : p # q => Distance(s, p) < Distance(s, q) \/ Distance(s, q) < Distance(s, p)
<1>1. N \in Nat \ {0, 1} /\ Players = 0 .. N - 1
  BY PlayersAssumption DEF Players
<1>2. \A p \in Players : Distance(s, p) = IF s <= p THEN p - s ELSE p - s + N
  BY DistanceIs
<1> QED  BY <1>1, <1>2

(* After x acts, x is the last in line, and those that came after x keep   *)
(* their order.                                                            *)
LEMMA LineMoves ==
  ASSUME NEW s \in Players, NEW x \in Players, NEW next \in Players, next = (x + 1) % N
  PROVE  /\ \A p \in Players \ {x} : Distance(next, p) < Distance(next, x)
         /\ \A p, q \in Players :
              Distance(s, x) < Distance(s, p) /\ Distance(s, p) < Distance(s, q) =>
                Distance(next, p) < Distance(next, q)
         /\ \A p, q \in Players :
              /\ Distance(s, x) < Distance(s, p) /\ Distance(s, x) < Distance(s, q)
              /\ Distance(next, p) < Distance(next, q)
              => Distance(s, p) < Distance(s, q)
<1>1. N \in Nat \ {0, 1} /\ Players = 0 .. N - 1
  BY PlayersAssumption DEF Players
<1>2. next = IF x = N - 1 THEN 0 ELSE x + 1
  BY NextSeatIs
<1>3. \A p \in Players : /\ Distance(s, p) = IF s <= p THEN p - s ELSE p - s + N
                         /\ Distance(next, p) = IF next <= p THEN p - next ELSE p - next + N
  BY DistanceIs
<1>4. ASSUME NEW p \in Players \ {x} PROVE Distance(next, p) < Distance(next, x)
  BY <1>1, <1>2, <1>3
<1>5. ASSUME NEW p \in Players, NEW q \in Players,
             Distance(s, x) < Distance(s, p), Distance(s, p) < Distance(s, q)
      PROVE  Distance(next, p) < Distance(next, q)
  <2>1. /\ Distance(s, x) = IF s <= x THEN x - s ELSE x - s + N
        /\ Distance(s, p) = IF s <= p THEN p - s ELSE p - s + N
        /\ Distance(s, q) = IF s <= q THEN q - s ELSE q - s + N
        /\ Distance(next, p) = IF next <= p THEN p - next ELSE p - next + N
        /\ Distance(next, q) = IF next <= q THEN q - next ELSE q - next + N
    BY <1>3
  <2>2. N \in Nat \ {0, 1} /\ s \in 0 .. N - 1 /\ x \in 0 .. N - 1 /\ p \in 0 .. N - 1 /\ q \in 0 .. N - 1
    BY <1>1
  <2> QED  BY <1>2, <1>5, <2>1, <2>2
<1>6. ASSUME NEW p \in Players, NEW q \in Players,
             Distance(s, x) < Distance(s, p), Distance(s, x) < Distance(s, q),
             Distance(next, p) < Distance(next, q)
      PROVE  Distance(s, p) < Distance(s, q)
  <2>1. /\ Distance(s, x) = IF s <= x THEN x - s ELSE x - s + N
        /\ Distance(s, p) = IF s <= p THEN p - s ELSE p - s + N
        /\ Distance(s, q) = IF s <= q THEN q - s ELSE q - s + N
        /\ Distance(next, p) = IF next <= p THEN p - next ELSE p - next + N
        /\ Distance(next, q) = IF next <= q THEN q - next ELSE q - next + N
    BY <1>3
  <2>2. N \in Nat \ {0, 1} /\ s \in 0 .. N - 1 /\ x \in 0 .. N - 1 /\ p \in 0 .. N - 1 /\ q \in 0 .. N - 1
    BY <1>1
  <2> QED  BY <1>2, <1>6, <2>1, <2>2
<1> QED  BY <1>4, <1>5, <1>6

(* The seats that are asked come first in line, and a seat that has not    *)
(* answered p comes before p.                                              *)
Line ==
  /\ \A p, q \in Players :
       MayAct(round, p) /\ Pending(round, q) /\ Distance(ScanStart, p) < Distance(ScanStart, q) =>
         Pending(round, p)
  /\ \A p, q \in Players :
       p # q /\ MayAct(round, q) /\ q \notin answered[p] => Distance(ScanStart, q) < Distance(ScanStart, p)

LEMMA ScanStartIs ==
  ASSUME IInv
  PROVE  ScanStart \in Players /\ (round.lastActor # Nobody => ScanStart = (round.lastActor + 1) % N)
<1>1. anchor \in Players /\ round.lastActor \in Players \cup {Nobody}
  BY DEF IInv, TypeOK, RoundType
<1> QED  BY <1>1, NextSeatIs DEF ScanStart

LEMMA LineKept ==
  ASSUME IInv, IInv', Line, NEW x \in Players, OnClock(x), Decide(x, round'), Decided(round, x, round')
  PROVE  Line'
<1> PICK s, next : s = ScanStart /\ next = ScanStart'
  OBVIOUS
<1>1. s \in Players /\ next \in Players /\ next = (x + 1) % N /\ Nobody \notin Players
  <2>1. round'.lastActor = x
    BY DEF Decided
  <2>2. ScanStart' = (x + 1) % N
    BY <2>1, PlayersAssumption DEF ScanStart
  <2> QED  BY <2>2, ScanStartIs, NextSeatIs, PlayersAssumption
<1>2. /\ Pending(round, x) /\ \A q \in Players : Pending(round, q) => Distance(s, x) <= Distance(s, q)
      /\ \A p, q \in Players :
           MayAct(round, p) /\ Pending(round, q) /\ Distance(s, p) < Distance(s, q) => Pending(round, p)
      /\ \A p, q \in Players :
           p # q /\ MayAct(round, q) /\ q \notin answered[p] => Distance(s, q) < Distance(s, p)
  BY DEF OnClock, Line
<1>3. /\ \A p \in Players : Distance(s, p) \in Int /\ Distance(next, p) \in Int
      /\ \A p, q \in Players : p # q => Distance(s, p) < Distance(s, q) \/ Distance(s, q) < Distance(s, p)
  BY <1>1, DistanceTyped
<1>4. \A p \in Players : p # x /\ MayAct(round, p) => Distance(s, x) < Distance(s, p)
  <2> SUFFICES ASSUME NEW p \in Players, p # x, MayAct(round, p), Distance(s, p) < Distance(s, x)
               PROVE  FALSE
    BY <1>3
  <2>1. Pending(round, p)  BY <1>2
  <2> QED  BY <1>2, <1>3, <2>1
<1>5. \A p \in Players : Pending(round', p) => MayAct(round', p)
  BY DEF Pending
<1>6. ASSUME NEW p \in Players, NEW q \in Players,
             MayAct(round', p), Pending(round', q), Distance(next, p) < Distance(next, q)
      PROVE  Pending(round', p)
  <2>1. q # x /\ p # x
    <3>1. q # x  BY <1>6 DEF Decided
    <3>2. Distance(next, q) < Distance(next, x)  BY <1>1, <3>1, LineMoves
    <3> QED  BY <1>3, <1>6, <3>1, <3>2
  <2>2. MayAct(round, p) /\ MayAct(round, q)
    BY <1>5, <1>6, <2>1 DEF Decided
  <2>3. Distance(s, p) < Distance(s, q)
    BY <1>1, <1>4, <1>6, <2>1, <2>2, LineMoves
  <2>4. CASE \A t \in Players \ {x} : Pending(round', t) <=> Pending(round, t)
    BY <1>2, <1>6, <2>1, <2>2, <2>3, <2>4
  <2>5. CASE \A t \in Players \ {x} : MayAct(round', t) => Pending(round', t)
    BY <1>6, <2>1, <2>5
  <2> QED  BY <2>4, <2>5 DEF Decided
<1>7. ASSUME NEW p \in Players, NEW q \in Players, p # q, MayAct(round', q), q \notin answered'[p]
      PROVE  Distance(next, q) < Distance(next, p)
  <2>1. answered' = [t \in Players |-> IF t = x THEN {} ELSE answered[t] \cup {x}]
    BY DEF Decide
  <2>2. CASE p = x
    BY <1>1, <1>7, <2>2, LineMoves
  <2>3. CASE p # x
    <3>1. q # x /\ q \notin answered[p]
      BY <1>7, <2>1, <2>3
    <3>2. MayAct(round, q)
      BY <1>7, <3>1 DEF Decided
    <3> QED  BY <1>1, <1>2, <1>4, <1>7, <3>1, <3>2, LineMoves
  <2> QED  BY <2>2, <2>3
<1> QED  BY <1>6, <1>7 DEF Line

LEMMA LineHolds == Spec => [](IInv /\ Line)
<1>1. Init => IInv /\ Line
  <2> SUFFICES ASSUME Init PROVE IInv /\ Line
    OBVIOUS
  <2>1. IInv  BY InitHolds
  <2>2. round.acted = {} /\ answered = [p \in Players |-> Players]
    <3>1. start \in [Players -> Nat]  BY <2>1 DEF IInv, TypeOK
    <3>2. \A entrants \in SUBSET Players : PreFlopRound(start, entrants).acted = {}
      BY <3>1, PreFlopSound
    <3>3. LaterRound(start).acted = {}  BY DEF LaterRound, NewRound
    <3> QED  BY <3>2, <3>3 DEF Init
  <2>3. Line
    BY <2>2 DEF Line, Pending
  <2> QED  BY <2>1, <2>3
<1>2. (IInv /\ Line) /\ [Next]_vars => (IInv /\ Line)'
  <2> SUFFICES ASSUME IInv, Line, [Next]_vars PROVE IInv' /\ Line'
    OBVIOUS
  <2>1. IInv'  BY StepKeeps
  <2>2. ASSUME NEW p \in Players, ActFold(p) \/ ActCheck(p) \/ ActCall(p) \/ ActRaise(p)
        PROVE  Line'
    BY <2>1, <2>2, StepDecides, LineKept
  <2>3. CASE UNCHANGED vars
    <3>1. round' = round /\ answered' = answered /\ ScanStart' = ScanStart
      BY <2>3 DEF vars, ScanStart
    <3> QED  BY <2>1, <3>1 DEF Line
  <2> QED  BY <2>1, <2>2, <2>3 DEF Next
<1> QED  BY <1>1, <1>2, PTL DEF Spec

(* However often the action is reopened, no seat acts twice before every   *)
(* other seat that still can has answered (the LastActorID cursor).        *)
THEOREM NobodyIsSkipped == Spec => []NoSeatSkipped
<1>1. IInv /\ Line => NoSeatSkipped
  <2> SUFFICES ASSUME IInv, Line, NEW p \in Players, NEW q \in Players,
                      OnClock(p), p # q, MayAct(round, q), q \notin answered[p]
               PROVE  FALSE
    BY DEF NoSeatSkipped
  <2>1. Distance(ScanStart, q) < Distance(ScanStart, p)
    BY DEF Line
  <2>2. Pending(round, q)
    BY <2>1 DEF Line, OnClock
  <2>3. Distance(ScanStart, p) <= Distance(ScanStart, q)
    BY <2>2 DEF OnClock
  <2>4. Distance(ScanStart, p) \in Int /\ Distance(ScanStart, q) \in Int
    BY ScanStartIs, DistanceTyped
  <2> QED  BY <2>1, <2>3, <2>4
<1> QED  BY <1>1, LineHolds, PTL

=============================================================================
