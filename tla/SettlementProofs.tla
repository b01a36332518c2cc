--------------------------- MODULE SettlementProofs -------------------------
(***************************************************************************)
(* Theorems about chips between the wallet and a table: any number of      *)
(* players, calls, keys and sweeps.                                        *)
(***************************************************************************)
EXTENDS Settlement, FiniteSetTheorems, WellFoundedInduction, TLAPS

Kept  == [at : {"debit", "join", "refund", "ended"}, key : BuyInKeys]
Swept == [at : {"credit", "mark", "fail"}, key : LeaveKeys, attempts : Nat]

(* The types; a row with too many failures is off the list; a sweep is at  *)
(* a row that is there, and read it while it was listed.                   *)
Typed ==
  /\ TypeOK
  /\ request \in [Requests -> Kept \cup {Unused}]
  /\ sweep \in [Sweeps -> Swept \cup {Resting}]
  /\ \A k \in LeaveKeys : attempts[k] < MaxAttempts \/ k \in rows \ open
  /\ \A s \in Sweeps : sweep[s].at # "resting" =>
       sweep[s].key \in rows /\ sweep[s].attempts < MaxAttempts

Credited(k) == owed[k] = 0 \/ CreditKey(k) \in processed

(* Whoever is about to close a row has seen to its credit.                 *)
Settled ==
  /\ \A k \in LeaveKeys : closing[k] # "no" => k \in rows
  /\ \A k \in LeaveKeys : closing[k] = "mark" => Credited(k)
  /\ \A s \in Sweeps : sweep[s].at = "mark" => Credited(sweep[s].key)
  /\ resolved \subseteq rows /\ ResolvedIsPaid

Serves(r, k) == request[r].at # "unused" /\ request[r].key = k

(* A key that no two calls used, and whose caller knows what came of it.   *)
Once(k) == tries[k] <= 1 /\ k \notin unanswered

(* How far each call got, and what that says of its key.                   *)
Called ==
  /\ \A r \in Requests, k \in BuyInKeys : Serves(r, k) => tries[k] >= 1
  /\ \A r, q \in Requests, k \in BuyInKeys :
       r # q /\ Serves(r, k) /\ Serves(q, k) => tries[k] >= 2
  /\ \A r \in Requests, k \in BuyInKeys :
       Serves(r, k) /\ request[r].at \in {"join", "refund"} => DebitKey(k) \in processed
  /\ \A k \in BuyInKeys :
       entered[k] > 0 \/ RefundKey(k) \in processed => DebitKey(k) \in processed
  /\ \A k \in BuyInKeys : tries[k] = 0 => entered[k] = 0 /\ RefundKey(k) \notin processed

(* A seat taken and not lost again was neither refunded nor will be.       *)
Lone(k) ==
  /\ entered[k] \in {0, 1}
  /\ \A r \in Requests :
       Serves(r, k) /\ request[r].at # "ended" => entered[k] = 0
  /\ RefundKey(k) \in processed =>
       entered[k] = 0 /\ \A r \in Requests : Serves(r, k) => request[r].at \in {"refund", "ended"}

Lones == \A k \in BuyInKeys : Once(k) => Lone(k)

(* The inductive invariant.                                                *)
IInv == Typed /\ Settled /\ Called /\ Lones

----------------------------------------------------------------------------
(* What a call of the wallet leaves behind.                                *)
LEMMA MoveTyped ==
  ASSUME NEW p \in Players, NEW amount \in Int, NEW key,
         wallet \in [Players -> Nat], Move(p, amount, key),
         key \in processed \/ wallet[p] + amount \in Nat
  PROVE  wallet' \in [Players -> Nat]
<1>1. CASE key \in processed
  BY <1>1 DEF Move
<1>2. CASE key \notin processed
  BY <1>2 DEF Move
<1> QED  BY <1>1, <1>2

(* The keys of a call and of a row name a player.                          *)
LEMMA KeyTyped ==
  /\ \A k \in BuyInKeys : k[1] \in Players
  /\ \A k \in LeaveKeys : k[1] \in Players
BY DEF BuyInKeys, LeaveKeys

LEMMA InitTyped == Init => Typed
<1> SUFFICES ASSUME Init PROVE Typed
  OBVIOUS
<1>1. Funds \in Nat /\ MaxAttempts \in Nat \ {0}
  BY AmountsAssumption
<1>2. TypeOK
  BY <1>1 DEF Init, TypeOK
<1> QED  BY <1>1, <1>2 DEF Init, Typed, Unused, Resting

(* Every step of a buy-in keeps the types.                                 *)
LEMMA RequestTyped ==
  ASSUME Typed, NEW r \in Requests,
         \/ \E k \in BuyInKeys : Ask(r, k)
         \/ Debit(r) \/ Breach(r) \/ Join(r) \/ SeatRefused(r) \/ Refund(r) \/ Abandon(r)
  PROVE  Typed'
<1> DEFINE Asks == \E k \in BuyInKeys : Ask(r, k)
<1>1. /\ TypeOK /\ BuyIn \in Nat \ {0} /\ MaxAttempts \in Nat
      /\ request \in [Requests -> Kept \cup {Unused}]
  BY AmountsAssumption DEF Typed
<1>2. ~Asks => request[r].at \in {"debit", "join", "refund"}
  BY DEF Debit, Breach, Join, SeatRefused, Refund, Abandon, Serving
<1>3. ~Asks => request[r] \in Kept /\ request[r].key \in BuyInKeys
  BY <1>1, <1>2 DEF Kept, Unused
<1>4. ASSUME NEW at \in {"debit", "join", "refund", "ended"}, Goes(r, at), ~Asks
      PROVE  request' \in [Requests -> Kept \cup {Unused}]
  BY <1>1, <1>3, <1>4 DEF Goes, Kept
<1>5. request' \in [Requests -> Kept \cup {Unused}]
  <2>1. CASE Asks
    BY <2>1, <1>1 DEF Ask, Kept
  <2>2. CASE ~Asks
    BY <2>2, <1>4 DEF Debit, Breach, Join, SeatRefused, Refund, Abandon, AfterFailedDebit
  <2> QED  BY <2>1, <2>2
<1>6. wallet' \in [Players -> Nat]
  <2>1. CASE Debit(r)
    <3>1. CASE UNCHANGED money
      BY <3>1, <1>1 DEF money, TypeOK
    <3>2. CASE ~UNCHANGED money
      <4> DEFINE k == request[r].key
      <4>1. /\ wallet[k[1]] >= BuyIn \/ DebitKey(k) \in processed
            /\ Move(k[1], -BuyIn, DebitKey(k))
        BY <2>1, <3>2 DEF Debit
      <4>2. k \in BuyInKeys /\ k[1] \in Players
        BY <2>1, <1>1, KeyTyped DEF Debit, Serving, Kept, Unused
      <4>3. wallet \in [Players -> Nat] /\ -BuyIn \in Int
        BY <1>1 DEF TypeOK
      <4>4. DebitKey(k) \in processed \/ wallet[k[1]] + (-BuyIn) \in Nat
        BY <1>1, <4>1, <4>2, <4>3
      <4> QED  BY <4>1, <4>2, <4>3, <4>4, MoveTyped
    <3> QED  BY <3>1, <3>2
  <2>2. CASE Refund(r)
    <3> DEFINE k == request[r].key
    <3>1. k \in BuyInKeys /\ k[1] \in Players
      BY <2>2, <1>1, KeyTyped DEF Refund, Serving, Kept, Unused
    <3>2. wallet \in [Players -> Nat] /\ BuyIn \in Int /\ wallet[k[1]] + BuyIn \in Nat
      BY <1>1, <3>1 DEF TypeOK
    <3>3. Move(k[1], BuyIn, RefundKey(k)) \/ UNCHANGED money
      BY <2>2 DEF Refund
    <3> QED  BY <3>1, <3>2, <3>3, MoveTyped DEF money
  <2>3. CASE ~Debit(r) /\ ~Refund(r)
    BY <2>3, <1>1 DEF Ask, Breach, Join, SeatRefused, Abandon, money, TypeOK
  <2> QED  BY <2>1, <2>2, <2>3
<1>7. seated' \subseteq Players /\ stack' \in [Players -> Nat]
  <2>1. CASE Join(r)
    BY <2>1, <1>1, KeyTyped DEF Join, TypeOK, Serving, Kept, Unused
  <2>2. CASE ~Join(r)
    BY <2>2, <1>1 DEF Ask, Debit, Breach, SeatRefused, Refund, Abandon, table, TypeOK
  <2> QED  BY <2>1, <2>2
<1>8. /\ tries' \in [BuyInKeys -> Nat] /\ entered' \in [BuyInKeys -> Nat]
      /\ unanswered' \subseteq BuyInKeys
  <2>1. CASE Join(r)
    BY <2>1, <1>1 DEF Join, TypeOK, Serving, Kept, Unused
  <2>2. CASE Asks
    BY <2>2, <1>1 DEF Ask, TypeOK
  <2>3. CASE ~Join(r) /\ ~Asks
    BY <2>3, <1>1 DEF Debit, Breach, SeatRefused, Refund, Abandon, past, TypeOK
  <2> QED  BY <2>1, <2>2, <2>3
<1>9. UNCHANGED <<pending, closing, sweep>>
  BY DEF Ask, Debit, Breach, Join, SeatRefused, Refund, Abandon
<1>10. TypeOK'
  BY <1>1, <1>6, <1>7, <1>8, <1>9 DEF TypeOK, pending
<1> QED  BY <1>5, <1>9, <1>10 DEF Typed, pending

(* So does a step of the table, of a removal, or of a sweep.               *)
LEMMA PlayTyped ==
  ASSUME Typed, NEW p \in Players, NEW q \in Players, Play(p, q)
  PROVE  Typed'
<1>1. stack \in [Players -> Nat]
  BY DEF Typed, TypeOK
<1>2. PICK n \in 1 .. stack[p] : stack' = [stack EXCEPT ![p] = @ - n, ![q] = @ + n]
  BY DEF Play
<1>3. p # q /\ stack[p] - n \in Nat /\ stack[q] + n \in Nat
  BY <1>1, <1>2 DEF Play
<1>4. stack' \in [Players -> Nat]
  BY <1>1, <1>2, <1>3
<1> QED  BY <1>4 DEF Play, Typed, TypeOK, money, pending, past

LEMMA RemoveTyped ==
  ASSUME Typed, NEW k \in LeaveKeys, Remove(k)
  PROVE  Typed'
<1>1. TypeOK /\ k[1] \in Players /\ k \notin rows /\ MaxAttempts \in Nat
  BY KeyTyped, AmountsAssumption DEF Typed, Remove, NewRow
<1>2. seated' \subseteq Players /\ stack' \in [Players -> Nat] /\ owed' \in [LeaveKeys -> Nat]
  BY <1>1 DEF Remove, TypeOK
<1>3. closing' \in [LeaveKeys -> {"no", "credit", "mark"}]
  BY <1>1 DEF Remove, TypeOK
<1>4. rows' \subseteq LeaveKeys /\ (open \cup resolved)' \subseteq rows' /\ (open \cap resolved)' = {}
  BY <1>1 DEF Remove, TypeOK
<1>5. TypeOK'
  BY <1>1, <1>2, <1>3, <1>4 DEF Remove, TypeOK, money, past
<1> QED  BY <1>1, <1>5 DEF Remove, Typed

LEMMA ClosingTyped ==
  ASSUME Typed, NEW k \in LeaveKeys, Settle(k) \/ SettleMark(k) \/ SettleStops(k),
         closing[k] # "no" => k \in rows
  PROVE  Typed'
<1>1. TypeOK /\ k[1] \in Players
  BY KeyTyped DEF Typed
<1>2. closing' \in [LeaveKeys -> {"no", "credit", "mark"}]
  BY <1>1 DEF Settle, SettleMark, SettleStops, Closing, AfterFailedCredit, TypeOK
<1>3. wallet' \in [Players -> Nat]
  <2>1. CASE Credits(k[1], owed[k], CreditKey(k))
    <3>1. wallet \in [Players -> Nat] /\ owed[k] \in Int /\ wallet[k[1]] + owed[k] \in Nat
      BY <1>1 DEF TypeOK
    <3> QED  BY <1>1, <2>1, <3>1, MoveTyped DEF Credits
  <2>2. CASE UNCHANGED money
    BY <1>1, <2>2 DEF money, TypeOK
  <2> QED  BY <2>1, <2>2 DEF Settle, SettleMark, SettleStops
<1>4. k \in rows
  BY DEF Settle, SettleMark, SettleStops
<1>5. /\ rows' = rows /\ attempts' = attempts /\ owed' = owed
      /\ \/ open' = open /\ resolved' = resolved
         \/ open' = open \ {k} /\ resolved' = resolved \cup {k}
  BY DEF Settle, SettleMark, SettleStops, MarkResolved, pending
<1>6. UNCHANGED <<table, request, sweep, past>>
  BY DEF Settle, SettleMark, SettleStops
<1>7. TypeOK'
  BY <1>1, <1>2, <1>3, <1>4, <1>5, <1>6 DEF TypeOK, table, past
<1> QED  BY <1>4, <1>5, <1>6, <1>7 DEF Typed

LEMMA SweepTyped ==
  ASSUME Typed, NEW s \in Sweeps, Sweep(s) \/ SweepStops(s)
  PROVE  Typed'
<1>1. /\ TypeOK /\ MaxAttempts \in Nat \ {0}
      /\ sweep \in [Sweeps -> Swept \cup {Resting}]
  BY AmountsAssumption DEF Typed
<1> DEFINE k == sweep[s].key
<1>2. sweep[s].at # "resting" =>
        /\ sweep[s] \in Swept /\ k \in LeaveKeys /\ k[1] \in Players /\ k \in rows
        /\ sweep[s].attempts \in Nat /\ sweep[s].attempts < MaxAttempts
  BY <1>1, KeyTyped DEF Typed, Swept, Resting
<1>3. ASSUME NEW l \in LeaveKeys, List(s, l) PROVE Typed'
  <2>1. l \in open /\ l \in rows /\ attempts[l] < MaxAttempts /\ attempts[l] \in Nat
    BY <1>1, <1>3 DEF List, Typed, TypeOK
  <2>2. sweep' = [sweep EXCEPT ![s] = [at |-> "credit", key |-> l, attempts |-> attempts[l]]]
    BY <1>3 DEF List
  <2>3. sweep' \in [Sweeps -> Swept \cup {Resting}]
    BY <1>1, <2>1, <2>2 DEF Swept
  <2>4. \A t \in Sweeps : sweep'[t].at # "resting" =>
          sweep'[t].key \in rows /\ sweep'[t].attempts < MaxAttempts
    BY <1>1, <2>1, <2>2 DEF Typed
  <2> QED  BY <1>3, <2>3, <2>4 DEF List, Typed, TypeOK, money, table, pending, past
<1>4. CASE SweepCredit(s)
  <2>1. wallet' \in [Players -> Nat]
    <3>1. wallet \in [Players -> Nat] /\ owed[k] \in Int /\ wallet[k[1]] + owed[k] \in Nat
      BY <1>1, <1>2, <1>4 DEF TypeOK, SweepCredit
    <3> QED  BY <1>2, <1>4, <3>1, MoveTyped DEF SweepCredit, Credits, money
  <2>2. PICK at \in {"mark", "fail"} : sweep' = [sweep EXCEPT ![s].at = at]
    BY <1>4 DEF SweepCredit, Sweeping
  <2>3. sweep' \in [Sweeps -> Swept \cup {Resting}]
    BY <1>1, <1>2, <1>4, <2>2 DEF SweepCredit, Swept
  <2>4. \A t \in Sweeps : sweep'[t].at # "resting" =>
          sweep'[t].key \in rows /\ sweep'[t].attempts < MaxAttempts
    BY <1>1, <1>2, <1>4, <2>2 DEF SweepCredit, Typed, Swept
  <2> QED  BY <1>4, <2>1, <2>3, <2>4 DEF SweepCredit, Typed, TypeOK, table, pending, past
<1>5. CASE SweepMark(s) \/ RecordFailedAttempt(s) \/ SweepStops(s)
  <2>1. sweep[s].at # "resting" /\ sweep' = [sweep EXCEPT ![s] = Resting]
    BY <1>5 DEF SweepMark, RecordFailedAttempt, SweepStops, SweepEnds
  <2>2. sweep' \in [Sweeps -> Swept \cup {Resting}]
    BY <1>1, <2>1
  <2>3. \A t \in Sweeps : sweep'[t].at # "resting" =>
          sweep'[t].key \in rows /\ sweep'[t].attempts < MaxAttempts
    BY <1>1, <2>1 DEF Typed, Resting
  <2>4. UNCHANGED <<money, table, request, rows, owed, closing, past>>
    BY <1>5 DEF SweepMark, RecordFailedAttempt, SweepStops, MarkResolved, pending
  <2>5. /\ attempts' \in [LeaveKeys -> 0 .. MaxAttempts]
        /\ open' \subseteq open /\ open' \cup resolved' \subseteq rows /\ open' \cap resolved' = {}
        /\ \A j \in LeaveKeys : attempts'[j] < MaxAttempts \/ j \in rows \ open'
    <3>1. CASE SweepMark(s)
      BY <1>1, <1>2, <2>1, <3>1 DEF SweepMark, MarkResolved, Typed, TypeOK
    <3>2. CASE RecordFailedAttempt(s)
      BY <1>1, <1>2, <2>1, <3>2 DEF RecordFailedAttempt, Exhausted, CountedOn, Typed, TypeOK
    <3>3. CASE SweepStops(s)
      BY <1>1, <3>3 DEF SweepStops, pending, Typed, TypeOK
    <3> QED  BY <1>5, <3>1, <3>2, <3>3
  <2>6. TypeOK'
    BY <1>1, <2>4, <2>5 DEF TypeOK, money, table, past
  <2> QED  BY <2>2, <2>3, <2>4, <2>5, <2>6 DEF Typed
<1> QED  BY <1>3, <1>4, <1>5 DEF Sweep

----------------------------------------------------------------------------
(* A buy-in touches no row, and no key the wallet knows is forgotten.      *)
LEMMA RequestSettled ==
  ASSUME Typed, Settled, NEW r \in Requests,
         \/ \E k \in BuyInKeys : Ask(r, k)
         \/ Debit(r) \/ Breach(r) \/ Join(r) \/ SeatRefused(r) \/ Refund(r) \/ Abandon(r)
  PROVE  Settled'
<1>1. UNCHANGED <<pending, closing, sweep>>
  BY DEF Ask, Debit, Breach, Join, SeatRefused, Refund, Abandon
<1>2. processed \subseteq processed'
  BY DEF Ask, Debit, Breach, Join, SeatRefused, Refund, Abandon, Move, money
<1>3. \A k \in LeaveKeys : Credited(k) => Credited(k)'
  BY <1>1, <1>2 DEF Credited, pending, CreditKey
<1>4. resolved \subseteq LeaveKeys
  BY DEF Typed, TypeOK
<1>5. ResolvedIsPaid'
  BY <1>1, <1>2, <1>4 DEF Settled, ResolvedIsPaid, pending, CreditKey
<1>6. \A s \in Sweeps : sweep[s].at = "mark" => sweep[s].key \in LeaveKeys
  BY DEF Typed, Swept, Resting
<1> QED  BY <1>1, <1>3, <1>5, <1>6 DEF Settled, pending

LEMMA RemoveSettled ==
  ASSUME Typed, Settled, NEW k \in LeaveKeys, Remove(k)
  PROVE  Settled'
<1>1. k \notin rows /\ UNCHANGED <<money, resolved, sweep>>
  BY DEF Remove, NewRow
<1>2. /\ rows' = rows \cup {k} /\ owed \in [LeaveKeys -> Nat]
      /\ owed' = [owed EXCEPT ![k] = stack[k[1]]]
      /\ closing \in [LeaveKeys -> {"no", "credit", "mark"}]
      /\ closing' = [closing EXCEPT ![k] = IF stack[k[1]] > 0 THEN "credit" ELSE "mark"]
      /\ stack[k[1]] \in Nat
  BY KeyTyped DEF Remove, Typed, TypeOK
<1>3. \A j \in LeaveKeys \ {k} : Credited(j)' <=> Credited(j)
  BY <1>1, <1>2 DEF Credited, money, CreditKey
<1>4. closing'[k] = "mark" => Credited(k)'
  BY <1>2 DEF Credited
<1>5. \A j \in LeaveKeys : closing'[j] = "mark" => Credited(j)'
  BY <1>2, <1>3, <1>4 DEF Settled
<1>6. \A s \in Sweeps : sweep[s].at = "mark" => sweep[s].key \in LeaveKeys \ {k}
  BY <1>1 DEF Typed, Swept, Resting
<1>7. \A s \in Sweeps : sweep'[s].at = "mark" => Credited(sweep[s].key)'
  BY <1>1, <1>3, <1>6 DEF Settled
<1>8. resolved \subseteq LeaveKeys \ {k}
  BY <1>1 DEF Settled, Typed, TypeOK
<1>9. ResolvedIsPaid'
  BY <1>1, <1>2, <1>8 DEF Settled, ResolvedIsPaid, money
<1>10. \A j \in LeaveKeys : closing'[j] # "no" => j \in rows'
  BY <1>2 DEF Settled
<1> QED  BY <1>1, <1>2, <1>5, <1>7, <1>9, <1>10 DEF Settled

LEMMA ClosingSettled ==
  ASSUME Typed, Settled, NEW k \in LeaveKeys, Settle(k) \/ SettleMark(k) \/ SettleStops(k)
  PROVE  Settled'
<1>1. /\ UNCHANGED <<rows, owed, sweep>> /\ closing \in [LeaveKeys -> {"no", "credit", "mark"}]
      /\ resolved \subseteq LeaveKeys
      /\ processed \subseteq processed'
  BY DEF Settle, SettleMark, SettleStops, MarkResolved, pending, Credits, Move, money, Typed, TypeOK
<1>2. \A j \in LeaveKeys : Credited(j) => Credited(j)'
  BY <1>1 DEF Credited, CreditKey
<1>3. k \in rows
  BY DEF Settle, SettleMark, SettleStops, Settled
<1>4. PICK at \in {"no", "mark"} : closing' = [closing EXCEPT ![k] = at]
  BY DEF Settle, SettleMark, SettleStops, Closing, AfterFailedCredit
<1>5. closing'[k] = "mark" => Credited(k)'
  <2>1. CASE Settle(k)
    BY <1>1, <2>1 DEF Settle, Closing, AfterFailedCredit, Credits, Move, Credited, CreditKey
  <2>2. CASE SettleMark(k) \/ SettleStops(k)
    BY <1>1, <2>2 DEF SettleMark, SettleStops, Closing
  <2> QED  BY <2>1, <2>2
<1>6. resolved' \subseteq resolved \cup {k} /\ \A j \in resolved' : Credited(j)'
  <2>1. CASE SettleMark(k)
    BY <1>1, <1>2, <2>1 DEF SettleMark, MarkResolved, Settled, ResolvedIsPaid, Credited
  <2>2. CASE Settle(k) \/ SettleStops(k)
    BY <1>1, <1>2, <2>2 DEF Settle, SettleStops, pending, Settled, ResolvedIsPaid, Credited
  <2> QED  BY <2>1, <2>2
<1>7. \A s \in Sweeps : sweep[s].at = "mark" => sweep[s].key \in LeaveKeys
  BY DEF Typed, Swept, Resting
<1>8. ResolvedIsPaid'
  BY <1>6 DEF ResolvedIsPaid, Credited
<1> QED  BY <1>1, <1>2, <1>3, <1>4, <1>5, <1>6, <1>7, <1>8 DEF Settled

LEMMA SweepSettled ==
  ASSUME Typed, Settled, NEW s \in Sweeps, Sweep(s) \/ SweepStops(s)
  PROVE  Settled'
<1>1. /\ UNCHANGED <<rows, owed, closing>> /\ processed \subseteq processed'
      /\ resolved \subseteq LeaveKeys /\ sweep \in [Sweeps -> Swept \cup {Resting}]
  BY DEF Sweep, List, SweepCredit, SweepMark, RecordFailedAttempt, SweepStops, MarkResolved,
         pending, Credits, Move, money, Typed, TypeOK
<1>2. \A j \in LeaveKeys : Credited(j) => Credited(j)'
  BY <1>1 DEF Credited, CreditKey
<1> DEFINE k == sweep[s].key
<1>3. sweep[s].at # "resting" => k \in LeaveKeys /\ k \in rows /\ sweep[s] \in Swept
  BY <1>1 DEF Typed, Swept, Resting
<1>4. \A t \in Sweeps \ {s} : sweep'[t] = sweep[t]
  BY <1>1 DEF Sweep, List, SweepCredit, SweepMark, RecordFailedAttempt, SweepStops, SweepEnds, Sweeping
<1>5. sweep'[s].at = "mark" => sweep'[s].key = k /\ Credited(k)'
  <2>1. CASE SweepCredit(s)
    BY <1>1, <1>3, <2>1 DEF SweepCredit, Sweeping, Credits, Move, Credited, CreditKey, Swept
  <2>2. CASE ~SweepCredit(s)
    BY <1>1, <2>2 DEF Sweep, List, SweepMark, RecordFailedAttempt, SweepStops, SweepEnds, Resting
  <2> QED  BY <2>1, <2>2
<1>6. \A t \in Sweeps : sweep[t].at = "mark" => sweep[t].key \in LeaveKeys
  BY DEF Typed, Swept, Resting
<1>7. (\A t \in Sweeps : sweep[t].at = "mark" => Credited(sweep[t].key))'
  <2>1. \A t \in Sweeps \ {s}, j \in LeaveKeys :
          sweep[t].at = "mark" /\ sweep[t].key = j => Credited(j)'
    BY <1>2 DEF Settled
  <2>2. \A t \in Sweeps \ {s} : (sweep[t].at = "mark" => Credited(sweep[t].key))'
    BY <1>4, <1>6, <2>1 DEF Credited
  <2> QED  BY <1>5, <2>2 DEF Credited
<1>8. resolved' \subseteq rows /\ \A j \in resolved' : Credited(j)'
  <2>1. CASE SweepMark(s)
    BY <1>1, <1>2, <1>3, <2>1 DEF SweepMark, MarkResolved, Settled, ResolvedIsPaid, Credited
  <2>2. CASE ~SweepMark(s)
    <3>1. resolved' = resolved
      BY <2>2 DEF Sweep, List, SweepCredit, RecordFailedAttempt, SweepStops, pending
    <3> QED  BY <1>1, <1>2, <3>1 DEF Settled, ResolvedIsPaid, Credited
  <2> QED  BY <2>1, <2>2
<1>9. ResolvedIsPaid'
  BY <1>8 DEF ResolvedIsPaid, Credited
<1> QED  BY <1>1, <1>2, <1>7, <1>8, <1>9 DEF Settled

----------------------------------------------------------------------------
(* Credits, rows and sweeps leave the buy-ins' keys as they are.           *)
LEMMA BuyInsKept ==
  ASSUME Called, Lones, UNCHANGED <<request, past>>,
         \A k \in BuyInKeys : /\ DebitKey(k) \in processed' <=> DebitKey(k) \in processed
                              /\ RefundKey(k) \in processed' <=> RefundKey(k) \in processed
  PROVE  Called' /\ Lones'
BY DEF Called, Lones, Lone, Once, Serves, Serving, past, DebitKey, RefundKey

LEMMA OthersKeepBuyIns ==
  ASSUME \/ \E p, q \in Players : Play(p, q)
         \/ \E k \in LeaveKeys : Remove(k) \/ Settle(k) \/ SettleMark(k) \/ SettleStops(k)
         \/ \E s \in Sweeps : Sweep(s) \/ SweepStops(s)
  PROVE  /\ UNCHANGED <<request, past>>
         /\ \A k \in BuyInKeys : /\ DebitKey(k) \in processed' <=> DebitKey(k) \in processed
                                 /\ RefundKey(k) \in processed' <=> RefundKey(k) \in processed
<1>1. processed' = processed \/ \E k : processed' = processed \cup {CreditKey(k)}
  BY DEF Play, Remove, Settle, SettleMark, SettleStops, Sweep, List, SweepCredit, SweepMark,
         RecordFailedAttempt, SweepStops, Credits, Move, money
<1>2. UNCHANGED <<request, past>>
  BY DEF Play, Remove, Settle, SettleMark, SettleStops, Sweep, List, SweepCredit, SweepMark,
         RecordFailedAttempt, SweepStops
<1> QED  BY <1>1, <1>2 DEF DebitKey, RefundKey, CreditKey

(* A call arrives: its key is used once more.                              *)
LEMMA AskCalled ==
  ASSUME Typed, Called, Lones, NEW r \in Requests, NEW k \in BuyInKeys, Ask(r, k)
  PROVE  Called' /\ Lones'
<1>1. /\ request[r].at = "unused" /\ request \in [Requests -> Kept \cup {Unused}]
      /\ request' = [request EXCEPT ![r] = [at |-> "debit", key |-> k]]
      /\ tries \in [BuyInKeys -> Nat] /\ tries' = [tries EXCEPT ![k] = @ + 1]
      /\ UNCHANGED <<processed, entered, unanswered>>
  BY DEF Ask, Serving, Typed, TypeOK, money
<1>2. \A j \in BuyInKeys : Serves(r, j)' <=> j = k
  BY <1>1 DEF Serves
<1>3. \A q \in Requests \ {r}, j \in BuyInKeys : Serves(q, j)' <=> Serves(q, j)
  BY <1>1 DEF Serves
<1>4. \A j \in BuyInKeys : tries'[j] = IF j = k THEN tries[j] + 1 ELSE tries[j]
  BY <1>1
<1>5. (\A q \in Requests, j \in BuyInKeys : Serves(q, j) => tries[j] >= 1)'
  BY <1>1, <1>2, <1>3, <1>4 DEF Called
<1>6. (\A q, t \in Requests, j \in BuyInKeys :
         q # t /\ Serves(q, j) /\ Serves(t, j) => tries[j] >= 2)'
  <2> SUFFICES ASSUME NEW q \in Requests, NEW t \in Requests, NEW j \in BuyInKeys,
                      q # t, Serves(q, j)', Serves(t, j)'
               PROVE  tries'[j] >= 2
    OBVIOUS
  <2>1. CASE q = r \/ t = r
    BY <2>1, <1>1, <1>2, <1>3, <1>4 DEF Called
  <2>2. CASE q # r /\ t # r
    BY <2>2, <1>1, <1>3, <1>4 DEF Called
  <2> QED  BY <2>1, <2>2
<1>7. (\A q \in Requests, j \in BuyInKeys :
         Serves(q, j) /\ request[q].at \in {"join", "refund"} => DebitKey(j) \in processed)'
  BY <1>1, <1>3 DEF Called, DebitKey
<1>8. Called'
  BY <1>1, <1>4, <1>5, <1>6, <1>7 DEF Called, DebitKey, RefundKey
<1>9. ASSUME NEW j \in BuyInKeys, Once(j)' PROVE Lone(j)'
  <2>1. CASE j = k
    <3>1. tries[k] = 0 /\ entered[k] = 0 /\ RefundKey(k) \notin processed
      BY <1>1, <1>4, <1>9, <2>1 DEF Once, Called
    <3> QED  BY <1>1, <2>1, <3>1 DEF Lone, RefundKey
  <2>2. CASE j # k
    <3>1. Lone(j)
      BY <1>1, <1>4, <1>9, <2>2 DEF Once, Lones
    <3>2. \A q \in Requests : Serves(q, j)' => q # r /\ Serves(q, j) /\ request'[q] = request[q]
      BY <1>1, <1>2, <1>3, <2>2
    <3> QED  BY <1>1, <3>1, <3>2 DEF Lone, RefundKey
  <2> QED  BY <2>1, <2>2
<1> QED  BY <1>8, <1>9 DEF Lones

(* A call goes on: the keys it may use, and what it does to them.          *)
LEMMA GoesOnCalled ==
  ASSUME Typed, Called, Lones, NEW r \in Requests,
         Debit(r) \/ Breach(r) \/ Join(r) \/ SeatRefused(r) \/ Refund(r) \/ Abandon(r)
  PROVE  Called' /\ Lones'
<1> DEFINE k == request[r].key
<1>1. /\ request \in [Requests -> Kept \cup {Unused}] /\ k \in BuyInKeys /\ Serves(r, k)
      /\ request[r].at \in {"debit", "join", "refund"}
      /\ entered \in [BuyInKeys -> Nat] /\ tries \in [BuyInKeys -> Nat]
  BY DEF Debit, Breach, Join, SeatRefused, Refund, Abandon, Serving, Serves, Typed, TypeOK, Kept, Unused
<1>2. PICK at \in {"join", "refund", "ended"} :
        /\ request' = [request EXCEPT ![r].at = at]
        /\ at = "join" => Debit(r) /\ DebitKey(k) \in processed'
        /\ at = "refund" => request[r].at = "join"
  BY DEF Debit, Breach, Join, SeatRefused, Refund, Abandon, Goes, Serving, AfterFailedDebit, Move
<1>3. /\ \A q \in Requests, j \in BuyInKeys : Serves(q, j)' <=> Serves(q, j)
      /\ \A q \in Requests \ {r} : request'[q] = request[q]
      /\ request'[r].at = at
  BY <1>1, <1>2 DEF Serves, Kept, Unused
<1>4. /\ tries' = tries /\ processed \subseteq processed' /\ unanswered \subseteq unanswered'
      /\ \A j \in BuyInKeys : entered'[j] = IF Join(r) /\ j = k THEN entered[j] + 1 ELSE entered[j]
  BY <1>1 DEF Debit, Breach, Join, SeatRefused, Refund, Abandon, past, money, Move, Serving
<1>5. \A j \in BuyInKeys : RefundKey(j) \in processed' =>
        RefundKey(j) \in processed \/ (j = k /\ Refund(r))
  BY DEF Debit, Breach, Join, SeatRefused, Refund, Abandon, money, Move, RefundKey, DebitKey
<1>6. Called'
  <2>1. (\A q \in Requests, j \in BuyInKeys :
           Serves(q, j) /\ request[q].at \in {"join", "refund"} => DebitKey(j) \in processed)'
    <3> SUFFICES ASSUME NEW q \in Requests, NEW j \in BuyInKeys, Serves(q, j),
                        request'[q].at \in {"join", "refund"}
                 PROVE  DebitKey(j) \in processed'
      BY <1>3 DEF DebitKey
    <3>1. CASE q = r
      BY <1>1, <1>2, <1>3, <1>4, <3>1 DEF Called, Serves
    <3>2. CASE q # r
      BY <1>3, <1>4, <3>2 DEF Called
    <3> QED  BY <3>1, <3>2
  <2>2. \A j \in BuyInKeys :
          entered'[j] > 0 \/ RefundKey(j) \in processed' => DebitKey(j) \in processed'
    <3> SUFFICES ASSUME NEW j \in BuyInKeys, entered'[j] > 0 \/ RefundKey(j) \in processed'
                 PROVE  DebitKey(j) \in processed'
      OBVIOUS
    <3>1. CASE entered[j] > 0 \/ RefundKey(j) \in processed
      BY <1>4, <3>1 DEF Called
    <3>2. CASE (Join(r) \/ Refund(r)) /\ j = k
      BY <1>1, <1>4, <3>2 DEF Called, Join, Refund, Serving
    <3> QED  BY <1>1, <1>4, <1>5, <3>1, <3>2
  <2>3. \A j \in BuyInKeys : tries'[j] = 0 => entered'[j] = 0 /\ RefundKey(j) \notin processed'
    BY <1>1, <1>4, <1>5 DEF Called
  <2> QED  BY <1>3, <1>4, <2>1, <2>2, <2>3 DEF Called, DebitKey, RefundKey
<1>7. ASSUME NEW j \in BuyInKeys, Once(j)' PROVE Lone(j)'
  <2>1. Once(j) /\ Lone(j) /\ tries[j] \in Nat /\ tries[j] <= 1
    BY <1>1, <1>4, <1>7 DEF Once, Lones
  <2>2. CASE j # k
    <3>1. \A q \in Requests : Serves(q, j) => q # r
      BY <2>2 DEF Serves
    <3> QED  BY <1>3, <1>4, <1>5, <2>1, <2>2, <3>1 DEF Lone, RefundKey
  <2>3. CASE j = k
    <3>1. entered[k] = 0 /\ (RefundKey(k) \in processed => request[r].at = "refund")
      BY <1>1, <2>1, <2>3 DEF Lone
    <3>2. \A q \in Requests : Serves(q, k) => q = r
      BY <1>1, <2>1, <2>3 DEF Called
    <3>3. CASE Join(r)
      <4>1. request[r].at = "join" /\ RefundKey(k) \notin processed'
        BY <1>1, <1>5, <3>1, <3>3 DEF Join, Refund, Serving
      <4>2. at = "ended"
        BY <1>1, <1>2, <1>7, <2>3, <3>3 DEF Join, Goes, Once, Kept, Unused
      <4> QED  BY <1>3, <1>4, <2>3, <3>1, <3>2, <3>3, <4>1, <4>2 DEF Lone, RefundKey
    <3>4. CASE ~Join(r)
      <4>1. entered'[k] = 0
        BY <1>1, <1>4, <3>1, <3>4
      <4>2. RefundKey(k) \in processed' => at \in {"refund", "ended"}
        BY <1>1, <1>2, <1>5, <3>1 DEF Debit, Refund, Serving
      <4> QED  BY <1>3, <2>3, <3>2, <4>1, <4>2 DEF Lone, RefundKey
    <3> QED  BY <3>3, <3>4
  <2> QED  BY <2>2, <2>3
<1> QED  BY <1>6, <1>7 DEF Lones

----------------------------------------------------------------------------
LEMMA InitInvariant == Init => IInv
<1> SUFFICES ASSUME Init PROVE IInv
  OBVIOUS
<1>1. Typed
  BY InitTyped
<1>2. Settled
  BY DEF Init, Settled, ResolvedIsPaid, Resting
<1>3. Called
  BY DEF Init, Called, Serves, Serving, Unused, DebitKey, RefundKey
<1>4. Lones
  BY DEF Init, Lones, Lone, Serves, Unused, RefundKey
<1> QED  BY <1>1, <1>2, <1>3, <1>4 DEF IInv

(* A step that changes nothing the invariant speaks of.                    *)
LEMMA StutterInvariant ==
  ASSUME IInv, UNCHANGED vars
  PROVE  IInv'
<1>1. UNCHANGED <<wallet, processed, seated, stack, request, rows, owed, open, resolved,
                  attempts, closing, sweep, tries, entered, unanswered>>
  BY DEF vars, money, table, pending, past
<1>2. Typed'
  BY <1>1 DEF IInv, Typed, TypeOK
<1>3. Settled'
  BY <1>1 DEF IInv, Settled, Credited, ResolvedIsPaid, CreditKey
<1>4. Called' /\ Lones'
  BY <1>1, BuyInsKept DEF IInv, past
<1> QED  BY <1>2, <1>3, <1>4 DEF IInv

LEMMA StepInvariant == IInv /\ [Next]_vars => IInv'
<1> SUFFICES ASSUME IInv, [Next]_vars PROVE IInv'
  OBVIOUS
<1>1. Typed /\ Settled /\ Called /\ Lones
  BY DEF IInv
<1>2. ASSUME NEW r \in Requests, NEW k \in BuyInKeys, Ask(r, k) PROVE IInv'
  BY <1>1, <1>2, RequestTyped, RequestSettled, AskCalled DEF IInv
<1>3. ASSUME NEW r \in Requests,
             Debit(r) \/ Breach(r) \/ Join(r) \/ SeatRefused(r) \/ Refund(r) \/ Abandon(r)
      PROVE  IInv'
  BY <1>1, <1>3, RequestTyped, RequestSettled, GoesOnCalled DEF IInv
<1>4. ASSUME NEW p \in Players, NEW q \in Players, Play(p, q) PROVE IInv'
  <2>1. Typed'
    BY <1>1, <1>4, PlayTyped
  <2>2. Settled'
    BY <1>1, <1>4 DEF Play, Settled, Credited, ResolvedIsPaid, money, pending, CreditKey
  <2>3. Called' /\ Lones'
    BY <1>1, <1>4, OthersKeepBuyIns, BuyInsKept
  <2> QED  BY <2>1, <2>2, <2>3 DEF IInv
<1>5. ASSUME NEW k \in LeaveKeys, Remove(k) PROVE IInv'
  <2>1. Called' /\ Lones'
    BY <1>1, <1>5, OthersKeepBuyIns, BuyInsKept
  <2> QED  BY <1>1, <1>5, <2>1, RemoveTyped, RemoveSettled DEF IInv
<1>6. ASSUME NEW k \in LeaveKeys, Settle(k) \/ SettleMark(k) \/ SettleStops(k) PROVE IInv'
  <2>1. Typed'
    BY <1>1, <1>6, ClosingTyped DEF Settled
  <2>2. Called' /\ Lones'
    BY <1>1, <1>6, OthersKeepBuyIns, BuyInsKept
  <2> QED  BY <1>1, <1>6, <2>1, <2>2, ClosingSettled DEF IInv
<1>7. ASSUME NEW s \in Sweeps, Sweep(s) \/ SweepStops(s) PROVE IInv'
  <2>1. Called' /\ Lones'
    BY <1>1, <1>7, OthersKeepBuyIns, BuyInsKept
  <2> QED  BY <1>1, <1>7, <2>1, SweepTyped, SweepSettled DEF IInv
<1>8. CASE UNCHANGED vars
  BY <1>8, StutterInvariant
<1> QED  BY <1>2, <1>3, <1>4, <1>5, <1>6, <1>7, <1>8 DEF Next

THEOREM Invariance == Spec => []IInv
BY InitInvariant, StepInvariant, PTL DEF Spec

(* Nobody's wallet, stack or row is ever negative, a row is never both     *)
(* open and closed, and no row is tried more often than it may be.         *)
THEOREM TypeCorrect == Spec => []TypeOK
<1>1. IInv => TypeOK
  BY DEF IInv, Typed
<1> QED  BY <1>1, Invariance, PTL

(* A row that is closed has been credited, whoever closed it and however   *)
(* many tried (settle, retryPending).                                      *)
THEOREM ClosedIsCredited == Spec => []ResolvedIsPaid
<1>1. IInv => ResolvedIsPaid
  BY DEF IInv, Settled
<1> QED  BY <1>1, Invariance, PTL

(* A seat taken with a key of its own was paid for and stays paid for      *)
(* (BuyIn).                                                                *)
THEOREM SeatIsPaid == Spec => []OneCallPays
<1>1. ASSUME IInv PROVE OneCallPays
  <2> SUFFICES ASSUME NEW k \in BuyInKeys, k \notin unanswered, tries[k] <= 1
               PROVE  entered[k] <= Paid(k)
    BY DEF OneCallPays
  <2>1. Lone(k) /\ (entered[k] > 0 \/ RefundKey(k) \in processed => DebitKey(k) \in processed)
    BY <1>1 DEF IInv, Lones, Once, Called
  <2>2. entered[k] = 1 => DebitKey(k) \in processed /\ RefundKey(k) \notin processed
    BY <2>1 DEF Lone
  <2>3. CASE entered[k] = 1
    BY <2>2, <2>3 DEF Paid, One
  <2>4. CASE entered[k] = 0
    BY <2>1, <2>4 DEF Paid, One
  <2> QED  BY <2>1, <2>3, <2>4 DEF Lone
<1> QED  BY <1>1, Invariance, PTL

----------------------------------------------------------------------------
(* Sums.  A set of numbers that has the first and each next has all.       *)
LEMMA AllNumbers ==
  ASSUME NEW N \in SUBSET Nat, 0 \in N, \A n \in N : n + 1 \in N
  PROVE  N = Nat
<1> SUFFICES ASSUME Nat \ N # {}  PROVE FALSE
  OBVIOUS
<1>1. PICK m \in Nat \ N : \A x \in Nat \ N : ~(<<x, m>> \in OpToRel(<, Nat))
  BY NatLessThanWellFounded, WFMin, Zenon
<1>2. m - 1 \in Nat /\ m - 1 < m  OBVIOUS
<1>3. <<m - 1, m>> \in OpToRel(<, Nat)
  <2>1. m \in Nat  OBVIOUS
  <2>2. <<m - 1, m>> \in Nat \X Nat  BY <1>2
  <2> QED  BY <1>2, <2>1, <2>2, Zenon DEF OpToRel
<1>4. m - 1 \in N  BY <1>1, <1>2, <1>3
<1> QED  BY <1>4

(* SumFunctionOnSet(f, S) adds f[x] for the members x of S.                *)
Pick(s) == CHOOSE x \in s : TRUE

(* g is the sum of f on the sets of U.                                     *)
Adds(g, f, U) ==
  g = [s \in U |-> IF s = {} THEN 0 ELSE f[Pick(s)] + g[s \ {Pick(s)}]]

LEMMA SumIs ==
  ASSUME NEW f, NEW S
  PROVE  SumFunctionOnSet(f, S) = (CHOOSE g : Adds(g, f, SUBSET S))[S]
BY Zenon DEF SumFunctionOnSet, FoldFunctionOnSet, MapThenFoldSet, Adds, Pick

Below(S, n) == {s \in SUBSET S : Cardinality(s) <= n}

LEMMA SumExists ==
  ASSUME NEW f, NEW S, IsFiniteSet(S)
  PROVE  \E g : Adds(g, f, SUBSET S)
<1> DEFINE N == {n \in Nat : \E g : Adds(g, f, Below(S, n))}
<1>1. 0 \in N
  <2> DEFINE g == [s \in Below(S, 0) |-> 0]
  <2>1. \A s \in Below(S, 0) : s = {}  BY FS_Subset, FS_EmptySet, FS_CardinalityType DEF Below
  <2>2. g = [s \in Below(S, 0) |-> IF s = {} THEN 0 ELSE f[Pick(s)] + g[s \ {Pick(s)}]]
    BY <2>1
  <2> QED  BY <2>2 DEF Adds
<1>2. ASSUME NEW n \in N  PROVE n + 1 \in N
  <2>1. PICK g : Adds(g, f, Below(S, n))  BY <1>2
  <2> DEFINE step(s) == IF s = {} THEN 0 ELSE f[Pick(s)] + g[s \ {Pick(s)}]
             h == [s \in Below(S, n + 1) |-> step(s)]
  <2>2. ASSUME NEW s \in Below(S, n)  PROVE s \in Below(S, n + 1) /\ h[s] = g[s]
    <3>1. Cardinality(s) \in Nat  BY FS_Subset, FS_CardinalityType DEF Below
    <3>2. s \in Below(S, n + 1)  BY <3>1 DEF Below
    <3>3. g[s] = step(s)  BY <2>1, Zenon DEF Adds
    <3> QED  BY <3>2, <3>3
  <2>3. ASSUME NEW s \in Below(S, n + 1), s # {}  PROVE s \ {Pick(s)} \in Below(S, n)
    <3>1. IsFiniteSet(s) /\ s \in SUBSET S  BY FS_Subset DEF Below
    <3>2. Pick(s) \in s  BY <2>3 DEF Pick
    <3>3. Cardinality(s \ {Pick(s)}) = Cardinality(s) - 1 /\ Cardinality(s) \in Nat
      BY <3>1, <3>2, FS_RemoveElement, FS_CardinalityType
    <3> QED  BY <3>1, <3>3 DEF Below
  <2> HIDE DEF h
  <2>4. \A s \in Below(S, n + 1) : h[s] = IF s = {} THEN 0 ELSE f[Pick(s)] + h[s \ {Pick(s)}]
    <3> SUFFICES ASSUME NEW s \in Below(S, n + 1)
                 PROVE  h[s] = IF s = {} THEN 0 ELSE f[Pick(s)] + h[s \ {Pick(s)}]
      OBVIOUS
    <3>1. h[s] = step(s)  BY DEF h
    <3>2. CASE s = {}  BY <3>1, <3>2
    <3>3. CASE s # {}
      <4>1. h[s \ {Pick(s)}] = g[s \ {Pick(s)}]  BY <2>2, <2>3, <3>3
      <4> QED  BY <3>1, <3>3, <4>1
    <3> QED  BY <3>2, <3>3
  <2>5. DOMAIN h = Below(S, n + 1) /\ h = [s \in Below(S, n + 1) |-> h[s]]  BY DEF h
  <2>6. Adds(h, f, Below(S, n + 1))  BY <2>4, <2>5, Zenon DEF Adds
  <2> QED  BY <2>6
<1>3. N = Nat
  <2> HIDE DEF N
  <2>1. N \in SUBSET Nat  BY DEF N
  <2> QED  BY <1>1, <1>2, <2>1, AllNumbers
<1>4. Cardinality(S) \in Nat  BY FS_CardinalityType
<1>5. Below(S, Cardinality(S)) = SUBSET S  BY FS_Subset DEF Below
<1>6. Cardinality(S) \in N  BY <1>3, <1>4
<1> QED  BY <1>5, <1>6

LEMMA SumAdds ==
  ASSUME NEW f, NEW S, IsFiniteSet(S)
  PROVE  \E g : Adds(g, f, SUBSET S) /\ SumFunctionOnSet(f, S) = g[S]
<1> DEFINE g == CHOOSE g : Adds(g, f, SUBSET S)
<1>1. Adds(g, f, SUBSET S)  BY SumExists, Zenon
<1>2. SumFunctionOnSet(f, S) = g[S]  BY SumIs, Zenon
<1> HIDE DEF g
<1> QED  BY <1>1, <1>2

(* Induction over the subsets of a finite set, in the order of the sum.    *)
LEMMA AllPicked ==
  ASSUME NEW S, IsFiniteSet(S), NEW F, {} \in F,
         \A s \in SUBSET S : s # {} /\ s \ {Pick(s)} \in F => s \in F
  PROVE  S \in F
<1> DEFINE N == {n \in Nat : \A s \in SUBSET S : Cardinality(s) = n => s \in F}
<1>1. 0 \in N
  <2> SUFFICES ASSUME NEW s \in SUBSET S, Cardinality(s) = 0  PROVE s \in F
    OBVIOUS
  <2>1. IsFiniteSet(s)  BY FS_Subset
  <2> QED  BY <2>1, FS_EmptySet
<1>2. ASSUME NEW n \in N  PROVE n + 1 \in N
  <2> SUFFICES ASSUME NEW s \in SUBSET S, Cardinality(s) = n + 1  PROVE s \in F
    OBVIOUS
  <2>1. IsFiniteSet(s) /\ n \in Nat  BY FS_Subset
  <2>2. s # {}  BY <2>1, FS_EmptySet
  <2>3. Pick(s) \in s  BY <2>2 DEF Pick
  <2>4. Cardinality(s \ {Pick(s)}) = n
    <3>1. Cardinality(s \ {Pick(s)}) = Cardinality(s) - 1  BY <2>1, <2>3, FS_RemoveElement
    <3> QED  BY <2>1, <3>1
  <2>5. s \ {Pick(s)} \in F  BY <2>4
  <2> QED  BY <2>2, <2>5
<1>3. N = Nat
  <2> HIDE DEF N
  <2>1. N \in SUBSET Nat  BY DEF N
  <2> QED  BY <1>1, <1>2, <2>1, AllNumbers
<1>4. Cardinality(S) \in Nat  BY FS_CardinalityType
<1> QED  BY <1>3, <1>4

LEMMA SumUnfolds ==
  ASSUME NEW f, NEW S, NEW g, Adds(g, f, SUBSET S)
  PROVE  /\ g[{}] = 0
         /\ \A s \in SUBSET S : s # {} =>
              /\ Pick(s) \in s /\ g[s] = f[Pick(s)] + g[s \ {Pick(s)}]
<1>1. \A s \in SUBSET S : g[s] = IF s = {} THEN 0 ELSE f[Pick(s)] + g[s \ {Pick(s)}]
  BY Zenon DEF Adds
<1>2. {} \in SUBSET S  OBVIOUS
<1>3. \A s : s # {} => Pick(s) \in s  BY DEF Pick
<1> QED  BY <1>1, <1>2, <1>3

(* One number changes.                                                     *)
LEMMA SumChanges ==
  ASSUME NEW f, NEW h, NEW S, IsFiniteSet(S), \A x \in S : f[x] \in Int /\ h[x] \in Int,
         NEW a \in S, \A x \in S \ {a} : h[x] = f[x]
  PROVE  /\ SumFunctionOnSet(f, S) \in Int
         /\ SumFunctionOnSet(h, S) = SumFunctionOnSet(f, S) - f[a] + h[a]
<1>1. PICK g : Adds(g, f, SUBSET S) /\ SumFunctionOnSet(f, S) = g[S]  BY SumAdds, Zenon
<1>2. PICK e : Adds(e, h, SUBSET S) /\ SumFunctionOnSet(h, S) = e[S]  BY SumAdds, Zenon
<1> DEFINE F == {s \in SUBSET S : g[s] \in Int /\ e[s] = IF a \in s THEN g[s] - f[a] + h[a] ELSE g[s]}
<1>3. {} \in F  BY <1>1, <1>2, SumUnfolds
<1>4. ASSUME NEW s \in SUBSET S, s # {}, s \ {Pick(s)} \in F  PROVE s \in F
  <2> DEFINE x == Pick(s)
             r == s \ {x}
  <2>1. x \in s /\ g[s] = f[x] + g[r]  BY <1>1, <1>4, SumUnfolds
  <2>2. e[s] = h[x] + e[r]  BY <1>2, <1>4, SumUnfolds
  <2>3. g[r] \in Int /\ e[r] = IF a \in r THEN g[r] - f[a] + h[a] ELSE g[r]  BY <1>4
  <2>4. x \in S /\ f[x] \in Int /\ h[x] \in Int /\ f[a] \in Int /\ h[a] \in Int  BY <2>1
  <2>5. x # a => h[x] = f[x]  BY <2>4
  <2>6. a \in s <=> a = x \/ a \in r  BY <2>1
  <2>7. x \notin r  OBVIOUS
  <2> HIDE DEF x, r
  <2>8. CASE a = x  BY <2>1, <2>2, <2>3, <2>4, <2>6, <2>7, <2>8
  <2>9. CASE a # x  BY <2>1, <2>2, <2>3, <2>4, <2>5, <2>6, <2>9
  <2> QED  BY <2>8, <2>9
<1> HIDE DEF F
<1>5. S \in F  BY <1>3, <1>4, AllPicked
<1> QED  BY <1>1, <1>2, <1>5 DEF F

LEMMA SumOfEquals ==
  ASSUME NEW f, NEW S, IsFiniteSet(S), NEW k \in Int, \A x \in S : f[x] = k
  PROVE  SumFunctionOnSet(f, S) = k * Cardinality(S)
<1>1. PICK g : Adds(g, f, SUBSET S) /\ SumFunctionOnSet(f, S) = g[S]  BY SumAdds, Zenon
<1> DEFINE F == {s \in SUBSET S : g[s] = k * Cardinality(s)}
<1>2. {} \in F
  <2>1. Cardinality({}) = 0  BY FS_EmptySet
  <2> QED  BY <1>1, <2>1, SumUnfolds
<1>3. ASSUME NEW s \in SUBSET S, s # {}, s \ {Pick(s)} \in F  PROVE s \in F
  <2> DEFINE r == s \ {Pick(s)}
  <2>1. Pick(s) \in s /\ g[s] = f[Pick(s)] + g[r]  BY <1>1, <1>3, SumUnfolds
  <2>2. f[Pick(s)] = k /\ g[r] = k * Cardinality(r)  BY <1>3, <2>1
  <2>3. Cardinality(s) = Cardinality(r) + 1 /\ Cardinality(r) \in Nat
    <3>1. IsFiniteSet(s) /\ IsFiniteSet(r)  BY FS_Subset
    <3>2. Cardinality(r) = Cardinality(s) - 1  BY <2>1, <3>1, FS_RemoveElement
    <3> QED  BY <3>1, <3>2, FS_CardinalityType
  <2>4. ASSUME NEW c \in Nat  PROVE k + k * c = k * (c + 1)
    OBVIOUS
  <2> HIDE DEF r
  <2>5. g[s] = k * (Cardinality(r) + 1)  BY <2>1, <2>2, <2>3, <2>4
  <2> QED  BY <2>3, <2>5
<1> HIDE DEF F
<1>4. S \in F  BY <1>2, <1>3, AllPicked
<1> QED  BY <1>1, <1>4 DEF F

LEMMA SumTyped ==
  ASSUME NEW f, NEW S, IsFiniteSet(S), \A x \in S : f[x] \in Int
  PROVE  SumFunctionOnSet(f, S) \in Int
<1>1. CASE S = {}
  <2>1. PICK g : Adds(g, f, SUBSET S) /\ SumFunctionOnSet(f, S) = g[S]  BY SumAdds, Zenon
  <2>2. g[{}] = 0  BY <2>1, SumUnfolds
  <2> QED  BY <1>1, <2>1, <2>2
<1>2. CASE S # {}
  <2>1. PICK a \in S : TRUE  BY <1>2
  <2> QED  BY <2>1, SumChanges
<1> QED  BY <1>1, <1>2

----------------------------------------------------------------------------
(* Chips.  A credit is of a row that is there, who does not sit has no     *)
(* chips at the table, and nothing is lost.                                *)
Balanced ==
  /\ \A k \in LeaveKeys : CreditKey(k) \in processed => k \in rows
  /\ \A p \in Players \ seated : stack[p] = 0
  /\ MoneyAccounted

LEMMA Finite == IsFiniteSet(Players) /\ IsFiniteSet(BuyInKeys) /\ IsFiniteSet(LeaveKeys)
BY AmountsAssumption, FS_Product DEF BuyInKeys, LeaveKeys

LEMMA DebtsTyped ==
  ASSUME TypeOK
  PROVE  /\ \A p \in Players : Holdings[p] \in Int
         /\ \A k \in LeaveKeys : Debts[k] \in Int
         /\ \A k \in BuyInKeys : Strays[k] \in Int
<1>1. \A p \in Players : wallet[p] \in Int /\ stack[p] \in Int  BY DEF TypeOK
<1>2. \A k \in LeaveKeys : owed[k] \in Int  BY DEF TypeOK
<1>3. \A k \in BuyInKeys : entered[k] \in Int /\ Paid(k) \in Int  BY DEF TypeOK, Paid, One
<1> QED  BY <1>1, <1>2, <1>3 DEF Holdings, Debts, Strays, Unpaid

(* A sum changes by what one player, row or key does.                      *)
LEMMA HoldingsChange ==
  ASSUME TypeOK, TypeOK', NEW p \in Players,
         \A q \in Players \ {p} : wallet'[q] = wallet[q] /\ stack'[q] = stack[q]
  PROVE  /\ SumFunction(Holdings) \in Int
         /\ SumFunction(Holdings)' = SumFunction(Holdings) - (wallet[p] + stack[p]) + (wallet'[p] + stack'[p])
<1> DEFINE f == [q \in Players |-> wallet[q] + stack[q]]
           h == [q \in Players |-> wallet'[q] + stack'[q]]
<1>1. \A q \in Players : f[q] \in Int /\ h[q] \in Int
  <2>1. \A q \in Players : wallet[q] \in Int /\ stack[q] \in Int  BY DEF TypeOK
  <2>2. \A q \in Players : wallet'[q] \in Int /\ stack'[q] \in Int  BY DEF TypeOK
  <2> QED  BY <2>1, <2>2
<1>2. \A q \in Players \ {p} : h[q] = f[q]  OBVIOUS
<1>3. f[p] = wallet[p] + stack[p] /\ h[p] = wallet'[p] + stack'[p]  OBVIOUS
<1>4. SumFunction(Holdings) = SumFunctionOnSet(f, Players)
  BY Zenon DEF SumFunction, Holdings
<1>5. SumFunction(Holdings)' = SumFunctionOnSet(h, Players)
  BY Zenon DEF SumFunction, Holdings
<1> HIDE DEF f, h
<1>6. /\ SumFunctionOnSet(f, Players) \in Int
      /\ SumFunctionOnSet(h, Players) = SumFunctionOnSet(f, Players) - f[p] + h[p]
  BY <1>1, <1>2, Finite, SumChanges
<1> QED  BY <1>3, <1>4, <1>5, <1>6

LEMMA DebtsChange ==
  ASSUME TypeOK, TypeOK', NEW k \in LeaveKeys,
         \A j \in LeaveKeys \ {k} : Unpaid(j)' = Unpaid(j)
  PROVE  /\ SumFunction(Debts) \in Int
         /\ SumFunction(Debts)' = SumFunction(Debts) - Unpaid(k) + Unpaid(k)'
<1> DEFINE f == [j \in LeaveKeys |-> Unpaid(j)]
           h == [j \in LeaveKeys |-> Unpaid(j)']
<1>1. \A j \in LeaveKeys : f[j] \in Int /\ h[j] \in Int
  <2>1. \A j \in LeaveKeys : Unpaid(j) \in Int  BY DEF TypeOK, Unpaid
  <2>2. \A j \in LeaveKeys : Unpaid(j)' \in Int  BY DEF TypeOK, Unpaid
  <2> QED  BY <2>1, <2>2
<1>2. \A j \in LeaveKeys \ {k} : h[j] = f[j]  OBVIOUS
<1>3. f[k] = Unpaid(k) /\ h[k] = Unpaid(k)'  OBVIOUS
<1>4. SumFunction(Debts) = SumFunctionOnSet(f, LeaveKeys)
  BY Zenon DEF SumFunction, Debts
<1>5. SumFunction(Debts)' = SumFunctionOnSet(h, LeaveKeys)
  BY Zenon DEF SumFunction, Debts
<1> HIDE DEF f, h
<1>6. /\ SumFunctionOnSet(f, LeaveKeys) \in Int
      /\ SumFunctionOnSet(h, LeaveKeys) = SumFunctionOnSet(f, LeaveKeys) - f[k] + h[k]
  BY <1>1, <1>2, Finite, SumChanges
<1> QED  BY <1>3, <1>4, <1>5, <1>6

Stray(k) == Paid(k) - entered[k]

LEMMA StraysChange ==
  ASSUME TypeOK, TypeOK', NEW k \in BuyInKeys,
         \A j \in BuyInKeys \ {k} : Stray(j)' = Stray(j)
  PROVE  /\ SumFunction(Strays) \in Int
         /\ SumFunction(Strays)' = SumFunction(Strays) - Stray(k) + Stray(k)'
<1> DEFINE f == [j \in BuyInKeys |-> Stray(j)]
           h == [j \in BuyInKeys |-> Stray(j)']
<1>1. \A j \in BuyInKeys : f[j] \in Int /\ h[j] \in Int
  <2>1. \A j \in BuyInKeys : Stray(j) \in Int  BY DEF TypeOK, Stray, Paid, One
  <2>2. \A j \in BuyInKeys : Stray(j)' \in Int  BY DEF TypeOK, Stray, Paid, One
  <2> QED  BY <2>1, <2>2
<1>2. \A j \in BuyInKeys \ {k} : h[j] = f[j]  OBVIOUS
<1>3. f[k] = Stray(k) /\ h[k] = Stray(k)'  OBVIOUS
<1>4. SumFunction(Strays) = SumFunctionOnSet(f, BuyInKeys)
  BY Zenon DEF SumFunction, Strays, Stray
<1>5. SumFunction(Strays)' = SumFunctionOnSet(h, BuyInKeys)
  BY Zenon DEF SumFunction, Strays, Stray
<1> HIDE DEF f, h
<1>6. /\ SumFunctionOnSet(f, BuyInKeys) \in Int
      /\ SumFunctionOnSet(h, BuyInKeys) = SumFunctionOnSet(f, BuyInKeys) - f[k] + h[k]
  BY <1>1, <1>2, Finite, SumChanges
<1> QED  BY <1>3, <1>4, <1>5, <1>6

(* The sums are what they were.                                            *)
LEMMA HoldingsStay ==
  ASSUME wallet' = wallet, stack' = stack
  PROVE  SumFunction(Holdings)' = SumFunction(Holdings)
BY DEF Holdings

LEMMA DebtsStay ==
  ASSUME \A j \in LeaveKeys : Unpaid(j)' = Unpaid(j)
  PROVE  SumFunction(Debts)' = SumFunction(Debts)
<1>1. Debts' = Debts  BY DEF Debts
<1> QED  BY <1>1

LEMMA StraysStay ==
  ASSUME \A j \in BuyInKeys : Stray(j)' = Stray(j)
  PROVE  SumFunction(Strays)' = SumFunction(Strays)
<1>1. Strays' = Strays  BY DEF Strays, Stray
<1> QED  BY <1>1

(* What kind of transfer a key is for, and for whom, can be told from it.  *)
LEMMA KeysDiffer ==
  /\ \A j, k : DebitKey(j) = DebitKey(k) \/ RefundKey(j) = RefundKey(k) \/ CreditKey(j) = CreditKey(k) => j = k
  /\ \A j, k : DebitKey(j) # RefundKey(k) /\ DebitKey(j) # CreditKey(k) /\ RefundKey(j) # CreditKey(k)
BY DEF DebitKey, RefundKey, CreditKey

(* What a transfer for one key, or one row, leaves the others.             *)
LEMMA SumsKept ==
  ASSUME MoneyAccounted,
         NEW h \in Int, NEW d \in Int, NEW s \in Int,
         SumFunction(Holdings) \in Int, SumFunction(Debts) \in Int, SumFunction(Strays) \in Int,
         SumFunction(Holdings)' = SumFunction(Holdings) + h,
         SumFunction(Debts)' = SumFunction(Debts) + d,
         SumFunction(Strays)' = SumFunction(Strays) + s,
         h + d + BuyIn * s = 0
  PROVE  MoneyAccounted'
<1> DEFINE x == SumFunction(Holdings)
           y == SumFunction(Debts)
           z == SumFunction(Strays)
<1>1. BuyIn \in Int  BY AmountsAssumption
<1>2. BuyIn * (z + s) = BuyIn * z + BuyIn * s /\ BuyIn * z \in Int /\ BuyIn * s \in Int
  BY <1>1
<1>3. MoneyAccounted <=> x + y + BuyIn * z = Funds * Cardinality(Players)
  BY DEF MoneyAccounted
<1>4. MoneyAccounted' <=> (x + h) + (y + d) + BuyIn * (z + s) = Funds * Cardinality(Players)
  BY DEF MoneyAccounted
<1>5. x \in Int /\ y \in Int  OBVIOUS
<1>6. (x + h) + (y + d) + (BuyIn * z + BuyIn * s) = x + y + BuyIn * z
  <2> DEFINE a == BuyIn * z
             b == BuyIn * s
  <2>1. a \in Int /\ b \in Int /\ h + d + b = 0  BY <1>2
  <2> HIDE DEF x, y, a, b
  <2>2. (x + h) + (y + d) + (a + b) = x + y + a  BY <1>5, <2>1
  <2> QED  BY <2>2 DEF a, b
<1> HIDE DEF x, y, z
<1> QED  BY <1>2, <1>3, <1>4, <1>6

LEMMA InitBalanced == Init => Balanced
<1> SUFFICES ASSUME Init PROVE Balanced
  OBVIOUS
<1>1. /\ processed = {} /\ rows = {} /\ wallet = [p \in Players |-> Funds]
      /\ stack = [p \in Players |-> 0] /\ entered = [k \in BuyInKeys |-> 0]
  BY DEF Init
<1>2. Funds \in Int /\ BuyIn \in Int  BY AmountsAssumption
<1>3. SumFunction(Holdings) = Funds * Cardinality(Players)
  <2>1. \A p \in Players : Holdings[p] = Funds  BY <1>1, <1>2 DEF Holdings
  <2>2. DOMAIN Holdings = Players  BY DEF Holdings
  <2> QED  BY <1>2, <2>1, <2>2, Finite, SumOfEquals, Zenon DEF SumFunction
<1>4. SumFunction(Debts) = 0
  <2>1. \A k \in LeaveKeys : Debts[k] = 0  BY <1>1 DEF Debts, Unpaid
  <2>2. DOMAIN Debts = LeaveKeys /\ 0 \in Int  BY DEF Debts
  <2>3. SumFunction(Debts) = 0 * Cardinality(LeaveKeys)
    BY <2>1, <2>2, Finite, SumOfEquals, Zenon DEF SumFunction
  <2> QED  BY <2>3, Finite, FS_CardinalityType
<1>5. SumFunction(Strays) = 0
  <2>1. \A k \in BuyInKeys : Strays[k] = 0  BY <1>1 DEF Strays, Paid, One
  <2>2. DOMAIN Strays = BuyInKeys /\ 0 \in Int  BY DEF Strays
  <2>3. SumFunction(Strays) = 0 * Cardinality(BuyInKeys)
    BY <2>1, <2>2, Finite, SumOfEquals, Zenon DEF SumFunction
  <2> QED  BY <2>3, Finite, FS_CardinalityType
<1>6. MoneyAccounted
  <2>1. Cardinality(Players) \in Nat  BY Finite, FS_CardinalityType
  <2>2. Funds * Cardinality(Players) \in Int  BY <1>2, <2>1
  <2> QED  BY <1>2, <1>3, <1>4, <1>5, <2>2 DEF MoneyAccounted
<1> QED  BY <1>1, <1>6 DEF Balanced

(* Nothing moves.                                                          *)
LEMMA NothingMoves ==
  ASSUME TypeOK, Balanced, UNCHANGED <<money, table, rows, owed, entered>>
  PROVE  Balanced'
<1>1. /\ wallet' = wallet /\ processed' = processed /\ seated' = seated /\ stack' = stack
      /\ rows' = rows /\ owed' = owed /\ entered' = entered
  BY DEF money, table
<1>2. SumFunction(Holdings)' = SumFunction(Holdings)  BY <1>1, HoldingsStay
<1>3. SumFunction(Debts)' = SumFunction(Debts)
  <2>1. \A k \in LeaveKeys : Unpaid(k)' = Unpaid(k)  BY <1>1 DEF Unpaid, CreditKey
  <2> QED  BY <2>1, DebtsStay
<1>4. SumFunction(Strays)' = SumFunction(Strays)
  <2>1. \A k \in BuyInKeys : Stray(k)' = Stray(k)
    BY <1>1 DEF Stray, Paid, One, DebitKey, RefundKey
  <2> QED  BY <2>1, StraysStay
<1>5. MoneyAccounted'  BY <1>2, <1>3, <1>4 DEF Balanced, MoneyAccounted
<1> QED  BY <1>1, <1>5 DEF Balanced, CreditKey

(* The wallet debits or refunds a buy-in.                                  *)
LEMMA BuyInMoves ==
  ASSUME TypeOK, TypeOK', Balanced, NEW k \in BuyInKeys, NEW key, NEW amount \in Int,
         \/ key = DebitKey(k) /\ amount = -BuyIn
         \/ key = RefundKey(k) /\ amount = BuyIn,
         Move(k[1], amount, key), UNCHANGED <<table, rows, owed, entered>>
  PROVE  Balanced'
<1>1. CASE key \in processed
  <2>1. processed' = processed  BY <1>1 DEF Move
  <2>2. wallet' = wallet
    <3>1. k[1] \in Players /\ wallet \in [Players -> Int]  BY KeyTyped DEF TypeOK
    <3> QED  BY <1>1, <3>1 DEF Move
  <2> QED  BY <2>1, <2>2, NothingMoves DEF money
<1>2. CASE key \notin processed
  <2> DEFINE p == k[1]
             s == IF amount = BuyIn THEN -1 ELSE 1
  <2>1. p \in Players /\ wallet \in [Players -> Int] /\ BuyIn \in Int /\ BuyIn # 0 /\ BuyIn # -BuyIn
    BY KeyTyped, AmountsAssumption DEF TypeOK
  <2>2. /\ processed' = processed \cup {key} /\ wallet' = [wallet EXCEPT ![p] = @ + amount]
        /\ seated' = seated /\ stack' = stack /\ rows' = rows /\ owed' = owed /\ entered' = entered
    BY <1>2 DEF Move, table
  <2>3. amount + 0 + BuyIn * s = 0 /\ s \in Int /\ 0 \in Int  BY <2>1
  <2>4. /\ SumFunction(Holdings) \in Int
        /\ SumFunction(Holdings)' = SumFunction(Holdings) + amount
    <3>1. wallet'[p] = wallet[p] + amount /\ \A q \in Players \ {p} : wallet'[q] = wallet[q]
      BY <2>1, <2>2
    <3>2. wallet[p] \in Int /\ stack[p] \in Int /\ stack'[p] = stack[p]  BY <2>1, <2>2 DEF TypeOK
    <3>3. \A q \in Players \ {p} : wallet'[q] = wallet[q] /\ stack'[q] = stack[q]
      BY <2>2, <3>1
    <3> HIDE DEF p
    <3>4. /\ SumFunction(Holdings) \in Int
          /\ SumFunction(Holdings)'
               = SumFunction(Holdings) - (wallet[p] + stack[p]) + (wallet'[p] + stack'[p])
      BY <2>1, <3>3, HoldingsChange
    <3> QED  BY <3>1, <3>2, <3>4
  <2>5. SumFunction(Debts) \in Int /\ SumFunction(Debts)' = SumFunction(Debts) + 0
    <3>1. \A j \in LeaveKeys : Unpaid(j)' = Unpaid(j)
      BY <2>2, KeysDiffer DEF Unpaid, CreditKey
    <3>2. SumFunction(Debts)' = SumFunction(Debts)  BY <3>1, DebtsStay
    <3>3. SumFunction(Debts) \in Int  BY Finite, DebtsTyped, SumTyped, Zenon DEF SumFunction, Debts
    <3> QED  BY <3>2, <3>3
  <2>6. SumFunction(Strays) \in Int /\ SumFunction(Strays)' = SumFunction(Strays) + s
    <3>1. \A j \in BuyInKeys \ {k} : Stray(j)' = Stray(j)
      BY <2>2, KeysDiffer DEF Stray, Paid, One, DebitKey, RefundKey
    <3>2. Stray(k)' = Stray(k) + s /\ Stray(k) \in Int
      <4>1. entered[k] \in Int /\ entered'[k] = entered[k]  BY <2>2 DEF TypeOK
      <4>2. CASE key = DebitKey(k) /\ amount = -BuyIn
        <5>1. s = 1  BY <2>1, <4>2
        <5>2. DebitKey(k) \notin processed /\ DebitKey(k)' \in processed'
          BY <1>2, <2>2, <4>2 DEF DebitKey
        <5>3. RefundKey(k)' \in processed' <=> RefundKey(k) \in processed
          BY <2>2, <4>2, KeysDiffer DEF RefundKey
        <5>4. Paid(k)' = Paid(k) + 1 /\ Paid(k) \in Int  BY <5>2, <5>3 DEF Paid, One
        <5> HIDE DEF s
        <5> QED  BY <4>1, <5>1, <5>4 DEF Stray
      <4>3. CASE key = RefundKey(k) /\ amount = BuyIn
        <5>1. s = -1  BY <2>1, <4>3
        <5>2. RefundKey(k) \notin processed /\ RefundKey(k)' \in processed'
          BY <1>2, <2>2, <4>3 DEF RefundKey
        <5>3. DebitKey(k)' \in processed' <=> DebitKey(k) \in processed
          BY <2>2, <4>3, KeysDiffer DEF DebitKey
        <5>4. Paid(k)' = Paid(k) - 1 /\ Paid(k) \in Int  BY <5>2, <5>3 DEF Paid, One
        <5> HIDE DEF s
        <5> QED  BY <4>1, <5>1, <5>4 DEF Stray
      <4> QED  BY <4>2, <4>3
    <3>3. /\ SumFunction(Strays) \in Int
          /\ SumFunction(Strays)' = SumFunction(Strays) - Stray(k) + Stray(k)'
      BY <3>1, StraysChange
    <3> HIDE DEF s
    <3> QED  BY <2>3, <3>2, <3>3
  <2> HIDE DEF s
  <2>7. MoneyAccounted'
    BY <2>3, <2>4, <2>5, <2>6, SumsKept DEF Balanced
  <2>8. \A j : CreditKey(j) # key  BY KeysDiffer
  <2> QED  BY <2>2, <2>7, <2>8 DEF Balanced, CreditKey
<1> QED  BY <1>1, <1>2

(* The wallet credits what a row says.                                     *)
LEMMA CreditMoves ==
  ASSUME TypeOK, TypeOK', Balanced, NEW k \in LeaveKeys, k \in rows,
         Credits(k[1], owed[k], CreditKey(k)), UNCHANGED <<table, rows, owed, entered>>
  PROVE  Balanced'
<1> DEFINE p == k[1]
           n == owed[k]
<1>1. p \in Players /\ wallet \in [Players -> Int] /\ n \in Int  BY KeyTyped DEF TypeOK
<1>2. /\ processed' = processed \cup {CreditKey(k)}
      /\ wallet' = [wallet EXCEPT ![p] = @ + IF CreditKey(k) \in processed THEN 0 ELSE n]
      /\ seated' = seated /\ stack' = stack /\ rows' = rows /\ owed' = owed /\ entered' = entered
  BY DEF Credits, Move, table
<1>3. CASE CreditKey(k) \in processed
  <2>1. processed' = processed /\ wallet' = wallet  BY <1>1, <1>2, <1>3
  <2> QED  BY <2>1, NothingMoves DEF money
<1>4. CASE CreditKey(k) \notin processed
  <2>1. /\ SumFunction(Holdings) \in Int /\ SumFunction(Holdings)' = SumFunction(Holdings) + n
    <3>1. wallet'[p] = wallet[p] + n /\ \A q \in Players \ {p} : wallet'[q] = wallet[q]
      BY <1>1, <1>2, <1>4
    <3>2. wallet[p] \in Int /\ stack[p] \in Int /\ stack'[p] = stack[p]  BY <1>1, <1>2 DEF TypeOK
    <3>3. \A q \in Players \ {p} : wallet'[q] = wallet[q] /\ stack'[q] = stack[q]
      BY <1>2, <3>1
    <3> HIDE DEF p, n
    <3>4. /\ SumFunction(Holdings) \in Int
          /\ SumFunction(Holdings)'
               = SumFunction(Holdings) - (wallet[p] + stack[p]) + (wallet'[p] + stack'[p])
      BY <1>1, <3>3, HoldingsChange
    <3> QED  BY <1>1, <3>1, <3>2, <3>4
  <2>2. SumFunction(Debts) \in Int /\ SumFunction(Debts)' = SumFunction(Debts) + (-n)
    <3>1. \A j \in LeaveKeys \ {k} : Unpaid(j)' = Unpaid(j)
      BY <1>2, KeysDiffer DEF Unpaid, CreditKey
    <3>2. Unpaid(k) = n /\ Unpaid(k)' = 0  BY <1>2, <1>4 DEF Unpaid, CreditKey
    <3>3. /\ SumFunction(Debts) \in Int
          /\ SumFunction(Debts)' = SumFunction(Debts) - Unpaid(k) + Unpaid(k)'
      BY <3>1, DebtsChange
    <3> HIDE DEF n
    <3> QED  BY <1>1, <3>2, <3>3
  <2>3. SumFunction(Strays) \in Int /\ SumFunction(Strays)' = SumFunction(Strays) + 0
    <3>1. \A j \in BuyInKeys : Stray(j)' = Stray(j)
      BY <1>2, KeysDiffer DEF Stray, Paid, One, DebitKey, RefundKey
    <3>2. SumFunction(Strays)' = SumFunction(Strays)  BY <3>1, StraysStay
    <3>3. SumFunction(Strays) \in Int  BY Finite, DebtsTyped, SumTyped, Zenon DEF SumFunction, Strays
    <3> QED  BY <3>2, <3>3
  <2>4. n + (-n) + BuyIn * 0 = 0 /\ -n \in Int /\ 0 \in Int
    <3>1. BuyIn \in Int  BY AmountsAssumption
    <3> HIDE DEF n
    <3> QED  BY <1>1, <3>1
  <2> HIDE DEF n
  <2>5. MoneyAccounted'
    BY <1>1, <2>1, <2>2, <2>3, <2>4, SumsKept DEF Balanced
  <2>6. \A j \in LeaveKeys : CreditKey(j) = CreditKey(k) => j = k  BY KeysDiffer
  <2> QED  BY <1>2, <2>5, <2>6 DEF Balanced, CreditKey
<1> QED  BY <1>3, <1>4

(* A seat is taken, by somebody who has no chips at the table.             *)
LEMMA JoinBalanced ==
  ASSUME Typed, TypeOK', Balanced, NEW r \in Requests, Join(r)
  PROVE  Balanced'
<1>1. PICK k \in BuyInKeys : request[r].key = k
  <2>1. request[r] \in Kept \cup {Unused} /\ request[r].at = "join"
    BY DEF Typed, Join, Serving
  <2> QED  BY <2>1 DEF Kept, Unused
<1> DEFINE p == k[1]
<1>2. TypeOK /\ p \in Players /\ BuyIn \in Int
  BY KeyTyped, AmountsAssumption DEF Typed
<1>3. /\ ~HasChips(p) /\ seated' = seated \cup {p} /\ stack' = [stack EXCEPT ![p] = BuyIn]
      /\ entered' = [entered EXCEPT ![k] = @ + 1]
      /\ wallet' = wallet /\ processed' = processed /\ rows' = rows /\ owed' = owed
  BY <1>1 DEF Join, TakesChips, money, pending
<1> HIDE DEF p
<1>4. /\ stack[p] = 0 /\ stack'[p] = BuyIn /\ \A q \in Players \ {p} : stack'[q] = stack[q]
      /\ entered'[k] = entered[k] + 1 /\ \A j \in BuyInKeys \ {k} : entered'[j] = entered[j]
  <2>1. stack \in [Players -> Nat] /\ entered \in [BuyInKeys -> Nat]  BY <1>2 DEF TypeOK
  <2>2. stack[p] = 0  BY <1>2, <1>3, <2>1 DEF HasChips, Balanced
  <2> QED  BY <1>2, <1>3, <2>1, <2>2
<1>5. SumFunction(Holdings) \in Int /\ SumFunction(Holdings)' = SumFunction(Holdings) + BuyIn
  <2>1. wallet[p] \in Int /\ wallet'[p] = wallet[p]  BY <1>2, <1>3 DEF TypeOK
  <2>2. \A q \in Players \ {p} : wallet'[q] = wallet[q] /\ stack'[q] = stack[q]
    BY <1>3, <1>4
  <2>3. /\ SumFunction(Holdings) \in Int
        /\ SumFunction(Holdings)'
             = SumFunction(Holdings) - (wallet[p] + stack[p]) + (wallet'[p] + stack'[p])
    BY <1>2, <2>2, HoldingsChange
  <2> QED  BY <1>2, <1>4, <2>1, <2>3
<1>6. SumFunction(Debts) \in Int /\ SumFunction(Debts)' = SumFunction(Debts) + 0
  <2>1. \A j \in LeaveKeys : Unpaid(j)' = Unpaid(j)
    BY <1>3 DEF Unpaid, CreditKey
  <2>2. SumFunction(Debts)' = SumFunction(Debts)  BY <2>1, DebtsStay
  <2>3. SumFunction(Debts) \in Int  BY <1>2, Finite, DebtsTyped, SumTyped, Zenon DEF SumFunction, Debts
  <2> QED  BY <2>2, <2>3
<1>7. SumFunction(Strays) \in Int /\ SumFunction(Strays)' = SumFunction(Strays) + (-1)
  <2>1. \A j \in BuyInKeys : Paid(j)' = Paid(j) /\ Paid(j) \in Int
    BY <1>3 DEF Paid, One, DebitKey, RefundKey
  <2>2. \A j \in BuyInKeys \ {k} : Stray(j)' = Stray(j)
    BY <1>4, <2>1 DEF Stray
  <2>3. Stray(k)' = Stray(k) - 1 /\ Stray(k) \in Int
    <3>1. entered[k] \in Int  BY <1>2 DEF TypeOK
    <3> QED  BY <1>2, <1>4, <2>1, <3>1 DEF Stray
  <2>4. /\ SumFunction(Strays) \in Int
        /\ SumFunction(Strays)' = SumFunction(Strays) - Stray(k) + Stray(k)'
    BY <1>2, <2>2, StraysChange
  <2> QED  BY <2>3, <2>4
<1>8. BuyIn + 0 + BuyIn * (-1) = 0 /\ -1 \in Int /\ 0 \in Int  BY <1>2
<1>9. MoneyAccounted'
  BY <1>2, <1>5, <1>6, <1>7, <1>8, SumsKept DEF Balanced
<1>20. \A q \in Players \ seated' : stack'[q] = 0
  BY <1>3, <1>4 DEF Balanced
<1> QED  BY <1>3, <1>9, <1>20 DEF Balanced, CreditKey

(* Chips change hands at the table.                                        *)
LEMMA PlayBalanced ==
  ASSUME TypeOK, TypeOK', Balanced, NEW p \in Players, NEW q \in Players, Play(p, q)
  PROVE  Balanced'
<1>1. PICK n \in 1 .. stack[p] : stack' = [stack EXCEPT ![p] = @ - n, ![q] = @ + n]
  BY DEF Play
<1>2. /\ p # q /\ p \in seated /\ q \in seated /\ seated' = seated
      /\ wallet' = wallet /\ processed' = processed /\ rows' = rows /\ owed' = owed
      /\ entered' = entered
  BY DEF Play, HasChips, money, pending, past
<1>3. stack \in [Players -> Nat] /\ wallet \in [Players -> Nat] /\ n \in Int  BY DEF TypeOK
<1>4. /\ stack'[p] = stack[p] - n /\ stack'[q] = stack[q] + n
      /\ \A x \in Players \ {p, q} : stack'[x] = stack[x]
  BY <1>1, <1>2, <1>3
<1>5. SumFunction(Holdings)' = SumFunction(Holdings)
  <2> DEFINE f == [x \in Players |-> wallet[x] + stack[x]]
             g == [x \in Players |-> wallet[x] + (IF x = p THEN stack[p] - n ELSE stack[x])]
             h == [x \in Players |-> wallet'[x] + stack'[x]]
  <2>1. SumFunction(Holdings) = SumFunctionOnSet(f, Players)
        /\ SumFunction(Holdings)' = SumFunctionOnSet(h, Players)
    BY Zenon DEF SumFunction, Holdings
  <2>2. \A x \in Players : f[x] \in Int /\ g[x] \in Int  BY <1>3
  <2>3. \A x \in Players : h[x] \in Int
    <3>1. \A x \in Players : wallet'[x] \in Int /\ stack'[x] \in Int  BY DEF TypeOK
    <3> QED  BY <3>1
  <2>4. \A x \in Players \ {p} : g[x] = f[x]  OBVIOUS
  <2>5. g[p] = f[p] - n  BY <1>3
  <2>6. \A x \in Players \ {q} : h[x] = g[x]  BY <1>2, <1>4
  <2>7. h[q] = g[q] + n  BY <1>2, <1>3, <1>4
  <2> HIDE DEF f, g, h
  <2>8. /\ SumFunctionOnSet(f, Players) \in Int
        /\ SumFunctionOnSet(g, Players) = SumFunctionOnSet(f, Players) - f[p] + g[p]
    BY <2>2, <2>4, Finite, SumChanges
  <2>9. SumFunctionOnSet(h, Players) = SumFunctionOnSet(g, Players) - g[q] + h[q]
    BY <2>2, <2>3, <2>6, Finite, SumChanges
  <2> QED  BY <1>3, <2>1, <2>2, <2>5, <2>7, <2>8, <2>9
<1>6. SumFunction(Debts)' = SumFunction(Debts)
  <2>1. \A k \in LeaveKeys : Unpaid(k)' = Unpaid(k)  BY <1>2 DEF Unpaid, CreditKey
  <2> QED  BY <2>1, DebtsStay
<1>7. SumFunction(Strays)' = SumFunction(Strays)
  <2>1. \A k \in BuyInKeys : Stray(k)' = Stray(k)
    BY <1>2 DEF Stray, Paid, One, DebitKey, RefundKey
  <2> QED  BY <2>1, StraysStay
<1>8. MoneyAccounted'  BY <1>5, <1>6, <1>7 DEF Balanced, MoneyAccounted
<1>9. \A x \in Players \ seated' : stack'[x] = 0  BY <1>2, <1>4 DEF Balanced
<1> QED  BY <1>2, <1>8, <1>9 DEF Balanced, CreditKey

(* A seat is given up, and a row says what was on it.                      *)
LEMMA RemoveBalanced ==
  ASSUME TypeOK, TypeOK', Balanced, NEW k \in LeaveKeys, Remove(k)
  PROVE  Balanced'
<1> DEFINE p == k[1]
           n == stack[p]
<1>1. p \in Players /\ n \in Int  BY KeyTyped DEF TypeOK
<1>2. /\ k \notin rows /\ rows' = rows \cup {k} /\ owed' = [owed EXCEPT ![k] = n]
      /\ seated' = seated \ {p} /\ stack' = [stack EXCEPT ![p] = 0]
      /\ wallet' = wallet /\ processed' = processed /\ entered' = entered
  BY DEF Remove, NewRow, money, past
<1>3. CreditKey(k) \notin processed  BY <1>2 DEF Balanced
<1> HIDE DEF p
<1>4. /\ stack'[p] = 0 /\ \A q \in Players \ {p} : stack'[q] = stack[q]
      /\ owed'[k] = n /\ \A j \in LeaveKeys \ {k} : owed'[j] = owed[j]
  <2>1. stack \in [Players -> Nat] /\ owed \in [LeaveKeys -> Nat]  BY DEF TypeOK
  <2> QED  BY <1>1, <1>2, <2>1
<1> HIDE DEF n
<1>5. SumFunction(Holdings) \in Int /\ SumFunction(Holdings)' = SumFunction(Holdings) + (-n)
  <2>1. wallet[p] \in Int /\ wallet'[p] = wallet[p] /\ stack[p] = n
    BY <1>1, <1>2 DEF TypeOK, n
  <2>2. \A q \in Players \ {p} : wallet'[q] = wallet[q] /\ stack'[q] = stack[q]
    BY <1>2, <1>4
  <2>3. /\ SumFunction(Holdings) \in Int
        /\ SumFunction(Holdings)'
             = SumFunction(Holdings) - (wallet[p] + stack[p]) + (wallet'[p] + stack'[p])
    BY <1>1, <2>2, HoldingsChange
  <2> QED  BY <1>1, <1>4, <2>1, <2>3
<1>6. SumFunction(Debts) \in Int /\ SumFunction(Debts)' = SumFunction(Debts) + n
  <2>1. \A j \in LeaveKeys \ {k} : Unpaid(j)' = Unpaid(j)
    BY <1>2, <1>4 DEF Unpaid, CreditKey
  <2>2. Unpaid(k) = 0 /\ Unpaid(k)' = n
    BY <1>2, <1>3, <1>4 DEF Unpaid, CreditKey
  <2>3. /\ SumFunction(Debts) \in Int
        /\ SumFunction(Debts)' = SumFunction(Debts) - Unpaid(k) + Unpaid(k)'
    BY <2>1, DebtsChange
  <2> QED  BY <1>1, <2>2, <2>3
<1>7. SumFunction(Strays) \in Int /\ SumFunction(Strays)' = SumFunction(Strays) + 0
  <2>1. \A j \in BuyInKeys : Stray(j)' = Stray(j)
    BY <1>2 DEF Stray, Paid, One, DebitKey, RefundKey
  <2>2. SumFunction(Strays)' = SumFunction(Strays)  BY <2>1, StraysStay
  <2>3. SumFunction(Strays) \in Int  BY Finite, DebtsTyped, SumTyped, Zenon DEF SumFunction, Strays
  <2> QED  BY <2>2, <2>3
<1>8. (-n) + n + BuyIn * 0 = 0 /\ -n \in Int /\ 0 \in Int
  <2>1. BuyIn \in Int  BY AmountsAssumption
  <2> QED  BY <1>1, <2>1
<1>9. MoneyAccounted'
  BY <1>1, <1>5, <1>6, <1>7, <1>8, SumsKept DEF Balanced
<1>10. \A q \in Players \ seated' : stack'[q] = 0
  BY <1>2, <1>4 DEF Balanced
<1> QED  BY <1>2, <1>9, <1>10 DEF Balanced, CreditKey

LEMMA StepBalanced ==
  ASSUME IInv, IInv', Balanced, [Next]_vars
  PROVE  Balanced'
<1>1. Typed /\ Settled /\ TypeOK /\ TypeOK'  BY DEF IInv, Typed
<1> DEFINE Still == UNCHANGED <<money, table, rows, owed, entered>>
<1>2. ASSUME Still PROVE Balanced'
  BY <1>1, <1>2, NothingMoves
<1>3. ASSUME NEW r \in Requests, NEW k \in BuyInKeys, Ask(r, k) PROVE Balanced'
  BY <1>2, <1>3 DEF Ask, pending
<1>4. ASSUME NEW r \in Requests, Debit(r) PROVE Balanced'
  <2> DEFINE k == request[r].key
  <2>1. k \in BuyInKeys
    <3>1. request[r] \in Kept \cup {Unused} /\ request[r].at = "debit"
      BY <1>1, <1>4 DEF Typed, Debit, Serving
    <3> QED  BY <3>1 DEF Kept, Unused
  <2>2. UNCHANGED <<table, rows, owed, entered>> /\ (Move(k[1], -BuyIn, DebitKey(k)) \/ UNCHANGED money)
    BY <1>4 DEF Debit, pending, past
  <2>3. -BuyIn \in Int  BY AmountsAssumption
  <2> HIDE DEF k
  <2> QED  BY <1>1, <1>2, <2>1, <2>2, <2>3, BuyInMoves
<1>5. ASSUME NEW r \in Requests, Refund(r) PROVE Balanced'
  <2> DEFINE k == request[r].key
  <2>1. k \in BuyInKeys
    <3>1. request[r] \in Kept \cup {Unused} /\ request[r].at = "refund"
      BY <1>1, <1>5 DEF Typed, Refund, Serving
    <3> QED  BY <3>1 DEF Kept, Unused
  <2>2. UNCHANGED <<table, rows, owed, entered>> /\ (Move(k[1], BuyIn, RefundKey(k)) \/ UNCHANGED money)
    BY <1>5 DEF Refund, pending, past
  <2>3. BuyIn \in Int  BY AmountsAssumption
  <2> HIDE DEF k
  <2> QED  BY <1>1, <1>2, <2>1, <2>2, <2>3, BuyInMoves
<1>6. ASSUME NEW r \in Requests, Join(r) PROVE Balanced'
  BY <1>1, <1>6, JoinBalanced
<1>7. ASSUME NEW r \in Requests, Breach(r) \/ SeatRefused(r) \/ Abandon(r) PROVE Balanced'
  BY <1>2, <1>7 DEF Breach, SeatRefused, Abandon, pending, past
<1>8. ASSUME NEW p \in Players, NEW q \in Players, Play(p, q) PROVE Balanced'
  BY <1>1, <1>8, PlayBalanced
<1>9. ASSUME NEW k \in LeaveKeys, Remove(k) PROVE Balanced'
  BY <1>1, <1>9, RemoveBalanced
<1>10. ASSUME NEW k \in LeaveKeys, Settle(k) PROVE Balanced'
  <2>1. k \in rows  BY <1>1, <1>10 DEF Settled, Settle
  <2>2. /\ UNCHANGED <<table, rows, owed, entered>>
        /\ Credits(k[1], owed[k], CreditKey(k)) \/ UNCHANGED money
    BY <1>10 DEF Settle, pending, past
  <2> QED  BY <1>1, <1>2, <2>1, <2>2, CreditMoves
<1>11. ASSUME NEW k \in LeaveKeys, SettleMark(k) \/ SettleStops(k) PROVE Balanced'
  BY <1>2, <1>11 DEF SettleMark, SettleStops, MarkResolved, pending, past
<1>12. ASSUME NEW s \in Sweeps, SweepCredit(s) PROVE Balanced'
  <2> DEFINE k == sweep[s].key
  <2>1. k \in rows /\ k \in LeaveKeys
    <3>1. sweep[s].at # "resting"  BY <1>12 DEF SweepCredit
    <3> QED  BY <1>1, <3>1 DEF Typed, TypeOK
  <2>2. /\ UNCHANGED <<table, rows, owed, entered>>
        /\ Credits(k[1], owed[k], CreditKey(k)) \/ UNCHANGED money
    BY <1>12 DEF SweepCredit, pending, past
  <2> HIDE DEF k
  <2> QED  BY <1>1, <1>2, <2>1, <2>2, CreditMoves
<1>13. ASSUME NEW s \in Sweeps, NEW k \in LeaveKeys, List(s, k) PROVE Balanced'
  BY <1>2, <1>13 DEF List, pending, past
<1>14. ASSUME NEW s \in Sweeps, SweepMark(s) \/ RecordFailedAttempt(s) \/ SweepStops(s)
       PROVE  Balanced'
  BY <1>2, <1>14 DEF SweepMark, RecordFailedAttempt, SweepStops, MarkResolved, pending, past
<1>15. CASE UNCHANGED vars
  BY <1>2, <1>15 DEF vars, pending, past
<1> HIDE DEF Still
<1> QED
  BY <1>3, <1>4, <1>5, <1>6, <1>7, <1>8, <1>9, <1>10, <1>11, <1>12, <1>13, <1>14, <1>15
  DEF Next, Sweep

(* What the wallets, the seats and the open rows hold is what there was,   *)
(* but for buy-ins paid and not seated or seated and not paid, whichever   *)
(* call failed, was repeated or stopped half-way (buyIn, settle, the sweep *)
(* of cmd/reconcile).                                                      *)
THEOREM MoneyIsKept == Spec => []MoneyAccounted
<1>1. IInv /\ IInv' /\ Balanced /\ [Next]_vars => Balanced'  BY StepBalanced
<1>2. Balanced => MoneyAccounted  BY DEF Balanced
<1> QED  BY <1>1, <1>2, InitBalanced, Invariance, PTL DEF Spec
=============================================================================
