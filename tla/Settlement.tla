----------------------------- MODULE Settlement ------------------------------
(***************************************************************************)
(* Chips between the wallet and one table.  A buy-in debits the wallet and *)
(* then takes a seat, and gives the chips back when the seat is refused.   *)
(* A seat is given up together with a row that says what is owed; the one  *)
(* who took it off the table credits the wallet and closes the row, and a  *)
(* scheduled sweep does so for every row left open.  Each of these may     *)
(* stop between two calls, and each call may fail, or work and look as if  *)
(* it had failed.  The wallet, a service of its own, ignores a key it has  *)
(* processed before.                                                       *)
(***************************************************************************)
EXTENDS Integers, FiniteSets, Functions

CONSTANTS
  Players,
  Requests,     \* buy-in calls being served, each once
  Clicks,       \* what makes the keys of a player's buy-ins differ
  Removals,     \* what makes the keys of a player's removals differ
  Sweeps,       \* sweeps that may run at the same time
  BuyIn,        \* chips of every buy-in
  Funds,        \* chips in each wallet at the start
  MaxAttempts   \* sweeps that may fail before a person is asked

ASSUME AmountsAssumption ==
  /\ IsFiniteSet(Players) /\ IsFiniteSet(Clicks) /\ IsFiniteSet(Removals)
  /\ BuyIn \in Nat \ {0} /\ Funds \in Nat /\ MaxAttempts \in Nat \ {0}

BuyInKeys == Players \X Clicks
LeaveKeys == Players \X Removals

VARIABLES
  wallet,     \* chips in each wallet
  processed,  \* the keys the wallet has processed
  seated,     \* players with a seat
  stack,      \* and their chips, 0 without a seat
  request,    \* how far each buy-in call is, and its key
  rows,       \* the keys of the removals with a row
  owed,       \* what each row says of chips,
  open,       \* whether the sweep still lists it,
  resolved,   \* whether it was closed,
  attempts,   \* and the failures it counts
  closing,    \* how far the one who removed a player is with each row
  sweep,      \* the row each sweep is at, and what it read of it
  tries,      \* history: the calls made with each buy-in key,
  entered,    \* the seats taken with it,
  unanswered  \* and the keys of seats taken whose caller was told otherwise

money   == <<wallet, processed>>
table   == <<seated, stack>>
pending == <<rows, owed, open, resolved, attempts>>
past    == <<tries, entered, unanswered>>
vars    == <<money, table, request, pending, closing, sweep, past>>

Unused == [at |-> "unused"]
Resting == [at |-> "resting"]

Init ==
  /\ wallet = [p \in Players |-> Funds] /\ processed = {}
  /\ seated = {} /\ stack = [p \in Players |-> 0]
  /\ request = [r \in Requests |-> Unused]
  /\ rows = {} /\ owed = [k \in LeaveKeys |-> 0]
  /\ open = {} /\ resolved = {} /\ attempts = [k \in LeaveKeys |-> 0]
  /\ closing = [k \in LeaveKeys |-> "no"]
  /\ sweep = [s \in Sweeps |-> Resting]
  /\ tries = [k \in BuyInKeys |-> 0] /\ entered = [k \in BuyInKeys |-> 0]
  /\ unanswered = {}

----------------------------------------------------------------------------
(* The wallet                                                              *)

DebitKey(k)  == <<"buyin", k>>
CreditKey(k) == <<"cashout", k>>
RefundKey(k) == <<"refund", k>>

(* The wallet of p changes by amount, unless the key was processed.        *)
Move(p, amount, key) ==
  /\ processed' = processed \cup {key}
  /\ wallet' = [wallet EXCEPT ![p] = @ + IF key \in processed THEN 0 ELSE amount]

(* A credit of nothing is refused.                                         *)
Credits(p, amount, key) == amount > 0 /\ Move(p, amount, key)

----------------------------------------------------------------------------
(* Buying in                                                               *)

Goes(r, at) == request' = [request EXCEPT ![r].at = at]

Serving(r, at) == request[r].at = at

HasChips(p) == p \in seated /\ stack[p] > 0

(* A call arrives.  A player with chips at the table is taken to repeat a  *)
(* call that was served, which is then all.                                *)
Ask(r, k) ==
  /\ Serving(r, "unused") /\ ~HasChips(k[1])
  /\ request' = [request EXCEPT ![r] = [at |-> "debit", key |-> k]]
  /\ tries' = [tries EXCEPT ![k] = @ + 1]
  /\ UNCHANGED <<money, table, pending, closing, sweep, entered, unanswered>>

(* A mutated form: a debit that failed is refunded.                        *)
RefundUntaken == "refund"

(* Nobody is seated after a failed debit and nothing is given back.        *)
AfterFailedDebit == "ended"

Debit(r) ==
  /\ Serving(r, "debit")
  /\ LET k == request[r].key
     IN  \/ /\ wallet[k[1]] >= BuyIn \/ DebitKey(k) \in processed
            /\ Move(k[1], -BuyIn, DebitKey(k))
            /\ Goes(r, "join") \/ Goes(r, AfterFailedDebit)
         \/ UNCHANGED money /\ Goes(r, AfterFailedDebit)
  /\ UNCHANGED <<table, pending, closing, sweep, past>>

(* The limits of a real-money player are metered once the chips are held.  *)
Breach(r) ==
  /\ Serving(r, "join") /\ Goes(r, "refund")
  /\ UNCHANGED <<money, table, pending, closing, sweep, past>>

(* A mutated form: whoever has a seat may buy chips.                       *)
AnyoneTakesChips(p) == TRUE

(* A player who has a seat gets no chips unless they lost all.             *)
TakesChips(p) == ~HasChips(p)

Join(r) ==
  /\ Serving(r, "join")
  /\ LET k == request[r].key
     IN  /\ TakesChips(k[1])
         /\ seated' = seated \cup {k[1]} /\ stack' = [stack EXCEPT ![k[1]] = BuyIn]
         /\ entered' = [entered EXCEPT ![k] = @ + 1]
         /\ \/ Goes(r, "ended") /\ UNCHANGED unanswered
            \/ Goes(r, "refund") /\ unanswered' = unanswered \cup {k}
  /\ UNCHANGED <<money, pending, closing, sweep, tries>>

(* No seat is left, the player is at the table with chips, or the table    *)
(* can not be reached.                                                     *)
SeatRefused(r) ==
  /\ Serving(r, "join") /\ Goes(r, "refund")
  /\ UNCHANGED <<money, table, pending, closing, sweep, past>>

Refund(r) ==
  /\ Serving(r, "refund") /\ Goes(r, "ended")
  /\ LET k == request[r].key
     IN  Move(k[1], BuyIn, RefundKey(k)) \/ UNCHANGED money
  /\ UNCHANGED <<table, pending, closing, sweep, past>>

(* The process that serves the call stops.                                 *)
Abandon(r) ==
  /\ request[r].at \in {"debit", "join", "refund"} /\ Goes(r, "ended")
  /\ UNCHANGED <<money, table, pending, closing, sweep, past>>

----------------------------------------------------------------------------
(* At the table                                                            *)

(* p loses chips to q.                                                     *)
Play(p, q) ==
  /\ p # q /\ HasChips(p) /\ q \in seated
  /\ \E n \in 1 .. stack[p] :
       stack' = [stack EXCEPT ![p] = @ - n, ![q] = @ + n]
  /\ UNCHANGED <<money, seated, request, pending, closing, sweep, past>>

(* Rows are created and never written over.                                *)
NewRow(k) == k \notin rows

(* A player leaves or is removed, and the row is written with the seat's   *)
(* removal.  Whoever asked may not get to know.                            *)
Remove(k) ==
  /\ k[1] \in seated /\ NewRow(k)
  /\ rows' = rows \cup {k} /\ open' = open \cup {k}
  /\ owed' = [owed EXCEPT ![k] = stack[k[1]]]
  /\ seated' = seated \ {k[1]} /\ stack' = [stack EXCEPT ![k[1]] = 0]
  /\ closing' = [closing EXCEPT ![k] = IF stack[k[1]] > 0 THEN "credit" ELSE "mark"]
  /\ UNCHANGED <<money, request, resolved, attempts, sweep, past>>

----------------------------------------------------------------------------
(* Settling what is owed                                                   *)

Closing(k, at) == closing' = [closing EXCEPT ![k] = at]

(* A mutated form: the row is closed whether or not the credit worked.     *)
MarkAnyway == "mark"

(* A row whose credit failed is left to the sweep.                         *)
AfterFailedCredit == "no"

Settle(k) ==
  /\ closing[k] = "credit"
  /\ \/ Credits(k[1], owed[k], CreditKey(k))
        /\ (Closing(k, "mark") \/ Closing(k, AfterFailedCredit))
     \/ UNCHANGED money /\ Closing(k, AfterFailedCredit)
  /\ UNCHANGED <<table, request, pending, sweep, past>>

(* The row k is closed for good.                                           *)
MarkResolved(k) ==
  /\ resolved' = resolved \cup {k} /\ open' = open \ {k}
  /\ UNCHANGED <<rows, owed, attempts>>

SettleMark(k) ==
  /\ closing[k] = "mark" /\ Closing(k, "no") /\ MarkResolved(k)
  /\ UNCHANGED <<money, table, request, sweep, past>>

(* The one who removed the player stops, or can not write the row.         *)
SettleStops(k) ==
  /\ closing[k] # "no" /\ Closing(k, "no")
  /\ UNCHANGED <<money, table, request, pending, sweep, past>>

Sweeping(s, at) == sweep' = [sweep EXCEPT ![s].at = at]

SweepEnds(s) == sweep' = [sweep EXCEPT ![s] = Resting]

(* A sweep comes to a row that was open when it listed the rows.           *)
List(s, k) ==
  /\ sweep[s].at = "resting" /\ k \in open
  /\ sweep' = [sweep EXCEPT ![s] = [at |-> "credit", key |-> k, attempts |-> attempts[k]]]
  /\ UNCHANGED <<money, table, request, pending, closing, past>>

SweepCredit(s) ==
  /\ sweep[s].at = "credit"
  /\ LET k == sweep[s].key
     IN  \/ Credits(k[1], owed[k], CreditKey(k)) /\ (Sweeping(s, "mark") \/ Sweeping(s, "fail"))
         \/ UNCHANGED money /\ Sweeping(s, "fail")
  /\ UNCHANGED <<table, request, pending, closing, past>>

SweepMark(s) ==
  /\ sweep[s].at = "mark" /\ SweepEnds(s) /\ MarkResolved(sweep[s].key)
  /\ UNCHANGED <<money, table, request, closing, past>>

Exhausted(n) == n >= MaxAttempts

(* A mutated form: the failure is not counted.                             *)
Uncounted(n) == n

CountedOn(n) == n + 1

(* A failure is counted on what was read, and the last one takes the row   *)
(* out of the list for a person to look at.                                *)
RecordFailedAttempt(s) ==
  /\ sweep[s].at = "fail" /\ SweepEnds(s)
  /\ LET k == sweep[s].key
         n == CountedOn(sweep[s].attempts)
     IN  /\ attempts' = [attempts EXCEPT ![k] = n]
         /\ open' = IF Exhausted(n) THEN open \ {k} ELSE open
  /\ UNCHANGED <<money, table, request, rows, owed, resolved, closing, past>>

(* A sweep can not write the row, or stops.                                *)
SweepStops(s) ==
  /\ sweep[s].at # "resting" /\ SweepEnds(s)
  /\ UNCHANGED <<money, table, request, pending, closing, past>>

----------------------------------------------------------------------------
Sweep(s) ==
  \/ \E k \in LeaveKeys : List(s, k)
  \/ SweepCredit(s) \/ SweepMark(s) \/ RecordFailedAttempt(s)

Next ==
  \/ \E r \in Requests :
       \/ \E k \in BuyInKeys : Ask(r, k)
       \/ Debit(r) \/ Breach(r) \/ Join(r) \/ SeatRefused(r) \/ Refund(r) \/ Abandon(r)
  \/ \E p, q \in Players : Play(p, q)
  \/ \E k \in LeaveKeys : Remove(k) \/ Settle(k) \/ SettleMark(k) \/ SettleStops(k)
  \/ \E s \in Sweeps : Sweep(s) \/ SweepStops(s)

Spec == Init /\ [][Next]_vars

SweepsWell(s) == SweepMark(s) \/ RecordFailedAttempt(s)

(* The sweep is run every few minutes, for ever, and takes every row that  *)
(* is open: some day one gets to the end with it, and so again and again.  *)
Fairness ==
  \A k \in LeaveKeys :
    <>[](k \notin open) \/ []<><<\E s \in Sweeps : SweepsWell(s) /\ sweep[s].key = k>>_vars

FairSpec == Spec /\ Fairness

----------------------------------------------------------------------------
TypeOK ==
  /\ wallet \in [Players -> Nat]
  /\ seated \subseteq Players /\ stack \in [Players -> Nat]
  /\ rows \subseteq LeaveKeys /\ open \cup resolved \subseteq rows /\ open \cap resolved = {}
  /\ owed \in [LeaveKeys -> Nat] /\ attempts \in [LeaveKeys -> 0 .. MaxAttempts]
  /\ closing \in [LeaveKeys -> {"no", "credit", "mark"}]
  /\ tries \in [BuyInKeys -> Nat] /\ entered \in [BuyInKeys -> Nat]
  /\ unanswered \subseteq BuyInKeys

One(condition) == IF condition THEN 1 ELSE 0

(* The buy-ins k paid for: debited and not refunded.                       *)
Paid(k) == One(DebitKey(k) \in processed) - One(RefundKey(k) \in processed)

(* What the wallet has not credited yet of a row.                          *)
Unpaid(k) == IF k \in rows /\ CreditKey(k) \notin processed THEN owed[k] ELSE 0

Holdings == [p \in Players |-> wallet[p] + stack[p]]
Debts    == [k \in LeaveKeys |-> Unpaid(k)]
Strays   == [k \in BuyInKeys |-> Paid(k) - entered[k]]

(* No chip is made and none is lost: wallets, seats and open debts hold    *)
(* what there was at the start, but for the buy-ins that were paid and not *)
(* seated, and seated and not paid (buyIn, settle, rebuyExisting).         *)
MoneyAccounted ==
  SumFunction(Holdings) + SumFunction(Debts) + BuyIn * SumFunction(Strays)
    = Funds * Cardinality(Players)

(* Chips are on the table only for a buy-in that was debited and not given *)
(* back ("debit then seat"), if the caller was told of its seat.           *)
ChipsArePaid == \A k \in BuyInKeys \ unanswered : entered[k] <= Paid(k)

(* The same of the keys that are used for one call only (buyIn).           *)
OneCallPays ==
  \A k \in BuyInKeys \ unanswered : tries[k] <= 1 => entered[k] <= Paid(k)

(* A row is closed only when the wallet has credited it, or there is       *)
(* nothing to credit (settle's walletErr).                                 *)
ResolvedIsPaid ==
  \A k \in resolved : owed[k] = 0 \/ CreditKey(k) \in processed

(* Every row is closed or put before a person.                             *)
RowsAreSettled == \A k \in LeaveKeys : k \in open ~> k \notin open
=============================================================================
