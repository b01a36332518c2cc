# TLA+ models of ctech-poker

Models, model-checking runs and machine-checked proofs for the Go backend in
`src/api`: the rules of a betting round and of a pot, the table with its seats
and hands, the actors of several instances that share one stored table, the
timers that keep a table moving, the registry that makes and stops actors, the
chips and fees that move between the wallet and a seat, and the purchases of
premium items.

1. [The system](#1-the-system)
2. [The models](#2-the-models)
3. [What the runs check](#3-what-the-runs-check)
4. [What is proved](#4-what-is-proved)
5. [Where the code and its words disagree](#5-where-the-code-and-its-words-disagree)
6. [Abstractions and limits](#6-abstractions-and-limits)
7. [Plan](#7-plan)

Run a model with `tlc -config MCHandTable.cfg MCHand`; check a proof with
`tlapm SettlementProofs.tla`. `PROJECT.json` lists the components, the runs,
the theorems, the hazards and, under `map`, the lines of source each
definition stands for.

A definition whose comment begins with *A mutated form* is not part of any
model: it is the definition after it with a plausible bug, kept to show that a
property notices the bug. Each property of each passing run has one
(`PROJECT.json`, `mutants`).

## 1. The system

A poker service that runs on several instances behind one DynamoDB. Players
hold WebSockets to any instance. A table is one item of the store, with a
version; every instance may run an *actor* for it, a goroutine that takes one
command at a time, applies it to its cached copy of the table with the rules
engine, and commits the result under the condition that the stored version is
still the one it read. There is no owner of a table: a lease in Valkey only
lets one instance trust its cache between commands.

| part | state | operations | met with |
| --- | --- | --- | --- |
| `engine/betting` | one betting round: stacks, contributions, folded, all-in, acted, the bet and the last full raise | `Act` (fold, check, call, raise), `IsComplete` | called by `engine/hand` |
| `engine/sidepots` | none | `ComputeSidePots` | called by the showdown of `engine/hand` |
| `engine/hand` | a table: seats, button, stage, the hand being played, flags of each seat | `StartHand`, `Act`, `AdvanceRunoutStreet`, showdown, sit out, return, exit, cancel, post, rebuy, removal; reveals and paid extras | called by the actor only |
| `table` | the actor: cached row and version, timers, mailbox | one handler per command; commit, rollback, reload, one retry; sweeps after a commit | store, clients, `buyin`, sibling instances |
| `tablestore` | the table's item, the action log, idempotency guards, a commit breaker per process | `CommitAction`, `LoadTable`, `SeedTable`, `MarkArchived` | all actors |
| `buyin` | none of its own: what a call has done so far | `BuyIn`, `CashOut`, `SettleSystemRemoval`, `AutoRebuySweep` | wallet, actor, settlement rows |
| `reconcile`, `cmd/reconcile` | a row per cash-out that is owed | create with the seat's removal, close, count a failure; the scheduled sweep | `buyin`, wallet |
| `tablemanager`, `tablelease` | which actors an instance runs, and their leases | get or create, evict when idle, drain | `table` |
| `tablenotify`, `tablehandoff`, `tableconn`, `wsdrain`, `presence` | connections and signals between instances | announce, listen, close | `table`, clients |
| `entitlement` | paid reservations of a tier: where each was claimed, where it is bound, until when | claim, rebind, list | `buyin`, the wallet through `fee_debit` rows |
| `cosmeticpurchase`, `purchaselifecycle` | a history row per purchase, an entitlement row per item | create (PIX or chips), follow a delivery or a poll, refund | `purchasegw` (billing), wallet, `player` |
| other purchases, rewards, promo codes | orders and grants | create, confirm by webhook, refund | billing, wallet |
| records of players and hands, social, limits of play | one item per fact | conditional writes | the HTTP API |
| `ui`, `cli`, `cdk`, `proto` | clients, infrastructure, the wire schema | | |

What is hard in it, and what each part has to get right:

* **Betting.** A short all-in must not reopen the action, a full raise must,
  and an amount from a client may be anything. Right means: chips are
  conserved, nobody sees the next street for less, nobody is skipped, only
  those may raise whom the rules of poker allow to, and the round ends.
* **Pots.** Folded money, all-ins for less and unmatched chips meet in one
  loop over levels. Right means: no chip is lost, each player can win from
  every other what they put in themselves, and a refund is unmatched money.
* **Hands.** Between two decisions of a hand any player may sit down, leave,
  pause, come back, ask to leave, change their mind, rebuy. Two records of the
  hand, `Player.State` and the betting round, must agree through all of that;
  the button is an index into a list that changes; the hand moves only if a
  player is on the clock or the run-out timer is due.
* **Actors.** Two instances decide at once; a client repeats a command whose
  answer was lost, to another instance; a timer fires late; a commit is taken
  and reported as failed; an instance stops. Right means: all of them together
  behave as one actor, no action counts twice, an answer is true, and an action
  is applied to the position it was decided on.
* **Money.** A buy-in is two calls to two services without a transaction, a
  cash-out three steps of which only the first is atomic. Right means: no chip
  is made or lost, a seat is paid for, a row is closed only if it was paid, and
  every row is settled some day or shown to a person.

* **Timers.** They live in the memory of one actor, beside a row that others
  move too. A key keeps a timer from being armed twice; a key that outlives its
  timer freezes the table. Loads and commits fail, announcements get lost, the
  retries and the arms are bounded. Right means: whatever a hand waits for, some
  timer will be fired for it, and a finished hand is not given up early.
* **Registry.** Requests, idle timers, lost leases and the drain of a process
  meet in a few maps and a lock that exists only while it is wanted. Right means:
  never two live actors of a table in a process, no lease and no lock left
  behind, and every request is answered.
* **Fees.** A reservation exists before its fee is paid, and may be moved to
  another table. Right means: nobody is seated unpaid, no two fees for one table
  at a time, and a reservation is not pulled from the table it was just moved to.
* **Purchases.** A payment may be delivered before, while or after the request
  that opened it writes its rows, and a refund may meet it. Right means: who
  owns the item has paid and not been refunded, a payment leads to ownership,
  and nothing but a refund takes the item away.

`PROJECT.json` lists the hazards one by one, at the line where they bite, with
the properties that speak of them.

## 2. The models

| module | of | what it is |
| --- | --- | --- |
| `Betting` | `engine/betting/betting.go` | the rules of a round as operators on a record; each decision is a guard `CanX` (the code's error returns) and a result `X` |
| `BettingRound` | `betting.go`, and the order of action of `hand.go` | a round of `N` players to its end, with blinds, entrants and the turn timer |
| `SidePots` | `engine/sidepots/sidepots.go` | `ComputeSidePots`, recursive over the levels |
| `PotSplit` | the same | every bounded pot, split and compared with a definition without layers |
| `Hand` | `engine/hand`, and the handlers, timers and sweeps of `table/` that call it | one table under the commands of its players |
| `TableRow` | the stored row, as far as actors tell rows apart | what a move needs and what it makes of the row |
| `AtomicTable` | what the actors promise together | one row, one legal move at a time |
| `TableActors` | `table/` and `tablestore/` | instances with a cache, commits, retries, faults |
| `Settlement` | `buyin/`, `reconcile/`, `cmd/reconcile`, the seating handlers | wallet, seats, rows and sweeps |
| `CommitBreaker` | `tablestore/breaker.go` | the circuit in front of one table's commits, as operators on a record |
| `TableTimers` | `table/actor_timers.go`, and what arms, fires and re-arms in `table/` | one actor's timers, keys, retries and sweep over a row that siblings move too |
| `Registry` | `tablemanager/`, `tablelease/`, `Dispatch` and `Run` of `table/` | the actors of one table in one process |
| `EntryFee` | `entitlement/`, the fee half of `buyin/`, the sweep of `fee_debit` rows | reservations of one player at the tables of a tier |
| `Purchases` | `cosmeticpurchase/`, `purchaselifecycle/`, the gateway's view of an invoice | one item of one player, bought by PIX or with chips, and given back |
| `*Proofs` | | theorems and their proofs |
| `MC*` | | instances for TLC |

`Hand` EXTENDS `Betting` and `SidePots`: the same rules that `BettingRound` and
`PotSplit` check alone are those the table plays by. `TableActors` EXTENDS
`TableRow` and is shown to implement `AtomicTable`, with the row of the
abstract table being the last row of the store. `TableTimers` EXTENDS
`CommitBreaker`: each of its commits goes through the circuit.

### Betting and BettingRound

A round is a record of `betting.Round`'s fields; `Pending(r, p)` is the loop
body of `IsComplete`. `BettingRound` adds the clock: `OnClock(p)` is the first
pending player from `ScanStart`, as `actionScanOrder` of the hand engine finds
it. `start`, `licence` and `answered` are history: the chips each player came
with, who may raise by the rules of poker (not by the code's `acted` flags),
and who answered since a player's last decision.

### SidePots and PotSplit

Levels, bands, refunds and the way of dead money follow the loop; `RollDown`
and `PlaceCarry` are its `lastContested` and `deadCarry`. The reference in
`PotSplit` never mentions a layer: a player can win from each other player at
most what they put in themselves (`Share`, up to the player's `Reach`). Its
players are `Bettors`, because `HandProofs` has `Hand`'s `Players` beside them.

### Hand

Each operation of `hand.go` is an operator from a table to a table, or, where
cards decide or the button is drawn, to the set of tables it may end in.
`Rankings` is every way the live hands can compare, on one board or on two.
The actions are the commands with all they call: a decision closes the street,
runs the board out or ends in the showdown in the same step, a command that
seats somebody deals when the table waits. `AutoFold` and `ExitSweep` are
actions of their own because the code makes them commits of their own, in the
sweep after a broadcast (`table/actor_presence.go`), and other instances and
commands come in between. `RunoutStep`, `NextHand` and `TurnTimeout` are the
timers.

| variable | code |
| --- | --- |
| `table.seats`, `.dealer`, `.drawn` | `Table.players`, `dealerSeat`, `dealerDrawn` |
| `table.stack`, `.in`, `.state`, `.ready`, `.exiting` | the fields of `Player` |
| `table.owes`, `.post` | `owesBigBlind`, `readyToPost` |
| `table.stage`, `.dealt`, `.round`, `.runout`, `.rake` | the hand being played |
| `hands`, `calls`, `chips`, `quitters`, `debtors` | history: bounds, the chips that should be there, who folded, who came in during a hand |

### TableRow, AtomicTable, TableActors

Of the poker only the order of decisions is kept (`Order`), because that is
what tells whether a command is applied to the position it was meant for.
`gameplay` is `gameplay_version`, the last version that changed something
visible; a *peek* is any cosmetic command. An instance goes through phases:

```
idle -> check -> try -> reload -> again -> (outcome ->) idle
```

`check` is `validateActionPrecondition`; `try` and `again` are the two commits
an action, a timeout or a peek gets; `outcome` is the loop that logs how a
hand came out. Each phase is a step, so the store may change between any two.
`Commit`, `Duplicate`, `LoseRace` and `GetNoAnswer` are the outcomes of a
transaction: taken, refused by the guard row, refused by the version, or
silent (taken or not). `Crash` is the end of a process, an eviction or a
panic; it forgets the cache and nothing else. `Trusting` are the instances
that hold the lease, or believe so: any subset.

### Settlement

`request[r]` is how far a buy-in call is: `Ask`, `Debit`, (`Breach` of a
limit,) `Join` or `SeatRefused`, `Refund`; `Abandon` is the process that
stops. `Remove` is the one atomic step of leaving: seat and row in one
transaction. `closing[k]` is the one who removed the player and settles;
`sweep[s]` is a sweep, which read the row's failures when it listed it.
The wallet is external: it ignores a key it has processed and refuses a credit
of nothing, as `walletclient` and its users rely on. Each call may work and
look as if it had failed.

### CommitBreaker and TableTimers

`TableActors` asks what a commit may do; `TableTimers` asks whether anybody
will make one. Of the hand only the kind of each position is kept (a turn, a
street of a run-out, a finished hand, no hand) and what the keys see of it, as
the constants `Shape` and `Follows`; the proofs hold for every shape.

| variable | code |
| --- | --- |
| `actor.cached` | `Actor.cached` |
| `actor.turn.key`, `.timer` | `turnDeadlineFor` with its street, `turnTimer` |
| `actor.run.key`, `.timer`, `.retries` | `runoutKey`, `runoutTimer`, `runoutRetries` |
| `actor.next.key`, `.timer`, `.retries`, `.hand`, `.arms` | `nextHandFor`, its timer, `nextHandRetries`, and the hand whose arms are counted |
| `mail` | commands of the timers in the mailbox; a full one refuses (`dropped`) |
| `signal`, `trusts` | an announcement of `tablenotify` on its way; the lease |
| `circuit` | one circuit of `commitBudget` |

A timer that fires only sends a command. `HandleRunoutStep`, `HandleNextHand` and
`HandleTurnTimeout` are the handlers, each with the outcomes of its load and its
commit: taken, beaten by a sibling, refused by the circuit, unanswered, or a
panic. `Sweep` is the AFK sweep, which arms again from the cache; `LocalCommand`
is any other command that commits; `SiblingMoves` is another instance, announced
or not. There is no clock, so a timer that is armed may fire any time later.

### Registry

One table in one process. `caller[c]` walks through `getOrCreate`: `Resolve`
and `LookAgain` read the maps, `WantLock`, `Lock`, `Unlock`, `Unref` are the
counted lock, `Make`, `Note`, `Start`, `Register` make an actor; then `Send`,
`Reply` and `Stopped` are `Dispatch`. `Serve`, `Finish`, `Stop` are the actor's
goroutine. `LoseLease`/`AfterLoss` and `GoIdle`/`AfterIdle` are the two
goroutines that stop an actor, and `StartDrain` to `Drained` the drain. A
critical section of the manager's mutex is one step, network calls lie between.

### EntryFee

`rows[o]` is the reservation claimed at table `o` (one row per table, written
again when it is over), `bound` the table it covers now; its key is the table
and the hour it ends, from which the wallet's idempotency key is made. A request
goes `load`, `choose`, then `rebind` or `claim` (`reread` after a claim that was
refused), then `confirm`, `record`, `debit`, `mark`; each is a call, and `Stop`
is a failure, a lost answer or the end of the process at any of them. The sweep
of `fee_debit` rows is `SweepNext`, `SweepDebit`, `SweepMark`.

### Purchases

A purchase is its method and the idempotency key of its request, from which both
ids are derived. `ent` is the entitlement row of the item, `rec[p]` the history
row, `invoice[p]` what billing says; `Decide` is `purchaselifecycle.Decide`.
`call[c]` is a request, a poll or a webhook delivery; each store call, gateway
call and wallet call is a step, and `GrantConfirmed` is three, because it reads
the row, then the entitlement, then writes. `late` is history: the purchases
somebody had decided to grant when their refund was begun, or that a repeated request
grants after it, under the same key, without asking `Decide`. `Pay`, `Void` and `Verify` are
the world: the player pays, an invoice runs out, an identity is verified.

## 3. What the runs check

| run | instance | states | shows |
| --- | --- | --- | --- |
| `betting_round` | 3 players, stacks 0..6, blinds 1/2 | 55,053 | levelling, order, licence to raise, termination |
| `pot_split` | 4 players, 0..5 chips each, any fold | 38,865 | the split is complete and fair |
| `hand_table` | 3 players, 2 hands, 2 commands in play | 265,498 | chips, clock, button, forfeits, entrants, agreement of the records |
| `hand_clock` | 2 players, 2 hands, 3 commands, boards run twice | 59,940 | every hand ends, every request to leave is honoured |
| `actors_race` | 2 instances (one trusting), 2 ids, crashes, lost answers | 1,069,456 | the actors implement the atomic table |
| `settle` | 2 players, 2 calls, 2 keys each, 1 removal each, 1 sweep | 512,733 | money is accounted for, rows are settled |
| `timers` | 7 positions, 1 retry, 2 arms, 2 faults, a circuit of 2 | 133,515 | keys mean timers, the table keeps moving |
| `registry` | 2 callers, 3 actors, 2 locks, 3 commands, 1 stop, a drain | 875,300 | one actor, nothing left behind, every request answered |
| `entry_fee` | 3 requests, 2 at a time, 3 tables, one fills up, a window of 2 ticks | 3,056,754 | paid before seated, one charge, no reservation taken away |
| `purchases` | 2 PIX purchases and 1 with chips, 2 calls at a time, 3 requests, 1 stop | 414,658 | ownership is paid, payments lead to it, only refunds end it |
| `hand_blinds`, `settle_retry` | small | | counterexamples, see section 5 |

**Why the bounds are enough.** Three players are the fewest with a player who
neither acts nor is the bettor (reopening, side pots over a short all-in, a
button that moves past a removed seat); four let two join a hand in progress.
A stack of 3 with blinds 1 and 2 gives all-ins by blind, by call and by raise,
for less and in full; `BettingRound` goes to 6 for three raises in a row. Two hands show what
a hand leaves to the next; `hand_table`'s commands overlap with every decision
and every street. Rake is 25% instead of 2.5% so that it rounds to more than
nothing on pots of this size. `actors_race` stops at 4 versions: a dealt row and three
moves, enough for a repeated action, a retry and a third writer in between. In `settle` two calls with the same or different keys, one
removal per player and two failures of a sweep cover every pair of overlapping
steps; funds are two buy-ins. The seven positions of `timers` are two hands
with every kind of wait in them; all turns are one player's, so that a timeout may meet
a later turn of the player it was armed for, and the second hand's first turn has the
key of the first hand's; two faults let the retry of a failed step fail too, and two
arms let a hand be given up after the second. In `registry` a third actor is the
one made after an eviction of the one made after an eviction; a request looks an
actor up twice, so that it can meet a stopped one. Two requests at a time are all
that any race of `EntryFee` and `Purchases` needs, and the third comes after
them; three tables let a reservation move on from where it was moved to, and the
clock passes the end of a window once. With two PIX keys two invoices of one item
can be open, and with the chips a slot can be taken by another method.

**Deadlock** is not checked: the bounded runs stop at their bounds, a round or a
split that is over has nothing to do, and a table may wait for players for
ever. What must not stop is stated instead (`SomebodyIsAwaited`, and the
liveness properties).

**Fairness.** Players owe nothing. In `BettingRound` the turn timer is weakly
fair. In `Hand` the turn timer, the run-out timer, the next-hand timer and the
sweep of leavers are, which the actor re-arms after every commit and
broadcast; `hand_clock` shows what follows from that, and `timers` that the
re-arming works. In `TableTimers` the Go runtime fires some armed timer, the mailbox
is served, the sweep (which re-arms itself first, `actor_presence.go`) runs, and
an announcement under way arrives; no player, no sibling and no other command is
fair, and neither is the success of a load or a commit: faults are bounded
instead. In `Registry` goroutines that can go on do, with no order among those
that wait for a lock or a mailbox. In `Purchases` a call that is served goes on,
and a purchase is delivered, or polled by the player's page, again and again:
the webhook answers 5xx until it has applied the delivery, "Billing will retry"
(`api/v1/billingwebhook.go`). In `Settlement` the sweep is run every five minutes by the
schedule in `src/cdk/lib/reconcile-stack.ts`: a row that stays open is taken to
its end by a sweep again and again, well or ill. No other step is fair: the
one who removed a player may stop each time, and the wallet may fail each
time. `Hand` writes its fairness as "infinitely often disabled, or infinitely
often taken", with the guard spelled out: it is the weak fairness of the
action, without the evaluation of `ENABLED` over whole showdowns. `Settlement`
assumes of each row that it is closed for good, or that a sweep of it ends,
marking it or counting a failure, infinitely often. That is more than weak
fairness of one step: it is what the schedule gives.

**Commands left out of a run.** `hand_clock` has no *ready*: with it a hand may be
started over a request to leave (section 5).

**What a property excepts.** `SomebodyIsAwaited` and `HandEnds` the hand that
blinds close; `KeepsMoving` a turn whose timeout failed (`LostTurn`), a hand given
up after its last arm, and a full mailbox; `OneActor` holds until the drain
begins; `OwnedIsPaid` the grants that were `late`: decided before the refund was
begun, or given to a repeated request, which never decides; `MoneyAccounted` counts the
keys that leak. Each of these is something the code does, told in section 5.

## 4. What is proved

TLAPS proves these for every value of the constants, from the assumptions
named in the modules (positive blinds, finite sets of players and keys, the
distinctness of the special values).

| module | theorem | of |
| --- | --- | --- |
| `BettingRoundProofs` | `TypeCorrect`, `ChipsAreConserved`, `NobodyRidesFree`, `RaisesAreLicensed`, `NobodyIsSkipped` | any number of players, stacks and blinds, any amount sent by a client |
| `HandProofs` | `EveryChipIsLayered`, `ChipsAreLayered`, `SharesAreFair`, `RefundsAreUnmatched` | pots of any size and any number of players, whoever folded |
| `HandProofs` | `TableIsSound`, `RecordsAgree`, `HandsAreMoved`, `LeaversSitOut`, `ButtonStays`, `TurnsAreTaken`, `ChipsAreKept`, `StreetsStayLevel`, `FoldersForfeit`, `EntrantsAllPost` | any number of players, hands and commands, any blinds, rake and cards |
| `TableActorsProofs` | `TypeCorrect`, `CacheCommitted`, `NoDoubleAction`, `AnswersAreTrue`, `FirstTryFresh`, `OneActor` | any number of instances, ids and players, any order of decisions |
| `SettlementProofs` | `TypeCorrect`, `ClosedIsCredited`, `SeatIsPaid`, `MoneyIsKept` | any number of players, calls, keys and sweeps |
| `TableTimersProofs` | `TypeCorrect`, `KeysMeanPending`, `StallsAreEarned` | hands of any shape, any retries, arms, mailbox and faults |
| `RegistryProofs` | `TypeCorrect`, `NeverTwoActors`, `NothingIsLeaked` | any number of callers, actors, locks and stops |
| `EntryFeeProofs` | `TypeCorrect`, `SeatedArePaid`, `NeverChargedTwice`, `MovedFromFilled` | any number of requests and tables, any window |
| `PurchasesProofs` | `TypeCorrect`, `OwnersPaid`, `RefundsOnlyTake` | any number of purchases, calls, requests and stops |

**BettingRound.** The invariant adds to the types that contribution plus stack
is what the player came with, that nobody has put in more than the bet, that an
all-in player has an empty stack, and that a player who may act and has not
acted since the last full raise holds a licence. `RaiseNeedsLicence` follows,
because `CanRaise` asks for a player that has not acted; the clamped size of a
raise is what links the two. `NobodyIsSkipped` needs to know where the line of
decisions stands (`Line`): counted from the next to act, nobody who may act and is
done comes before one who is not, and whoever has yet to answer somebody's decision
comes before them.

**Hand.** The invariant is `Sound` and `Awaits`. `Sound` has the seats (no player
twice, the button on a seat or one past the last, ready and leaving players
seated), the stage, who is dealt in, and `Fits`: the round's folded and all-in
players are the hand's, and whoever is dealt in and not in the round has folded
on an earlier street. `Awaits` says that a street on which no decision is wanted
is being run out, or was closed by the blinds. Each operator of `Hand` has a
lemma that says what it does to a sound table, and every step is then one of five
(`Step`): it leaves the play alone, it is the decision of the player on the
clock, somebody sits down, somebody not dealt in leaves, or the board runs out.
`ButtonStays` and `TurnsAreTaken` follow from the five and from `SameOrder`: the
first player of a set clockwise from the button, or from a player of the hand,
does not depend on a seat that is added at the end or removed before, at or
behind the button. Two theorems have a hypothesis on the commands, and both are
what the code asks for: `RecordsAgree` leaves out chips bought during the hand by
a player dealt in without any (section 5 tells what the code does to them), and
`LeaversSitOut` the commands that make a leaving player ready again
(`applyReadyAndCommit`, `actor_activity.go:394`, does not look at the request;
the run has the same restriction).

**Pots and chips.** `HandProofs` begins with sums over finite sets (a sum of parts,
of a change, of equal shares with the odd chips), because the library has none it can
prove with. `EveryChipIsLayered` goes up the levels: once the levels to *l* are split,
the layers and the carry hold exactly what was put in at or below *l* (`Layered`), and
every layer has somebody to go to, so that no later step may leave it over.
`SharesAreFair` and `RefundsAreUnmatched` go up the same way (`Fair`): the layers to *l*
give each player what the rules give of the chips at or below *l* (`Entitled`). The step
is to see whom a band goes to (`Takers`). One that a single player paid for is the top
of the pot, so it is what the others did not match (`BandAlone`). Any other
goes to whoever reaches it (`BandShared`): below the deepest live player, to those still
in who paid for it; above, which is dead money, to the layer the deepest live players
contest, and the invariant has to say that this layer is there (`TopHeld`) and that
nothing is carried. Both are about pots in which somebody still in put chips in; the
other ones are a case of section 5.
`ChipsConserved` is not inductive, for it does not know a pot while a hand runs.
`Balanced` is: it adds that every stack and contribution is a number, that who does not
sit has no stack and who is not dealt in has put in nothing (`Money`), and that the
round counts in numbers too, nobody beyond the bet (`Counts`). `PotPaid` is the lemma for
the showdown: what was paid after *k* layers, with the rake so far, is what the first *k*
layers held, through two boards, ties and odd chips. The hypothesis is that of
`RecordsAgree`, and only this theorem of `Balanced` has it.

**What a hand owes its players.** The same `Balanced` carries three more facts, and every
operator of `Hand` has a lemma that it keeps them all (`Keeps`; `KeepsThrough` composes two
steps of one command).
`StreetsStayLevel`: when a street closes, everybody able to act has put in the bet
(`ClosedIsLevel`: a round is complete only when nobody who may act is behind it), and by
`Counts` nobody has put in more; so on the next street whoever is able to act is level with
everybody they compete with (`Level`), and a player able to act never becomes so again
after an all-in or a fold (`Abides`).
`FoldersForfeit`: whoever quit the hand is still folded in it (`Outs`), whatever commands
came since, so at the showdown `FoldersShare` applies: of a pot that somebody who paid is
left to win, `SharesAreFair` gives a folded player what nobody matched and no more. The
property speaks of the table after the showdown, where a player who is out of chips reads
sitting out and not folded any more; `Broke` is what makes up for it: a player with no
chips who is not all-in has put in nothing, so somebody who paid and is not folded at the
end was not folded at the showdown either.
`EntrantsAllPost`: whoever waits is `PendingEntry` until they are dealt in, pause or leave
(`Waits`), a deal asks a blind of each such player (`Due`), and a player asked for a blind
posts it unless the stack is empty (`PostKeeps`).

**TableActors.** The induction needs: the rows form a history (version *n* is
the *n*-th); a cache that is held is one of them; a guard row, an id a row
remembers, and an acknowledged command each have an entry in the log, and
every entry with an id has its guard; an action at its first attempt is fresh
against the cache it is tried on. With the version condition a commit applies
to the current row only if the cache *is* the current row, which gives both
`FirstTryIsFresh` and the refinement: every step of `TableActors` is a move of
`AtomicTable` on the last row, or leaves it as it is.

**Settlement.** `ResolvedIsPaid` is inductive once it is known of everybody who
is about to close a row that the credit went through or that nothing is owed,
and that an owed amount never changes once the row exists. `OneCallPays` needs
to count calls per key: while no second call has used a key, a seat taken with
it is the end of its only call, so no refund of that key can follow or have
come before. The type invariant includes that a row at its last failure is off
the list and that a sweep holds a count below the maximum, which is why the
sweep never counts beyond it even if two sweeps read the same count. `MoneyAccounted`
is inductive together with two facts (`Balanced`): whoever does not sit has no chips at
the table, and the wallet has credited no row that is not there, for such a row would
be created as paid. Each step then changes at most one term of each of the three sums,
and what it takes from one it gives to another.

**TableTimers.** A key stands for a timer or for a command in the mailbox, or the
last arms are used up (`Sound`). The handlers take their command out first and may
put nothing back, so the invariant is stated of the actor with the number of
commands that wait *behind* the one being served; every handler has to clear its
key or arm again on each of its exits, and the lemmas on `ArmRunout`, `ArmNext` and
the retries say that they do. `StallsAreEarned` counts: a hand's arms are used up
one by failed deal (`ArmsInv`), a count that starts again with each hand. It
assumes `OverAssumption`, that a finished hand is left for good: the next deal has a
new id (`hand.go` numbers the hands of a table) and no row returns to an old one.

**Registry.** `Locked`: whoever refers to a lock refers to the table's entry, the
count of references is the number of those callers, and the entry is forgotten by
the last. So the lock has one holder, and `Alone` follows: who makes an actor does it
when none lives, and is the only one. `Owed`: of each lease that is held somebody
is known who will give it back, the maps, the drain, or the one who is about to note it.

**EntryFee.** `Known`: whoever holds a key, be it a request, a charge, a fee row or
the sweep, has it from the table's row, and the row is written again only when it
is over. So a table has one live key, whoever pays for it pays for the same one, and
`OneLiveCharge` follows. `Looked`: who is about to move a reservation has seen it at
a table that was full.

**Purchases.** An entitlement has the method of the purchase it is for, and one that
waits for its purchase names the request that is opening it (`EntOK`). A wallet status
that a call holds is still true of the invoice:
*confirmed* and *expired* do not change. A row that says confirmed or later is of a
purchase that was paid. A purchase whose refund was begun is late or its row says
refunding or refunded, which is where `Decide` stops a new grant; and whoever has
passed `Decide` for a refunded purchase has made it late, as has a repeated request
that is about to grant one without `Decide`. `OwnersPaid` therefore says two things:
every owner has paid, whoever granted; and a refunded purchase has an owner only if
it is late: unless one of those grants went past the refund, no delivery or poll that
decides after it makes an owner.

**Only model-checked:** liveness (`RoundEnds`, `HandEnds`, `ExitHonored`,
`RowsAreSettled`, `KeepsMoving`, `RequestsAnswered`, `PaidIsOwned`), which the prover
does not reach under fairness. Every other property of a passing run is proved.

## 5. Where the code and its words disagree

Two runs end in a counterexample to something the source says of itself; the
quoted lines are in `PROJECT.json` under `findings`.

* `hand_blinds`: two stacks that the blinds put all-in close the betting before
  anybody acts. No decision will call `advanceStage`, and
  `IsAwaitingRunoutForActor` refuses the pre-flop stage, so nothing runs the
  board out. `SomebodyIsAwaited` and `HandEnds` make an exception of exactly
  this state.
* `settle_retry`: a buy-in that was refunded and is repeated with the same key
  takes a seat without a debit, because the wallet has seen the key.

Met while modelling and told here. Each of them is a behaviour of the models, and
a property that forbids it is violated:

* Every error exit of `handleTurnTimeout` leaves the turn's key behind
  (`actor_seating.go:30`, `:76`, `:92`, `:108`), and `armTurnTimer` then takes the
  timer for armed: on a quiet table the turn is never decided, though
  `actor_presence.go:309-316` calls the sweep "the natural watchdog for every timer".
  `KeepsMoving` makes an exception of exactly this (`LostTurn`).
* An action that lost a race is applied to the reloaded row without a second look
  at its precondition (`actor_activity.go:474`): heads-up, a check meant for the
  pre-flop lands on the flop.
* A busted player who says *ready* is dealt in with nothing; chips bought during
  that hand are overwritten by the betting round's own copy of the stack at the
  player's next decision (`hand.go:1772`, against `:750-753`). The runs leave the
  command `rebuy in hand` out, and the theorems that depend on it say so (`ChipsStay`).
* `Dispatch` waits for the reply and for the actor's end at once (`actor.go:299`): when
  both are ready the select may pick the end, and a command that was served is
  answered as one that the stopped actor "will never read", and sent again.
* A request during or after the drain makes an actor and takes its lease again;
  the drain walked the actors once, and the one at the end of the process finds
  nothing to do (`manager.go:625-638`). `OneActor` is stated until the drain begins.
* A fee paid at table A and moved to B admits at A again within the window: the claim
  at A is refused by the row of the first, and what is read after it is that
  row (`buyin/service.go:571`): one fee, two tables. A rebind or a claim whose answer
  is lost and that is sent again may pay a second fee, for another table.
* `GrantConfirmed` reads the row and the entitlement again, and expects of them
  whatever it finds (`cosmeticpurchase/store.go:438-446`, `:465`), so a delivery that
  decided before a refund was begun makes the item owned again while the money goes
  back. A repeated request with the key of a refunded purchase does so too, since
  `CreateReal` grants without asking `Decide` (`service.go:261`).
  `purchaselifecycle/lifecycle.go:102-103` says that "re-confirming would resurrect
  ownership the refund just revoked". `OwnedIsPaid` and `OwnersPaid` speak of
  neither: these purchases are in `late`.
* `Refund` asks whether the item is played with before it begins
  (`cosmeticpurchase/service.go:515`), and applying an item asks whether it is owned
  before it writes: the item can be refunded and stay applied.
* A payment delivered for an older invoice takes over a slot that a purchase with
  chips holds (`store.go:485`); the chips are then debited and no row follows.
* Two paid invoices of one item (one was opened while the reservation was given back)
  grant it once; the second stays paid until it is refunded by hand.
* A bet everybody folds to is one contested layer with the money under it: its
  uncalled part is raked too (`sidepots.go:56`).
* If the last player of a hand put nothing in, the pot is given back in equal
  parts to those who paid, so one folder gets another's chips. `FoldedForfeit`
  leaves out that hand.
* A late joiner who sits out and comes back no longer owes a blind
  (`hand.go`, `RequestReturnFromSitOut`).
* *Ready* after a request to leave makes the player eligible for the next hand
  and keeps the request (`actor_activity.go:394`).
* A turn timeout names a player and not a turn: two instances armed for the
  same deadline decide two turns of a heads-up big blind.
* A hand that ends by a timeout logs no outcome entries
  (`handleTurnTimeout`), and entries that meet a reload may be logged under the
  next hand.
* A deal that fails `maxDealRearms` times in a row is given up on this instance
  until somebody sends a command (`Stalled`).
* A join whose answer was lost is refunded though the seat is taken;
  `unanswered` holds these keys. A process that stops between debit and join
  leaves no row that says so.
* A removal of a busted player whose settler stopped leaves a row of 0, which
  the sweep cannot credit and finally puts before a person.
* A cash-out without an idempotency key reuses one key per room and player: the
  second is refused for as long as the first row is kept.
* A rebuy replaces the seat's hold of real money; nobody releases the first.

## 6. Abstractions and limits

* **Cards.** Deck, shuffle and evaluation are left out; a showdown takes every
  ranking of the live hands. So is the wish to run a board twice: any answer.
* **Time.** There are no clocks but that of `EntryFee`. In `Hand` a timer may fire
  whenever it could be armed; `TableTimers` has when it *is* armed. Delays, the
  kick of a disconnected player and the reveal timer are left out, and of the circuit
  the length of its cooldown, its eviction and a panic between its two calls.
* **Actors.** A handler that fails both attempts gives up, as the code does; the
  version of the disconnected timeout that sits the player out without a retry
  is not told apart. Entries of an outcome are one entry. Two actors of one
  instance cannot exist in the model; that they cannot in the code is what
  `Registry` shows, until the drain.
* **Commits.** The breaker refuses before the store sees a transaction, which is
  one way for it not to be taken; `TableTimers` has the breaker itself. `SeedTable` and `MarkArchived` are left out:
  the models begin with a table that exists and never archive it.
* **Money.** A hold is the debit it amounts to. The seat check of a buy-in may
  read an old row: that call is the one that made its `Ask` while the row was
  the current one, for nothing happens between the two but steps of others.
  A call that finds the player seated with chips ends without a trace and is
  not an action. Limits other than a refusal after the debit, and
  the expiry of closed rows after 30 days are left out. Chips that were paid
  and not seated, or seated and not paid, are counted in `MoneyAccounted` by
  key: the equation says that these keys are the only leaks.
* **Registry.** Other tables of the process and the bounds on their number are left
  out; a lease is held, given back, or lost to another instance.
* **Fees.** One player; a fee that the wallet refuses ends the request. A request is
  not held so long that the reservation it made up would be over before it is
  written (`Tick`): the call in between has a timeout, and the window is hours.
* **Purchases.** One item; items granted without a purchase, rows older than the
  statuses, and the gateway statuses that it never reports for a product are left out,
  so the steps *complete* and *update* of `Decide` are never named. The debit of
  chips may be taken or refused as long as it was not taken.
* **Extras of a hand.** Rabbit hunt, winner's cards, voluntary reveals, the time
  bank and blind escalation are left out; stakes are constant.
* **Not modelled at all:** connections and signals between instances; the other
  purchases and rewards; records of players and hands; the HTTP and WebSocket
  layer; the clients. `PROJECT.json` gives the reason for each. Most of the
  repository's lines are there: generated protobuf code, two user interfaces, handlers
  that decode a request and call one service, and independent conditional writes.

## 7. Plan

Done: `Betting`, `BettingRound`, `SidePots`, `PotSplit`, `Hand`,
`TableRow`/`AtomicTable`/`TableActors`, `Settlement`, `CommitBreaker`/`TableTimers`,
`Registry`, `EntryFee`, `Purchases`, and proofs of `BettingRound`, `TableActors`,
`Hand`, `Settlement`, `TableTimers`, `Registry`, `EntryFee` and `Purchases`.

What could follow, in order of what would hurt most:

1. `Archive`: `cmd/tablecleanup` against a commit and a buy-in.
2. The extras of a hand, with escalation (a rabbit hunt refunded at another blind).
3. `EntryFee` composed with `Settlement`'s buy-in: the fee of a buy-in that is refunded.
4. The hold of real money across a rebuy, and limits of play while a call is served.
5. Proofs: the refinement of an abstract cash-out (owed, then paid once) by `Settlement`.
