-------------------------------- MODULE Hand --------------------------------
(***************************************************************************)
(* One poker table: the state machine of engine/hand, driven by the        *)
(* commands the table actor delivers and by its timers and sweeps.  The    *)
(* betting rules are those of Betting, the settlement that of SidePots.    *)
(*                                                                         *)
(* Each operation of the code is an operator on a table t.  One that can   *)
(* reach a showdown, a deal or the draw of the button yields the set of    *)
(* tables it may end in, for every outcome of the cards.                   *)
(***************************************************************************)
EXTENDS Betting, SidePots

CONSTANTS
  Players,
  SmallBlind,
  BigBlind,
  BuyIn,          \* the chips a player sits down with
  RakeBPS,        \* rake, in hundredths of a percent of a contested layer
  TwiceEnabled,   \* the room lets players run an all-in board twice
  MaxChips,       \* bound: chips bought and still at the table
  MaxHands,       \* bound: hands dealt
  MaxCalls,       \* bound: commands given from a seat, decisions apart
  Commands        \* the players' commands a run delivers

ASSUME StakesAssumption ==
  /\ SmallBlind \in Nat \ {0} /\ BigBlind \in Nat \ {0} /\ SmallBlind <= BigBlind
  /\ BuyIn \in Nat \ {0} /\ RakeBPS \in 0 .. 10000
  /\ TwiceEnabled \in BOOLEAN /\ Nobody \notin Players /\ IsFiniteSet(Players)

VARIABLES
  table,
  hands,      \* history: hands dealt
  calls,      \* history: commands given from a seat
  chips,      \* history: chips bought, less cashed out, less raked
  quitters,   \* history: who folded in the hand being played
  debtors     \* history: who sat down during a hand and waits to come in

vars == <<table, hands, calls, chips, quitters, debtors>>

Streets    == <<"PreFlop", "Flop", "Turn", "River">>
NextStreet == [PreFlop |-> "Flop", Flop |-> "Turn", Turn |-> "River"]

NoRound  == NewRound([p \in {} |-> 0], {}, 0, BigBlind)
NoRunout == [phase |-> 0, split |-> "River", twice |-> FALSE]
NoChips  == [p \in Players |-> 0]

(* seats is in clockwise order; dealer counts seats from 1 and may point   *)
(* one past the last.  in[p] is what p put in over the hand.               *)
EmptyTable ==
  [seats |-> <<>>, stack |-> NoChips, in |-> NoChips,
   state |-> [p \in Players |-> "Away"], ready |-> {}, exiting |-> {},
   owes  |-> {}, post |-> {}, dealer |-> 1, drawn |-> FALSE,
   stage |-> "Waiting", dealt |-> {}, round |-> NoRound, runout |-> NoRunout,
   rake |-> 0]

----------------------------------------------------------------------------
(* Seats and the button                                                    *)

Seated(t)     == ToSet(t.seats)
SeatOf(t, p)  == CHOOSE i \in DOMAIN t.seats : t.seats[i] = p
InProgress(t) == t.stage \in ToSet(Streets)

(* The first member of S clockwise from seat i.                            *)
FirstFrom(t, i, S) ==
  LET n     == Len(t.seats)
      at(d) == t.seats[((i - 1 + d) % n) + 1]
  IN  at(Min({d \in 0 .. n - 1 : at(d) \in S}))

After(t, p, S) == FirstFrom(t, SeatOf(t, p) + 1, S)

(* The button, or the first of S after it if that seat is not in S.        *)
Button(t, S) == FirstFrom(t, IF t.dealer <= Len(t.seats) THEN t.dealer ELSE 1, S)

SmallBlindSeat(t, S) ==
  IF Cardinality(S) = 2 THEN Button(t, S) ELSE After(t, Button(t, S), S)
BigBlindSeat(t, S) == After(t, SmallBlindSeat(t, S), S)

(* A mutated form: a player paused mid-hand no longer contests the pot.    *)
RemainingUnpaused(t) == {p \in t.dealt : t.state[p] \in {"Active", "AllIn"}}

(* Who still contests the pot, and who of them is not all-in.              *)
Remaining(t) == {p \in t.dealt : t.state[p] \in {"Active", "AllIn", "SittingOut"}}
Able(t)      == {p \in Remaining(t) : t.state[p] # "AllIn"}

(* The seat the scan for the next decision starts from.                    *)
ScanFrom(t) ==
  SeatOf(t, IF t.round.lastActor # Nobody THEN t.round.lastActor
            ELSE IF t.stage = "PreFlop" THEN BigBlindSeat(t, t.dealt)
            ELSE Button(t, t.dealt)) + 1

Waited(t) == {p \in DOMAIN t.round.stack : Pending(t.round, p)}

Current(t) ==
  IF ~InProgress(t) \/ Waited(t) = {} THEN Nobody
  ELSE FirstFrom(t, ScanFrom(t), Waited(t))

(* A mutated form: the second board's first street is not waited for.      *)
AwaitingFirstBoard(t) ==
  /\ t.stage \in {"Flop", "Turn"} /\ IsComplete(t.round)
  /\ Cardinality(Remaining(t)) > 1 /\ Cardinality(Able(t)) <= 1

AwaitingRunout(t) ==
  /\ \/ t.stage \in {"Flop", "Turn"}
     \/ t.stage = "PreFlop" /\ t.runout.twice /\ t.runout.phase = 2
  /\ IsComplete(t.round)
  /\ Cardinality(Remaining(t)) > 1
  /\ Cardinality(Able(t)) <= 1

----------------------------------------------------------------------------
(* Settling the hand                                                       *)

RakeCap(t) ==
  CASE t.stage = "PreFlop"        -> 0
    [] Cardinality(t.dealt) <= 2  -> BigBlind \div 2
    [] Cardinality(t.dealt) <= 4  -> (BigBlind * 3) \div 4
    [] OTHER                      -> BigBlind

RakeOf(amount, cap) == Min({cap, (amount * RakeBPS) \div 10000})

Winners(eligible, rank) == {p \in eligible : \A q \in eligible : rank[p] >= rank[q]}

(* A mutated form: what does not divide evenly is dropped.                 *)
EvenSharesOnly(amount, S, first) ==
  [p \in Players |-> IF p \in S THEN amount \div Cardinality(S) ELSE 0]

(* amount in equal shares among S, the odd chips to first.                 *)
Shares(amount, S, first) ==
  [p \in Players |->
     IF p \notin S THEN 0
     ELSE (amount \div Cardinality(S)) + (IF p = first THEN amount % Cardinality(S) ELSE 0)]

Plus(f, g) == [p \in Players |-> f[p] + g[p]]

(* A board's share of a layer goes to its best hands, the odd chip to the  *)
(* first of them after the button.                                         *)
Award(t, amount, eligible, rank) ==
  LET best == Winners(eligible, rank)
  IN  Shares(amount, best, FirstFrom(t, SeatOf(t, Button(t, t.dealt)) + 1, best))

(* paid grows by one layer: a refund goes back unraked, a contested layer  *)
(* is raked up to what is left of the cap and, if the board was run twice, *)
(* halved between the boards, the odd chip to the first.                   *)
PayLayer(t, paid, layer, ranks) ==
  IF layer.uncalled
  THEN [paid EXCEPT !.won = Plus(@,
          Shares(layer.amount, layer.eligible, FirstFrom(t, 1, layer.eligible)))]
  ELSE LET rake   == RakeOf(layer.amount, paid.cap)
           net    == layer.amount - rake
           second == IF t.runout.phase = 2 THEN net \div 2 ELSE 0
       IN  [won  |-> Plus(paid.won,
                       Plus(Award(t, net - second, layer.eligible, ranks[1]),
                            Award(t, second, layer.eligible, ranks[2]))),
            cap  |-> paid.cap - rake,
            rake |-> paid.rake + rake]

Settlement(t, ranks) ==
  LET folded == {p \in t.dealt : t.state[p] = "Folded"}
      layers == ComputeSidePots([p \in t.dealt |-> t.in[p]], folded)
      paid[k \in 0 .. Len(layers)] ==
        IF k = 0 THEN [won |-> NoChips, cap |-> RakeCap(t), rake |-> 0]
        ELSE PayLayer(t, paid[k - 1], layers[k], ranks)
  IN  paid[Len(layers)]

Settle(t, ranks) ==
  LET paid  == Settlement(t, ranks)
      stack == Plus(t.stack, paid.won)
  IN  [t EXCEPT
         !.stack  = stack,
         !.rake   = paid.rake,
         !.state  = [p \in Players |-> IF p \in t.dealt /\ stack[p] = 0
                                       THEN "SittingOut" ELSE @[p]],
         !.stage  = "Complete",
         !.round  = NoRound,
         !.runout = NoRunout,
         !.dealer = SeatOf(t, After(t, Button(t, t.dealt), t.dealt))]

(* How the live hands compare on the first board and on the second, which  *)
(* is the first unless the board is run twice.                             *)
Rankings(t) ==
  LET live   == {p \in t.dealt : t.state[p] # "Folded"}
      orders == {r \in [live -> 1 .. Cardinality(live)] :
                   \A p \in live : r[p] > 1 => \E q \in live : r[q] = r[p] - 1}
  IN  IF t.runout.phase = 2 THEN orders \X orders ELSE {<<r, r>> : r \in orders}

Showdown(t) == {Settle(t, ranks) : ranks \in Rankings(t)}

----------------------------------------------------------------------------
(* From street to street                                                   *)

(* A betting round among the players of S.                                 *)
OpenRound(t, S, bet) ==
  [t EXCEPT !.round = NewRound([p \in S |-> t.stack[p]],
                               {p \in S : t.state[p] = "AllIn"}, bet, BigBlind)]

(* The betting is over: the room and the players left in the hand decide   *)
(* now whether the rest of the board is run twice.                         *)
BeginRunout(t) ==
  IF t.runout.phase # 0 \/ t.stage = "River" THEN {t}
  ELSE {[t EXCEPT !.runout = [phase |-> 1, split |-> t.stage, twice |-> twice]] :
          twice \in {FALSE, TwiceEnabled}}

(* One street of an all-in board.  The second board starts over from the   *)
(* street at which the betting closed.                                     *)
AdvanceRunout(t) ==
  LET u == IF t.stage = "River" THEN t ELSE [t EXCEPT !.stage = NextStreet[@]]
  IN  IF u.stage # "River" THEN {u}
      ELSE IF u.runout.twice /\ u.runout.phase = 1
      THEN {[u EXCEPT !.stage = u.runout.split, !.runout.phase = 2]}
      ELSE Showdown(u)

(* The street is closed.                                                   *)
AdvanceStage(t) ==
  IF Cardinality(Remaining(t)) <= 1 THEN Showdown(t)
  ELSE IF Cardinality(Able(t)) <= 1 THEN UNION {AdvanceRunout(u) : u \in BeginRunout(t)}
  ELSE IF t.stage = "River" THEN Showdown(t)
  ELSE {OpenRound([t EXCEPT !.stage = NextStreet[@]], Remaining(t), 0)}

IfClosed(t) == IF IsComplete(t.round) THEN AdvanceStage(t) ELSE {t}

(* p's betting decision takes the round to r.                              *)
Acted(t, p, r) ==
  IfClosed([t EXCEPT
    !.round    = r,
    !.stack[p] = r.stack[p],
    !.in[p]    = @ + r.contributed[p] - t.round.contributed[p],
    !.state[p] = IF p \in r.allIn THEN "AllIn"
                 ELSE IF p \in r.folded THEN "Folded" ELSE @])

----------------------------------------------------------------------------
(* Dealing the next hand                                                   *)

Eligible(t, p) ==
  /\ p \in t.ready
  /\ t.state[p] = "SittingOut"   => p \in t.owes
  /\ t.state[p] = "PendingEntry" => p \in t.post

NextPlayers(t) == {p \in Seated(t) : Eligible(t, p)}

(* Too few players: the table waits, cleared of the hand it finished.      *)
Idle(t) ==
  [t EXCEPT !.stage = "Waiting", !.dealt = {}, !.in = NoChips, !.runout = NoRunout]

(* A mutated form: only a returning player comes in from outside.          *)
Returners(t, S) == {p \in S : t.state[p] = "SittingOut"}

(* Entrants: players who come in from outside the blinds' rotation.        *)
Entrants(t, S) == {p \in S : t.state[p] \in {"PendingEntry", "SittingOut"}}

SeatHand(t, S, dealer) ==
  [t EXCEPT
     !.dealer = dealer, !.drawn = TRUE, !.stage = "PreFlop", !.dealt = S,
     !.in = NoChips, !.runout = NoRunout, !.rake = 0,
     !.state  = [p \in Players |-> IF p \in S THEN "Active"
                   ELSE IF @[p] \in {"Away", "PendingEntry"} THEN @[p] ELSE "SittingOut"],
     !.post   = @ \ {p \in S : t.state[p] = "PendingEntry"},
     !.owes   = @ \ {p \in S : t.state[p] = "SittingOut"}]

(* What each player of the hand posts: a blind, or a big blind to come in. *)
Due(t, entrants) ==
  [p \in t.dealt |->
     IF p = SmallBlindSeat(t, t.dealt) THEN SmallBlind
     ELSE IF p = BigBlindSeat(t, t.dealt) \/ p \in entrants THEN BigBlind ELSE 0]

Post(t, due) ==
  LET paid == [p \in Players |-> IF p \in t.dealt THEN Min({due[p], t.stack[p]}) ELSE 0]
  IN  [t EXCEPT
         !.stack = [p \in Players |-> @[p] - paid[p]],
         !.in    = paid,
         !.state = [p \in Players |->
                      IF p \in t.dealt /\ due[p] > 0 /\ due[p] >= t.stack[p]
                      THEN "AllIn" ELSE @[p]]]

Deal(t, S, dealer) ==
  LET seated == SeatHand(t, S, dealer)
      posted == Post(seated, Due(seated, Entrants(t, S)))
      opened == OpenRound(posted, S, BigBlind)
  IN  [opened EXCEPT !.round.contributed = [p \in S |-> posted.in[p]]]

StartHand(t) ==
  IF Cardinality(NextPlayers(t)) < 2 THEN {Idle(t)}
  ELSE {Deal(t, NextPlayers(t), dealer) :
          dealer \in IF t.drawn THEN {t.dealer} ELSE {SeatOf(t, p) : p \in NextPlayers(t)}}

(* The actor's tryStartHand: only a waiting table is dealt at once.        *)
TryStart(t) == IF t.stage = "Waiting" THEN StartHand(t) ELSE {t}

----------------------------------------------------------------------------
(* Sitting in and out                                                      *)

WouldBeNextBlind(t, p) ==
  LET S == {p} \cup {q \in t.ready : /\ t.state[q] # "SittingOut"
                                    /\ t.state[q] = "PendingEntry" => q \in t.post}
  IN  Cardinality(S) > 1 /\ p \in {SmallBlindSeat(t, S), BigBlindSeat(t, S)}

(* Back from sitting out: at once, or with the next blind if it is theirs. *)
Return(t, p) ==
  IF t.state[p] # "SittingOut" THEN t
  ELSE IF WouldBeNextBlind(t, p) THEN [t EXCEPT !.owes = @ \cup {p}]
  ELSE [t EXCEPT !.state[p] = "Active"]

(* A mutated form: a player is folded out whoever is on the clock.         *)
FoldsNowAlways(t, p) == InProgress(t) /\ p \in DOMAIN t.round.stack /\ MayAct(t.round, p)

(* Pausing folds a player's live hand only if the decision is theirs now.  *)
FoldsNow(t, p) == Current(t) = p /\ t.state[p] \notin {"AllIn", "Folded"}

(* A mutated form: the pause overwrites a fold made in this hand.          *)
KeepsStateIfAllIn(t, p) == InProgress(t) /\ t.state[p] = "AllIn"

(* What p did in the live hand outlasts the pause.                         *)
KeepsState(t, p) == InProgress(t) /\ t.state[p] \in {"AllIn", "Folded"}

SitOut(t, p) ==
  LET u == [t EXCEPT !.ready = @ \ {p}]
  IN  IF FoldsNow(t, p)
      THEN IfClosed([u EXCEPT !.round = Fold(@, p), !.state[p] = "Folded"])
      ELSE {IF KeepsState(t, p) THEN u ELSE [u EXCEPT !.state[p] = "SittingOut"]}

(* A mutated form: a player still in the hand stays ready for the next.    *)
RequestExitReady(t, p) ==
  LET u == [t EXCEPT !.exiting = @ \cup {p}]
  IN  IF Current(t) = p THEN SitOut(u, p) ELSE {u}

RequestExit(t, p) ==
  LET u == [t EXCEPT !.exiting = @ \cup {p}]
  IN  IF Current(t) = p THEN SitOut(u, p)
      ELSE {[u EXCEPT !.ready = @ \ {p},
                      !.state[p] = IF \/ @ \in {"Active", "AllIn"}
                                      \/ KeepsState(t, p) THEN @ ELSE "SittingOut"]}

CancelExit(t, p) ==
  TryStart(Return([t EXCEPT !.exiting = @ \ {p}, !.ready = @ \cup {p}], p))

SitIn(t, p) == TryStart(Return([t EXCEPT !.ready = @ \cup {p}], p))

MarkReadyToPost(t, p) ==
  IF t.state[p] = "PendingEntry" THEN [t EXCEPT !.post = @ \cup {p}] ELSE t

Seat(t, p) ==
  TryStart([t EXCEPT !.seats = Append(@, p), !.stack[p] = BuyIn, !.ready = @ \cup {p},
                     !.state[p] = IF InProgress(t) THEN "PendingEntry" ELSE "Active"])

(* A seat without chips is topped up where it is.                          *)
Rebuy(t, p) ==
  TryStart(Return([t EXCEPT !.stack[p] = BuyIn, !.ready = @ \cup {p}], p))

(* A mutated form: the button keeps its index when a seat before it goes.  *)
DealerKept(t, p) == t.dealer

(* The button stays on its player when a seat before it is removed.        *)
DealerWithout(t, p) == IF SeatOf(t, p) < t.dealer THEN t.dealer - 1 ELSE t.dealer

RemovePlayer(t, p) ==
  [t EXCEPT !.seats   = RemoveAt(@, SeatOf(t, p)),
            !.stack[p] = 0, !.in[p] = 0, !.state[p] = "Away",
            !.ready   = @ \ {p}, !.exiting = @ \ {p},
            !.dealer  = DealerWithout(t, p),
            !.dealt   = IF Seated(t) = {p} THEN {} ELSE @]

----------------------------------------------------------------------------
(* The commands and timers that drive the table                            *)

Completing(t, u) == InProgress(t) /\ ~InProgress(u)
Dealing(t, u)    == ~InProgress(t) /\ InProgress(u)

(* The table becomes one of tables, and bought chips come to it.           *)
Changes(tables, bought) ==
  \E t \in tables :
    /\ table' = t
    /\ hands' = hands + IF Dealing(table, t) THEN 1 ELSE 0
    /\ hands' <= MaxHands
    /\ chips' = chips + bought - IF Completing(table, t) THEN t.rake ELSE 0
    /\ quitters' = IF InProgress(t)
                   THEN quitters \cup {p \in t.dealt : t.state[p] = "Folded"} ELSE {}
    /\ debtors' = {p \in Seated(t) \ t.dealt :
                     /\ p \in debtors \/ (p \notin Seated(table) /\ InProgress(table))
                     /\ t.state[p] # "SittingOut"}

Becomes(tables, bought) == Changes(tables, bought) /\ UNCHANGED calls
Called(tables, bought)  == Changes(tables, bought) /\ calls' = calls + 1

Init ==
  /\ table = EmptyTable
  /\ hands = 0 /\ calls = 0 /\ chips = 0 /\ quitters = {} /\ debtors = {}

Command(name, p) == name \in Commands /\ p \in Seated(table) /\ calls < MaxCalls

Join(p) ==
  /\ "join" \in Commands /\ p \notin Seated(table)
  /\ chips + BuyIn <= MaxChips
  /\ Becomes(Seat(table, p), BuyIn)

(* A player dealt in without a chip, whose stack the betting round keeps.  *)
DealtInBusted(p) == p \in DOMAIN table.round.stack \ table.round.allIn

RebuyChips(p) ==
  /\ Command(IF DealtInBusted(p) THEN "rebuy in hand" ELSE "rebuy", p)
  /\ table.stack[p] = 0
  /\ chips + BuyIn <= MaxChips
  /\ Called(Rebuy(table, p), BuyIn)

MayLeave(p) == p \in Seated(table) /\ ~(InProgress(table) /\ p \in table.dealt)

Leave(p) ==
  /\ Command("leave", p) /\ MayLeave(p)
  /\ Called({RemovePlayer(table, p)}, -table.stack[p])

Ready(p)       == Command("ready", p) /\ Called(SitIn(table, p), 0)
StandDown(p)   == Command("sitout", p) /\ Called(SitOut(table, p), 0)
AskToLeave(p)  == Command("exit", p) /\ Called(RequestExit(table, p), 0)
StayAfterAll(p) ==
  /\ Command("cancel", p) /\ p \in table.exiting
  /\ Called(CancelExit(table, p), 0)
PostBigBlind(p) == Command("post", p) /\ Called({MarkReadyToPost(table, p)}, 0)

OnClock(p)   == p # Nobody /\ Current(table) = p
Decide(p, r) == Becomes(Acted(table, p, r), 0)

ActFold(p)  == OnClock(p) /\ Decide(p, Fold(table.round, p))
ActCheck(p) == OnClock(p) /\ CanCheck(table.round, p) /\ Decide(p, Check(table.round, p))
ActCall(p)  == OnClock(p) /\ CanCall(table.round, p) /\ Decide(p, Call(table.round, p))

(* An amount past the stack is an all-in: it decides as the stack does.    *)
ActRaise(p) ==
  /\ OnClock(p)
  /\ \E amount \in 1 .. AllInTo(table.round, p) :
       /\ CanRaise(table.round, p, amount)
       /\ Decide(p, Raise(table.round, p, amount))

Act(p) == ActFold(p) \/ ActCheck(p) \/ ActCall(p) \/ ActRaise(p)

(* The turn timer decides for the player on the clock: a connected one     *)
(* checks if that is free, a disconnected one is sat out.                  *)
TurnTimeout(p) ==
  /\ OnClock(p)
  /\ \/ Owed(table.round, p) <= 0 /\ Decide(p, Check(table.round, p))
     \/ Owed(table.round, p) > 0 /\ Decide(p, Fold(table.round, p))
     \/ Becomes(SitOut(table, p), 0)

(* The sweep after every commit folds a player who is leaving or paused.   *)
AutoFold(p) ==
  /\ OnClock(p)
  /\ p \in table.exiting \/ table.state[p] = "SittingOut"
  /\ Decide(p, Fold(table.round, p))

(* The sweep that cashes out players who asked to leave.                   *)
ExitSweep(p) ==
  /\ p \in table.exiting \ table.dealt
  /\ Becomes({RemovePlayer(table, p)}, -table.stack[p])

RunoutStep == AwaitingRunout(table) /\ Becomes(AdvanceRunout(table), 0)

NextHand == table.stage = "Complete" /\ Becomes(StartHand(table), 0)

PlayerCommand(p) ==
  \/ Join(p) \/ RebuyChips(p) \/ Leave(p) \/ Ready(p) \/ StandDown(p)
  \/ AskToLeave(p) \/ StayAfterAll(p) \/ PostBigBlind(p) \/ Act(p)

System(p) == TurnTimeout(p) \/ AutoFold(p) \/ ExitSweep(p)

Next ==
  \/ \E p \in Players : PlayerCommand(p) \/ System(p)
  \/ RunoutStep
  \/ NextHand

(* The timers and sweeps run, whatever the players do: weak fairness, with *)
(* what enables each of them spelled out.                                  *)
NextHandDue ==
  table.stage = "Complete" /\ (Cardinality(NextPlayers(table)) > 1 => hands < MaxHands)

Fairness ==
  /\ []<>(Current(table) = Nobody) \/ []<><<\E p \in Players : TurnTimeout(p)>>_vars
  /\ \A p \in Players :
       []<>(p \notin table.exiting \ table.dealt) \/ []<><<ExitSweep(p)>>_vars
  /\ []<>~AwaitingRunout(table) \/ []<><<RunoutStep>>_vars
  /\ []<>~NextHandDue \/ []<><<NextHand>>_vars

Spec     == Init /\ [][Next]_vars
FairSpec == Spec /\ Fairness

----------------------------------------------------------------------------
Total(f) == SumFunctionOnSet(f, Players)

(* Every chip bought and not cashed out or raked is in a stack or in the   *)
(* pot: through deals, all-ins, side pots, split boards, odd chips, rake,  *)
(* leavers and late joiners (Act's deltas, runShowdown, rebuyExisting).    *)
ChipsConserved ==
  Total(table.stack) + (IF InProgress(table) THEN Total(table.in) ELSE 0) = chips

(* While a hand runs somebody is on the clock or the runout timer is due,  *)
(* unless the blinds themselves put everyone all-in: nothing else can move *)
(* a table that waits on nobody (stillInHand, IsAwaitingRunoutForActor).   *)
BlindsClosedBetting ==
  table.stage = "PreFlop" /\ table.round.lastActor = Nobody /\ IsComplete(table.round)

SomebodyIsAwaited ==
  InProgress(table) =>
    Current(table) # Nobody \/ AwaitingRunout(table) \/ BlindsClosedBetting

(* Whenever the betting of a hand is closed and two players are left, the  *)
(* board is being run out (IsAwaitingRunoutForActor).                      *)
ClosedBettingIsRunOut ==
  InProgress(table) /\ IsComplete(table.round) => AwaitingRunout(table)

(* Nobody able to act reaches a street having put in less than a player    *)
(* they compete with put in on the streets before (advanceStage).          *)
StreetsAreLevel ==
  InProgress(table) =>
    LET before(p) == table.in[p] - table.round.contributed[p]
    IN  \A p \in Able(table), q \in Remaining(table) : before(q) <= before(p)

(* The seats, the hand and the betting round keep three records of who     *)
(* plays, and they never drift apart, whatever commands arrive between two *)
(* decisions: who sits, who is dealt in, who folded, who is all-in, and    *)
(* what is behind (Player.State, roundIdx, roundBaseline).                 *)
HandMatchesRound ==
  /\ Cardinality(Seated(table)) = Len(table.seats)
  /\ \A p \in Players : p \in Seated(table) <=> table.state[p] # "Away"
  /\ table.ready \cup table.exiting \subseteq Seated(table)
  /\ table.dealer \in 1 .. Len(table.seats) + 1
  /\ InProgress(table) =>
       /\ table.dealt \subseteq Seated(table) /\ DOMAIN table.round.stack \subseteq table.dealt
       /\ \A p \in DOMAIN table.round.stack :
            LET r == table.round
            IN  /\ p \in r.folded <=> table.state[p] = "Folded"
                /\ p \in r.allIn  <=> table.state[p] = "AllIn"
                /\ p \notin r.allIn => table.stack[p] = r.stack[p]

(* Whoever p matched gets nothing of theirs.                               *)
WinsNothing(p) ==
  LET unmatched == table.in[p] - Max({0} \cup {table'.in[q] : q \in table.dealt \ {p}})
  IN  table'.stack[p] - table.stack[p] <= Max({0, unmatched})

(* A player who folded wins no chip another player put in, whatever they   *)
(* do for the rest of the hand: pause, ask to leave, change their mind     *)
(* (SitOutForActor and RequestExit keep Folded; runShowdown reads it).  A  *)
(* hand won by somebody without a chip in it is another matter: its pot is *)
(* given back to all who paid.                                             *)
FoldedForfeit ==
  [][Completing(table, table') /\ (\E q \in table.dealt : table'.in[q] > 0 /\ table'.state[q] # "Folded") =>
       \A p \in quitters : WinsNothing(p)]_vars

(* While a hand is played, nobody joining or leaving moves the button, so  *)
(* the order of action stays what it was (RemovePlayerForActor).           *)
ButtonHolds ==
  [][InProgress(table) /\ InProgress(table)' =>
       Button(table', table.dealt) = Button(table, table.dealt)]_vars

(* The clock leaves a player only by that player's decision: no command of *)
(* somebody else skips a turn or takes it twice (SitOutForActor).          *)
ClockIsKept ==
  [][\A p \in Players :
       Current(table) = p /\ InProgress(table)' /\ table'.stage = table.stage =>
         Current(table)' = p \/ table'.round.lastActor = p]_vars

(* Whoever sat down during a hand and waited posts to come in on the first *)
(* hand they are dealt (AddMidHandJoiner).                                 *)
EntrantsPost ==
  [][Dealing(table, table') => \A p \in debtors \cap table'.dealt :
                table'.in[p] > 0 \/ table.stack[p] = 0]_vars

(* Whoever asked to leave is dealt no further hand (RequestExit).          *)
LeaversNotDealt == [][Dealing(table, table') => table.exiting \cap (table.exiting \cap table.dealt)' = {}]_vars

(* Every hand ends, under the turn and runout timers, unless the blinds    *)
(* closed the betting.                                                     *)
HandEnds ==
  InProgress(table) ~> (~InProgress(table) \/ BlindsClosedBetting)

(* Whoever asks to leave leaves, or says otherwise.                        *)
ExitHonored ==
  \A p \in Players : p \in table.exiting ~> (p \notin table.exiting \/ BlindsClosedBetting)
=============================================================================
