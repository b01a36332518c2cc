------------------------------ MODULE SidePots ------------------------------
(***************************************************************************)
(* The layers a pot is split into when a hand is settled: the pure         *)
(* function of engine/sidepots.  c[p] is what p put in over the hand and   *)
(* folded the players who gave up; a layer is                              *)
(*                                                                         *)
(*   amount     its chips                                                  *)
(*   eligible   the players it can go to                                   *)
(*   uncalled   TRUE if it is one player's unmatched money, given back     *)
(***************************************************************************)
EXTENDS Integers, Sequences, SequencesExt

In(c) == {p \in DOMAIN c : c[p] > 0}

TopLive(c, folded) == Max({0} \cup {c[p] : p \in DOMAIN c \ folded})

(* The amounts at which the pot is cut: what each live player put in, and  *)
(* folded money only where it rises above all of that.                     *)
Levels(c, folded) ==
  {c[p] : p \in {q \in In(c) : q \notin folded \/ c[q] > TopLive(c, folded)}}

(* The band (low, high] of the pot.                                        *)
Funders(c, low) == {p \in DOMAIN c : c[p] > low}

BandAmount(c, low, high) ==
  SumFunction([p \in DOMAIN c |-> Min({c[p], high}) - Min({c[p], low})])

(* A mutated form: a live player must have put in more than the level.     *)
StrictlyAbove(c, folded, high) == {p \in DOMAIN c \ folded : c[p] > high}

Contenders(c, folded, high) == {p \in DOMAIN c \ folded : c[p] >= high}

(* A mutated form: a layer one player can win is that player's refund.     *)
OneContender(c, folded, low, high) == Cardinality(Contenders(c, folded, high)) = 1

(* Nobody ever matched these chips.                                        *)
Unmatched(c, folded, low, high) == Cardinality(Funders(c, low)) = 1

(* A mutated form: dead money is dropped.                                  *)
DropDead(pots, amount) == pots

(* Money of players who all folded: it goes to the highest contested layer *)
(* below, or is carried up to the next one.                                *)
RollDown(pots, amount) ==
  IF pots.contested = 0 THEN [pots EXCEPT !.carry = @ + amount]
  ELSE [pots EXCEPT !.layers[pots.contested].amount = @ + amount]

(* The split grows by one band; pots.contested indexes the last contested  *)
(* layer, pots.carry is dead money that found none yet.                    *)
AddBand(c, folded, pots, high) ==
  LET low    == pots.level
      amount == BandAmount(c, low, high)
      live   == Contenders(c, folded, high)
      next   == [pots EXCEPT !.level = high]
  IN  CASE Unmatched(c, folded, low, high) ->
             [next EXCEPT !.layers = Append(@,
                [amount |-> amount, eligible |-> Funders(c, low), uncalled |-> TRUE])]
        [] ~Unmatched(c, folded, low, high) /\ live = {} ->
             RollDown(next, amount)
        [] OTHER ->
             [next EXCEPT !.layers = Append(@,
                [amount |-> amount + pots.carry, eligible |-> live, uncalled |-> FALSE]),
                          !.contested = Len(pots.layers) + 1, !.carry = 0]

(* Dead money no contested layer took: it joins the last layer, or is      *)
(* pooled among everyone who put chips in.                                 *)
PlaceCarry(c, pots) ==
  IF pots.carry = 0 THEN pots.layers
  ELSE IF pots.layers # <<>>
  THEN [pots.layers EXCEPT ![Len(pots.layers)].amount = @ + pots.carry]
  ELSE <<[amount |-> pots.carry, eligible |-> In(c), uncalled |-> TRUE]>>

NoPots == [level |-> 0, layers |-> <<>>, contested |-> 0, carry |-> 0]

(* The levels in ascending order, each over the one before.                *)
ComputeSidePots(c, folded) ==
  LET cut == {0} \cup Levels(c, folded)
      split[l \in cut] ==
        IF l = 0 THEN NoPots ELSE AddBand(c, folded, split[Max({k \in cut : k < l})], l)
  IN  PlaceCarry(c, split[Max(cut)])
=============================================================================
