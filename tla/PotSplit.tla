------------------------------ MODULE PotSplit ------------------------------
(***************************************************************************)
(* Every pot of a bounded size, split by SidePots and compared with what   *)
(* the rules of poker give each player, stated without layers.             *)
(***************************************************************************)
EXTENDS SidePots

CONSTANTS
  Bettors,
  MaxIn     \* bound: the most one player puts in

ASSUME PotAssumption == IsFiniteSet(Bettors) /\ MaxIn \in Nat

VARIABLES contributed, folded, layers

potVars == <<contributed, folded, layers>>

PotInit ==
  /\ contributed \in [Bettors -> 0 .. MaxIn]
  /\ folded \in SUBSET Bettors
  /\ folded # Bettors
  /\ layers = <<>>

SplitPot ==
  /\ layers = <<>>
  /\ layers' = ComputeSidePots(contributed, folded)
  /\ UNCHANGED <<contributed, folded>>

PotNext == SplitPot

PotSpec == PotInit /\ [][PotNext]_potVars

----------------------------------------------------------------------------
LiveIn == In(contributed) \ folded

(* The most that somebody other than p put in.                             *)
Others(c, p) == Max({0} \cup {c[q] : q \in DOMAIN c \ {p}})

(* The chips at or below which somebody else matched somebody.             *)
Matched(c) == Min({TopLive(c, {})} \cup {Others(c, p) : p \in DOMAIN c})

(* How much of each player's chips the live player p plays for: as much as *)
(* p put in, and the deepest also for the dead money above them.           *)
Reach(c, out, p) ==
  IF c[p] < TopLive(c, out) THEN c[p] ELSE Max({TopLive(c, out), Matched(c)})

Capped(c, l) == [q \in DOMAIN c |-> Min({c[q], l})]

(* What the rules let p win.                                               *)
Share(c, out, p) ==
  IF p \in out THEN Max({0, c[p] - Others(c, p)})
  ELSE SumFunction(Capped(c, Reach(c, out, p)))

Amounts(ls) == [i \in DOMAIN ls |-> ls[i].amount]

(* Everything p could be given out of the layers.                          *)
Winnable(ls, p) == SumFunctionOnSet(Amounts(ls), {i \in DOMAIN ls : p \in ls[i].eligible})

(* No chip of the pot is lost or invented by the split, wherever dead      *)
(* money had to go (ComputeSidePots' deadCarry and lastContested).         *)
EveryChipLayered ==
  layers # <<>> => SumFunction(Amounts(layers)) = SumFunction(contributed)

(* What a player can win is what the rules give: from every player, folded *)
(* or not, at most what they put in themselves; the deepest live players   *)
(* also take the dead money above them; a player who folded gets back only *)
(* what nobody matched.                                                    *)
FairShares ==
  layers # <<>> /\ LiveIn # {} =>
    \A p \in Bettors : Winnable(layers, p) = Share(contributed, folded, p)

(* A refund is one player's own unmatched money and nothing else: chips    *)
(* somebody called are never taken out of contention (PotLayer.Uncalled).  *)
RefundIsUnmatched ==
  LiveIn # {} =>
    \A i \in DOMAIN layers : layers[i].uncalled =>
      \E p \in Bettors : /\ layers[i].eligible = {p}
                         /\ layers[i].amount = contributed[p] - Others(contributed, p)
=============================================================================
