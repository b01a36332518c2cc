----------------------------- MODULE MCTableTimers ----------------------------
(* Two hands at the turns of one player, whom another instance may move    *)
(* on: turns, a run-out, a finished hand, a table that waits.  The first   *)
(* turn of the second hand has the key of the first hand's.                *)
EXTENDS TableTimers

CONSTANTS alice, h1, h2, preflop, flop, showdown

MCPositions == 1..7

Turn(p, stage, h) == [kind |-> "turn", who |-> p, stage |-> stage, phase |-> 0, hand |-> h]
Rest(kind, stage, h) == [kind |-> kind, who |-> Nobody, stage |-> stage, phase |-> 0, hand |-> h]

MCShape ==
  << Turn(alice, preflop, h1), Turn(alice, flop, h1),
     Rest("runout", flop, h1), Rest("runout", showdown, h1), Rest("complete", showdown, h1),
     Turn(alice, preflop, h2), Rest("waiting", preflop, h2) >>

MCFollows == << {2, 3, 5}, {3, 5}, {4}, {5}, {6, 7}, {7}, {} >>
=============================================================================
