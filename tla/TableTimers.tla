------------------------------ MODULE TableTimers -----------------------------
(***************************************************************************)
(* What keeps a table moving when its players do not: the turn, run-out    *)
(* and next-hand timers of one actor, the keys that keep a timer from      *)
(* being armed twice, the bounded retries, and the sweep that arms again   *)
(* what was lost.  The timers live in the memory of an actor; the hand is  *)
(* a row of the store that siblings move as well, told or untold.          *)
(*                                                                         *)
(* There is no clock.  A timer that is armed fires some time, and only     *)
(* sends the actor a command, which finds the table as it is by then.      *)
(***************************************************************************)
EXTENDS CommitBreaker, FiniteSets

CONSTANTS
  Positions,       \* positions of the table, one after another
  Shape,           \* [Positions -> what kind it is, and what keys see of it]
  Follows,         \* [Positions -> the positions one move later]
  Start,
  Nobody, Nowhere, \* no player, no position or key
  MaxRetries,      \* of a run-out step, and of a deal, in a row
  MaxArms,         \* of the next-hand timer for one hand
  MaxQueued,       \* bound: commands of one kind that wait for the actor
  MaxFaults        \* bound: faults of the store and of the process

Kind(pos) == Shape[pos].kind
Hand(pos) == Shape[pos].hand
Who(pos)  == Shape[pos].who

Kinds   == {"turn", "runout", "complete", "waiting"}
Players == {Who(pos) : pos \in Positions} \ {Nobody}

ASSUME ShapeAssumption ==
  /\ Start \in Positions /\ Nowhere \notin Positions
  /\ \A pos \in Positions :
       /\ Kind(pos) \in Kinds /\ Hand(pos) # Nowhere
       /\ Kind(pos) = "turn" <=> Who(pos) # Nobody
  /\ Follows \in [Positions -> SUBSET Positions]
  /\ MaxRetries \in Nat /\ MaxArms \in Nat \ {0}
  /\ MaxQueued \in Nat \ {0} /\ MaxFaults \in Nat

(* A hand that is over is left for good: no later position has it as the   *)
(* hand that is over.                                                      *)
ASSUME OverAssumption ==
  \A pos \in Positions : Kind(pos) = "complete" =>
    \E later \in SUBSET Positions :
      /\ Follows[pos] \subseteq later \cup {pos}
      /\ \A q \in later : /\ Follows[q] \subseteq later
                          /\ Kind(q) = "complete" => Hand(q) # Hand(pos)

VARIABLES
  position,   \* the stored row
  actor,      \* the actor's cache, timers and their keys
  mail,       \* commands the timers sent that wait for the actor
  signal,     \* a sibling's announcement is on its way
  trusts,     \* the actor holds the lease, and trusts its cache
  circuit,    \* the circuit in front of the actor's commits
  faults,     \* history: faults so far
  failures,   \* history: deals that failed since the hand was over
  dropped     \* history: a full mailbox refused a timer

vars == <<position, actor, mail, signal, trusts, circuit, faults, failures, dropped>>

TurnCommand(p) == <<"turn", p>>
RunoutCommand  == <<"runout">>
NextCommand    == <<"next">>
Commands == {TurnCommand(p) : p \in Players} \cup {RunoutCommand, NextCommand}

(* A turn is told apart by its player and the street, a street of a        *)
(* run-out by the hand, the street and the board.                          *)
TurnKey(pos)   == <<Who(pos), Shape[pos].stage>>
RunoutKey(pos) == <<Hand(pos), Shape[pos].stage, Shape[pos].phase>>

NoTurn == <<Nobody, Nowhere>>

(* An actor that was just made.                                            *)
Fresh ==
  [cached |-> Nowhere,
   turn   |-> [key |-> NoTurn, timer |-> FALSE],
   run    |-> [key |-> Nowhere, timer |-> FALSE, retries |-> 0],
   next   |-> [key |-> Nowhere, timer |-> FALSE, retries |-> 0, hand |-> Nowhere, arms |-> 0]]

Empty == [c \in Commands |-> 0]

----------------------------------------------------------------------------
(* Arming                                                                  *)

ArmTurn(turn, pos) ==
  IF turn.key = TurnKey(pos) THEN turn
  ELSE [key |-> TurnKey(pos), timer |-> Kind(pos) = "turn"]

ArmRunout(run, pos) ==
  IF Kind(pos) # "runout" THEN [run EXCEPT !.key = Nowhere, !.timer = FALSE]
  ELSE IF run.key = RunoutKey(pos) THEN run
  ELSE [run EXCEPT !.key = RunoutKey(pos), !.timer = TRUE]

ArmsFor(next, pos) == IF next.hand = Hand(pos) THEN next.arms ELSE 0

(* One arm more, unless the last of them is used up.                       *)
ArmAgain(next, pos) ==
  [next EXCEPT !.key = Hand(pos), !.hand = Hand(pos),
               !.timer = @ \/ ArmsFor(next, pos) < MaxArms,
               !.arms = IF ArmsFor(next, pos) <= MaxArms THEN ArmsFor(next, pos) + 1 ELSE @]

Disarmed(next) == [next EXCEPT !.key = Nowhere, !.timer = FALSE, !.hand = Nowhere, !.arms = 0]

(* A mutated form: every look at the finished hand counts as an arm.       *)
ArmNextAlways(next, pos) ==
  IF Kind(pos) # "complete" THEN Disarmed(next) ELSE ArmAgain(next, pos)

ArmNext(next, pos) ==
  IF Kind(pos) # "complete" THEN Disarmed(next)
  ELSE IF next.key = Hand(pos) THEN next
  ELSE ArmAgain(next, pos)

(* rearmTimersFromCache, and the end of every broadcast.                   *)
Rearmed(a) ==
  [a EXCEPT !.turn = ArmTurn(@, a.cached), !.run = ArmRunout(@, a.cached),
            !.next = ArmNext(@, a.cached)]

(* The row was read; what it says of the timers is taken at once.          *)
Loaded(a, pos) ==
  [cached |-> pos, turn |-> ArmTurn(a.turn, pos), run |-> ArmRunout(a.run, pos),
   next |-> ArmNext(a.next, pos)]
----------------------------------------------------------------------------
(* Firing                                                                  *)

Sends(c) == mail' = [mail EXCEPT ![c] = @ + 1]

(* A timer fires: it is armed no longer, and its command waits.            *)
Fires(c) ==
  /\ mail[c] < MaxQueued /\ Sends(c)
  /\ UNCHANGED <<position, signal, trusts, circuit, faults, failures, dropped>>

(* The mailbox stayed full for too long, and the command is given up.      *)
IsRefused ==
  /\ faults < MaxFaults /\ faults' = faults + 1 /\ dropped' = TRUE
  /\ UNCHANGED <<position, mail, signal, trusts, circuit, failures>>

FireTurn ==
  /\ actor.turn.timer /\ actor' = [actor EXCEPT !.turn.timer = FALSE]
  /\ Fires(TurnCommand(actor.turn.key[1])) \/ IsRefused

FireRunout ==
  /\ actor.run.timer /\ actor' = [actor EXCEPT !.run.timer = FALSE]
  /\ Fires(RunoutCommand) \/ IsRefused

FireNext ==
  /\ actor.next.timer /\ actor' = [actor EXCEPT !.next.timer = FALSE]
  /\ Fires(NextCommand) \/ IsRefused

----------------------------------------------------------------------------
(* What becomes of a load and of a commit                                  *)

Faulty(n) == faults + n <= MaxFaults /\ faults' = faults + n

(* The actor's commit moves the row to pos.                                *)
Accepted(pos) ==
  /\ Admits(circuit) /\ circuit' = AfterSuccess(circuit)
  /\ pos \in Follows[position] /\ position' = pos
  /\ UNCHANGED signal

(* A sibling's commit came first.  It moved the row to pos, or changed     *)
(* nothing of the game, which the bound counts as a fault.                 *)
Beaten(pos) ==
  /\ Admits(circuit) /\ circuit' = AfterRejection(circuit)
  /\ pos \in Follows[position] \cup {position} /\ position' = pos
  /\ signal' \in {TRUE, signal}

Cost(pos) == IF pos = position THEN 1 ELSE 0

(* The commit is refused by the circuit; or the store does not answer,     *)
(* though it may have taken it.                                            *)
Throttled == ~Admits(circuit) /\ UNCHANGED <<position, circuit, faults, signal>>
Unanswered ==
  /\ Admits(circuit) /\ circuit' = AfterOutage(circuit) /\ Faulty(1)
  /\ position' \in {position} \cup Follows[position]
  /\ UNCHANGED signal

Undecided == Throttled \/ Unanswered

Serves(c) == mail[c] > 0 /\ mail' = [mail EXCEPT ![c] = @ - 1]

(* As Serves, but the timer armed while c was served may have fired before *)
(* it is stopped.                                                          *)
ServesLate(c, armed) ==
  Serves(c) \/ (armed /\ mail[c] > 0 /\ UNCHANGED mail)

----------------------------------------------------------------------------
(* The handlers                                                            *)

(* A mutated form: the key of a run-out outlives its timer.                *)
KeptRunoutKey(a) == a

(* The timer that sent the command is pending no more.                     *)
WithoutRunoutKey(a) == [a EXCEPT !.run.key = Nowhere]
WithoutNextKey(a)   == [a EXCEPT !.next.key = Nowhere]

(* A step that failed is tried again, so often and no more.                *)
Retried(timer) ==
  IF timer.retries >= MaxRetries THEN [timer EXCEPT !.retries = 0]
  ELSE [timer EXCEPT !.retries = @ + 1, !.timer = TRUE]

RetryRunout(a) == [a EXCEPT !.run = Retried(@)]
RetryNext(a)   == [a EXCEPT !.next = Retried(@)]

(* The row could not be read, or the handler panicked before it committed. *)
Unread    == Faulty(1) /\ UNCHANGED <<position, circuit, signal>>
Panics(a) == Unread /\ actor' = [a EXCEPT !.cached = Nowhere]

(* Deals that failed while the finished hand stays where it is.            *)
Counted(failed) ==
  failures' = IF position' # position THEN 0
              ELSE IF failed /\ failures < MaxArms THEN failures + 1 ELSE failures

(* Nothing but the actor changes.                                          *)
Quiet == UNCHANGED <<position, circuit, faults, signal>>

RunoutStep ==
  LET a == WithoutRunoutKey(actor)
      b == Loaded(a, position)
      done == [b EXCEPT !.run.retries = 0]
  IN  \/ /\ Serves(RunoutCommand)
         /\ Panics(a) \/ Panics(b) \/ (Unread /\ actor' = RetryRunout(a))
      \/ /\ Serves(RunoutCommand)
         /\ Kind(position) # "runout" /\ Quiet /\ actor' = done
      \/ /\ Serves(RunoutCommand) /\ Kind(position) = "runout"
         /\ \E pos \in Positions :
              \/ Accepted(pos) /\ Faulty(0) /\ actor' = Loaded(done, pos)
              \* the hand is over and its outcome could not be logged
              \/ /\ Accepted(pos) /\ Kind(pos) = "complete" /\ Faulty(1)
                 /\ actor' = [done EXCEPT !.cached = pos]
              \/ Beaten(pos) /\ Faulty(Cost(pos)) /\ actor' = Loaded(done, pos)
      \/ /\ ServesLate(RunoutCommand, b.run.timer /\ b.run.retries < MaxRetries)
         /\ Kind(position) = "runout"
         /\ Undecided \/ \E pos \in Positions : Beaten(pos) /\ Faulty(Cost(pos) + 1)
         /\ actor' = RetryRunout(b)

HandleRunoutStep ==
  RunoutStep /\ UNCHANGED <<trusts, dropped>> /\ Counted(FALSE)

(* A deal, from a finished hand to the next or to a table that waits.      *)
NextHand ==
  LET a == WithoutNextKey(actor)
      b == Loaded(a, position)
      done == [b EXCEPT !.next.retries = 0]
  IN  \/ /\ Serves(NextCommand)
         /\ Panics(a) \/ Panics(b) \/ (Unread /\ actor' = RetryNext(a))
         /\ Counted(TRUE)
      \/ /\ Serves(NextCommand)
         /\ Kind(position) # "complete" /\ Quiet /\ actor' = done
         /\ Counted(FALSE)
      \/ /\ Serves(NextCommand) /\ Kind(position) = "complete"
         /\ \E pos \in Positions :
              \/ Accepted(pos) /\ Faulty(0) /\ actor' = Loaded(done, pos)
              \/ Beaten(pos) /\ Faulty(Cost(pos)) /\ actor' = Loaded(done, pos)
         /\ Counted(TRUE)
      \/ /\ ServesLate(NextCommand, b.next.timer /\ b.next.retries < MaxRetries)
         /\ Kind(position) = "complete"
         /\ Undecided \/ \E pos \in Positions : Beaten(pos) /\ Faulty(Cost(pos) + 1)
         /\ actor' = RetryNext(b)
         /\ Counted(TRUE)

HandleNextHand == NextHand /\ UNCHANGED <<trusts, dropped>>

(* The second try of a timeout whose first try lost to a sibling's commit  *)
(* that left p on the clock, at pos.                                       *)
SecondTry(p, pos) ==
  LET tripped == AfterRejection(circuit)
      b == Loaded(Loaded(actor, position), pos)
  IN  /\ Admits(circuit) /\ Who(pos) = p /\ pos \in Follows[position] \cup {position}
      /\ signal' \in {TRUE, signal}
      /\ \/ /\ Admits(tripped) /\ circuit' = AfterSuccess(tripped) /\ Faulty(Cost(pos))
            /\ position' \in Follows[pos] /\ actor' = Loaded(b, position')
         \/ /\ Admits(tripped) /\ circuit' = AfterRejection(tripped) /\ Faulty(Cost(pos) + 1)
            /\ position' \in Follows[pos] \cup {pos} /\ actor' = b
         \/ /\ ~Admits(tripped) /\ circuit' = tripped /\ Faulty(Cost(pos))
            /\ position' = pos /\ actor' = b

(* A turn that nobody took: the player is checked, folded or sat out.      *)
TurnTimeout(p) ==
  LET b == Loaded(actor, position)
  IN  \/ Panics(actor) \/ Panics(b)
      \/ Unread /\ UNCHANGED actor
      \/ Who(position) # p /\ Quiet /\ actor' = b
      \/ /\ Who(position) = p
         /\ \/ Undecided /\ actor' = b
            \/ \E pos \in Positions :
                 \/ Accepted(pos) /\ Faulty(0) /\ actor' = Loaded(b, pos)
                 \* nobody's second try: p is disconnected, or on the clock no more
                 \/ Beaten(pos) /\ Faulty(Cost(pos)) /\ actor' = Loaded(b, pos)
                 \* what the sibling made of the row can not be read
                 \/ Beaten(pos) /\ Faulty(Cost(pos) + 1) /\ actor' = b
                 \/ SecondTry(p, pos)

HandleTurnTimeout(p) ==
  Serves(TurnCommand(p)) /\ TurnTimeout(p) /\ UNCHANGED <<trusts, dropped>> /\ Counted(FALSE)

----------------------------------------------------------------------------
(* What else looks at the table, or moves it                               *)

(* A mutated form: the sweep looks for idle seats only.                    *)
SweptSeats(a) == a

(* The sweep derives the timers again from the cache it trusts.            *)
Swept(a) == Rearmed(a)

Sweep ==
  /\ \/ trusts /\ actor.cached # Nowhere /\ Quiet /\ actor' = Swept(actor)
     \/ ~(trusts /\ actor.cached # Nowhere) /\ Quiet /\ actor' = Swept(Loaded(actor, position))
     \/ ~(trusts /\ actor.cached # Nowhere) /\ Unread /\ UNCHANGED actor
  /\ UNCHANGED <<mail, trusts, failures, dropped>>

(* A sibling's announcement arrives, once.                                 *)
ExternalChange ==
  /\ signal /\ signal' = FALSE
  /\ \/ Faulty(0) /\ actor' = Loaded(actor, position)
     \/ Faulty(1) /\ UNCHANGED actor
  /\ UNCHANGED <<position, mail, trusts, circuit, failures, dropped>>

(* A command of a player that this actor commits: a move, or a commit that *)
(* leaves the game as it is.                                               *)
LocalCommand(pos) ==
  LET fresh == IF trusts /\ actor.cached = position THEN actor ELSE Loaded(actor, position)
  IN  /\ Admits(circuit) /\ circuit' = AfterSuccess(circuit)
      /\ pos \in Follows[position] \cup {position} /\ position' = pos
      /\ actor' = Loaded(fresh, pos)
      /\ Counted(FALSE) /\ UNCHANGED <<mail, signal, trusts, faults, dropped>>

(* A sibling moves the table, and tells the actor or does not reach it.    *)
SiblingMoves(pos) ==
  /\ pos \in Follows[position] /\ position' = pos
  /\ signal' \in {TRUE, signal}
  /\ Counted(FALSE) /\ UNCHANGED <<actor, mail, trusts, circuit, faults, dropped>>

Cooldown ==
  /\ circuit.state = "open" /\ circuit' = Cooled(circuit)
  /\ UNCHANGED <<position, actor, mail, signal, trusts, faults, failures, dropped>>

(* The process stops, and the next request makes an actor here or not.     *)
Restart ==
  /\ Faulty(1) /\ actor' = Fresh /\ mail' = Empty /\ circuit' = Closed
  /\ signal' = FALSE /\ trusts' \in BOOLEAN
  /\ UNCHANGED <<position, failures, dropped>>

----------------------------------------------------------------------------
Init ==
  /\ position = Start /\ actor = Fresh /\ mail = Empty /\ signal = FALSE
  /\ trusts \in BOOLEAN /\ circuit = Closed
  /\ faults = 0 /\ failures = 0 /\ dropped = FALSE

Next ==
  \/ FireTurn \/ FireRunout \/ FireNext
  \/ HandleRunoutStep \/ HandleNextHand
  \/ \E p \in Players : HandleTurnTimeout(p)
  \/ Sweep \/ ExternalChange \/ Cooldown \/ Restart
  \/ \E pos \in Positions : LocalCommand(pos) \/ SiblingMoves(pos)

Spec == Init /\ [][Next]_vars

(* The runtime fires its timers and the mailbox is served in order; the    *)
(* sweep arms itself again whatever happens.  Nobody has to play, and no   *)
(* sibling has to be there.                                                *)
FairSpec ==
  /\ Spec
  /\ WF_vars(FireTurn \/ FireRunout \/ FireNext)
  /\ WF_vars(HandleRunoutStep \/ HandleNextHand \/ \E p \in Players : HandleTurnTimeout(p))
  /\ WF_vars(Sweep) /\ WF_vars(ExternalChange) /\ WF_vars(Cooldown)

----------------------------------------------------------------------------
(* Properties                                                              *)

TypeOK ==
  /\ position \in Positions
  /\ actor \in [cached : Positions \cup {Nowhere},
                turn : [key : {NoTurn} \cup {TurnKey(pos) : pos \in Positions}, timer : BOOLEAN],
                run  : [key : {Nowhere} \cup {RunoutKey(pos) : pos \in Positions}, timer : BOOLEAN,
                        retries : 0..MaxRetries],
                next : [key : {Nowhere} \cup {Hand(pos) : pos \in Positions}, timer : BOOLEAN,
                        retries : 0..MaxRetries, arms : 0..(MaxArms + 1),
                        hand : {Nowhere} \cup {Hand(pos) : pos \in Positions}]]
  /\ mail \in [Commands -> 0..MaxQueued]
  /\ signal \in BOOLEAN /\ trusts \in BOOLEAN /\ dropped \in BOOLEAN
  /\ circuit \in Circuits /\ faults \in 0..MaxFaults /\ failures \in 0..MaxArms

(* A key says that a timer is pending for this point of the hand, and the  *)
(* arms it suppresses are the ones that would have been a second timer:    *)
(* the freeze of a run-out and the stall of a finished hand were keys that *)
(* outlived their timer.                                                   *)
KeyMeansPending ==
  dropped \/
  /\ actor.run.key # Nowhere => actor.run.timer \/ mail[RunoutCommand] > 0
  /\ actor.next.key # Nowhere =>
       actor.next.timer \/ mail[NextCommand] > 0 \/ actor.next.arms > MaxArms

(* The last arms of a finished hand are used up.                           *)
Stalled == actor.next.arms > MaxArms

(* The actor gives a finished hand up only after as many deals of that     *)
(* hand failed, however often it is looked at in between.                  *)
StallsOnlyAfterFailures == Stalled /\ actor.cached = position => failures >= MaxArms

(* A timeout was spent on a turn that is still on the clock: its key is    *)
(* never cleared, and nothing arms it again.                               *)
LostTurn ==
  /\ actor.cached # Nowhere /\ Kind(actor.cached) = "turn"
  /\ actor.turn.key = TurnKey(actor.cached)
  /\ ~actor.turn.timer /\ mail[TurnCommand(Who(actor.cached))] = 0

(* A cache that is trusted says that no hand is played, and nobody says    *)
(* otherwise.                                                              *)
Asleep == trusts /\ ~signal /\ actor.cached # Nowhere /\ Kind(actor.cached) = "waiting"

(* Nothing more is owed to the table, of what the code promises.           *)
GivenUp == Kind(position) = "waiting" \/ Stalled \/ Asleep \/ dropped

(* Whatever a hand waits for, the table moves on without its players, be   *)
(* it after failed loads and commits, lost announcements, an open circuit  *)
(* or a restart; but not past a turn whose timeout failed, a hand given    *)
(* up, or a timer that a full mailbox refused.                             *)
KeepsMoving ==
  []<><<TRUE>>_position \/ []<>(LostTurn \/ GivenUp)
=============================================================================
