--------------------------- MODULE TableTimersProofs --------------------------
(***************************************************************************)
(* Theorems about the timers of a table: hands of any shape, any number of *)
(* retries, arms, queued commands and faults.                              *)
(***************************************************************************)
EXTENDS TableTimers, TLAPS

(* A turn's timer is armed for somebody.                                   *)
TurnType ==
  {turn \in [key : {NoTurn} \cup {TurnKey(pos) : pos \in Positions}, timer : BOOLEAN] :
     turn.timer => turn.key[1] \in Players}
RunType  == [key : {Nowhere} \cup {RunoutKey(pos) : pos \in Positions}, timer : BOOLEAN,
             retries : 0..MaxRetries]
NextType == [key : {Nowhere} \cup {Hand(pos) : pos \in Positions}, timer : BOOLEAN,
             retries : 0..MaxRetries, arms : 0..(MaxArms + 1),
             hand : {Nowhere} \cup {Hand(pos) : pos \in Positions}]
ActorType == [cached : Positions \cup {Nowhere}, turn : TurnType, run : RunType, next : NextType]

(* A key is there for a timer, or for a command that waits for the actor;  *)
(* or the last arms are used up.                                           *)
RunPends(run, queued) == run.key # Nowhere => run.timer \/ queued > 0
NextPends(next, queued) == next.key # Nowhere => next.timer \/ queued > 0 \/ next.arms > MaxArms

(* An actor of the right type whose keys are there for something.          *)
Sound(a, runs, nexts) == a \in ActorType /\ RunPends(a.run, runs) /\ NextPends(a.next, nexts)

----------------------------------------------------------------------------
(* Arming and retrying                                                     *)

LEMMA ArmTurnTyped ==
  ASSUME NEW turn \in TurnType, NEW pos \in Positions
  PROVE  ArmTurn(turn, pos) \in TurnType
<1>1. Kind(pos) = "turn" => TurnKey(pos)[1] \in Players
  BY ShapeAssumption DEF TurnKey, Players
<1> QED  BY <1>1 DEF ArmTurn, TurnType

LEMMA ArmRunoutPends ==
  ASSUME NEW run \in RunType, NEW pos \in Positions, NEW queued, RunPends(run, queued)
  PROVE  ArmRunout(run, pos) \in RunType /\ RunPends(ArmRunout(run, pos), queued)
<1>1. CASE Kind(pos) # "runout"
  BY <1>1 DEF ArmRunout, RunType, RunPends
<1>2. CASE Kind(pos) = "runout" /\ run.key = RunoutKey(pos)
  BY <1>2 DEF ArmRunout
<1>3. CASE Kind(pos) = "runout" /\ run.key # RunoutKey(pos)
  BY <1>3 DEF ArmRunout, RunType, RunPends
<1> QED  BY <1>1, <1>2, <1>3

LEMMA ArmNextPends ==
  ASSUME NEW next \in NextType, NEW pos \in Positions, NEW queued, NextPends(next, queued)
  PROVE  ArmNext(next, pos) \in NextType /\ NextPends(ArmNext(next, pos), queued)
<1>1. MaxArms \in Nat \ {0}
  BY ShapeAssumption
<1>2. CASE Kind(pos) # "complete"
  <2>1. 0 \in 0..(MaxArms + 1)
    BY <1>1
  <2>2. Disarmed(next) \in NextType /\ Disarmed(next).key = Nowhere
    BY <2>1 DEF Disarmed, NextType
  <2> QED  BY <1>2, <2>2 DEF ArmNext, NextPends
<1>3. CASE Kind(pos) = "complete" /\ next.key = Hand(pos)
  BY <1>3 DEF ArmNext
<1>4. CASE Kind(pos) = "complete" /\ next.key # Hand(pos)
  <2> DEFINE arms == ArmsFor(next, pos)
             more == IF arms <= MaxArms THEN arms + 1 ELSE next.arms
  <2>1. arms \in 0..(MaxArms + 1) /\ (arms > 0 => arms = next.arms)
    BY <1>1 DEF ArmsFor, NextType
  <2>2. more \in 0..(MaxArms + 1) /\ (arms < MaxArms \/ more > MaxArms)
    BY <1>1, <2>1 DEF NextType
  <2>3. ArmNext(next, pos) =
          [next EXCEPT !.key = Hand(pos), !.hand = Hand(pos), !.timer = @ \/ arms < MaxArms, !.arms = more]
    BY <1>4 DEF ArmNext, ArmAgain
  <2> HIDE DEF arms, more
  <2>4. CASE arms < MaxArms
    <3>1. ArmNext(next, pos) =
            [next EXCEPT !.key = Hand(pos), !.hand = Hand(pos), !.timer = TRUE, !.arms = more]
      BY <2>3, <2>4
    <3> QED  BY <2>2, <3>1 DEF NextType, NextPends
  <2>5. CASE ~(arms < MaxArms)
    <3>1. ArmNext(next, pos) =
            [next EXCEPT !.key = Hand(pos), !.hand = Hand(pos), !.timer = next.timer, !.arms = more]
      BY <2>3, <2>5 DEF NextType
    <3> QED  BY <2>2, <2>5, <3>1 DEF NextType, NextPends
  <2> QED  BY <2>4, <2>5
<1> QED  BY <1>2, <1>3, <1>4

LEMMA LoadedSound ==
  ASSUME NEW a, NEW runs, NEW nexts, Sound(a, runs, nexts), NEW pos \in Positions
  PROVE  Sound(Loaded(a, pos), runs, nexts)
<1>1. a.turn \in TurnType /\ a.run \in RunType /\ a.next \in NextType
  BY DEF Sound, ActorType
<1> QED  BY <1>1, ArmTurnTyped, ArmRunoutPends, ArmNextPends DEF Sound, Loaded, ActorType

LEMMA RearmedSound ==
  ASSUME NEW a, NEW runs, NEW nexts, Sound(a, runs, nexts), a.cached \in Positions
  PROVE  Sound(Rearmed(a), runs, nexts)
<1>1. a.turn \in TurnType /\ a.run \in RunType /\ a.next \in NextType
  BY DEF Sound, ActorType
<1> QED  BY <1>1, ArmTurnTyped, ArmRunoutPends, ArmNextPends DEF Sound, Rearmed, ActorType

LEMMA RetrySound ==
  ASSUME NEW a, NEW runs, NEW nexts, Sound(a, runs, nexts)
  PROVE  Sound(RetryRunout(a), runs, nexts) /\ Sound(RetryNext(a), runs, nexts)
<1>1. a \in ActorType /\ a.run \in RunType /\ a.next \in NextType /\ MaxRetries \in Nat
  BY ShapeAssumption DEF Sound, ActorType
<1>2. Retried(a.run) \in RunType /\ RunPends(Retried(a.run), runs)
  <2>1. a.run.retries \in 0..MaxRetries
    BY <1>1 DEF RunType
  <2>2. CASE a.run.retries >= MaxRetries
    BY <1>1, <2>1, <2>2 DEF Retried, RunType, RunPends, Sound
  <2>3. CASE ~(a.run.retries >= MaxRetries)
    <3>1. a.run.retries + 1 \in 0..MaxRetries
      BY <1>1, <2>1, <2>3
    <3> QED  BY <1>1, <2>3, <3>1 DEF Retried, RunType, RunPends
  <2> QED  BY <2>2, <2>3
<1>3. Retried(a.next) \in NextType /\ NextPends(Retried(a.next), nexts)
  <2>1. a.next.retries \in 0..MaxRetries
    BY <1>1 DEF NextType
  <2>2. CASE a.next.retries >= MaxRetries
    BY <1>1, <2>1, <2>2 DEF Retried, NextType, NextPends, Sound
  <2>3. CASE ~(a.next.retries >= MaxRetries)
    <3>1. a.next.retries + 1 \in 0..MaxRetries
      BY <1>1, <2>1, <2>3
    <3> QED  BY <1>1, <2>3, <3>1 DEF Retried, NextType, NextPends
  <2> QED  BY <2>2, <2>3
<1> QED  BY <1>1, <1>2, <1>3 DEF Sound, RetryRunout, RetryNext, ActorType

LEMMA CachedSound ==
  ASSUME NEW a, NEW runs, NEW nexts, Sound(a, runs, nexts), NEW c \in Positions \cup {Nowhere}
  PROVE  Sound([a EXCEPT !.cached = c], runs, nexts)
BY DEF Sound, ActorType

LEMMA ResetSound ==
  ASSUME NEW a, NEW runs, NEW nexts, Sound(a, runs, nexts)
  PROVE  /\ Sound([a EXCEPT !.run.retries = 0], runs, nexts)
         /\ Sound([a EXCEPT !.next.retries = 0], runs, nexts)
<1>1. a \in ActorType /\ a.run \in RunType /\ a.next \in NextType /\ 0 \in 0..MaxRetries
  BY ShapeAssumption DEF Sound, ActorType
<1>2. [a.run EXCEPT !.retries = 0] \in RunType /\ [a.next EXCEPT !.retries = 0] \in NextType
  BY <1>1 DEF RunType, NextType
<1> QED  BY <1>1, <1>2 DEF Sound, ActorType, RunPends, NextPends, RunType, NextType

(* The handler's first step: the key of the timer that sent the command.   *)
LEMMA KeylessSound ==
  ASSUME NEW a, NEW runs, NEW nexts, NEW queued, Sound(a, runs, nexts)
  PROVE  /\ Sound(WithoutRunoutKey(a), queued, nexts)
         /\ Sound(WithoutNextKey(a), runs, queued)
<1>1. a \in ActorType /\ a.run \in RunType /\ a.next \in NextType
  BY DEF Sound, ActorType
<1>2. [a.run EXCEPT !.key = Nowhere] \in RunType /\ [a.next EXCEPT !.key = Nowhere] \in NextType
  BY <1>1 DEF RunType, NextType
<1> QED  BY <1>1, <1>2
  DEF Sound, WithoutRunoutKey, WithoutNextKey, ActorType, RunPends, NextPends, RunType, NextType

LEMMA MoreQueuedSound ==
  ASSUME NEW a, NEW runs, NEW nexts, Sound(a, runs, nexts), NEW moreRuns, NEW moreNexts,
         runs > 0 => moreRuns > 0, nexts > 0 => moreNexts > 0
  PROVE  Sound(a, moreRuns, moreNexts)
BY DEF Sound, RunPends, NextPends

----------------------------------------------------------------------------
(* What is known of the table beside the actor                             *)

Around ==
  /\ position \in Positions
  /\ mail \in [Commands -> 0..MaxQueued]
  /\ signal \in BOOLEAN /\ trusts \in BOOLEAN /\ dropped \in BOOLEAN
  /\ circuit \in Circuits /\ faults \in 0..MaxFaults /\ failures \in 0..MaxArms

(* A command that a full mailbox refused counts as one that still waits.   *)
Waiting(c) == IF dropped THEN 1 ELSE mail[c]

Inv == Around /\ Sound(actor, Waiting(RunoutCommand), Waiting(NextCommand))

LEMMA InitInv == Init => Inv
<1> SUFFICES ASSUME Init PROVE Inv
  OBVIOUS
<1>1. MaxRetries \in Nat /\ MaxArms \in Nat /\ MaxQueued \in Nat /\ MaxFaults \in Nat /\ Start \in Positions
  BY ShapeAssumption
<1>2. Around
  <2>1. mail \in [Commands -> 0..MaxQueued]
    BY <1>1 DEF Init, Empty
  <2>2. circuit \in Circuits
    BY DEF Init, Circuits, Closed
  <2>3. faults \in 0..MaxFaults /\ failures \in 0..MaxArms
    BY <1>1 DEF Init
  <2>4. position \in Positions /\ signal \in BOOLEAN /\ trusts \in BOOLEAN /\ dropped \in BOOLEAN
    BY <1>1 DEF Init
  <2> QED  BY <2>1, <2>2, <2>3, <2>4 DEF Around
<1>3. 0 \in 0..MaxRetries /\ 0 \in 0..(MaxArms + 1)
  BY <1>1
<1>4. Fresh \in ActorType
  <2>1. Fresh.turn \in TurnType
    BY DEF Fresh, TurnType
  <2> QED  BY <1>3, <2>1 DEF Fresh, ActorType, RunType, NextType
<1> QED  BY <1>2, <1>4 DEF Init, Inv, Sound, Fresh, RunPends, NextPends

LEMMA CommandsDiffer ==
  /\ RunoutCommand \in Commands /\ NextCommand \in Commands /\ RunoutCommand # NextCommand
  /\ \A p \in Players : /\ TurnCommand(p) \in Commands
                        /\ TurnCommand(p) # RunoutCommand /\ TurnCommand(p) # NextCommand
BY DEF Commands, RunoutCommand, NextCommand, TurnCommand

LEMMA CircuitTyped ==
  ASSUME NEW c \in Circuits
  PROVE  /\ AfterSuccess(c) \in Circuits /\ AfterRejection(c) \in Circuits
         /\ AfterOutage(c) \in Circuits /\ Cooled(c) \in Circuits
<1>1. c.rejections + 1 \in Nat
  BY DEF Circuits
<1> QED  BY <1>1 DEF Circuits, AfterSuccess, AfterRejection, AfterOutage, Cooled, Closed, Opened

LEMMA FaultyTyped ==
  ASSUME Around, NEW n \in Nat, Faulty(n)
  PROVE  faults' \in 0..MaxFaults
BY ShapeAssumption DEF Around, Faulty

LEMMA CostTyped == \A pos : Cost(pos) \in Nat /\ Cost(pos) + 1 \in Nat
BY DEF Cost

LEMMA CountedTyped ==
  ASSUME Around, NEW failed, Counted(failed)
  PROVE  failures' \in 0..MaxArms
<1>1. MaxArms \in Nat
  BY ShapeAssumption
<1> QED  BY <1>1 DEF Around, Counted

(* The row after a commit, whoever made it.                                *)
LEMMA CommitTyped ==
  ASSUME Around, NEW pos \in Positions, Accepted(pos) \/ Beaten(pos)
  PROVE  position' = pos /\ circuit' \in Circuits /\ signal' \in BOOLEAN
BY CircuitTyped DEF Around, Accepted, Beaten

LEMMA UndecidedTyped ==
  ASSUME Around, Undecided
  PROVE  /\ position' \in Positions /\ circuit' \in Circuits /\ signal' \in BOOLEAN
         /\ faults' \in 0..MaxFaults
<1>1. Follows[position] \subseteq Positions
  BY ShapeAssumption DEF Around
<1>2. CASE Throttled
  BY <1>2 DEF Around, Throttled
<1>3. CASE Unanswered
  BY <1>1, <1>3, CircuitTyped, FaultyTyped DEF Around, Unanswered
<1> QED  BY <1>2, <1>3 DEF Undecided

LEMMA QuietTyped ==
  ASSUME Around, Quiet \/ Unread
  PROVE  /\ position' \in Positions /\ circuit' \in Circuits /\ signal' \in BOOLEAN
         /\ faults' \in 0..MaxFaults
BY FaultyTyped DEF Around, Quiet, Unread

(* A command that is served leaves the others where they are.              *)
LEMMA Served ==
  ASSUME Around, NEW c \in Commands, Serves(c) \/ UNCHANGED mail
  PROVE  mail' \in [Commands -> 0..MaxQueued] /\ \A d \in Commands \ {c} : mail'[d] = mail[d]
<1>1. MaxQueued \in Nat /\ mail[c] \in 0..MaxQueued
  BY ShapeAssumption DEF Around
<1>2. CASE UNCHANGED mail
  BY <1>2 DEF Around
<1>3. CASE Serves(c)
  <2>1. mail[c] - 1 \in 0..MaxQueued
    BY <1>1, <1>3 DEF Serves
  <2> QED  BY <1>3, <2>1 DEF Around, Serves
<1> QED  BY <1>2, <1>3

LEMMA Sent ==
  ASSUME Around, NEW c \in Commands, Fires(c)
  PROVE  /\ mail' \in [Commands -> 0..MaxQueued] /\ mail'[c] > 0
         /\ \A d \in Commands : mail'[d] >= mail[d]
<1>1. MaxQueued \in Nat /\ \A d \in Commands : mail[d] \in 0..MaxQueued
  BY ShapeAssumption DEF Around
<1>2. mail[c] + 1 \in 0..MaxQueued
  BY <1>1 DEF Fires
<1>3. mail' = [mail EXCEPT ![c] = mail[c] + 1]
  BY DEF Fires, Sends
<1> QED  BY <1>1, <1>2, <1>3 DEF Around

----------------------------------------------------------------------------
(* The timers fire                                                         *)

LEMMA StoppedSound ==
  ASSUME NEW a, NEW runs, NEW nexts, Sound(a, runs, nexts)
  PROVE  /\ Sound([a EXCEPT !.turn.timer = FALSE], runs, nexts)
         /\ \A queued : queued > 0 => Sound([a EXCEPT !.run.timer = FALSE], queued, nexts)
         /\ \A queued : queued > 0 => Sound([a EXCEPT !.next.timer = FALSE], runs, queued)
<1>1. a \in ActorType /\ a.turn \in TurnType /\ a.run \in RunType /\ a.next \in NextType
  BY DEF Sound, ActorType
<1>2. /\ [a.turn EXCEPT !.timer = FALSE] \in TurnType
      /\ [a.run EXCEPT !.timer = FALSE] \in RunType
      /\ [a.next EXCEPT !.timer = FALSE] \in NextType
  BY <1>1 DEF TurnType, RunType, NextType
<1> QED  BY <1>1, <1>2 DEF Sound, ActorType, RunPends, NextPends

LEMMA FireInv ==
  ASSUME Inv, FireTurn \/ FireRunout \/ FireNext
  PROVE  Inv'
<1> USE DEF Waiting
<1>1. Around /\ Sound(actor, Waiting(RunoutCommand), Waiting(NextCommand))
  BY DEF Inv
<1>2. \A c \in Commands : mail[c] \in Nat
  BY <1>1, ShapeAssumption DEF Around
<1>3. ASSUME NEW c \in Commands, Fires(c)
      PROVE  /\ Around' /\ Waiting(c)' > 0
             /\ \A d \in Commands : Waiting(d) > 0 => Waiting(d)' > 0
  <2>1. Around'
    BY <1>1, <1>3, Sent DEF Around, Fires
  <2>2. mail'[c] > 0 /\ (\A d \in Commands : mail'[d] >= mail[d]) /\ mail' \in [Commands -> 0..MaxQueued]
    BY <1>1, <1>3, Sent
  <2>3. dropped' = dropped
    BY <1>3 DEF Fires
  <2>4. \A d \in Commands : mail'[d] \in Nat
    BY <2>2, ShapeAssumption
  <2> QED  BY <1>2, <2>1, <2>2, <2>3, <2>4
<1>4. ASSUME IsRefused
      PROVE  Around' /\ \A d \in Commands : Waiting(d)' > 0
  BY <1>1, <1>4, ShapeAssumption DEF Around, IsRefused
<1>5. CASE FireTurn
  <2>1. Sound([actor EXCEPT !.turn.timer = FALSE], Waiting(RunoutCommand), Waiting(NextCommand))
    BY <1>1, StoppedSound
  <2>2. actor.turn.key[1] \in Players
    BY <1>1, <1>5 DEF Sound, ActorType, TurnType, FireTurn
  <2>3. PICK p \in Players : p = actor.turn.key[1]
    BY <2>2
  <2>4. /\ actor' = [actor EXCEPT !.turn.timer = FALSE]
        /\ Fires(TurnCommand(p)) \/ IsRefused
    BY <1>5, <2>3 DEF FireTurn
  <2>5. Around' /\ \A c \in {RunoutCommand, NextCommand} : Waiting(c) > 0 => Waiting(c)' > 0
    BY <1>3, <1>4, <2>4, CommandsDiffer
  <2> QED  BY <2>1, <2>4, <2>5 DEF Inv, Sound, RunPends, NextPends
<1>6. CASE FireRunout
  <2>1. PICK queued : queued = Waiting(RunoutCommand)'
    OBVIOUS
  <2>2. Around' /\ queued > 0 /\ (Waiting(NextCommand) > 0 => Waiting(NextCommand)' > 0)
    BY <1>3, <1>4, <1>6, <2>1, CommandsDiffer DEF FireRunout
  <2>3. Sound([actor EXCEPT !.run.timer = FALSE], queued, Waiting(NextCommand))
    BY <1>1, <2>2, StoppedSound
  <2>4. actor' = [actor EXCEPT !.run.timer = FALSE]
    BY <1>6 DEF FireRunout
  <2> QED  BY <2>1, <2>2, <2>3, <2>4 DEF Inv, Sound, NextPends
<1>7. CASE FireNext
  <2>1. PICK queued : queued = Waiting(NextCommand)'
    OBVIOUS
  <2>2. Around' /\ queued > 0 /\ (Waiting(RunoutCommand) > 0 => Waiting(RunoutCommand)' > 0)
    BY <1>3, <1>4, <1>7, <2>1, CommandsDiffer DEF FireNext
  <2>3. Sound([actor EXCEPT !.next.timer = FALSE], Waiting(RunoutCommand), queued)
    BY <1>1, <2>2, StoppedSound
  <2>4. actor' = [actor EXCEPT !.next.timer = FALSE]
    BY <1>7 DEF FireNext
  <2> QED  BY <2>1, <2>2, <2>3, <2>4 DEF Inv, Sound, RunPends
<1> QED  BY <1>5, <1>6, <1>7

----------------------------------------------------------------------------
(* The handlers                                                            *)

(* What a handler can make of an actor a without the key of its timer, of  *)
(* b, which is a after a load, and of done, which is b without retries.    *)
Outcomes(a, b, done) ==
  {[a EXCEPT !.cached = Nowhere], [b EXCEPT !.cached = Nowhere], done}
    \cup {Loaded(done, pos) : pos \in Positions}
    \cup {[done EXCEPT !.cached = pos] : pos \in Positions}

LEMMA OutcomesSound ==
  ASSUME NEW a, NEW b, NEW done, NEW runs, NEW nexts,
         Sound(a, runs, nexts), Sound(b, runs, nexts), Sound(done, runs, nexts),
         NEW c \in Outcomes(a, b, done)
  PROVE  Sound(c, runs, nexts)
BY CachedSound, LoadedSound DEF Outcomes

LEMMA RunoutInv ==
  ASSUME Inv, HandleRunoutStep
  PROVE  Inv'
<1> DEFINE a == WithoutRunoutKey(actor)
           b == Loaded(a, position)
           done == [b EXCEPT !.run.retries = 0]
<1>1. Around /\ Sound(actor, Waiting(RunoutCommand), Waiting(NextCommand)) /\ position \in Positions
  BY DEF Inv, Around
<1>2. PICK runs, nexts : runs = Waiting(RunoutCommand)' /\ nexts = Waiting(NextCommand)'
  OBVIOUS
<1>3. /\ Serves(RunoutCommand) \/ UNCHANGED mail
      /\ UNCHANGED <<trusts, dropped>> /\ Counted(FALSE)
  BY DEF HandleRunoutStep, RunoutStep, ServesLate
<1>4. /\ mail' \in [Commands -> 0..MaxQueued] /\ nexts = Waiting(NextCommand)
      /\ failures' \in 0..MaxArms
  BY <1>1, <1>2, <1>3, Served, CountedTyped, CommandsDiffer DEF Waiting
<1>5. Sound(a, runs, nexts) /\ Sound(b, runs, nexts)
  BY <1>1, <1>4, KeylessSound, LoadedSound
<1>6. Sound(done, runs, nexts)
  BY <1>5, ResetSound
<1>7. Sound(RetryRunout(a), runs, nexts) /\ Sound(RetryRunout(b), runs, nexts)
  BY <1>5, RetrySound
<1>8. /\ actor' \in Outcomes(a, b, done) \cup {RetryRunout(a), RetryRunout(b)}
      /\ \/ Quiet \/ Unread \/ Undecided
         \/ \E pos \in Positions, n \in Nat : (Accepted(pos) \/ Beaten(pos)) /\ Faulty(n)
  <2> HIDE DEF a, b, done
  <2>1. RunoutStep
    BY DEF HandleRunoutStep
  <2>2. \/ Panics(a) \/ Panics(b) \/ (Unread /\ actor' = RetryRunout(a))
        \/ Quiet /\ actor' = done
        \/ \E pos \in Positions :
              \/ Accepted(pos) /\ Faulty(0) /\ actor' = Loaded(done, pos)
              \/ Accepted(pos) /\ Faulty(1) /\ actor' = [done EXCEPT !.cached = pos]
              \/ Beaten(pos) /\ Faulty(Cost(pos)) /\ actor' = Loaded(done, pos)
        \/ /\ Undecided \/ \E pos \in Positions : Beaten(pos) /\ Faulty(Cost(pos) + 1)
           /\ actor' = RetryRunout(b)
    BY <2>1 DEF RunoutStep, a, b, done
  <2>3. CASE Panics(a) \/ Panics(b) \/ (Unread /\ actor' = RetryRunout(a)) \/ (Quiet /\ actor' = done)
    BY <2>3 DEF Panics, Outcomes
  <2>4. ASSUME NEW pos \in Positions,
               \/ Accepted(pos) /\ Faulty(0) /\ actor' = Loaded(done, pos)
               \/ Accepted(pos) /\ Faulty(1) /\ actor' = [done EXCEPT !.cached = pos]
               \/ Beaten(pos) /\ Faulty(Cost(pos)) /\ actor' = Loaded(done, pos)
        PROVE  /\ actor' \in Outcomes(a, b, done)
               /\ \E n \in Nat : (Accepted(pos) \/ Beaten(pos)) /\ Faulty(n)
    BY <2>4, CostTyped DEF Outcomes
  <2>5. CASE /\ Undecided \/ \E pos \in Positions : Beaten(pos) /\ Faulty(Cost(pos) + 1)
             /\ actor' = RetryRunout(b)
    BY <2>5, CostTyped
  <2> QED  BY <2>2, <2>3, <2>4, <2>5
<1> HIDE DEF a, b, done
<1>9. Sound(actor', runs, nexts)
  BY <1>5, <1>6, <1>7, <1>8, OutcomesSound
<1>10. /\ position' \in Positions /\ circuit' \in Circuits /\ signal' \in BOOLEAN
       /\ faults' \in 0..MaxFaults
  BY <1>1, <1>8, QuietTyped, UndecidedTyped, CommitTyped, FaultyTyped
<1>11. trusts' \in BOOLEAN /\ dropped' \in BOOLEAN
  BY <1>1, <1>3 DEF Around
<1> QED  BY <1>2, <1>4, <1>9, <1>10, <1>11 DEF Inv, Around

LEMMA NextHandInv ==
  ASSUME Inv, HandleNextHand
  PROVE  Inv'
<1> DEFINE a == WithoutNextKey(actor)
           b == Loaded(a, position)
           done == [b EXCEPT !.next.retries = 0]
<1>1. Around /\ Sound(actor, Waiting(RunoutCommand), Waiting(NextCommand)) /\ position \in Positions
  BY DEF Inv, Around
<1>2. PICK runs, nexts : runs = Waiting(RunoutCommand)' /\ nexts = Waiting(NextCommand)'
  OBVIOUS
<1>3. /\ Serves(NextCommand) \/ UNCHANGED mail
      /\ UNCHANGED <<trusts, dropped>> /\ (Counted(FALSE) \/ Counted(TRUE))
  BY DEF HandleNextHand, NextHand, ServesLate
<1>4. /\ mail' \in [Commands -> 0..MaxQueued] /\ runs = Waiting(RunoutCommand)
      /\ failures' \in 0..MaxArms
  BY <1>1, <1>2, <1>3, Served, CountedTyped, CommandsDiffer DEF Waiting
<1>5. Sound(a, runs, nexts) /\ Sound(b, runs, nexts)
  BY <1>1, <1>4, KeylessSound, LoadedSound
<1>6. Sound(done, runs, nexts)
  BY <1>5, ResetSound
<1>7. Sound(RetryNext(a), runs, nexts) /\ Sound(RetryNext(b), runs, nexts)
  BY <1>5, RetrySound
<1>8. /\ actor' \in Outcomes(a, b, done) \cup {RetryNext(a), RetryNext(b)}
      /\ \/ Quiet \/ Unread \/ Undecided
         \/ \E pos \in Positions, n \in Nat : (Accepted(pos) \/ Beaten(pos)) /\ Faulty(n)
  <2> HIDE DEF a, b, done
  <2>1. NextHand
    BY DEF HandleNextHand
  <2>2. \/ Panics(a) \/ Panics(b) \/ (Unread /\ actor' = RetryNext(a))
        \/ Quiet /\ actor' = done
        \/ \E pos \in Positions :
              \/ Accepted(pos) /\ Faulty(0) /\ actor' = Loaded(done, pos)
              \/ Beaten(pos) /\ Faulty(Cost(pos)) /\ actor' = Loaded(done, pos)
        \/ /\ Undecided \/ \E pos \in Positions : Beaten(pos) /\ Faulty(Cost(pos) + 1)
           /\ actor' = RetryNext(b)
    BY <2>1 DEF NextHand, a, b, done
  <2>3. CASE Panics(a) \/ Panics(b) \/ (Unread /\ actor' = RetryNext(a)) \/ (Quiet /\ actor' = done)
    BY <2>3 DEF Panics, Outcomes
  <2>4. ASSUME NEW pos \in Positions,
               \/ Accepted(pos) /\ Faulty(0) /\ actor' = Loaded(done, pos)
               \/ Beaten(pos) /\ Faulty(Cost(pos)) /\ actor' = Loaded(done, pos)
        PROVE  /\ actor' \in Outcomes(a, b, done)
               /\ \E n \in Nat : (Accepted(pos) \/ Beaten(pos)) /\ Faulty(n)
    BY <2>4, CostTyped DEF Outcomes
  <2>5. CASE /\ Undecided \/ \E pos \in Positions : Beaten(pos) /\ Faulty(Cost(pos) + 1)
             /\ actor' = RetryNext(b)
    BY <2>5, CostTyped
  <2> QED  BY <2>2, <2>3, <2>4, <2>5
<1> HIDE DEF a, b, done
<1>9. Sound(actor', runs, nexts)
  BY <1>5, <1>6, <1>7, <1>8, OutcomesSound
<1>10. /\ position' \in Positions /\ circuit' \in Circuits /\ signal' \in BOOLEAN
       /\ faults' \in 0..MaxFaults
  BY <1>1, <1>8, QuietTyped, UndecidedTyped, CommitTyped, FaultyTyped
<1>11. trusts' \in BOOLEAN /\ dropped' \in BOOLEAN
  BY <1>1, <1>3 DEF Around
<1> QED  BY <1>2, <1>4, <1>9, <1>10, <1>11 DEF Inv, Around

(* A timeout of p's turn says nothing of the other two timers.             *)
LEMMA TimeoutInv ==
  ASSUME Inv, NEW p \in Players, HandleTurnTimeout(p)
  PROVE  Inv'
<1> DEFINE b == Loaded(actor, position)
<1>1. Around /\ Sound(actor, Waiting(RunoutCommand), Waiting(NextCommand)) /\ position \in Positions
  BY DEF Inv, Around
<1>2. PICK runs, nexts : runs = Waiting(RunoutCommand) /\ nexts = Waiting(NextCommand)
  OBVIOUS
<1>3. Serves(TurnCommand(p)) /\ TurnTimeout(p) /\ UNCHANGED <<trusts, dropped>> /\ Counted(FALSE)
  BY DEF HandleTurnTimeout
<1>4. /\ mail' \in [Commands -> 0..MaxQueued] /\ failures' \in 0..MaxArms
      /\ runs = Waiting(RunoutCommand)' /\ nexts = Waiting(NextCommand)'
  BY <1>1, <1>2, <1>3, Served, CountedTyped, CommandsDiffer DEF Waiting
<1>5. Sound(actor, runs, nexts) /\ Sound(b, runs, nexts)
  BY <1>1, <1>2, LoadedSound
<1>6. /\ Sound(actor', runs, nexts)
      /\ position' \in Positions /\ circuit' \in Circuits /\ signal' \in BOOLEAN
      /\ faults' \in 0..MaxFaults
  <2> HIDE DEF b
  <2>1. \/ Panics(actor) \/ Panics(b) \/ (Unread /\ UNCHANGED actor) \/ (Quiet /\ actor' = b)
        \/ Undecided /\ actor' = b
        \/ \E pos \in Positions :
             \/ Accepted(pos) /\ Faulty(0) /\ actor' = Loaded(b, pos)
             \/ Beaten(pos) /\ Faulty(Cost(pos)) /\ actor' = Loaded(b, pos)
             \/ Beaten(pos) /\ Faulty(Cost(pos) + 1) /\ actor' = b
             \/ SecondTry(p, pos)
    BY <1>3 DEF TurnTimeout, b
  <2>2. CASE Panics(actor) \/ Panics(b) \/ (Unread /\ UNCHANGED actor) \/ (Quiet /\ actor' = b)
    BY <1>1, <1>5, <2>2, QuietTyped, CachedSound DEF Panics
  <2>3. CASE Undecided /\ actor' = b
    BY <1>1, <1>5, <2>3, UndecidedTyped
  <2>4. ASSUME NEW pos \in Positions,
               \/ Accepted(pos) /\ Faulty(0) /\ actor' = Loaded(b, pos)
               \/ Beaten(pos) /\ Faulty(Cost(pos)) /\ actor' = Loaded(b, pos)
               \/ Beaten(pos) /\ Faulty(Cost(pos) + 1) /\ actor' = b
        PROVE  /\ Sound(actor', runs, nexts)
               /\ position' \in Positions /\ circuit' \in Circuits /\ signal' \in BOOLEAN
               /\ faults' \in 0..MaxFaults
    BY <1>1, <1>5, <2>4, CommitTyped, CostTyped, FaultyTyped, LoadedSound
  <2>5. ASSUME NEW pos \in Positions, SecondTry(p, pos)
        PROVE  /\ Sound(actor', runs, nexts)
               /\ position' \in Positions /\ circuit' \in Circuits /\ signal' \in BOOLEAN
               /\ faults' \in 0..MaxFaults
    <3> DEFINE late == Loaded(b, pos)
    <3>1. Sound(late, runs, nexts)
      BY <1>5, LoadedSound
    <3>2. Follows[pos] \subseteq Positions
      BY ShapeAssumption
    <3>3. /\ position' \in Follows[pos] \cup {pos} /\ actor' \in {late, Loaded(late, position')}
          /\ signal' \in {TRUE, signal}
          /\ Faulty(Cost(pos)) \/ Faulty(Cost(pos) + 1)
          /\ circuit' \in {AfterSuccess(AfterRejection(circuit)), AfterRejection(AfterRejection(circuit)),
                          AfterRejection(circuit)}
      BY <2>5 DEF SecondTry, b
    <3> HIDE DEF late
    <3>4. position' \in Positions
      BY <3>2, <3>3
    <3>5. Sound(actor', runs, nexts)
      BY <3>1, <3>3, <3>4, LoadedSound
    <3>6. circuit' \in Circuits /\ signal' \in BOOLEAN
      BY <1>1, <3>3, CircuitTyped DEF Around
    <3>7. faults' \in 0..MaxFaults
      BY <1>1, <3>3, CostTyped, FaultyTyped
    <3> QED  BY <3>4, <3>5, <3>6, <3>7
  <2> QED  BY <2>1, <2>2, <2>3, <2>4, <2>5
<1>7. trusts' \in BOOLEAN /\ dropped' \in BOOLEAN
  BY <1>1, <1>3 DEF Around
<1> QED  BY <1>4, <1>6, <1>7 DEF Inv, Around

----------------------------------------------------------------------------
(* What else looks at the table, or moves it                               *)

LEMMA WatchInv ==
  ASSUME Inv, Sweep \/ ExternalChange
  PROVE  Inv'
<1>1. Around /\ Sound(actor, Waiting(RunoutCommand), Waiting(NextCommand)) /\ position \in Positions
  BY DEF Inv, Around
<1>2. PICK runs, nexts : runs = Waiting(RunoutCommand) /\ nexts = Waiting(NextCommand)
  OBVIOUS
<1>3. Sound(actor, runs, nexts) /\ Sound(Loaded(actor, position), runs, nexts)
  BY <1>1, <1>2, LoadedSound
<1>4. CASE Sweep
  <2>1. UNCHANGED <<mail, trusts, failures, dropped>> /\ (Quiet \/ Unread)
    BY <1>4 DEF Sweep
  <2>2. Sound(actor', runs, nexts)
    <3>1. Loaded(actor, position).cached = position
      BY DEF Loaded
    <3>2. actor.cached # Nowhere => actor.cached \in Positions
      BY <1>3 DEF Sound, ActorType
    <3> QED  BY <1>1, <1>3, <1>4, <3>1, <3>2, RearmedSound DEF Sweep, Swept
  <2>3. Around'
    BY <1>1, <2>1, QuietTyped DEF Around
  <2> QED  BY <1>2, <2>1, <2>2, <2>3 DEF Inv, Waiting
<1>5. CASE ExternalChange
  <2>1. UNCHANGED <<position, mail, trusts, circuit, failures, dropped>> /\ signal' = FALSE
    BY <1>5 DEF ExternalChange
  <2>2. faults' \in 0..MaxFaults
    BY <1>1, <1>5, FaultyTyped DEF ExternalChange
  <2>3. Sound(actor', runs, nexts)
    BY <1>3, <1>5 DEF ExternalChange
  <2>4. Around'
    BY <1>1, <2>1, <2>2 DEF Around
  <2> QED  BY <1>2, <2>1, <2>3, <2>4 DEF Inv, Waiting
<1> QED  BY <1>4, <1>5

LEMMA MoveInv ==
  ASSUME Inv, NEW pos \in Positions, LocalCommand(pos) \/ SiblingMoves(pos)
  PROVE  Inv'
<1>1. Around /\ Sound(actor, Waiting(RunoutCommand), Waiting(NextCommand)) /\ position \in Positions
  BY DEF Inv, Around
<1>2. PICK runs, nexts : runs = Waiting(RunoutCommand) /\ nexts = Waiting(NextCommand)
  OBVIOUS
<1>3. CASE LocalCommand(pos)
  <2> DEFINE fresh == IF trusts /\ actor.cached = position THEN actor ELSE Loaded(actor, position)
  <2>1. Sound(fresh, runs, nexts)
    BY <1>1, <1>2, LoadedSound
  <2>2. /\ position' = pos /\ circuit' = AfterSuccess(circuit) /\ actor' = Loaded(fresh, pos)
        /\ Counted(FALSE) /\ UNCHANGED <<mail, signal, trusts, faults, dropped>>
    BY <1>3 DEF LocalCommand
  <2> HIDE DEF fresh
  <2>3. Sound(actor', runs, nexts)
    BY <2>1, <2>2, LoadedSound
  <2>4. Around'
    BY <1>1, <2>2, CircuitTyped, CountedTyped DEF Around
  <2> QED  BY <1>2, <2>2, <2>3, <2>4 DEF Inv, Waiting
<1>4. CASE SiblingMoves(pos)
  <2>1. /\ position' = pos /\ signal' \in BOOLEAN
        /\ Counted(FALSE) /\ UNCHANGED <<actor, mail, trusts, circuit, faults, dropped>>
    BY <1>1, <1>4 DEF SiblingMoves, Around
  <2>2. Around'
    BY <1>1, <2>1, CountedTyped DEF Around
  <2> QED  BY <1>1, <2>1, <2>2 DEF Inv, Waiting
<1> QED  BY <1>3, <1>4

LEMMA RestartInv ==
  ASSUME Inv, Cooldown \/ Restart
  PROVE  Inv'
<1>1. Around /\ Sound(actor, Waiting(RunoutCommand), Waiting(NextCommand))
  BY DEF Inv
<1>2. CASE Cooldown
  <2>1. Around'
    BY <1>1, <1>2, CircuitTyped DEF Around, Cooldown
  <2> QED  BY <1>1, <1>2, <2>1 DEF Inv, Cooldown, Waiting
<1>3. CASE Restart
  <2>1. MaxQueued \in Nat /\ 0 \in 0..MaxRetries /\ 0 \in 0..(MaxArms + 1)
    BY ShapeAssumption
  <2>2. mail' \in [Commands -> 0..MaxQueued] /\ circuit' \in Circuits /\ faults' \in 0..MaxFaults
    BY <1>1, <1>3, <2>1, FaultyTyped DEF Restart, Empty, Circuits, Closed
  <2>3. Around'
    BY <1>1, <1>3, <2>2 DEF Around, Restart
  <2>4. Fresh \in ActorType
    <3>1. Fresh.turn \in TurnType
      BY DEF Fresh, TurnType
    <3> QED  BY <2>1, <3>1 DEF Fresh, ActorType, RunType, NextType
  <2>5. actor' = Fresh /\ Fresh.run.key = Nowhere /\ Fresh.next.key = Nowhere
    BY <1>3 DEF Restart, Fresh
  <2> QED  BY <2>3, <2>4, <2>5 DEF Inv, Sound, RunPends, NextPends
<1> QED  BY <1>2, <1>3

LEMMA StepInv == Inv /\ [Next]_vars => Inv'
<1> SUFFICES ASSUME Inv, [Next]_vars PROVE Inv'
  OBVIOUS
<1>1. CASE FireTurn \/ FireRunout \/ FireNext
  BY <1>1, FireInv
<1>2. CASE HandleRunoutStep
  BY <1>2, RunoutInv
<1>3. CASE HandleNextHand
  BY <1>3, NextHandInv
<1>4. ASSUME NEW p \in Players, HandleTurnTimeout(p) PROVE Inv'
  BY <1>4, TimeoutInv
<1>5. CASE Sweep \/ ExternalChange
  BY <1>5, WatchInv
<1>6. CASE Cooldown \/ Restart
  BY <1>6, RestartInv
<1>7. ASSUME NEW pos \in Positions, LocalCommand(pos) \/ SiblingMoves(pos) PROVE Inv'
  BY <1>7, MoveInv
<1>8. CASE UNCHANGED vars
  BY <1>8 DEF vars, Inv, Around, Waiting
<1> QED  BY <1>1, <1>2, <1>3, <1>4, <1>5, <1>6, <1>7, <1>8 DEF Next

----------------------------------------------------------------------------
(* The arms of a finished hand                                             *)

(* q comes after p, in every order of the positions that Follows allows.   *)
Left(p, q) ==
  \A later \in SUBSET Positions :
    /\ Follows[p] \subseteq later \cup {p}
    /\ \A r \in later : Follows[r] \subseteq later
    => q \in later

Since(p, q) == q = p \/ Left(p, q)

(* The arms used up, and the one to come when the key is cleared.          *)
Spent(next) == next.arms + (IF next.key = Nowhere THEN 1 ELSE 0)

(* The key and the arms are those of one hand, and the table, which is at  *)
(* pos, has been where that hand was over.                                 *)
OfOneHand(next, pos) ==
  /\ next.key \in {Nowhere, next.hand}
  /\ next.hand = Nowhere => next.arms = 0
  /\ next.hand # Nowhere =>
       \E p \in Positions : Kind(p) = "complete" /\ Hand(p) = next.hand /\ Since(p, pos)

(* Every arm after the first stands for a deal that failed, of n.          *)
Paid(next, pos, n) ==
  Kind(pos) = "complete" /\ next.hand = Hand(pos) => n >= MaxArms \/ Spent(next) <= n + 1

(* The cache is of a position the table has been at, and the arms are of   *)
(* its hand.                                                               *)
OfCache(cached, hand, pos) ==
  cached # Nowhere =>
    /\ hand = Nowhere \/ (Kind(cached) = "complete" /\ hand = Hand(cached))
    /\ Kind(cached) = "complete" => Since(cached, pos)

(* The actor a fits a table at pos, of which n deals have failed.          *)
Fits(a, pos, n) ==
  /\ Sound(a, 1, 1)
  /\ OfOneHand(a.next, pos) /\ Paid(a.next, pos, n) /\ OfCache(a.cached, a.next.hand, pos)

(* The row moves on, and what came before came before.                     *)
LEMMA SinceMoves ==
  ASSUME NEW p \in Positions, NEW pos \in Positions, Since(p, pos), NEW q \in Follows[pos] \cup {pos}
  PROVE  Since(p, q)
BY DEF Since, Left

(* A hand that is over and left is never over again.                       *)
LEMMA LeftForGood ==
  ASSUME NEW p \in Positions, Kind(p) = "complete", NEW q \in Positions, Left(p, q),
         Kind(q) = "complete"
  PROVE  Hand(q) # Hand(p)
<1> PICK later \in SUBSET Positions :
      /\ Follows[p] \subseteq later \cup {p}
      /\ \A r \in later : /\ Follows[r] \subseteq later
                          /\ Kind(r) = "complete" => Hand(r) # Hand(p)
  BY OverAssumption
<1>1. q \in later
  BY DEF Left
<1> QED  BY <1>1

LEMMA SinceIs ==
  ASSUME NEW p \in Positions, Kind(p) = "complete", NEW q \in Positions, Kind(q) = "complete",
         Since(p, q), Hand(p) = Hand(q)
  PROVE  p = q
BY LeftForGood DEF Since

(* Wherever the table goes on to, the actor fits it: with the failures it  *)
(* had or more where it is, and with none elsewhere.                       *)
LEMMA MovedFits ==
  ASSUME NEW a, NEW pos \in Positions, NEW n \in Nat, Fits(a, pos, n),
         NEW q \in Follows[pos] \cup {pos}, NEW m \in Nat, q = pos => m >= n
  PROVE  q \in Positions /\ Fits(a, q, m)
<1>1. q \in Positions
  BY ShapeAssumption
<1>2. OfOneHand(a.next, q)
  <2>1. OfOneHand(a.next, pos)
    BY DEF Fits
  <2> QED  BY <1>1, <2>1, SinceMoves DEF OfOneHand
<1>3. OfCache(a.cached, a.next.hand, q)
  <2>1. OfCache(a.cached, a.next.hand, pos) /\ (a.cached # Nowhere => a.cached \in Positions)
    BY DEF Fits, Sound, ActorType
  <2> QED  BY <1>1, <2>1, SinceMoves DEF OfCache
<1>4. Paid(a.next, q, m)
  <2>1. Paid(a.next, pos, n) /\ a.next.arms \in Nat
    BY ShapeAssumption DEF Fits, Sound, ActorType, NextType
  <2>2. CASE q = pos
    <3>1. Spent(a.next) \in Nat /\ MaxArms \in Nat
      BY <2>1, ShapeAssumption DEF Spent
    <3> QED  BY <2>1, <2>2, <3>1 DEF Paid
  <2>3. CASE q # pos
    <3> SUFFICES ASSUME Kind(q) = "complete", a.next.hand = Hand(q) PROVE FALSE
      BY DEF Paid
    <3>1. a.next.hand # Nowhere
      BY <1>1, ShapeAssumption
    <3>2. PICK p \in Positions : Kind(p) = "complete" /\ Hand(p) = Hand(q) /\ Since(p, pos)
      BY <3>1 DEF Fits, OfOneHand
    <3>3. Left(p, q)
      BY <2>3, <3>2 DEF Since, Left
    <3> QED  BY <1>1, <3>2, <3>3, LeftForGood
  <2> QED  BY <2>2, <2>3
<1> QED  BY <1>1, <1>2, <1>3, <1>4 DEF Fits

(* Arming for a position the table has been at.                            *)
LEMMA ArmFits ==
  ASSUME NEW next \in NextType, NEW pos \in Positions, NEW n \in Nat,
         OfOneHand(next, pos), Paid(next, pos, n),
         NEW c \in Positions, Kind(c) = "complete" => Since(c, pos)
  PROVE  /\ OfOneHand(ArmNext(next, c), pos) /\ Paid(ArmNext(next, c), pos, n)
         /\ OfCache(c, ArmNext(next, c).hand, pos)
<1>1. MaxArms \in Nat \ {0} /\ next.arms \in Nat /\ Hand(c) # Nowhere /\ Hand(pos) # Nowhere
  BY ShapeAssumption DEF NextType
<1>2. CASE Kind(c) # "complete"
  <2>1. /\ ArmNext(next, c).key = Nowhere /\ ArmNext(next, c).hand = Nowhere
        /\ ArmNext(next, c).arms = 0
    BY <1>2 DEF ArmNext, Disarmed, NextType
  <2> QED  BY <1>1, <1>2, <2>1 DEF OfOneHand, Paid, OfCache
<1>3. CASE Kind(c) = "complete" /\ next.key = Hand(c)
  <2>1. ArmNext(next, c) = next /\ next.hand = Hand(c)
    BY <1>1, <1>3 DEF ArmNext, OfOneHand
  <2> QED  BY <1>3, <2>1 DEF OfCache
<1>4. CASE Kind(c) = "complete" /\ next.key # Hand(c)
  <2> DEFINE m    == ArmNext(next, c)
             arms == ArmsFor(next, c)
  <2>1. m.key = Hand(c) /\ m.hand = Hand(c)
    BY <1>4 DEF ArmNext, ArmAgain, NextType
  <2>2. m.arms = IF arms <= MaxArms THEN arms + 1 ELSE next.arms
    BY <1>4 DEF ArmNext, ArmAgain, NextType
  <2>3. Since(c, pos)
    BY <1>4
  <2> HIDE DEF m
  <2>4. Spent(m) = m.arms
    BY <1>1, <2>1, <2>2 DEF Spent, ArmsFor
  <2>5. OfOneHand(m, pos) /\ OfCache(c, m.hand, pos)
    BY <1>1, <1>4, <2>1, <2>3 DEF OfOneHand, OfCache
  <2>6. Paid(m, pos, n)
    <3> SUFFICES ASSUME Kind(pos) = "complete", m.hand = Hand(pos), ~(n >= MaxArms)
                 PROVE  m.arms <= n + 1
      BY <2>4 DEF Paid
    <3>1. CASE next.hand = Hand(c)
      <4>1. next.key = Nowhere /\ next.hand = Hand(pos)
        BY <1>4, <2>1, <3>1 DEF OfOneHand
      <4>2. next.arms + 1 <= n + 1
        BY <4>1 DEF Paid, Spent
      <4> QED  BY <1>1, <2>2, <3>1, <4>2 DEF ArmsFor
    <3>2. CASE next.hand # Hand(c)
      BY <1>1, <2>2, <3>2 DEF ArmsFor
    <3> QED  BY <3>1, <3>2
  <2> QED  BY <2>5, <2>6 DEF m
<1> QED  BY <1>2, <1>3, <1>4

LEMMA LoadedFits ==
  ASSUME NEW a, NEW pos \in Positions, NEW n \in Nat, Fits(a, pos, n)
  PROVE  Fits(Loaded(a, pos), pos, n)
<1>1. Sound(Loaded(a, pos), 1, 1) /\ a.next \in NextType
  BY LoadedSound DEF Fits, Sound, ActorType
<1>2. Loaded(a, pos).next = ArmNext(a.next, pos) /\ Loaded(a, pos).cached = pos
  BY DEF Loaded
<1> QED  BY <1>1, <1>2, ArmFits DEF Fits, Since

LEMMA RearmedFits ==
  ASSUME NEW a, NEW pos \in Positions, NEW n \in Nat, Fits(a, pos, n), a.cached \in Positions
  PROVE  Fits(Rearmed(a), pos, n)
<1>1. Sound(Rearmed(a), 1, 1) /\ a \in ActorType /\ a.next \in NextType
  BY RearmedSound DEF Fits, Sound, ActorType
<1>2. Rearmed(a).next = ArmNext(a.next, a.cached) /\ Rearmed(a).cached = a.cached
  BY <1>1 DEF Rearmed, ActorType
<1>3. Kind(a.cached) = "complete" => Since(a.cached, pos)
  BY ShapeAssumption DEF Fits, OfCache
<1> QED  BY <1>1, <1>2, <1>3, ArmFits DEF Fits

(* Steps that leave the key, the hand and the arms as they are.            *)
LEMMA SameFits ==
  ASSUME NEW a, NEW pos, NEW n, Fits(a, pos, n), NEW b, Sound(b, 1, 1),
         b.next.key = a.next.key, b.next.hand = a.next.hand, b.next.arms = a.next.arms,
         b.cached \in {Nowhere, a.cached}
  PROVE  Fits(b, pos, n)
BY DEF Fits, OfOneHand, Paid, Spent, OfCache

LEMMA ForgottenFits ==
  ASSUME NEW a, NEW pos, NEW n, Fits(a, pos, n)
  PROVE  Fits([a EXCEPT !.cached = Nowhere], pos, n)
<1>1. Sound([a EXCEPT !.cached = Nowhere], 1, 1) /\ a \in ActorType
  BY CachedSound DEF Fits, Sound
<1> QED  BY <1>1, SameFits DEF ActorType

LEMMA RetryFits ==
  ASSUME NEW a, NEW pos, NEW n, Fits(a, pos, n)
  PROVE  Fits(RetryRunout(a), pos, n) /\ Fits(RetryNext(a), pos, n)
<1>1. Sound(RetryRunout(a), 1, 1) /\ Sound(RetryNext(a), 1, 1) /\ a \in ActorType /\ a.next \in NextType
  BY RetrySound DEF Fits, Sound, ActorType
<1>2. RetryRunout(a).next = a.next /\ RetryRunout(a).cached = a.cached
  BY <1>1 DEF RetryRunout, ActorType
<1>3. RetryNext(a).next = Retried(a.next) /\ RetryNext(a).cached = a.cached
  BY <1>1 DEF RetryNext, ActorType
<1>4. /\ Retried(a.next).key = a.next.key /\ Retried(a.next).hand = a.next.hand
      /\ Retried(a.next).arms = a.next.arms
  BY <1>1 DEF Retried, NextType
<1> QED  BY <1>1, <1>2, <1>3, <1>4, SameFits

LEMMA ResetFits ==
  ASSUME NEW a, NEW pos, NEW n, Fits(a, pos, n)
  PROVE  Fits([a EXCEPT !.run.retries = 0], pos, n) /\ Fits([a EXCEPT !.next.retries = 0], pos, n)
<1>1. /\ Sound([a EXCEPT !.run.retries = 0], 1, 1) /\ Sound([a EXCEPT !.next.retries = 0], 1, 1)
      /\ a \in ActorType /\ a.next \in NextType
  BY ResetSound DEF Fits, Sound, ActorType
<1>2. /\ [a EXCEPT !.run.retries = 0].next = a.next /\ [a EXCEPT !.run.retries = 0].cached = a.cached
      /\ [a EXCEPT !.next.retries = 0].next = [a.next EXCEPT !.retries = 0]
      /\ [a EXCEPT !.next.retries = 0].cached = a.cached
  BY <1>1 DEF ActorType
<1>3. /\ [a.next EXCEPT !.retries = 0].key = a.next.key /\ [a.next EXCEPT !.retries = 0].hand = a.next.hand
      /\ [a.next EXCEPT !.retries = 0].arms = a.next.arms
  BY <1>1 DEF NextType
<1> QED  BY <1>1, <1>2, <1>3, SameFits

LEMMA RunKeylessFits ==
  ASSUME NEW a, NEW pos, NEW n, Fits(a, pos, n)
  PROVE  Fits(WithoutRunoutKey(a), pos, n)
<1>1. Sound(WithoutRunoutKey(a), 1, 1) /\ a \in ActorType
  BY KeylessSound DEF Fits, Sound
<1>2. WithoutRunoutKey(a).next = a.next /\ WithoutRunoutKey(a).cached = a.cached
  BY <1>1 DEF WithoutRunoutKey, ActorType
<1> QED  BY <1>1, <1>2, SameFits

(* The handler of a deal clears the key, and will have failed once more;   *)
(* or the hand is not over.                                                *)
LEMMA NextKeylessFits ==
  ASSUME NEW a, NEW pos \in Positions, NEW n \in Nat, Fits(a, pos, n), NEW m \in Nat,
         Kind(pos) # "complete" \/ m >= MaxArms \/ m >= n + 1
  PROVE  Fits(WithoutNextKey(a), pos, m)
<1>1. Sound(WithoutNextKey(a), 1, 1) /\ a \in ActorType /\ a.next \in NextType
  BY KeylessSound DEF Fits, Sound, ActorType
<1>2. /\ WithoutNextKey(a).next = [a.next EXCEPT !.key = Nowhere] /\ WithoutNextKey(a).cached = a.cached
  BY <1>1 DEF WithoutNextKey, ActorType
<1>3. /\ WithoutNextKey(a).next.key = Nowhere /\ WithoutNextKey(a).next.hand = a.next.hand
      /\ WithoutNextKey(a).next.arms = a.next.arms
  BY <1>1, <1>2 DEF NextType
<1>4. OfOneHand(WithoutNextKey(a).next, pos) /\ OfCache(WithoutNextKey(a).cached, WithoutNextKey(a).next.hand, pos)
  BY <1>2, <1>3 DEF Fits, OfOneHand, OfCache
<1>5. Paid(WithoutNextKey(a).next, pos, m)
  <2>1. a.next.arms \in 0..(MaxArms + 1) /\ MaxArms \in Nat
    BY <1>1, ShapeAssumption DEF NextType
  <2>2. Paid(a.next, pos, n) /\ Spent(a.next) >= a.next.arms
    BY <2>1 DEF Fits, Spent
  <2>3. Spent(WithoutNextKey(a).next) = a.next.arms + 1
    BY <1>3 DEF Spent
  <2> QED  BY <1>3, <2>1, <2>2, <2>3 DEF Paid, Spent
<1> QED  BY <1>1, <1>4, <1>5 DEF Fits

(* A cache that is set without arming, when no hand is counted.            *)
LEMMA CachedFits ==
  ASSUME NEW a, NEW pos \in Positions, NEW n, Fits(a, pos, n), a.next.hand = Nowhere
  PROVE  Fits([a EXCEPT !.cached = pos], pos, n)
<1>1. Sound([a EXCEPT !.cached = pos], 1, 1) /\ a \in ActorType
  BY CachedSound DEF Fits, Sound
<1>2. [a EXCEPT !.cached = pos].next = a.next /\ [a EXCEPT !.cached = pos].cached = pos
  BY <1>1 DEF ActorType
<1> QED  BY <1>1, <1>2 DEF Fits, OfCache, Since

LEMMA FreshFits ==
  ASSUME NEW pos \in Positions, NEW n, Sound(Fresh, 1, 1)
  PROVE  Fits(Fresh, pos, n)
BY ShapeAssumption DEF Fits, Fresh, OfOneHand, Paid, OfCache

(* The invariant: the actor fits the row and the deals that failed.        *)
ArmsInv == Inv /\ Fits(actor, position, failures)

LEMMA ArmsAre ==
  ASSUME ArmsInv
  PROVE  /\ Fits(actor, position, failures) /\ position \in Positions
         /\ failures \in Nat /\ failures <= MaxArms /\ MaxArms \in Nat \ {0}
         /\ \A pos \in Positions : Follows[pos] \subseteq Positions
BY ShapeAssumption DEF ArmsInv, Inv, Around

(* What the history of failures says after a step that moved the row to    *)
(* pos, or left it there.                                                  *)
LEMMA CountedIs ==
  ASSUME ArmsInv, Counted(FALSE)
  PROVE  failures' \in Nat /\ (position' = position => failures' >= failures)
BY ArmsAre DEF Counted

(* An actor that fits the row before a step fits it after the step, and    *)
(* loads it.                                                               *)
LEMMA StepFits ==
  ASSUME ArmsInv, Counted(FALSE), position' \in Follows[position] \cup {position},
         NEW a, Fits(a, position, failures)
  PROVE  Fits(a, position', failures') /\ Fits(Loaded(a, position'), position', failures')
<1>1. /\ position \in Positions /\ failures \in Nat /\ failures' \in Nat
      /\ position' = position => failures' >= failures
  BY ArmsAre, CountedIs
<1>2. position' \in Positions /\ Fits(a, position', failures')
  BY <1>1, MovedFits
<1> QED  BY <1>1, <1>2, LoadedFits

LEMMA FireArms ==
  ASSUME ArmsInv, FireTurn \/ FireRunout \/ FireNext
  PROVE  Fits(actor', position', failures')
<1>1. /\ Fits(actor, position, failures) /\ actor \in ActorType /\ actor.next \in NextType
      /\ Sound(actor, 1, 1)
  BY ArmsAre DEF Fits, Sound, ActorType
<1>2. UNCHANGED <<position, failures>>
  BY DEF FireTurn, FireRunout, FireNext, Fires, IsRefused
<1>3. actor' \in {[actor EXCEPT !.turn.timer = FALSE], [actor EXCEPT !.run.timer = FALSE],
                  [actor EXCEPT !.next.timer = FALSE]}
  BY DEF FireTurn, FireRunout, FireNext
<1>4. Sound(actor', 1, 1)
  <2>1. Sound([actor EXCEPT !.turn.timer = FALSE], 1, 1)
    BY <1>1, StoppedSound
  <2>2. \A queued : queued > 0 => Sound([actor EXCEPT !.run.timer = FALSE], queued, 1)
    BY <1>1, StoppedSound
  <2>3. \A queued : queued > 0 => Sound([actor EXCEPT !.next.timer = FALSE], 1, queued)
    BY <1>1, StoppedSound
  <2>4. 1 > 0
    OBVIOUS
  <2> QED  BY <1>3, <2>1, <2>2, <2>3, <2>4
<1>5. /\ actor'.next \in {actor.next, [actor.next EXCEPT !.timer = FALSE]}
      /\ actor'.cached = actor.cached
  BY <1>1, <1>3 DEF ActorType
<1>6. /\ actor'.next.key = actor.next.key /\ actor'.next.hand = actor.next.hand
      /\ actor'.next.arms = actor.next.arms
  BY <1>1, <1>5 DEF NextType
<1> QED  BY <1>1, <1>2, <1>4, <1>5, <1>6, SameFits

(* The row after a commit, whoever made it, and after none.                *)
LEMMA RowMoves ==
  ASSUME ArmsInv
  PROVE  /\ \A pos \in Positions : Accepted(pos) \/ Beaten(pos) =>
              position' = pos /\ pos \in Follows[position] \cup {position}
         /\ Quiet \/ Unread => position' = position
         /\ Undecided => position' \in Follows[position] \cup {position}
BY DEF Accepted, Beaten, Quiet, Unread, Undecided, Throttled, Unanswered

LEMMA RunoutArms ==
  ASSUME ArmsInv, HandleRunoutStep
  PROVE  Fits(actor', position', failures')
<1> DEFINE a == WithoutRunoutKey(actor)
           b == Loaded(a, position)
           done == [b EXCEPT !.run.retries = 0]
<1>1. position \in Positions /\ failures \in Nat /\ Counted(FALSE)
  BY ArmsAre DEF HandleRunoutStep
<1>2. Fits(a, position, failures) /\ Fits(b, position, failures) /\ Fits(done, position, failures)
  BY <1>1, ArmsAre, RunKeylessFits, LoadedFits, ResetFits
<1>3. Kind(position) = "runout" => done.next.hand = Nowhere
  <2>1. b.next = ArmNext(a.next, position) /\ a.next \in NextType
    BY <1>2 DEF Loaded, Fits, Sound, ActorType
  <2>2. Kind(position) = "runout" => b.next.hand = Nowhere
    BY <2>1 DEF ArmNext, Disarmed, NextType
  <2>3. done.next = b.next
    BY <1>2 DEF Fits, Sound, ActorType
  <2> QED  BY <2>2, <2>3
<1> HIDE DEF a, b, done
<1>4. \/ Quiet /\ actor' = done
      \/ Unread /\ actor' \in {[a EXCEPT !.cached = Nowhere], [b EXCEPT !.cached = Nowhere], RetryRunout(a)}
      \/ \E pos \in Positions : (Accepted(pos) \/ Beaten(pos)) /\ actor' \in {Loaded(done, pos), RetryRunout(b)}
      \/ \E pos \in Positions : /\ Accepted(pos) /\ Kind(position) = "runout"
                                /\ actor' = [done EXCEPT !.cached = pos]
      \/ Undecided /\ actor' = RetryRunout(b)
  <2>1. RunoutStep
    BY DEF HandleRunoutStep
  <2> QED  BY <2>1 DEF RunoutStep, Panics, a, b, done
<1>5. CASE \/ Quiet /\ actor' = done
           \/ Unread /\ actor' \in {[a EXCEPT !.cached = Nowhere], [b EXCEPT !.cached = Nowhere], RetryRunout(a)}
  <2>1. Fits(actor', position, failures)
    BY <1>2, <1>5, ForgottenFits, RetryFits
  <2> QED  BY <1>1, <1>5, <2>1, RowMoves, StepFits
<1>6. ASSUME NEW pos \in Positions, Accepted(pos) \/ Beaten(pos),
             actor' \in {Loaded(done, pos), RetryRunout(b)}
      PROVE  Fits(actor', position', failures')
  <2>1. position' = pos /\ position' \in Follows[position] \cup {position}
    BY <1>6, RowMoves
  <2>2. Fits(RetryRunout(b), position, failures)
    BY <1>2, RetryFits
  <2> QED  BY <1>1, <1>2, <1>6, <2>1, <2>2, StepFits
<1>7. ASSUME NEW pos \in Positions, Accepted(pos), Kind(position) = "runout",
             actor' = [done EXCEPT !.cached = pos]
      PROVE  Fits(actor', position', failures')
  <2>1. position' = pos /\ position' \in Follows[position] \cup {position}
    BY <1>7, RowMoves
  <2>2. Fits(done, position', failures')
    BY <1>1, <1>2, <2>1, StepFits
  <2> QED  BY <1>3, <1>7, <2>1, <2>2, CachedFits
<1>8. CASE Undecided /\ actor' = RetryRunout(b)
  BY <1>1, <1>2, <1>8, RetryFits, RowMoves, StepFits
<1> QED  BY <1>4, <1>5, <1>6, <1>7, <1>8

(* A deal that fails is counted, and pays for the arm that its command     *)
(* makes room for.                                                         *)
LEMMA NextHandArms ==
  ASSUME ArmsInv, HandleNextHand
  PROVE  Fits(actor', position', failures')
<1> DEFINE a == WithoutNextKey(actor)
           b == Loaded(a, position)
           done == [b EXCEPT !.next.retries = 0]
<1> PICK n : n = IF Kind(position) = "complete" /\ failures < MaxArms THEN failures + 1 ELSE failures
  OBVIOUS
<1>1. /\ position \in Positions /\ failures \in Nat /\ n \in Nat
      /\ Kind(position) # "complete" \/ n >= MaxArms \/ n >= failures + 1
  BY ArmsAre
<1>2. Fits(a, position, n) /\ Fits(b, position, n) /\ Fits(done, position, n)
  BY <1>1, ArmsAre, NextKeylessFits, LoadedFits, ResetFits
<1>3. failures' \in Nat /\ (position' = position => failures' >= n)
  <2>1. CASE Kind(position) # "complete"
    <3>1. n = failures /\ (Counted(FALSE) \/ Counted(TRUE))
      BY <2>1 DEF HandleNextHand, NextHand
    <3> QED  BY <1>1, <3>1 DEF Counted
  <2>2. CASE Kind(position) = "complete"
    <3>1. Counted(TRUE)
      BY <2>2 DEF HandleNextHand, NextHand
    <3> QED  BY <1>1, <2>2, <3>1 DEF Counted
  <2> QED  BY <2>1, <2>2
<1> HIDE DEF a, b, done
<1>4. ASSUME position' \in Follows[position] \cup {position}, NEW c, Fits(c, position, n)
      PROVE  Fits(c, position', failures') /\ Fits(Loaded(c, position'), position', failures')
  <2>1. position' \in Positions /\ Fits(c, position', failures')
    BY <1>1, <1>3, <1>4, MovedFits
  <2> QED  BY <1>3, <2>1, LoadedFits
<1>5. \/ Quiet /\ actor' = done
      \/ Unread /\ actor' \in {[a EXCEPT !.cached = Nowhere], [b EXCEPT !.cached = Nowhere], RetryNext(a)}
      \/ \E pos \in Positions : (Accepted(pos) \/ Beaten(pos)) /\ actor' \in {Loaded(done, pos), RetryNext(b)}
      \/ Undecided /\ actor' = RetryNext(b)
  <2>1. NextHand
    BY DEF HandleNextHand
  <2> QED  BY <2>1 DEF NextHand, Panics, a, b, done
<1>6. CASE \/ Quiet /\ actor' = done
           \/ Unread /\ actor' \in {[a EXCEPT !.cached = Nowhere], [b EXCEPT !.cached = Nowhere], RetryNext(a)}
  <2>1. Fits(actor', position, n)
    BY <1>2, <1>6, ForgottenFits, RetryFits
  <2> QED  BY <1>4, <1>6, <2>1, RowMoves
<1>7. ASSUME NEW pos \in Positions, Accepted(pos) \/ Beaten(pos),
             actor' \in {Loaded(done, pos), RetryNext(b)}
      PROVE  Fits(actor', position', failures')
  <2>1. position' = pos /\ position' \in Follows[position] \cup {position}
    BY <1>7, RowMoves
  <2>2. Fits(RetryNext(b), position, n)
    BY <1>2, RetryFits
  <2> QED  BY <1>2, <1>4, <1>7, <2>1, <2>2
<1>8. CASE Undecided /\ actor' = RetryNext(b)
  BY <1>2, <1>4, <1>8, RetryFits, RowMoves
<1> QED  BY <1>5, <1>6, <1>7, <1>8

LEMMA TimeoutArms ==
  ASSUME ArmsInv, NEW p \in Players, HandleTurnTimeout(p)
  PROVE  Fits(actor', position', failures')
<1> DEFINE b == Loaded(actor, position)
<1>1. position \in Positions /\ failures \in Nat /\ Counted(FALSE) /\ TurnTimeout(p)
  BY ArmsAre DEF HandleTurnTimeout
<1>2. Fits(actor, position, failures) /\ Fits(b, position, failures)
  BY <1>1, ArmsAre, LoadedFits
<1> HIDE DEF b
<1>3. \/ (Quiet \/ Unread) /\ actor' \in {b, actor, [actor EXCEPT !.cached = Nowhere], [b EXCEPT !.cached = Nowhere]}
      \/ Undecided /\ actor' = b
      \/ \E pos \in Positions : (Accepted(pos) \/ Beaten(pos)) /\ actor' \in {b, Loaded(b, pos)}
      \/ \E pos \in Positions : SecondTry(p, pos)
  BY <1>1 DEF TurnTimeout, Panics, b
<1>4. CASE (Quiet \/ Unread) /\ actor' \in {b, actor, [actor EXCEPT !.cached = Nowhere], [b EXCEPT !.cached = Nowhere]}
  <2>1. Fits(actor', position, failures)
    BY <1>2, <1>4, ForgottenFits
  <2> QED  BY <1>1, <1>4, <2>1, RowMoves, StepFits
<1>5. CASE Undecided /\ actor' = b
  BY <1>1, <1>2, <1>5, RowMoves, StepFits
<1>6. ASSUME NEW pos \in Positions, Accepted(pos) \/ Beaten(pos), actor' \in {b, Loaded(b, pos)}
      PROVE  Fits(actor', position', failures')
  <2>1. position' = pos /\ position' \in Follows[position] \cup {position}
    BY <1>6, RowMoves
  <2> QED  BY <1>1, <1>2, <1>6, <2>1, StepFits
<1>7. ASSUME NEW pos \in Positions, SecondTry(p, pos)
      PROVE  Fits(actor', position', failures')
  <2> DEFINE late == Loaded(b, pos)
  <2> PICK n : n = IF pos = position THEN failures ELSE 0
    OBVIOUS
  <2>1. /\ pos \in Follows[position] \cup {position} /\ position' \in Follows[pos] \cup {pos}
        /\ actor' \in {late, Loaded(late, position')}
    BY <1>7 DEF SecondTry, b
  <2>2. n \in Nat /\ Fits(b, pos, n)
    BY <1>1, <1>2, <2>1, MovedFits
  <2>3. Fits(late, pos, n)
    BY <2>2, LoadedFits
  <2> HIDE DEF late
  <2>4. failures' \in Nat /\ (position' = pos => failures' >= n)
    <3>1. failures' \in Nat /\ (position' = position => failures' >= failures)
      BY <1>1, CountedIs
    <3> QED  BY <1>1, <2>2, <3>1
  <2>5. position' \in Positions /\ Fits(late, position', failures')
    BY <2>1, <2>2, <2>3, <2>4, MovedFits
  <2> QED  BY <2>1, <2>4, <2>5, LoadedFits
<1> QED  BY <1>3, <1>4, <1>5, <1>6, <1>7

LEMMA WatchArms ==
  ASSUME ArmsInv, Sweep \/ ExternalChange
  PROVE  Fits(actor', position', failures')
<1>1. /\ Fits(actor, position, failures) /\ position \in Positions /\ failures \in Nat
      /\ actor.cached \in Positions \cup {Nowhere}
  BY ArmsAre DEF Fits, Sound, ActorType
<1>2. Fits(Loaded(actor, position), position, failures) /\ Loaded(actor, position).cached = position
  BY <1>1, LoadedFits DEF Loaded
<1>3. UNCHANGED <<position, failures>>
  BY DEF Sweep, ExternalChange, Quiet, Unread
<1>4. \/ actor' \in {actor, Loaded(actor, position), Rearmed(Loaded(actor, position))}
      \/ actor.cached # Nowhere /\ actor' = Rearmed(actor)
  BY DEF Sweep, ExternalChange, Swept
<1>5. Fits(Rearmed(Loaded(actor, position)), position, failures)
  BY <1>1, <1>2, RearmedFits
<1>6. actor.cached # Nowhere => Fits(Rearmed(actor), position, failures)
  BY <1>1, RearmedFits
<1> QED  BY <1>1, <1>2, <1>3, <1>4, <1>5, <1>6

LEMMA MoveArms ==
  ASSUME ArmsInv, NEW pos \in Positions, LocalCommand(pos) \/ SiblingMoves(pos)
  PROVE  Fits(actor', position', failures')
<1>1. /\ Fits(actor, position, failures) /\ position \in Positions /\ failures \in Nat
      /\ Fits(Loaded(actor, position), position, failures)
  BY ArmsAre, LoadedFits
<1>2. Counted(FALSE) /\ position' = pos /\ position' \in Follows[position] \cup {position}
  BY DEF LocalCommand, SiblingMoves
<1>3. actor' \in {actor, Loaded(actor, pos), Loaded(Loaded(actor, position), pos)}
  BY DEF LocalCommand, SiblingMoves
<1> QED  BY <1>1, <1>2, <1>3, StepFits

LEMMA RestartArms ==
  ASSUME ArmsInv, Cooldown \/ Restart \/ UNCHANGED vars, Inv'
  PROVE  Fits(actor', position', failures')
<1>1. CASE Cooldown \/ UNCHANGED vars
  BY <1>1, ArmsAre DEF Cooldown, vars
<1>2. CASE Restart
  <2>1. actor' = Fresh /\ position' \in Positions
    BY <1>2, ArmsAre DEF Restart
  <2>2. Sound(Fresh, 1, 1)
    BY <2>1 DEF Inv, Sound, RunPends, NextPends
  <2> QED  BY <2>1, <2>2, FreshFits
<1> QED  BY <1>1, <1>2

LEMMA ArmsInvHolds == Spec => []ArmsInv
<1>1. Init => ArmsInv
  <2> SUFFICES ASSUME Init PROVE ArmsInv
    OBVIOUS
  <2>1. Inv
    BY InitInv
  <2>2. actor = Fresh /\ position \in Positions
    BY ShapeAssumption DEF Init
  <2>3. Sound(Fresh, 1, 1)
    BY <2>1, <2>2 DEF Inv, Sound, RunPends, NextPends
  <2> QED  BY <2>1, <2>2, <2>3, FreshFits DEF ArmsInv
<1>2. ArmsInv /\ [Next]_vars => ArmsInv'
  <2> SUFFICES ASSUME ArmsInv, [Next]_vars PROVE ArmsInv'
    OBVIOUS
  <2>1. Inv'
    BY StepInv DEF ArmsInv
  <2>2. Fits(actor', position', failures')
    BY <2>1, FireArms, RunoutArms, NextHandArms, TimeoutArms, WatchArms, MoveArms, RestartArms DEF Next
  <2> QED  BY <2>1, <2>2 DEF ArmsInv
<1> QED  BY <1>1, <1>2, PTL DEF Spec

----------------------------------------------------------------------------
(* Theorems                                                                *)

(* Timers, keys, commands and the circuit stay what they are said to be,   *)
(* whatever fails.                                                         *)
THEOREM TypeCorrect == Spec => []TypeOK
<1>1. Inv => TypeOK
  <2> SUFFICES ASSUME Inv PROVE TypeOK
    OBVIOUS
  <2>1. Around /\ actor \in ActorType
    BY DEF Inv, Sound
  <2>2. actor \in [cached : Positions \cup {Nowhere},
                 turn : [key : {NoTurn} \cup {TurnKey(pos) : pos \in Positions}, timer : BOOLEAN],
                 run : RunType, next : NextType]
    BY <2>1 DEF ActorType, TurnType
  <2> QED  BY <2>1, <2>2 DEF Around, TypeOK, RunType, NextType
<1> QED  BY <1>1, InitInv, StepInv, PTL DEF Spec

(* A key of a run-out or of a finished hand never outlives its timer: the  *)
(* timer is armed, its command waits for the actor, or the hand is given   *)
(* up; unless a full mailbox refused a timer.  This is what clearing the   *)
(* key first thing in handleRunoutStep and handleNextHand is for.          *)
THEOREM KeysMeanPending == Spec => []KeyMeansPending
<1>1. Inv => KeyMeansPending
  BY DEF Inv, Around, Sound, Waiting, RunPends, NextPends, KeyMeansPending
<1> QED  BY <1>1, InitInv, StepInv, PTL DEF Spec

(* An actor gives a finished hand up only after as many deals of that hand *)
(* failed as it may arm timers: looking at the table, by a sweep, a load   *)
(* or an announcement, uses up no arm.                                     *)
THEOREM StallsAreEarned == Spec => []StallsOnlyAfterFailures
<1>1. ArmsInv => StallsOnlyAfterFailures
  <2> SUFFICES ASSUME ArmsInv, actor.next.arms > MaxArms, actor.cached = position
               PROVE  failures >= MaxArms
    BY DEF StallsOnlyAfterFailures, Stalled
  <2>1. /\ Fits(actor, position, failures) /\ position \in Positions /\ position # Nowhere
        /\ failures \in Nat /\ MaxArms \in Nat \ {0}
    BY ArmsAre, ShapeAssumption
  <2>2. actor.next.arms \in Nat /\ Spent(actor.next) >= actor.next.arms
    BY <2>1 DEF Fits, Sound, ActorType, NextType, Spent
  <2>3. actor.next.hand # Nowhere
    BY <2>1, <2>2 DEF Fits, OfOneHand
  <2>4. Kind(position) = "complete" /\ actor.next.hand = Hand(position)
    BY <2>1, <2>3 DEF Fits, OfCache
  <2>5. failures >= MaxArms \/ Spent(actor.next) <= failures + 1
    BY <2>1, <2>4 DEF Fits, Paid
  <2>6. Spent(actor.next) \in Nat
    BY <2>2 DEF Spent
  <2> QED  BY <2>1, <2>2, <2>5, <2>6
<1> QED  BY <1>1, ArmsInvHolds, PTL
===============================================================================
