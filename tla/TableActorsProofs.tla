-------------------------- MODULE TableActorsProofs -------------------------
(***************************************************************************)
(* Theorems about the actors of a table: any number of instances, any      *)
(* number of clients' commands, any order of decisions.                    *)
(***************************************************************************)
EXTENDS TableActors, SequenceTheorems, TLAPS

Phases == {"idle", "check", "try", "again", "reload", "outcome"}

(* What an instance may hold at once: the move it is about, how far it     *)
(* got, and its cached row.                                                *)
Good(m, at, row) ==
  /\ m.kind \in {"timeout", "deal"} => m.id = NoId
  /\ at # "idle" => row # NoRow
  /\ at = "check" => m.kind = "act"
  /\ at = "outcome" => m.kind = "outcome"
  /\ at = "try" /\ m.kind = "act" => Fresh(row, m)

Locals ==
  /\ cache \in [Instances -> Rows \cup {NoRow}]
  /\ doing \in [Instances -> Moves]
  /\ phase \in [Instances -> Phases]
  /\ \A i \in Instances : Good(doing[i], phase[i], cache[i])

Commands ==
  /\ sent \subseteq Moves /\ acked \subseteq sent
  /\ \A c \in sent : c.kind \in {"act", "peek"}

(* rs is a history of the store: version n is the n-th row.                *)
History(rs) ==
  /\ rs \in Seq(Rows) /\ rs # <<>> /\ rs[1] = FirstRow
  /\ \A n \in DOMAIN rs : rs[n].version = n

Held(rs, row) == row # NoRow => row.version \in DOMAIN rs /\ row = rs[row.version]

InLog(rs, id) == \E n \in DOMAIN rs : rs[n].entry.id = id

(* Of every guard and of every id a row remembers there is an entry, and   *)
(* of every entry with an id there is a guard.                             *)
Guarded(rs, gs) ==
  /\ gs \subseteq Nat \X (Ids \cup {OutcomeId, NoId}) \X Nat
  /\ \A g \in gs : InLog(rs, g[2])
  /\ \A n \in DOMAIN rs : \A id \in rs[n].seen : InLog(rs, id)
  /\ \A n \in DOMAIN rs : rs[n].entry.id # NoId => <<rs[n].hand, rs[n].entry.id, 0>> \in gs

(* The inductive invariant.                                                *)
IInv ==
  /\ Locals
  /\ Commands
  /\ History(rows)
  /\ Guarded(rows, guards)
  /\ \A i \in Instances : Held(rows, cache[i])
  /\ \A c \in acked : InLog(rows, c.id)
  /\ OncePerHand
  /\ FirstTryIsFresh

----------------------------------------------------------------------------
(* The engine keeps the row's type.                                        *)
LEMMA ApplyTyped ==
  ASSUME NEW row \in Rows, NEW m \in Moves, Accepts(row, m)
  PROVE  /\ Apply(row, m) \in Rows
         /\ Apply(row, m).version = row.version + 1
         /\ Apply(row, m).entry = m
         /\ m.kind # "deal" => Apply(row, m).hand = row.hand
         /\ Apply(row, m).seen \subseteq row.seen \cup {m.id}
<1> DEFINE r == Apply(row, m)
<1>1. /\ Len(Order) \in Nat /\ row.decisions \in 0 .. Len(Order)
      /\ row.version \in Nat /\ row.gameplay \in Nat /\ row.hand \in Nat
      /\ row.seen \subseteq Ids
  BY OrderAssumption DEF Rows
<1>2. Decides(m) => row.decisions + 1 \in 0 .. Len(Order)
  BY <1>1 DEF Accepts, OnClock, Over
<1>3. m.kind = "act" => m.id \in Ids
  BY DEF Accepts
<1>4. /\ r.version = row.version + 1 /\ r.entry = m
      /\ r.gameplay \in Nat /\ r.hand \in Nat
      /\ m.kind # "deal" => r.hand = row.hand
  BY <1>1 DEF Apply
<1>5. r.decisions \in 0 .. Len(Order)
  BY <1>1, <1>2 DEF Apply
<1>6. r.seen \subseteq Ids /\ r.seen \subseteq row.seen \cup {m.id}
  BY <1>1, <1>3 DEF Apply
<1>7. r = [version |-> r.version, gameplay |-> r.gameplay, hand |-> r.hand,
           decisions |-> r.decisions, seen |-> r.seen, entry |-> r.entry]
  BY DEF Apply
<1> HIDE DEF r
<1>8. r \in Rows
  BY <1>1, <1>4, <1>5, <1>6, <1>7 DEF Rows
<1> QED  BY <1>4, <1>6, <1>8 DEF r

(* What a history is after one more row.                                   *)
LEMMA HistoryGrows ==
  ASSUME NEW rs, History(rs), NEW r \in Rows, r.version = Len(rs) + 1
  PROVE  /\ History(Append(rs, r))
         /\ Len(rs) \in Nat \ {0} /\ DOMAIN rs = 1 .. Len(rs)
         /\ Len(Append(rs, r)) = Len(rs) + 1
         /\ DOMAIN Append(rs, r) = 1 .. Len(rs) + 1
         /\ \A n \in DOMAIN rs : Append(rs, r)[n] = rs[n]
         /\ Append(rs, r)[Len(rs) + 1] = r
<1> DEFINE qs == Append(rs, r)
<1>1. rs \in Seq(Rows) /\ rs # <<>>
  BY DEF History
<1>2. Len(rs) \in Nat \ {0} /\ DOMAIN rs = 1 .. Len(rs)
  BY <1>1
<1>3. /\ qs \in Seq(Rows) /\ qs # <<>> /\ Len(qs) = Len(rs) + 1
      /\ \A n \in 1 .. Len(rs) : qs[n] = rs[n]
      /\ qs[Len(rs) + 1] = r
  BY <1>1, AppendProperties
<1>4. DOMAIN qs = 1 .. Len(rs) + 1
  BY <1>3
<1> HIDE DEF qs
<1>5. \A n \in DOMAIN qs : qs[n].version = n
  BY <1>2, <1>3, <1>4 DEF History
<1>6. History(qs)
  BY <1>2, <1>3, <1>5 DEF History
<1> QED  BY <1>2, <1>3, <1>4, <1>6 DEF qs

----------------------------------------------------------------------------
(* The store                                                               *)

(* Instance i gets its move into the store.                                *)
Writes(i) ==
  /\ Attempting(i)
  /\ StoreTakes(cache[i], Logged(i)) /\ StoreWrites(cache[i], Logged(i))

(* What is logged is the move, and whether it was tried again.             *)
LEMMA LoggedFields ==
  ASSUME Locals, NEW i \in Instances
  PROVE  /\ Logged(i) \in Moves
         /\ Logged(i).kind = doing[i].kind /\ Logged(i).id = doing[i].id
         /\ Logged(i).hand = doing[i].hand /\ Logged(i).version = doing[i].version
         /\ Logged(i).player = doing[i].player
         /\ Logged(i).retried = (phase[i] = "again")
<1>1. doing[i] \in Moves
  BY DEF Locals
<1> QED  BY <1>1 DEF Moves, Logged

(* The store takes a move only on the row it holds.                        *)
LEMMA WritesOnLast ==
  ASSUME IInv, NEW i \in Instances, Writes(i)
  PROVE  /\ cache[i] = Row /\ Row \in Rows /\ Row.version = Len(rows)
         /\ Accepts(Row, Logged(i)) /\ Logged(i) \in Moves
         /\ Guard(Row, Logged(i)) \cap guards = {}
         /\ rows' = Append(rows, Apply(Row, Logged(i)))
         /\ guards' = guards \cup Guard(Row, Logged(i))
<1>1. /\ phase[i] # "idle" /\ cache[i].version = Row.version
      /\ Accepts(cache[i], Logged(i)) /\ Guard(cache[i], Logged(i)) \cap guards = {}
      /\ rows' = Append(rows, Apply(cache[i], Logged(i)))
      /\ guards' = guards \cup Guard(cache[i], Logged(i))
  BY DEF Writes, Attempting, StoreTakes, StoreWrites
<1>2. cache[i] # NoRow
  BY <1>1 DEF IInv, Locals, Good
<1>3. cache[i] = rows[cache[i].version]
  BY <1>2 DEF IInv, Held
<1>4. Row \in Rows /\ Row.version = Len(rows)
  BY DEF IInv, History, Row
<1>5. cache[i] = Row
  BY <1>1, <1>3, <1>4 DEF Row
<1> QED  BY <1>1, <1>4, <1>5, LoggedFields DEF IInv

LEMMA WriteKeepsHistory ==
  ASSUME IInv, NEW i \in Instances, Writes(i)
  PROVE  /\ History(rows') /\ Row' = Apply(Row, Logged(i))
         /\ Len(rows) \in Nat \ {0} /\ Len(rows') = Len(rows) + 1
         /\ DOMAIN rows = 1 .. Len(rows) /\ DOMAIN rows' = 1 .. Len(rows) + 1
         /\ \A n \in DOMAIN rows : rows'[n] = rows[n]
         /\ rows'[Len(rows) + 1] = Apply(Row, Logged(i))
<1> DEFINE r == Apply(Row, Logged(i))
<1>1. r \in Rows /\ r.version = Len(rows) + 1 /\ rows' = Append(rows, r)
  BY WritesOnLast, ApplyTyped
<1> HIDE DEF r
<1>2. History(rows)
  BY DEF IInv
<1>3. /\ History(rows') /\ Len(rows) \in Nat \ {0} /\ DOMAIN rows = 1 .. Len(rows)
      /\ Len(rows') = Len(rows) + 1 /\ DOMAIN rows' = 1 .. Len(rows) + 1
      /\ \A n \in DOMAIN rows : rows'[n] = rows[n]
      /\ rows'[Len(rows) + 1] = r
  BY <1>1, <1>2, HistoryGrows
<1> QED  BY <1>3 DEF Row, r

(* A move with an id of its own leaves a guard of that id.                 *)
LEMMA GuardOfId ==
  ASSUME Locals, NEW i \in Instances, NEW row \in Rows
  PROVE  LET m == Logged(i)
         IN  /\ Guard(row, m) \subseteq Nat \X (Ids \cup {OutcomeId, NoId}) \X Nat
             /\ \A g \in Guard(row, m) : g[2] = m.id
             /\ m.id # NoId => Guard(row, m) = {<<row.hand, m.id, 0>>} /\ m.kind # "deal"
<1> DEFINE m == Logged(i)
<1>1. m.id \in Ids \cup {OutcomeId, NoId}
  BY LoggedFields DEF Moves
<1>2. m.kind \in {"timeout", "deal"} => m.id = NoId
  BY LoggedFields DEF Locals, Good
<1>3. row.hand \in Nat /\ row.version \in Nat
  BY DEF Rows
<1> HIDE DEF m
<1>4. /\ Guard(row, m) \subseteq Nat \X (Ids \cup {OutcomeId, NoId}) \X Nat
      /\ \A g \in Guard(row, m) : g[2] = m.id
  BY <1>1, <1>3 DEF Guard
<1>5. m.id # NoId => Guard(row, m) = {<<row.hand, m.id, 0>>} /\ m.kind # "deal"
  BY <1>2 DEF Guard
<1> QED  BY <1>4, <1>5 DEF m

LEMMA LogGrows ==
  ASSUME IInv, NEW i \in Instances, Writes(i), NEW id
  PROVE  /\ InLog(rows, id) => InLog(rows', id)
         /\ id = doing[i].id => InLog(rows', id)
<1>1. Apply(Row, Logged(i)).entry = Logged(i)
  BY WritesOnLast, ApplyTyped
<1>2. Logged(i).id = doing[i].id
  BY LoggedFields DEF IInv
<1> QED  BY <1>1, <1>2, WriteKeepsHistory DEF InLog

LEMMA WriteKeepsGuarded ==
  ASSUME IInv, NEW i \in Instances, Writes(i)
  PROVE  Guarded(rows', guards')
<1> DEFINE m == Logged(i)
           r == Apply(Row, m)
<1>1. /\ Row \in Rows /\ guards' = guards \cup Guard(Row, m)
      /\ m.id = doing[i].id
      /\ r.seen \subseteq Row.seen \cup {m.id} /\ r.entry = m
      /\ m.kind # "deal" => r.hand = Row.hand
  BY WritesOnLast, ApplyTyped, LoggedFields DEF IInv
<1>2. /\ Guard(Row, m) \subseteq Nat \X (Ids \cup {OutcomeId, NoId}) \X Nat
      /\ \A g \in Guard(Row, m) : g[2] = m.id
      /\ m.id # NoId => Guard(Row, m) = {<<Row.hand, m.id, 0>>} /\ m.kind # "deal"
  BY <1>1, GuardOfId DEF IInv
<1>3. /\ Len(rows) \in Nat \ {0} /\ DOMAIN rows = 1 .. Len(rows)
      /\ DOMAIN rows' = 1 .. Len(rows) + 1
      /\ \A n \in DOMAIN rows : rows'[n] = rows[n]
      /\ rows'[Len(rows) + 1] = r
  BY WriteKeepsHistory
<1> HIDE DEF m, r
<1>4. guards' \subseteq Nat \X (Ids \cup {OutcomeId, NoId}) \X Nat
  BY <1>1, <1>2 DEF IInv, Guarded
<1>5. ASSUME NEW g \in guards'  PROVE  InLog(rows', g[2])
  BY <1>1, <1>2, <1>5, LogGrows DEF IInv, Guarded
<1>6. \A id \in Row.seen : InLog(rows, id)
  BY <1>3 DEF IInv, Guarded, Row
<1>7. ASSUME NEW n \in DOMAIN rows', NEW id \in rows'[n].seen
      PROVE  InLog(rows', id)
  <2>1. CASE n \in DOMAIN rows
    BY <1>3, <1>7, <2>1, LogGrows DEF IInv, Guarded
  <2>2. CASE n = Len(rows) + 1
    BY <1>1, <1>3, <1>6, <1>7, <2>2, LogGrows
  <2> QED  BY <1>3, <2>1, <2>2
<1>8. ASSUME NEW n \in DOMAIN rows', rows'[n].entry.id # NoId
      PROVE  <<rows'[n].hand, rows'[n].entry.id, 0>> \in guards'
  <2>1. CASE n \in DOMAIN rows
    BY <1>1, <1>3, <1>8, <2>1 DEF IInv, Guarded
  <2>2. CASE n = Len(rows) + 1
    BY <1>1, <1>2, <1>3, <1>8, <2>2
  <2> QED  BY <1>3, <2>1, <2>2
<1> QED  BY <1>4, <1>5, <1>7, <1>8 DEF Guarded

(* The guard was not there before: no entry of this hand has the id yet.   *)
LEMMA WriteKeepsOncePerHand ==
  ASSUME IInv, NEW i \in Instances, Writes(i)
  PROVE  OncePerHand'
<1> DEFINE m == Logged(i)
           r == Apply(Row, m)
<1>1. /\ Row \in Rows /\ Guard(Row, m) \cap guards = {}
      /\ r.entry = m /\ (m.kind # "deal" => r.hand = Row.hand)
  BY WritesOnLast, ApplyTyped DEF IInv
<1>2. m.id # NoId => Guard(Row, m) = {<<Row.hand, m.id, 0>>} /\ m.kind # "deal"
  BY <1>1, GuardOfId DEF IInv
<1>3. /\ Len(rows) \in Nat \ {0} /\ DOMAIN rows = 1 .. Len(rows)
      /\ DOMAIN rows' = 1 .. Len(rows) + 1
      /\ \A n \in DOMAIN rows : rows'[n] = rows[n]
      /\ rows'[Len(rows) + 1] = r
  BY WriteKeepsHistory
<1> HIDE DEF m, r
<1> SUFFICES ASSUME NEW j \in DOMAIN rows', NEW n \in DOMAIN rows',
                    j < n, rows'[j].entry.id = rows'[n].entry.id, rows'[n].entry.id # NoId
             PROVE  rows'[j].hand # rows'[n].hand
  BY DEF OncePerHand
<1>4. CASE n \in DOMAIN rows
  <2>1. j \in DOMAIN rows
    BY <1>3, <1>4
  <2> QED  BY <1>3, <1>4, <2>1 DEF IInv, OncePerHand
<1>5. CASE n = Len(rows) + 1
  <2>1. j \in DOMAIN rows
    BY <1>3, <1>5
  <2>2. <<rows[j].hand, m.id, 0>> \in guards
    BY <1>1, <1>3, <1>5, <2>1 DEF IInv, Guarded
  <2>3. rows[j].hand # r.hand
    BY <1>1, <1>2, <1>3, <1>5, <2>2
  <2> QED  BY <1>3, <1>5, <2>1, <2>3
<1> QED  BY <1>3, <1>4, <1>5

(* An action at the first attempt met the row it was checked against.      *)
LEMMA WriteKeepsFirstTry ==
  ASSUME IInv, NEW i \in Instances, Writes(i)
  PROVE  FirstTryIsFresh'
<1> DEFINE m == Logged(i)
           r == Apply(Row, m)
<1>1. /\ cache[i] = Row /\ r.entry = m
      /\ m.kind = doing[i].kind /\ m.hand = doing[i].hand
      /\ m.version = doing[i].version /\ m.retried = (phase[i] = "again")
  BY WritesOnLast, ApplyTyped, LoggedFields DEF IInv
<1>2. /\ Len(rows) \in Nat \ {0} /\ DOMAIN rows = 1 .. Len(rows)
      /\ DOMAIN rows' = 1 .. Len(rows) + 1
      /\ \A n \in DOMAIN rows : rows'[n] = rows[n]
      /\ rows'[Len(rows) + 1] = r
  BY WriteKeepsHistory
<1>3. m.kind = "act" /\ ~m.retried => Fresh(Row, doing[i])
  BY <1>1 DEF Writes, Attempting, IInv, Locals, Good
<1>4. rows[1].entry.kind = "seed"
  BY DEF IInv, History, FirstRow
<1> HIDE DEF m, r
<1> SUFFICES ASSUME NEW n \in DOMAIN rows', rows'[n].entry.kind = "act", ~rows'[n].entry.retried
             PROVE  /\ rows'[n].entry.hand = rows'[n - 1].hand
                    /\ rows'[n - 1].gameplay <= rows'[n].entry.version
  BY DEF FirstTryIsFresh, SeenBy
<1>5. CASE n \in DOMAIN rows
  <2>1. n - 1 \in DOMAIN rows
    BY <1>2, <1>4, <1>5
  <2> QED  BY <1>2, <1>5, <2>1 DEF IInv, FirstTryIsFresh, SeenBy
<1>6. CASE n = Len(rows) + 1
  <2>1. n - 1 \in DOMAIN rows /\ rows'[n - 1] = Row
    BY <1>2, <1>6 DEF Row
  <2> QED  BY <1>1, <1>2, <1>3, <1>6, <2>1 DEF Fresh
<1> QED  BY <1>2, <1>5, <1>6

----------------------------------------------------------------------------
(* The instances                                                           *)

(* What any step of i makes of what i holds.                               *)
Moved(i) ==
  \E m \in Moves, at \in Phases, row \in Rows \cup {NoRow} :
    Goes(i, m, at, row) /\ Good(m, at, row) /\ Held(rows', row)

Stored(i) == UNCHANGED <<rows, guards>> \/ Writes(i)

(* i takes its move to be done only if it is in the log.                   *)
Answered(i) ==
  /\ sent' = sent
  /\ \/ acked' = acked
     \/ acked' = acked \cup ({doing[i]} \cap sent) /\ InLog(rows', doing[i].id)

Stepped(i) == Moved(i) /\ Stored(i) /\ Answered(i)

(* The rows at hand are rows, and committed ones.                          *)
LEMMA AtHand ==
  ASSUME IInv, NEW i \in Instances
  PROVE  /\ Row \in Rows /\ Row # NoRow /\ Held(rows, Row) /\ Held(rows, cache[i])
         /\ cache[i] \in Rows \cup {NoRow} /\ Held(rows, NoRow)
         /\ doing[i] \in Moves /\ phase[i] \in Phases
         /\ Good(doing[i], phase[i], cache[i])
<1>1. Row \in Rows /\ Row.version = Len(rows) /\ Len(rows) \in DOMAIN rows
  BY DEF IInv, History, Row
<1>2. Row # NoRow /\ Held(rows, Row)
  BY <1>1, InstancesAssumption DEF Held, Row
<1> QED  BY <1>1, <1>2 DEF IInv, Locals, Held

LEMMA IdleMoves ==
  /\ NoMove \in Moves
  /\ \A row : Good(NoMove, "idle", row)
<1>1. NoMove \in Moves
  BY DEF NoMove, Moves, Kinds
<1> QED  BY <1>1 DEF Good, NoMove

(* A step that changes nothing but what i holds.                           *)
LEMMA QuietStep ==
  ASSUME NEW i \in Instances, Nothing,
         NEW m \in Moves, NEW at \in Phases, NEW row \in Rows \cup {NoRow},
         Goes(i, m, at, row), Good(m, at, row), Held(rows, row)
  PROVE  Stepped(i)
  BY DEF Stepped, Moved, Stored, Answered, Nothing

LEMMA QuietEnd ==
  ASSUME NEW i \in Instances, Nothing,
         NEW row \in Rows \cup {NoRow}, Ends(i, row), Held(rows, row)
  PROVE  Stepped(i)
<1>1. "idle" \in Phases /\ Goes(i, NoMove, "idle", row)
  BY DEF Ends, Phases
<1> QED  BY <1>1, IdleMoves, QuietStep

LEMMA MoveTyped ==
  ASSUME NEW kind \in Kinds, NEW p \in Players \cup {Nobody},
         NEW id \in Ids \cup {NoId, OutcomeId}, NEW row \in Rows
  PROVE  /\ Move(kind, p, id, row) \in Moves
         /\ Move(kind, p, id, row).kind = kind /\ Move(kind, p, id, row).id = id
  BY DEF Move, Moves, Rows

LEMMA OnClockTyped ==
  ASSUME NEW row \in Rows
  PROVE  OnClock(row) \in Players \cup {Nobody}
<1>1. row.decisions \in 0 .. Len(Order) /\ Len(Order) \in Nat
  BY OrderAssumption DEF Rows
<1>2. ~Over(row) => row.decisions + 1 \in 1 .. Len(Order)
  BY <1>1 DEF Over
<1> QED  BY <1>2, OrderAssumption DEF OnClock

LEMMA TakeSteps ==
  ASSUME IInv, NEW i \in Instances, NEW c \in sent, Take(i, c)
  PROVE  Stepped(i)
<1> DEFINE row == IF cache[i] = NoRow \/ i \notin Trusting THEN Row ELSE cache[i]
           at  == IF c.kind = "act" THEN "check" ELSE "try"
<1>1. /\ row \in Rows \cup {NoRow} /\ row # NoRow /\ Held(rows, row)
  BY AtHand
<1>2. c \in Moves /\ c.kind \in {"act", "peek"}
  BY DEF IInv, Commands
<1>3. Goes(i, c, at, row) /\ Nothing
  BY DEF Take
<1>4. at \in Phases /\ Good(c, at, row)
  BY <1>1, <1>2 DEF Phases, Good
<1> HIDE DEF row, at
<1> QED  BY <1>1, <1>2, <1>3, <1>4, QuietStep

LEMMA CheckActSteps ==
  ASSUME IInv, NEW i \in Instances, CheckAct(i)
  PROVE  Stepped(i)
<1> DEFINE row == IF Fresh(cache[i], doing[i]) THEN cache[i] ELSE Row
<1>1. phase[i] = "check" /\ Nothing
  BY DEF CheckAct
<1>2. /\ row \in Rows \cup {NoRow} /\ row # NoRow /\ Held(rows, row)
      /\ doing[i] \in Moves /\ doing[i].kind = "act"
  BY <1>1, AtHand DEF Good
<1>3. IF Fresh(row, doing[i]) THEN Goes(i, doing[i], "try", row) ELSE Ends(i, row)
  BY DEF CheckAct
<1> HIDE DEF row
<1>4. CASE Fresh(row, doing[i])
  <2>1. "try" \in Phases /\ Good(doing[i], "try", row)
    BY <1>2, <1>4 DEF Phases, Good
  <2> QED  BY <1>1, <1>2, <1>3, <1>4, <2>1, QuietStep
<1>5. CASE ~Fresh(row, doing[i])
  BY <1>1, <1>2, <1>3, <1>5, QuietEnd
<1> QED  BY <1>4, <1>5

LEMMA TurnTimeoutSteps ==
  ASSUME IInv, NEW i \in Instances, TurnTimeout(i)
  PROVE  Stepped(i)
<1> DEFINE m == Move("timeout", OnClock(cache[i]), NoId, cache[i])
<1>1. cache[i] \in Rows /\ Row \in Rows /\ Row # NoRow /\ Held(rows, Row) /\ Nothing
  BY AtHand DEF TurnTimeout
<1>2. m \in Moves /\ m.kind = "timeout" /\ m.id = NoId
  BY <1>1, MoveTyped, OnClockTyped DEF Kinds
<1>3. Goes(i, m, "try", Row) \/ Ends(i, Row)
  BY DEF TurnTimeout
<1> HIDE DEF m
<1>4. "try" \in Phases /\ Good(m, "try", Row)
  BY <1>1, <1>2 DEF Phases, Good
<1> QED  BY <1>1, <1>2, <1>3, <1>4, QuietStep, QuietEnd

LEMMA NextHandSteps ==
  ASSUME IInv, NEW i \in Instances, NextHand(i)
  PROVE  Stepped(i)
<1> DEFINE m == Move("deal", Nobody, NoId, Row)
<1>1. Row \in Rows /\ Row # NoRow /\ Held(rows, Row) /\ Nothing
  BY AtHand DEF NextHand
<1>2. m \in Moves /\ m.kind = "deal" /\ m.id = NoId
  BY <1>1, MoveTyped DEF Kinds
<1>3. Goes(i, m, "try", Row) \/ Ends(i, Row)
  BY DEF NextHand
<1> HIDE DEF m
<1>4. "try" \in Phases /\ Good(m, "try", Row)
  BY <1>1, <1>2 DEF Phases, Good
<1> QED  BY <1>1, <1>2, <1>3, <1>4, QuietStep, QuietEnd

LEMMA ReloadSteps ==
  ASSUME IInv, NEW i \in Instances, Reload(i)
  PROVE  Stepped(i)
<1>1. /\ Row \in Rows /\ Row # NoRow /\ Held(rows, Row) /\ Nothing
      /\ cache[i] \in Rows \cup {NoRow} /\ Held(rows, cache[i])
      /\ doing[i] \in Moves /\ Good(doing[i], phase[i], cache[i])
  BY AtHand DEF Reload
<1>2. "again" \in Phases /\ Good(doing[i], "again", Row)
  BY <1>1 DEF Phases, Good
<1>3. Goes(i, doing[i], "again", Row) \/ Ends(i, cache[i])
  BY DEF Reload
<1> QED  BY <1>1, <1>2, <1>3, QuietStep, QuietEnd

(* A move that did not get into the store: given up, or to be tried again. *)
LEMMA FailsMoves ==
  ASSUME IInv, NEW i \in Instances, NEW lost \in BOOLEAN,
         phase[i] # "idle", Fails(i, lost), rows' = rows \/ Writes(i)
  PROVE  Moved(i)
<1>1. /\ cache[i] \in Rows \cup {NoRow} /\ Held(rows, cache[i]) /\ cache[i] # NoRow
      /\ doing[i] \in Moves /\ Good(doing[i], phase[i], cache[i])
  BY AtHand DEF Good
<1>2. Held(rows', cache[i])
  BY <1>1, WriteKeepsHistory DEF Held
<1>3. Goes(i, doing[i], "reload", cache[i]) \/ Goes(i, NoMove, "idle", cache[i])
  BY DEF Fails, Restored, Ends
<1>4. /\ "reload" \in Phases /\ "idle" \in Phases
      /\ Good(doing[i], "reload", cache[i]) /\ Good(NoMove, "idle", cache[i])
      /\ NoMove \in Moves
  BY <1>1, IdleMoves DEF Phases, Good
<1> QED  BY <1>1, <1>2, <1>3, <1>4 DEF Moved

(* A move that is in the log: done, or the hand's outcome is to be logged. *)
LEMMA AfterActSteps ==
  ASSUME IInv, NEW i \in Instances, NEW row \in Rows \cup {NoRow}, row # NoRow,
         AfterAct(i, row), Held(rows', row), InLog(rows', doing[i].id), sent' = sent
  PROVE  Moved(i) /\ Answered(i)
<1> DEFINE m == Move("outcome", Nobody, OutcomeId, row)
<1>1. /\ Goes(i, m, "outcome", row) \/ Goes(i, NoMove, "idle", row)
      /\ acked' = acked \cup ({doing[i]} \cap sent)
  BY DEF AfterAct, EndsWell, Ends
<1>2. m \in Moves /\ m.kind = "outcome"
  BY MoveTyped DEF Kinds
<1> HIDE DEF m
<1>3. /\ "outcome" \in Phases /\ "idle" \in Phases
      /\ Good(m, "outcome", row) /\ Good(NoMove, "idle", row) /\ NoMove \in Moves
  BY <1>2, IdleMoves DEF Phases, Good
<1> QED  BY <1>1, <1>2, <1>3 DEF Moved, Answered

LEMMA RefusedSteps ==
  ASSUME IInv, NEW i \in Instances, Refused(i)
  PROVE  Stepped(i)
<1>1. /\ cache[i] \in Rows \cup {NoRow} /\ Held(rows, cache[i]) /\ doing[i] \in Moves
      /\ Good(doing[i], phase[i], cache[i]) /\ phase[i] # "idle" /\ Nothing
  BY AtHand DEF Refused
<1>2. "reload" \in Phases /\ Good(doing[i], "reload", cache[i])
  BY <1>1 DEF Phases, Good
<1>3. Goes(i, doing[i], "reload", cache[i]) \/ Ends(i, cache[i])
  BY DEF Refused
<1> QED  BY <1>1, <1>2, <1>3, QuietStep, QuietEnd

LEMMA AlreadyTakenSteps ==
  ASSUME IInv, NEW i \in Instances, AlreadyTaken(i)
  PROVE  Stepped(i)
<1>1. /\ cache[i] \in Rows \cup {NoRow} /\ cache[i] # NoRow /\ Held(rows, cache[i])
      /\ doing[i].id \in cache[i].seen /\ AfterAct(i, cache[i])
      /\ UNCHANGED <<rows, guards, sent>>
  BY AtHand DEF AlreadyTaken, Good
<1>2. InLog(rows', doing[i].id)
  BY <1>1 DEF IInv, Guarded, Held
<1>3. Held(rows', cache[i]) /\ sent' = sent
  BY <1>1
<1> QED  BY <1>1, <1>2, <1>3, AfterActSteps DEF Stepped, Stored

LEMMA CommitSteps ==
  ASSUME IInv, NEW i \in Instances, Commit(i)
  PROVE  Stepped(i)
<1> DEFINE row == Apply(cache[i], Logged(i))
<1>1. Writes(i) /\ AfterAct(i, row) /\ UNCHANGED sent
  BY DEF Commit, Writes
<1>2. /\ row \in Rows /\ row.version = Len(rows) + 1
  BY <1>1, WritesOnLast, ApplyTyped
<1>3. /\ DOMAIN rows' = 1 .. Len(rows) + 1 /\ Len(rows) \in Nat
      /\ rows'[Len(rows) + 1] = row
  BY <1>1, WriteKeepsHistory, WritesOnLast
<1> HIDE DEF row
<1>4. Held(rows', row) /\ row # NoRow /\ InLog(rows', doing[i].id) /\ sent' = sent
  BY <1>1, <1>2, <1>3, LogGrows, InstancesAssumption DEF Held
<1> QED  BY <1>1, <1>2, <1>4, AfterActSteps DEF Stepped, Stored

LEMMA DuplicateSteps ==
  ASSUME IInv, NEW i \in Instances, Duplicate(i)
  PROVE  Stepped(i)
<1> DEFINE row == IF doing[i].kind = "timeout" THEN cache[i] ELSE Row
<1>1. /\ phase[i] # "idle" /\ Guard(cache[i], Logged(i)) \cap guards # {}
      /\ AfterAct(i, row) /\ UNCHANGED <<rows, guards, sent>>
  BY DEF Duplicate, Attempting
<1>2. cache[i] \in Rows /\ row \in Rows /\ row # NoRow /\ Held(rows, row)
  BY <1>1, AtHand DEF Good
<1> HIDE DEF row
<1>3. PICK g \in Guard(cache[i], Logged(i)) : g \in guards
  BY <1>1
<1>4. g[2] = doing[i].id
  BY <1>2, GuardOfId, LoggedFields DEF IInv
<1>5. InLog(rows', doing[i].id) /\ Held(rows', row) /\ sent' = sent
  BY <1>1, <1>2, <1>3, <1>4 DEF IInv, Guarded
<1> QED  BY <1>1, <1>2, <1>5, AfterActSteps DEF Stepped, Stored

LEMMA LoseRaceSteps ==
  ASSUME IInv, NEW i \in Instances, LoseRace(i)
  PROVE  Stepped(i)
<1>1. phase[i] # "idle" /\ UNCHANGED <<rows, guards, sent>>
  BY DEF LoseRace, Attempting
<1>2. CASE phase[i] = "outcome"
  <2>1. /\ Goes(i, doing[i], "outcome", Row) /\ acked' = acked
        /\ Row \in Rows /\ Row # NoRow /\ Held(rows', Row) /\ doing[i] \in Moves
        /\ Good(doing[i], phase[i], cache[i])
    BY <1>1, <1>2, AtHand DEF LoseRace
  <2>2. "outcome" \in Phases /\ Good(doing[i], "outcome", Row)
    BY <1>2, <2>1 DEF Phases, Good
  <2> QED  BY <1>1, <2>1, <2>2 DEF Stepped, Moved, Stored, Answered
<1>3. CASE phase[i] # "outcome"
  <2>1. Fails(i, TRUE) /\ acked' = acked
    BY <1>3 DEF LoseRace, Fails
  <2> QED  BY <1>1, <2>1, FailsMoves DEF Stepped, Stored, Answered
<1> QED  BY <1>2, <1>3

LEMMA GetNoAnswerSteps ==
  ASSUME IInv, NEW i \in Instances, GetNoAnswer(i)
  PROVE  Stepped(i)
<1>1. /\ phase[i] # "idle" /\ Fails(i, FALSE) /\ sent' = sent /\ acked' = acked
      /\ UNCHANGED <<rows, guards>> \/ Writes(i)
  BY DEF GetNoAnswer, Attempting, Fails, Writes
<1>2. Moved(i)
  BY <1>1, FailsMoves
<1> QED  BY <1>1, <1>2 DEF Stepped, Stored, Answered

LEMMA InstanceSteps ==
  ASSUME IInv, NEW i \in Instances, Instance(i)
  PROVE  Stepped(i)
<1>1. CASE \E c \in sent : Take(i, c)  BY <1>1, TakeSteps
<1>2. CASE CheckAct(i)     BY <1>2, CheckActSteps
<1>3. CASE TurnTimeout(i)  BY <1>3, TurnTimeoutSteps
<1>4. CASE NextHand(i)     BY <1>4, NextHandSteps
<1>5. CASE Refresh(i)      BY <1>5, AtHand, QuietEnd DEF Refresh
<1>6. CASE Crash(i)        BY <1>6, AtHand, QuietEnd DEF Crash
<1>7. CASE Refused(i)      BY <1>7, RefusedSteps
<1>8. CASE AlreadyTaken(i) BY <1>8, AlreadyTakenSteps
<1>9. CASE Commit(i)       BY <1>9, CommitSteps
<1>10. CASE Duplicate(i)   BY <1>10, DuplicateSteps
<1>11. CASE LoseRace(i)    BY <1>11, LoseRaceSteps
<1>12. CASE GetNoAnswer(i) BY <1>12, GetNoAnswerSteps
<1>13. CASE Reload(i)      BY <1>13, ReloadSteps
<1> QED
  BY <1>1, <1>2, <1>3, <1>4, <1>5, <1>6, <1>7, <1>8, <1>9, <1>10, <1>11, <1>12,
     <1>13 DEF Instance

----------------------------------------------------------------------------
(* The invariant is inductive                                              *)

LEMMA InitIInv == Init => IInv
<1> SUFFICES ASSUME Init  PROVE IInv
  OBVIOUS
<1>1. FirstRow \in Rows /\ FirstRow.version = 1 /\ FirstRow.seen = {}
      /\ FirstRow.entry.kind = "seed" /\ FirstRow.entry.id = NoId
  BY OrderAssumption DEF FirstRow, Rows, Moves, Kinds
<1>2. /\ rows = <<FirstRow>> /\ rows \in Seq(Rows) /\ DOMAIN rows = {1}
      /\ rows[1] = FirstRow /\ rows # <<>> /\ guards = {} /\ sent = {} /\ acked = {}
  BY <1>1 DEF Init
<1>3. Locals
  BY IdleMoves DEF Init, Locals, Phases
<1>4. \A i \in Instances : Held(rows, cache[i])
  BY DEF Init, Held
<1>5. History(rows) /\ Guarded(rows, guards) /\ OncePerHand /\ FirstTryIsFresh
  BY <1>1, <1>2 DEF History, Guarded, InLog, OncePerHand, FirstTryIsFresh
<1> QED  BY <1>2, <1>3, <1>4, <1>5 DEF IInv, Commands

(* What a step of the store leaves of the facts about it.                  *)
LEMMA StoreKeeps ==
  ASSUME IInv, NEW i \in Instances, Stored(i)
  PROVE  /\ History(rows') /\ Guarded(rows', guards')
         /\ OncePerHand' /\ FirstTryIsFresh'
         /\ \A row : Held(rows, row) => Held(rows', row)
         /\ \A id : InLog(rows, id) => InLog(rows', id)
<1>1. CASE UNCHANGED <<rows, guards>>
  BY <1>1 DEF IInv, OncePerHand, FirstTryIsFresh, SeenBy
<1>2. CASE Writes(i)
  <2>1. /\ History(rows') /\ Guarded(rows', guards') /\ OncePerHand' /\ FirstTryIsFresh'
    BY <1>2, WriteKeepsHistory, WriteKeepsGuarded, WriteKeepsOncePerHand,
       WriteKeepsFirstTry
  <2>2. \A row : Held(rows, row) => Held(rows', row)
    BY <1>2, WriteKeepsHistory DEF Held
  <2>3. \A id : InLog(rows, id) => InLog(rows', id)
    BY <1>2, LogGrows
  <2> QED  BY <2>1, <2>2, <2>3
<1> QED  BY <1>1, <1>2 DEF Stored

LEMMA SteppedIInv ==
  ASSUME IInv, NEW i \in Instances, Stepped(i)
  PROVE  IInv'
<1>1. Stored(i) /\ Answered(i)
  BY DEF Stepped
<1>2. PICK m \in Moves, at \in Phases, row \in Rows \cup {NoRow} :
        Goes(i, m, at, row) /\ Good(m, at, row) /\ Held(rows', row)
  BY DEF Stepped, Moved
<1>3. /\ cache' = [cache EXCEPT ![i] = row] /\ doing' = [doing EXCEPT ![i] = m]
      /\ phase' = [phase EXCEPT ![i] = at]
  BY <1>2 DEF Goes
<1>4. /\ cache \in [Instances -> Rows \cup {NoRow}] /\ doing \in [Instances -> Moves]
      /\ phase \in [Instances -> Phases]
      /\ \A j \in Instances : Good(doing[j], phase[j], cache[j]) /\ Held(rows, cache[j])
  BY DEF IInv, Locals
<1>5. Locals'
  BY <1>2, <1>3, <1>4 DEF Locals
<1>6. /\ History(rows') /\ Guarded(rows', guards') /\ OncePerHand' /\ FirstTryIsFresh'
      /\ \A r : Held(rows, r) => Held(rows', r)
      /\ \A id : InLog(rows, id) => InLog(rows', id)
  BY <1>1, StoreKeeps
<1>7. \A j \in Instances : Held(rows', cache'[j])
  BY <1>2, <1>3, <1>4, <1>6
<1>8. Commands' /\ \A c \in acked' : InLog(rows', c.id)
  BY <1>1, <1>6 DEF Answered, IInv, Commands
<1> QED  BY <1>5, <1>6, <1>7, <1>8 DEF IInv

LEMMA SendIInv ==
  ASSUME IInv, NEW kind \in {"act", "peek"}, NEW p \in Players, NEW id \in Ids,
         Send(kind, p, id)
  PROVE  IInv'
<1>1. PICK n \in DOMAIN rows : sent' = sent \cup {Move(kind, p, id, rows[n])}
  BY DEF Send
<1>2. rows[n] \in Rows
  BY DEF IInv, History
<1>3. Commands'
  BY <1>1, <1>2, MoveTyped DEF Send, IInv, Commands, Kinds
<1>4. UNCHANGED <<rows, guards, cache, doing, phase, acked>>
  BY DEF Send
<1> QED
  BY <1>3, <1>4 DEF IInv, Locals, OncePerHand, FirstTryIsFresh, SeenBy

LEMMA NextIInv == IInv /\ [Next]_vars => IInv'
<1> SUFFICES ASSUME IInv, [Next]_vars  PROVE IInv'
  OBVIOUS
<1>1. CASE \E kind \in {"act", "peek"}, p \in Players, id \in Ids : Send(kind, p, id)
  BY <1>1, SendIInv
<1>2. CASE \E i \in Instances : Instance(i)
  BY <1>2, InstanceSteps, SteppedIInv
<1>3. CASE UNCHANGED vars
  BY <1>3 DEF vars, IInv, Locals, Commands, OncePerHand, FirstTryIsFresh, SeenBy
<1> QED  BY <1>1, <1>2, <1>3 DEF Next

LEMMA Inductive == Spec => []IInv
BY InitIInv, NextIInv, PTL DEF Spec

----------------------------------------------------------------------------
(* Every variable keeps its type; version n is the n-th row committed.     *)
THEOREM TypeCorrect == Spec => []TypeOK
<1>1. IInv => TypeOK
  BY DEF IInv, Locals, Commands, History, Guarded, TypeOK, Phases
<1> QED  BY <1>1, Inductive, PTL

(* However commits fail and instances stop, what an instance holds in its  *)
(* cache was committed (mutate, handleSafely).                             *)
THEOREM CacheCommitted == Spec => []CacheIsCommitted
<1>1. IInv => CacheIsCommitted
  BY DEF IInv, Held, CacheIsCommitted
<1> QED  BY <1>1, Inductive, PTL

(* No action id counts twice in a hand, whichever instances clients repeat *)
(* it to (CommitAction's guard row).                                       *)
THEOREM NoDoubleAction == Spec => []OncePerHand
BY Inductive, PTL DEF IInv

(* Whoever is told that their action was taken finds it in the log, after  *)
(* lost answers and crashes too (handleAct).                               *)
THEOREM AnswersAreTrue == Spec => []AckedIsCommitted
<1>1. IInv => AckedIsCommitted
  BY DEF IInv, InLog, AckedIsCommitted
<1> QED  BY <1>1, Inductive, PTL

(* An action that gets through at the first attempt is applied to the very *)
(* position it was decided on (validateActionPrecondition).                *)
THEOREM FirstTryFresh == Spec => []FirstTryIsFresh
BY Inductive, PTL DEF IInv

----------------------------------------------------------------------------
(* Refinement                                                              *)

LEMMA InitTable == Init => Table!Init
BY DEF Init, Table!Init, Row, FirstRow, Table!FirstRow

LEMMA WriteIsMove ==
  ASSUME IInv, NEW i \in Instances, Writes(i)
  PROVE  Table!Next
<1>1. /\ Accepts(Row, Logged(i)) /\ Logged(i) \in Moves
      /\ Row' = Apply(Row, Logged(i)) /\ Apply(Row, Logged(i)).entry = Logged(i)
  BY WritesOnLast, WriteKeepsHistory, ApplyTyped
<1>2. Row'.entry = Logged(i)
  BY <1>1
<1>3. Row'.entry \in Moves /\ Accepts(Row, Row'.entry) /\ Row' = Apply(Row, Row'.entry)
  BY <1>1, <1>2
<1> QED
  BY <1>3 DEF Table!Next, Table!Moves, Table!Kinds, Moves, Kinds, Table!Accepts, Accepts,
     Table!Apply, Apply, Table!Decides, Decides, Table!OnClock, OnClock, Table!Over, Over

LEMMA NextTable == IInv /\ [Next]_vars => [Table!Next]_Row
<1> SUFFICES ASSUME IInv, [Next]_vars  PROVE Table!Next \/ UNCHANGED Row
  OBVIOUS
<1>1. CASE \E kind \in {"act", "peek"}, p \in Players, id \in Ids : Send(kind, p, id)
  BY <1>1 DEF Send, Row
<1>2. CASE \E i \in Instances : Instance(i)
  <2>1. PICK i \in Instances : Stored(i)
    BY <1>2, InstanceSteps DEF Stepped
  <2>2. CASE UNCHANGED <<rows, guards>>  BY <2>2 DEF Row
  <2>3. CASE Writes(i)                   BY <2>3, WriteIsMove
  <2> QED  BY <2>1, <2>2, <2>3 DEF Stored
<1>3. CASE UNCHANGED vars
  BY <1>3 DEF vars, Row
<1> QED  BY <1>1, <1>2, <1>3 DEF Next

(* All the instances together are one actor: every change of the stored    *)
(* row is one legal move on the row before it (CommitAction).              *)
THEOREM OneActor == Spec => ActsAsOne
BY InitTable, NextTable, Inductive, PTL DEF Spec, ActsAsOne, Table!Spec

=============================================================================
