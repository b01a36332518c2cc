---------------------------- MODULE TableActors -----------------------------
(***************************************************************************)
(* The actors of one table.  Every instance of the service may run one;    *)
(* each serves a command at a time from its own cached row, and commits by *)
(* a transaction on the stored row that the version it read must still     *)
(* match.  Commands come from clients, who repeat them, and from timers.   *)
(* The store may refuse a transaction, or take it and lose the answer; an  *)
(* instance may stop at any point and start again with nothing cached.     *)
(***************************************************************************)
EXTENDS TableRow

CONSTANTS
  Instances,
  Trusting,     \* the instances that trust their cache between commands
  NoRow,        \* nothing cached
  Faults,       \* what may go wrong: "crash", "silence" of the store
  MaxVersion    \* bound: rows committed

ASSUME InstancesAssumption ==
  /\ Trusting \subseteq Instances /\ NoRow \notin Rows
  /\ MaxVersion \in Nat

VARIABLES
  rows,      \* every row the store has held, the current one last
  guards,    \* the action ids the store has seen, by the hand they are of
  sent,      \* commands clients have sent: they never stop repeating them
  cache,     \* the row an instance holds
  doing,     \* the move an instance is about
  phase,     \* and how far it got with it
  acked      \* history: commands whose handler took them to be done

vars == <<rows, guards, sent, cache, doing, phase, acked>>

NoMove == [kind |-> "seed", player |-> Nobody, id |-> NoId, hand |-> 0,
           version |-> 0, retried |-> FALSE]

Row     == rows[Len(rows)]
Idle(i) == phase[i] = "idle"

Init ==
  /\ rows = <<FirstRow>> /\ guards = {} /\ sent = {}
  /\ cache = [i \in Instances |-> NoRow]
  /\ doing = [i \in Instances |-> NoMove]
  /\ phase = [i \in Instances |-> "idle"]
  /\ acked = {}

----------------------------------------------------------------------------
(* Clients                                                                 *)

(* A client decides on a snapshot it was sent, however old by now.         *)
Send(kind, p, id) ==
  /\ kind \in {"act", "peek"}
  /\ id \notin {c.id : c \in sent}
  /\ \E n \in DOMAIN rows :
       /\ kind = "act" => OnClock(rows[n]) = p
       /\ sent' = sent \cup {Move(kind, p, id, rows[n])}
  /\ UNCHANGED <<rows, guards, cache, doing, phase, acked>>

----------------------------------------------------------------------------
(* One instance                                                            *)

(* i goes on with move m and row in its cache.                             *)
Goes(i, m, at, row) ==
  /\ doing' = [doing EXCEPT ![i] = m]
  /\ phase' = [phase EXCEPT ![i] = at]
  /\ cache' = [cache EXCEPT ![i] = row]

Ends(i, row) == Goes(i, NoMove, "idle", row)

(* i ends what it did and takes it to be done.                             *)
EndsWell(i, row) ==
  /\ Ends(i, row)
  /\ acked' = acked \cup ({doing[i]} \cap sent)

Nothing == UNCHANGED <<rows, guards, sent, acked>>

(* A command is taken from the mailbox; a row is read if none is trusted.  *)
Take(i, c) ==
  /\ Idle(i) /\ c \in sent
  /\ Goes(i, c, IF c.kind = "act" THEN "check" ELSE "try",
          IF cache[i] = NoRow \/ i \notin Trusting THEN Row ELSE cache[i])
  /\ Nothing

(* A mutated form: any older version will do.                              *)
FreshEnough(row, m) == m.hand = row.hand /\ m.version <= row.version

(* The client missed nothing that can be seen before it decided.           *)
Fresh(row, m) ==
  m.hand = row.hand /\ row.gameplay <= m.version /\ m.version <= row.version

(* The precondition of an action; one that fails is checked once more, on  *)
(* the row the store holds.                                                *)
CheckAct(i) ==
  /\ phase[i] = "check"
  /\ LET row == IF Fresh(cache[i], doing[i]) THEN cache[i] ELSE Row
     IN  IF Fresh(row, doing[i]) THEN Goes(i, doing[i], "try", row) ELSE Ends(i, row)
  /\ Nothing

(* A turn timer fires for the player it was armed on.  The row is read     *)
(* again, and the timer is void if somebody else is on the clock.          *)
TurnTimeout(i) ==
  /\ Idle(i) /\ cache[i] # NoRow /\ ~Over(cache[i])
  /\ IF OnClock(Row) = OnClock(cache[i])
     THEN Goes(i, Move("timeout", OnClock(cache[i]), NoId, cache[i]), "try", Row)
     ELSE Ends(i, Row)
  /\ Nothing

NextHand(i) ==
  /\ Idle(i) /\ cache[i] # NoRow /\ Over(cache[i])
  /\ IF Over(Row) THEN Goes(i, Move("deal", Nobody, NoId, Row), "try", Row)
     ELSE Ends(i, Row)
  /\ Nothing

(* A sibling announces a commit, or somebody reconnects.                   *)
Refresh(i) == Idle(i) /\ Ends(i, Row) /\ Nothing

(* A process stops or an actor panics: its cache is gone.                  *)
Crash(i) == "crash" \in Faults /\ Ends(i, NoRow) /\ Nothing

----------------------------------------------------------------------------
(* Committing                                                              *)

(* The move as it is logged.                                               *)
Logged(i) == [doing[i] EXCEPT !.retried = phase[i] = "again"]

(* A mutated form: only the engine tells a repeated action.                *)
ActGuard(row, m) == IF m.kind = "outcome" THEN {<<row.hand, m.id, 0>>} ELSE {}

(* The guard row a commit adds, so that no action id counts twice.  A      *)
(* timeout's id is made of the version it is meant for.                    *)
Guard(row, m) ==
  IF m.kind = "deal" THEN {}
  ELSE {<<row.hand, m.id, IF m.kind = "timeout" THEN row.version ELSE 0>>}

(* A mutated form: the transaction is not conditional on the version.      *)
AnyVersion(row, m) == Guard(row, m) \cap guards = {}

(* The condition of the transaction.                                       *)
StoreTakes(row, m) ==
  row.version = Row.version /\ Guard(row, m) \cap guards = {}

StoreWrites(row, m) ==
  /\ Len(rows) < MaxVersion
  /\ rows' = Append(rows, Apply(row, m))
  /\ guards' = guards \cup Guard(row, m)

Attempting(i) ==
  /\ phase[i] \in {"try", "again", "outcome"}
  /\ Accepts(cache[i], Logged(i))

(* A mutated form: what was not committed stays in the cache.              *)
Kept(row, m) == [Apply(row, m) EXCEPT !.version = row.version]

(* The cache after a commit that failed: as it was before the move.        *)
Restored(row, m) == row

(* Which handlers read the row again and try once more: all that lost a    *)
(* race, except the deal, and an action on a trusted cache whatever the    *)
(* reason.                                                                 *)
Retries(i, lost) ==
  /\ phase[i] = "try" /\ doing[i].kind # "deal"
  /\ lost \/ (doing[i].kind = "act" /\ i \in Trusting)

(* A hand this instance saw end by an action gets its outcome logged.      *)
AfterAct(i, row) ==
  IF doing[i].kind = "act" /\ Over(row)
  THEN /\ Goes(i, Move("outcome", Nobody, OutcomeId, row), "outcome", row)
       /\ acked' = acked \cup ({doing[i]} \cap sent)
  ELSE EndsWell(i, row)

Fails(i, lost) ==
  LET row == Restored(cache[i], Logged(i))
  IN  /\ IF Retries(i, lost) THEN Goes(i, doing[i], "reload", row)
         ELSE Ends(i, row)
      /\ UNCHANGED acked

(* The engine refuses the move.                                            *)
Refused(i) ==
  /\ phase[i] \in {"try", "again"}
  /\ ~Accepts(cache[i], Logged(i)) /\ doing[i].id \notin cache[i].seen
  /\ IF Retries(i, FALSE) THEN Goes(i, doing[i], "reload", cache[i])
     ELSE Ends(i, cache[i])
  /\ Nothing

(* The row says that the action was taken already.                         *)
AlreadyTaken(i) ==
  /\ phase[i] \in {"try", "again"}
  /\ doing[i].kind = "act" /\ doing[i].id \in cache[i].seen
  /\ AfterAct(i, cache[i])
  /\ UNCHANGED <<rows, guards, sent>>

Commit(i) ==
  /\ Attempting(i)
  /\ StoreTakes(cache[i], Logged(i)) /\ StoreWrites(cache[i], Logged(i))
  /\ AfterAct(i, Apply(cache[i], Logged(i)))
  /\ UNCHANGED sent

(* The guard is there already: another commit of the same action won.      *)
(* Only a timeout does not read what that one wrote.                       *)
Duplicate(i) ==
  /\ Attempting(i)
  /\ Guard(cache[i], Logged(i)) \cap guards # {}
  /\ AfterAct(i, IF doing[i].kind = "timeout" THEN cache[i] ELSE Row)
  /\ UNCHANGED <<rows, guards, sent>>

(* Another commit came first.  The log of an outcome is tried until done.  *)
LoseRace(i) ==
  /\ Attempting(i)
  /\ cache[i].version # Row.version /\ Guard(cache[i], Logged(i)) \cap guards = {}
  /\ IF phase[i] = "outcome" THEN Goes(i, doing[i], "outcome", Row) /\ UNCHANGED acked
     ELSE Fails(i, TRUE)
  /\ UNCHANGED <<rows, guards, sent>>

(* No answer: the transaction was not taken, or it was.                    *)
GetNoAnswer(i) ==
  /\ Attempting(i)
  /\ "silence" \in Faults
  /\ \/ UNCHANGED <<rows, guards>>
     \/ StoreTakes(cache[i], Logged(i)) /\ StoreWrites(cache[i], Logged(i))
  /\ Fails(i, FALSE)
  /\ UNCHANGED sent

Reload(i) ==
  /\ phase[i] = "reload"
  /\ \/ Goes(i, doing[i], "again", Row)
     \/ "silence" \in Faults /\ Ends(i, cache[i])
  /\ Nothing

----------------------------------------------------------------------------
Instance(i) ==
  \/ \E c \in sent : Take(i, c)
  \/ CheckAct(i) \/ TurnTimeout(i) \/ NextHand(i) \/ Refresh(i) \/ Crash(i)
  \/ Refused(i) \/ AlreadyTaken(i) \/ Commit(i) \/ Duplicate(i) \/ LoseRace(i)
  \/ GetNoAnswer(i) \/ Reload(i)

Next ==
  \/ \E kind \in {"act", "peek"}, p \in Players, id \in Ids : Send(kind, p, id)
  \/ \E i \in Instances : Instance(i)

Spec == Init /\ [][Next]_vars

----------------------------------------------------------------------------
TypeOK ==
  /\ rows \in Seq(Rows) /\ rows # <<>>
  /\ \A n \in DOMAIN rows : rows[n].version = n
  /\ guards \subseteq Nat \X (Ids \cup {OutcomeId, NoId}) \X Nat
  /\ sent \subseteq Moves /\ acked \subseteq sent
  /\ cache \in [Instances -> Rows \cup {NoRow}]
  /\ doing \in [Instances -> Moves]
  /\ phase \in [Instances -> {"idle", "check", "try", "again", "reload", "outcome"}]

(* No instance ever holds a row that was not committed: what a failed      *)
(* commit left behind can not reach the store with a later one (mutate).   *)
CacheIsCommitted ==
  \A i \in Instances :
    cache[i] # NoRow => cache[i].version \in DOMAIN rows /\ cache[i] = rows[cache[i].version]

(* All the instances together change the row as one actor would: every     *)
(* commit is one legal move on the row before it, none is lost and none    *)
(* overwritten (CommitAction's version condition).                         *)
Table == INSTANCE AtomicTable WITH row <- Row
ActsAsOne == Table!Spec

(* An action id counts once in a hand, however often it is sent and to     *)
(* whichever instances (CommitAction's guard row).                         *)
OncePerHand ==
  \A m, n \in DOMAIN rows :
    /\ m < n /\ rows[m].entry.id = rows[n].entry.id /\ rows[n].entry.id # NoId
    => rows[m].hand # rows[n].hand

(* Whoever is told that their action was taken finds it in the log, after  *)
(* crashes and lost answers too (handleAct).                               *)
AckedIsCommitted ==
  \A c \in acked : \E n \in DOMAIN rows : rows[n].entry.id = c.id

(* Nothing that can be seen happened between the position an action was    *)
(* decided on and the one it was applied to (validateActionPrecondition).  *)
SeenBy(n) ==
  /\ rows[n].entry.hand = rows[n - 1].hand
  /\ rows[n - 1].gameplay <= rows[n].entry.version

(* An action that reaches the row at the first attempt is applied to the   *)
(* position it was decided on.  One that is tried again after a conflict   *)
(* is not checked a second time (handleAct).                               *)
FirstTryIsFresh ==
  \A n \in DOMAIN rows :
    rows[n].entry.kind = "act" /\ ~rows[n].entry.retried => SeenBy(n)
=============================================================================
