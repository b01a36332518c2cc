------------------------------- MODULE Registry -------------------------------
(***************************************************************************)
(* The actors of one table in one process: who makes one, who finds it,    *)
(* who stops it.  Requests resolve the table to its actor and send it a    *)
(* command; a lock per table, which exists only while somebody wants it,   *)
(* lets one request at a time make an actor; an actor stops when its lease *)
(* is lost, when nobody is connected, or when the process drains.          *)
(*                                                                         *)
(* The maps of the registry are shared, and a critical section of their    *)
(* mutex is one step.  Calls of the network are made between two steps.    *)
(***************************************************************************)
EXTENDS Naturals, FiniteSets

CONSTANTS
  Callers,     \* requests and connections of this process
  Actors,      \* actors, each made at most once
  Locks,       \* locks, each made at most once at a time
  None,
  MaxStops,    \* bound: losses of a lease, idle periods, failed loads
  Resolves,    \* lookups of an actor for one command, the first included
  MaxRequests  \* bound: commands of all callers together

ASSUME RegistryAssumption ==
  /\ None \notin Callers \cup Actors \cup Locks /\ IsFiniteSet(Callers)
  /\ MaxStops \in Nat /\ Resolves \in Nat /\ MaxRequests \in Nat

VARIABLES
  registry,    \* the maps: the table's actor, its cancel function, its lease's release
  entry,       \* the table's lock in the map of locks
  locks,       \* references to a lock, and who holds it
  actor,       \* what each actor is at
  caller,      \* what each caller is at
  idler,       \* the goroutine that stops an actor nobody is connected to
  keeper,      \* the goroutine that stops an actor whose lease is lost
  drain,       \* the process drains its tables
  stops,       \* history: what MaxStops counts
  asked        \* history: commands so far

vars == <<registry, entry, locks, actor, caller, idler, keeper, drain, stops, asked>>

Unmade   == [state |-> "unmade", cancelled |-> FALSE, lease |-> "none", serving |-> None]
Resting  == [pc |-> "resting", lock |-> None, actor |-> None, stops |-> 0, ran |-> FALSE,
             sent |-> FALSE]

Alive(a)   == actor[a].state # "done"
Dead       == {a \in Actors : ~Alive(a)}
Running(a) == actor[a].state = "running"

(* A mutated form: the lease is left to expire.                            *)
GivesNothing(table, a) == table

(* An actor's lease is given back: its key is deleted if it is still ours. *)
GivesBack(table, a) ==
  IF a = None THEN table
  ELSE [table EXCEPT ![a].lease = IF @ = "held" THEN "returned" ELSE @]

(* A mutated form: an actor is waited for and not told to stop.            *)
CancelsNothing(table, a) == table

Cancels(table, a) == IF a = None THEN table ELSE [table EXCEPT ![a].cancelled = TRUE]

Nothing == [actor |-> None, cancel |-> None, release |-> None]

At(c, pc)   == caller[c].pc = pc
Goes(c, pc) == caller' = [caller EXCEPT ![c].pc = pc]

Counts == stops < MaxStops /\ stops' = stops + 1

----------------------------------------------------------------------------
(* Looking an actor up                                                     *)

Finds(a) == a # None /\ Alive(a)

(* The actor that is registered and alive; one that has stopped is dropped *)
(* and its lease given back.                                               *)
LookUp(c, found, missed) ==
  IF Finds(registry.actor)
  THEN /\ caller' = [caller EXCEPT ![c].pc = found, ![c].actor = registry.actor]
       /\ UNCHANGED <<registry, actor>>
  ELSE /\ Goes(c, missed)
       /\ IF registry.actor = None THEN UNCHANGED <<registry, actor>>
          ELSE registry' = Nothing /\ actor' = GivesBack(actor, registry.release)

Resolve(c) ==
  /\ At(c, "resting") /\ LookUp(c, "dispatch", "want lock")
  /\ IF caller[c].stops > 0 THEN UNCHANGED asked
     ELSE asked < MaxRequests /\ asked' = asked + 1
  /\ UNCHANGED <<entry, locks, idler, keeper, drain, stops>>

LookAgain(c) ==
  /\ At(c, "look again") /\ LookUp(c, "unlock", "load")
  /\ UNCHANGED <<entry, locks, idler, keeper, drain, stops, asked>>

----------------------------------------------------------------------------
(* The lock of the table                                                   *)

Unused(l) == locks[l].refs = 0 /\ locks[l].holder = None /\ entry # l

WantLock(c) ==
  /\ At(c, "want lock")
  /\ entry # None \/ \E l \in Locks : Unused(l)
  /\ LET l == IF entry # None THEN entry ELSE CHOOSE k \in Locks : Unused(k)
     IN  /\ entry' = l /\ locks' = [locks EXCEPT ![l].refs = @ + 1]
         /\ caller' = [caller EXCEPT ![c].pc = "wait", ![c].lock = l]
  /\ UNCHANGED <<registry, actor, idler, keeper, drain, stops, asked>>

Lock(c) ==
  /\ At(c, "wait") /\ locks[caller[c].lock].holder = None
  /\ locks' = [locks EXCEPT ![caller[c].lock].holder = c]
  /\ Goes(c, "look again")
  /\ UNCHANGED <<registry, entry, actor, idler, keeper, drain, stops, asked>>

Unlock(c) ==
  /\ At(c, "unlock")
  /\ locks' = [locks EXCEPT ![caller[c].lock].holder = None]
  /\ Goes(c, "unref")
  /\ UNCHANGED <<registry, entry, actor, idler, keeper, drain, stops, asked>>

(* A mutated form: the entry goes with whoever leaves first.               *)
LeftByOne(l) == TRUE

(* Nobody else refers to the lock.                                         *)
Unwanted(l) == locks[l].refs = 1

Unref(c) ==
  LET l == caller[c].lock
  IN  /\ At(c, "unref")
      /\ locks' = [locks EXCEPT ![l].refs = @ - 1]
      /\ entry' = IF Unwanted(l) /\ entry = l THEN None ELSE entry
      /\ caller' = [caller EXCEPT ![c] =
           IF @.actor = None THEN Resting ELSE [@ EXCEPT !.lock = None, !.pc = "dispatch"]]
      /\ UNCHANGED <<registry, actor, idler, keeper, drain, stops, asked>>

----------------------------------------------------------------------------
(* Making an actor                                                         *)

(* The table is archived, or can not be read.                              *)
LoadFails(c) ==
  /\ At(c, "load") /\ Counts /\ caller' = [caller EXCEPT ![c].pc = "unlock", ![c].actor = None]
  /\ UNCHANGED <<registry, entry, locks, actor, idler, keeper, drain, asked>>

(* The lease is asked for, and an actor made whatever the answer is.       *)
Make(c) ==
  /\ At(c, "load")
  /\ \E a \in Actors : actor[a].state = "unmade"
  /\ LET a == CHOOSE b \in Actors : actor[b].state = "unmade"
     IN  \E lease \in {"held", "none"} :
           /\ actor' = [actor EXCEPT ![a].state = "made", ![a].lease = lease]
           /\ caller' = [caller EXCEPT ![c].pc = "note", ![c].actor = a]
  /\ UNCHANGED <<registry, entry, locks, idler, keeper, drain, stops, asked>>

(* Its cancel function, and the release of the lease it has.               *)
Note(c) ==
  LET a == caller[c].actor
  IN  /\ At(c, "note")
      /\ registry' = [registry EXCEPT !.cancel = a,
                                      !.release = IF actor[a].lease = "none" THEN @ ELSE a]
      /\ Goes(c, "start")
      /\ UNCHANGED <<entry, locks, actor, idler, keeper, drain, stops, asked>>

Start(c) ==
  LET a == caller[c].actor
  IN  /\ At(c, "start")
      /\ actor' = [actor EXCEPT ![a].state = "running"]
      /\ idler' = [idler EXCEPT ![a] = "watching"]
      /\ keeper' = [keeper EXCEPT ![a] = IF actor[a].lease = "none" THEN "off" ELSE "watching"]
      /\ Goes(c, "register")
      /\ UNCHANGED <<registry, entry, locks, drain, stops, asked>>

Register(c) ==
  /\ At(c, "register") /\ registry' = [registry EXCEPT !.actor = caller[c].actor]
  /\ Goes(c, "unlock")
  /\ UNCHANGED <<entry, locks, actor, idler, keeper, drain, stops, asked>>

----------------------------------------------------------------------------
(* A command and its answer                                                *)

(* The mailbox takes the command, even of an actor that has stopped.       *)
Send(c) ==
  /\ At(c, "dispatch")
  /\ caller' = [caller EXCEPT ![c].pc = "sent", ![c].sent = TRUE]
  /\ UNCHANGED <<registry, entry, locks, actor, idler, keeper, drain, stops, asked>>

(* The caller is told that the actor has stopped, and resolves the table   *)
(* again if it has not done so too often.                                  *)
Stopped(c) ==
  /\ At(c, "dispatch") \/ At(c, "sent")
  /\ ~Alive(caller[c].actor)
  /\ caller' = [caller EXCEPT ![c] =
       IF @.stops + 1 < Resolves THEN [Resting EXCEPT !.stops = caller[c].stops + 1] ELSE Resting]
  /\ UNCHANGED <<registry, entry, locks, actor, idler, keeper, drain, stops, asked>>

Reply(c) ==
  /\ At(c, "sent") /\ caller[c].ran
  /\ caller' = [caller EXCEPT ![c] = Resting]
  /\ UNCHANGED <<registry, entry, locks, actor, idler, keeper, drain, stops, asked>>

----------------------------------------------------------------------------
(* The actor's goroutine                                                   *)

Serve(a, c) ==
  /\ Running(a) /\ actor[a].serving = None
  /\ caller[c].actor = a /\ caller[c].sent
  /\ actor' = [actor EXCEPT ![a].serving = c]
  /\ caller' = [caller EXCEPT ![c].sent = FALSE]
  /\ UNCHANGED <<registry, entry, locks, idler, keeper, drain, stops, asked>>

Finish(a) ==
  /\ Running(a) /\ actor[a].serving # None
  /\ actor' = [actor EXCEPT ![a].serving = None]
  /\ caller' = [caller EXCEPT ![actor[a].serving].ran = TRUE]
  /\ UNCHANGED <<registry, entry, locks, idler, keeper, drain, stops, asked>>

Stop(a) ==
  /\ Running(a) /\ actor[a].cancelled /\ actor[a].serving = None
  /\ actor' = [actor EXCEPT ![a].state = "done"]
  /\ UNCHANGED <<registry, entry, locks, caller, idler, keeper, drain, stops, asked>>

----------------------------------------------------------------------------
(* The goroutines that stop an actor                                       *)

Removed(a) == IF registry.actor = a /\ ~Alive(a) THEN Nothing ELSE registry

(* The actor is taken out of the registry, if it is there and has stopped, *)
(* and the lease that was registered with it given back.                   *)
Remove(a) ==
  /\ registry' = Removed(a)
  /\ actor' = IF registry' = registry THEN actor ELSE GivesBack(actor, registry.release)

(* Its lease could not be renewed: it has expired, or a sibling has it.    *)
LoseLease(a) ==
  /\ keeper[a] = "watching" /\ ~actor[a].cancelled /\ Counts
  /\ keeper' = [keeper EXCEPT ![a] = "waiting"]
  /\ actor' = [actor EXCEPT ![a].cancelled = TRUE, ![a].lease = "returned"]
  /\ UNCHANGED <<registry, entry, locks, caller, idler, drain, asked>>

AfterLoss(a) ==
  /\ keeper[a] = "waiting" /\ ~Alive(a)
  /\ keeper' = [keeper EXCEPT ![a] = "off"] /\ Remove(a)
  /\ UNCHANGED <<entry, locks, caller, idler, drain, stops, asked>>

GoIdle(a) ==
  /\ idler[a] = "watching" /\ ~actor[a].cancelled /\ Counts
  /\ idler' = [idler EXCEPT ![a] = "waiting"] /\ actor' = Cancels(actor, a)
  /\ UNCHANGED <<registry, entry, locks, caller, keeper, drain, asked>>

AfterIdle(a) ==
  /\ idler[a] = "waiting" /\ ~Alive(a)
  /\ idler' = [idler EXCEPT ![a] = "off"] /\ Remove(a)
  /\ UNCHANGED <<entry, locks, caller, keeper, drain, stops, asked>>

----------------------------------------------------------------------------
(* Draining                                                                *)

(* The tables of the process are listed once.                              *)
StartDrain ==
  /\ drain.pc = "no"
  /\ drain' = [drain EXCEPT !.pc = IF registry.actor = None THEN "over" ELSE "release",
                            !.listed = registry.actor]
  /\ UNCHANGED <<registry, entry, locks, actor, caller, idler, keeper, stops, asked>>

(* The table is taken out of the maps before its actor has stopped.        *)
Release ==
  /\ drain.pc = "release"
  /\ registry' = Nothing /\ actor' = Cancels(actor, registry.cancel)
  /\ drain' = [drain EXCEPT !.pc = "wait", !.actor = registry.actor, !.release = registry.release]
  /\ UNCHANGED <<entry, locks, caller, idler, keeper, stops, asked>>

Released ==
  /\ drain.pc = "wait" /\ drain.actor \in Dead \cup {None}
  /\ drain' = [drain EXCEPT !.pc = "await", !.release = None]
  /\ actor' = GivesBack(actor, drain.release)
  /\ UNCHANGED <<registry, entry, locks, caller, idler, keeper, stops, asked>>

Drained ==
  /\ drain.pc = "await" /\ ~Alive(drain.listed)
  /\ drain' = [drain EXCEPT !.pc = "over"]
  /\ UNCHANGED <<registry, entry, locks, actor, caller, idler, keeper, stops, asked>>
----------------------------------------------------------------------------
Init ==
  /\ registry = Nothing /\ entry = None
  /\ locks = [l \in Locks |-> [refs |-> 0, holder |-> None]]
  /\ actor = [a \in Actors |-> Unmade]
  /\ caller = [c \in Callers |-> Resting]
  /\ idler = [a \in Actors |-> "off"] /\ keeper = [a \in Actors |-> "off"]
  /\ drain = [pc |-> "no", listed |-> None, actor |-> None, release |-> None]
  /\ stops = 0 /\ asked = 0

Creates(c) ==
  \/ LookAgain(c) \/ WantLock(c) \/ Unlock(c) \/ Unref(c)
  \/ LoadFails(c) \/ Make(c) \/ Note(c) \/ Start(c) \/ Register(c)

Asks(c) == Send(c) \/ Stopped(c) \/ Reply(c)

Stops(a) == AfterLoss(a) \/ AfterIdle(a)

Drains == Release \/ Released \/ Drained

Next ==
  \/ \E c \in Callers : Resolve(c) \/ Creates(c) \/ Lock(c) \/ Asks(c)
  \/ \E a \in Actors : Finish(a) \/ Stop(a) \/ LoseLease(a) \/ GoIdle(a) \/ Stops(a)
  \/ \E a \in Actors, c \in Callers : Serve(a, c)
  \/ StartDrain \/ Drains

Spec == Init /\ [][Next]_vars

(* A goroutine that can go on does.  Nobody has to ask, and nothing has to *)
(* stop; no order is assumed among those that wait for a lock or a mailbox. *)
FairSpec ==
  /\ Spec
  /\ WF_vars(\E c \in Callers : Creates(c) \/ Lock(c) \/ Asks(c) \/ (caller[c].stops > 0 /\ Resolve(c)))
  /\ WF_vars(\E a \in Actors : Finish(a) \/ Stop(a) \/ \E c \in Callers : Serve(a, c))
  /\ WF_vars(Drains)

----------------------------------------------------------------------------
(* Properties                                                              *)

TypeOK ==
  /\ registry \in [actor : Actors \cup {None}, cancel : Actors \cup {None}, release : Actors \cup {None}]
  /\ entry \in Locks \cup {None}
  /\ locks \in [Locks -> [refs : Nat, holder : Callers \cup {None}]]
  /\ actor \in [Actors -> [state : {"unmade", "made", "running", "done"}, cancelled : BOOLEAN,
                          lease : {"none", "held", "returned"}, serving : Callers \cup {None}]]
  /\ caller \in [Callers ->
       [pc : {"resting", "want lock", "wait", "look again", "load", "note", "start", "register",
              "unlock", "unref", "dispatch", "sent"},
        lock : Locks \cup {None}, actor : Actors \cup {None}, stops : Nat, ran : BOOLEAN,
        sent : BOOLEAN]]
  /\ idler \in [Actors -> {"off", "watching", "waiting"}]
  /\ keeper \in [Actors -> {"off", "watching", "waiting"}]
  /\ drain \in [pc : {"no", "release", "wait", "await", "over"}, listed : Actors \cup {None},
               actor : Actors \cup {None}, release : Actors \cup {None}]
  /\ stops \in Nat /\ asked \in Nat

Live(a) == actor[a].state \in {"made", "running"}

(* As long as the process does not drain, two actors of the table never    *)
(* live at the same time: they would play it from two caches.              *)
OneActor ==
  drain.pc = "no" => \A a, b \in Actors : Live(a) /\ Live(b) => a = b

(* The lock of a table that nobody is making an actor for is forgotten,    *)
(* and an actor that has stopped has given its lease back, or the registry *)
(* or the drain still will.                                                *)
NothingLeaks ==
  /\ entry # None => \E c \in Callers : caller[c].lock = entry
  /\ \A a \in Actors :
       ~Alive(a) /\ actor[a].lease = "held" => a \in {registry.release, drain.release}

(* Every request is answered, and the drain of the process ends.           *)
RequestsAnswered ==
  /\ \A c \in Callers : []<>(caller[c] = Resting)
  /\ []<>(drain.pc \in {"no", "over"})
=============================================================================
