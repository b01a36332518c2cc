---------------------------- MODULE RegistryProofs ----------------------------
(***************************************************************************)
(* Theorems about the actors of one table in one process: any number of    *)
(* callers, actors and locks, and any number of stops.                     *)
(***************************************************************************)
EXTENDS Registry, FiniteSetTheorems, TLAPS

Making  == {"note", "start", "register"}
Inside  == {"look again", "load", "unlock"} \cup Making
Holding == {"wait", "unref"} \cup Inside

(* Whoever makes an actor says which, and has not started it before.       *)
Made ==
  /\ \A c \in Callers : caller[c].pc \in Making => caller[c].actor \in Actors
  /\ \A c \in Callers : caller[c].pc \in {"note", "start"} => actor[caller[c].actor].state = "made"

Referring(l) == {c \in Callers : caller[c].lock = l}

(* There is one lock at a time: all who refer to a lock refer to the       *)
(* table's entry, which is forgotten by the last of them.                  *)
Locked ==
  /\ \A c \in Callers : caller[c].lock # None <=> caller[c].pc \in Holding
  /\ \A c \in Callers : caller[c].lock # None => caller[c].lock = entry
  /\ \A c \in Callers : caller[c].pc \in Inside => locks[caller[c].lock].holder = c
  /\ \A l \in Locks : locks[l].refs = Cardinality(Referring(l))
  /\ entry # None => locks[entry].refs > 0

(* Who holds the lock is the only one to make an actor, and does so only   *)
(* when none lives.                                                        *)
Alone ==
  drain.pc = "no" =>
    /\ \A a \in Actors : Live(a) =>
         registry.actor = a \/ \E c \in Callers : caller[c].pc \in Making /\ caller[c].actor = a
    /\ \A c \in Callers : caller[c].pc = "load" => \A a \in Actors : ~Live(a)
    /\ \A c \in Callers : caller[c].pc \in Making => \A a \in Actors : Live(a) => a = caller[c].actor

(* Somebody will give back every lease that is held.                       *)
Owed ==
  /\ \A a \in Actors : actor[a].lease = "held" =>
       \/ a \in {registry.release, drain.release}
       \/ \E c \in Callers : caller[c].pc = "note" /\ caller[c].actor = a
  /\ registry.release # None =>
       registry.actor # None \/ \E c \in Callers : caller[c].pc \in {"start", "register"}
  /\ \A c \in Callers : caller[c].pc \in {"load", "note"} => registry.release = None
  /\ drain.pc \in {"no", "release"} => drain.release = None

(* The inductive invariant.                                                *)
IInv == TypeOK /\ Made /\ Locked /\ Alone /\ Owed

----------------------------------------------------------------------------
(* The types                                                               *)

ActorType == [state : {"unmade", "made", "running", "done"}, cancelled : BOOLEAN,
              lease : {"none", "held", "returned"}, serving : Callers \cup {None}]

CallerType ==
  [pc : {"resting", "want lock", "wait", "look again", "load", "note", "start", "register",
         "unlock", "unref", "dispatch", "sent"},
   lock : Locks \cup {None}, actor : Actors \cup {None}, stops : Nat, ran : BOOLEAN, sent : BOOLEAN]

RegistryType == [actor : Actors \cup {None}, cancel : Actors \cup {None}, release : Actors \cup {None}]

LEMMA Types ==
  ASSUME TypeOK
  PROVE  /\ actor \in [Actors -> ActorType] /\ caller \in [Callers -> CallerType]
         /\ registry \in RegistryType /\ Nothing \in RegistryType
         /\ Resting \in CallerType /\ Unmade \in ActorType
BY DEF TypeOK, ActorType, CallerType, RegistryType, Nothing, Resting, Unmade

(* A lease that is given back, and an actor that is told to stop, keep     *)
(* their types and all else of an actor.                                   *)
LEMMA GivesBackIs ==
  ASSUME NEW table \in [Actors -> ActorType], NEW a \in Actors \cup {None}
  PROVE  /\ GivesBack(table, a) \in [Actors -> ActorType]
         /\ \A b \in Actors : /\ GivesBack(table, a)[b].state = table[b].state
                              /\ GivesBack(table, a)[b].lease = "held" => table[b].lease = "held" /\ b # a
<1>1. CASE a = None
  BY <1>1, RegistryAssumption DEF GivesBack
<1>2. CASE a \in Actors /\ a # None
  <2>1. table[a] \in ActorType
    BY <1>2
  <2>2. GivesBack(table, a) = [table EXCEPT ![a].lease = IF @ = "held" THEN "returned" ELSE @]
    BY <1>2 DEF GivesBack
  <2>3. /\ GivesBack(table, a)[a] \in ActorType
        /\ GivesBack(table, a)[a].state = table[a].state
        /\ GivesBack(table, a)[a].lease # "held"
    BY <1>2, <2>1, <2>2 DEF ActorType
  <2>4. \A b \in Actors : b # a => GivesBack(table, a)[b] = table[b]
    BY <1>2, <2>2
  <2> QED  BY <1>2, <2>2, <2>3, <2>4
<1> QED  BY <1>1, <1>2

LEMMA CancelsIs ==
  ASSUME NEW table \in [Actors -> ActorType], NEW a \in Actors \cup {None}
  PROVE  /\ Cancels(table, a) \in [Actors -> ActorType]
         /\ \A b \in Actors : /\ Cancels(table, a)[b].state = table[b].state
                              /\ Cancels(table, a)[b].lease = table[b].lease
<1>1. CASE a = None
  BY <1>1 DEF Cancels
<1>2. CASE a \in Actors /\ a # None
  BY <1>2 DEF Cancels, ActorType
<1> QED  BY <1>1, <1>2

(* A caller who refers to a lock refers to one that somebody refers to.    *)
LEMMA LockIs ==
  ASSUME TypeOK, Locked, NEW c \in Callers, caller[c].pc \in Holding
  PROVE  /\ caller[c].lock \in Locks /\ caller[c].lock = entry
         /\ locks[entry].refs \in Nat \ {0} /\ locks[entry].holder \in Callers \cup {None}
<1>1. caller[c].lock \in Locks \cup {None} /\ caller[c].lock # None /\ caller[c].lock = entry
  BY DEF TypeOK, Locked
<1>2. locks[entry] \in [refs : Nat, holder : Callers \cup {None}] /\ locks[entry].refs > 0
  BY <1>1 DEF TypeOK, Locked
<1> QED  BY <1>1, <1>2

(* One caller at a time is inside the lock.                                *)
LEMMA OneInside ==
  ASSUME TypeOK, Locked
  PROVE  \A c, d \in Callers : caller[c].pc \in Inside /\ caller[d].pc \in Inside => c = d
<1> SUFFICES ASSUME NEW c \in Callers, NEW d \in Callers,
                    caller[c].pc \in Inside, caller[d].pc \in Inside
             PROVE  c = d
  OBVIOUS
<1>1. caller[c].lock = entry /\ caller[d].lock = entry
  BY LockIs DEF Holding
<1> QED  BY <1>1 DEF Locked

(* A step of one caller, in the types.                                     *)
LEMMA CallerTyped ==
  ASSUME TypeOK, NEW c \in Callers, NEW q \in CallerType, caller' = [caller EXCEPT ![c] = q],
         registry' \in RegistryType, entry' \in Locks \cup {None},
         locks' \in [Locks -> [refs : Nat, holder : Callers \cup {None}]],
         actor' \in [Actors -> ActorType],
         idler' \in [Actors -> {"off", "watching", "waiting"}],
         keeper' \in [Actors -> {"off", "watching", "waiting"}],
         stops' \in Nat, asked' \in Nat, UNCHANGED drain
  PROVE  TypeOK'
BY DEF TypeOK, ActorType, CallerType, RegistryType

(* The other actions, in the types.                                        *)
LEMMA OtherTyped ==
  ASSUME TypeOK, registry' \in RegistryType, actor' \in [Actors -> ActorType],
         caller' \in [Callers -> CallerType],
         idler' \in [Actors -> {"off", "watching", "waiting"}],
         keeper' \in [Actors -> {"off", "watching", "waiting"}],
         drain' \in [pc : {"no", "release", "wait", "await", "over"}, listed : Actors \cup {None},
                     actor : Actors \cup {None}, release : Actors \cup {None}],
         stops' \in Nat, UNCHANGED <<entry, locks, asked>>
  PROVE  TypeOK'
BY DEF TypeOK, ActorType, CallerType, RegistryType

LEMMA LookUpTyped ==
  ASSUME TypeOK, NEW c \in Callers, NEW found \in {"dispatch", "unlock"},
         NEW missed \in {"want lock", "load"}, LookUp(c, found, missed),
         UNCHANGED <<entry, locks, idler, keeper, drain, stops>>, asked' \in Nat
  PROVE  TypeOK'
<1>1. /\ caller[c] \in CallerType /\ registry \in RegistryType /\ Nothing \in RegistryType
      /\ actor \in [Actors -> ActorType] /\ registry.release \in Actors \cup {None}
      /\ registry.actor \in Actors \cup {None}
  BY Types DEF RegistryType
<1>2. CASE Finds(registry.actor)
  <2> DEFINE q == [caller[c] EXCEPT !.pc = found, !.actor = registry.actor]
  <2>1. q \in CallerType
    BY <1>1 DEF CallerType
  <2>2. caller' = [caller EXCEPT ![c] = q] /\ UNCHANGED <<registry, actor>>
    BY <1>2 DEF LookUp
  <2> QED  BY <1>1, <2>1, <2>2, CallerTyped DEF TypeOK
<1>3. CASE ~Finds(registry.actor)
  <2> DEFINE q == [caller[c] EXCEPT !.pc = missed]
  <2>1. q \in CallerType
    BY <1>1 DEF CallerType
  <2>2. caller' = [caller EXCEPT ![c] = q]
    BY <1>3 DEF LookUp, Goes
  <2>3. registry' \in RegistryType /\ actor' \in [Actors -> ActorType]
    <3>1. GivesBack(actor, registry.release) \in [Actors -> ActorType]
      BY <1>1, GivesBackIs
    <3>2. registry' \in {registry, Nothing} /\ actor' \in {actor, GivesBack(actor, registry.release)}
      BY <1>3 DEF LookUp
    <3> QED  BY <1>1, <3>1, <3>2
  <2> QED  BY <2>1, <2>2, <2>3, CallerTyped DEF TypeOK
<1> QED  BY <1>2, <1>3

LEMMA NextTyped == TypeOK /\ Made /\ Locked /\ [Next]_vars => TypeOK'
<1> SUFFICES ASSUME TypeOK, Made, Locked, [Next]_vars PROVE TypeOK'
  OBVIOUS
<1>1. /\ actor \in [Actors -> ActorType] /\ caller \in [Callers -> CallerType]
      /\ registry \in RegistryType /\ Nothing \in RegistryType
      /\ Resting \in CallerType /\ Unmade \in ActorType
      /\ registry.release \in Actors \cup {None} /\ registry.actor \in Actors \cup {None}
      /\ registry.cancel \in Actors \cup {None}
  BY Types DEF RegistryType
<1>2. /\ locks \in [Locks -> [refs : Nat, holder : Callers \cup {None}]]
      /\ entry \in Locks \cup {None}
      /\ idler \in [Actors -> {"off", "watching", "waiting"}]
      /\ keeper \in [Actors -> {"off", "watching", "waiting"}]
      /\ drain \in [pc : {"no", "release", "wait", "await", "over"}, listed : Actors \cup {None},
                    actor : Actors \cup {None}, release : Actors \cup {None}]
      /\ stops \in Nat /\ asked \in Nat
      /\ Counts => stops' \in Nat
  <2>1. stops \in Nat /\ MaxStops \in Nat
    BY RegistryAssumption DEF TypeOK
  <2>2. Counts => stops' \in Nat
    BY <2>1 DEF Counts
  <2> QED  BY <2>2 DEF TypeOK
<1>3. ASSUME NEW c \in Callers, Resolve(c) \/ Creates(c) \/ Lock(c) \/ Asks(c) PROVE TypeOK'
  <2> DEFINE q == caller[c]
             l == caller[c].lock
  <2>1. q \in CallerType
    BY <1>1
  <2>2. q.pc \in Holding => l \in Locks /\ locks[l] \in [refs : Nat, holder : Callers \cup {None}]
    BY <1>2, LockIs
  <2>3. CASE Resolve(c)
    <3>1. asked' \in Nat
      <4>1. asked' = asked \/ asked' = asked + 1
        BY <2>3 DEF Resolve
      <4> QED  BY <1>2, <4>1
    <3> QED  BY <2>3, <3>1, LookUpTyped DEF Resolve
  <2>4. CASE LookAgain(c)
    BY <1>2, <2>4, LookUpTyped DEF LookAgain
  <2>5. CASE WantLock(c)
    <3> DEFINE k == IF entry # None THEN entry ELSE CHOOSE j \in Locks : Unused(j)
    <3>1. k \in Locks
      BY <1>2, <2>5 DEF WantLock
    <3>2. [q EXCEPT !.pc = "wait", !.lock = k] \in CallerType
      BY <2>1, <3>1 DEF CallerType
    <3>3. caller' = [caller EXCEPT ![c] = [q EXCEPT !.pc = "wait", !.lock = k]]
      BY <2>5 DEF WantLock
    <3>4. /\ entry' = k /\ locks' = [locks EXCEPT ![k].refs = @ + 1]
          /\ UNCHANGED <<registry, actor, idler, keeper, drain, stops, asked>>
      BY <2>5 DEF WantLock
    <3>5. locks' \in [Locks -> [refs : Nat, holder : Callers \cup {None}]]
      <4>1. locks[k] \in [refs : Nat, holder : Callers \cup {None}]
        BY <1>2, <3>1
      <4>2. locks[k].refs \in Nat
        BY <4>1
      <4>3. locks[k].refs + 1 \in Nat
        BY <4>2
      <4>4. [locks[k] EXCEPT !.refs = @ + 1] \in [refs : Nat, holder : Callers \cup {None}]
        BY <4>1, <4>3
      <4>5. locks' = [locks EXCEPT ![k] = [locks[k] EXCEPT !.refs = @ + 1]]
        BY <3>4
      <4> QED  BY <1>2, <3>1, <4>4, <4>5
    <3> QED  BY <1>1, <1>2, <3>1, <3>2, <3>3, <3>4, <3>5, CallerTyped
  <2>6. CASE Lock(c)
    <3>1. /\ [q EXCEPT !.pc = "look again"] \in CallerType
          /\ caller' = [caller EXCEPT ![c] = [q EXCEPT !.pc = "look again"]]
      BY <2>1, <2>6 DEF Lock, Goes, CallerType
    <3>2. locks' \in [Locks -> [refs : Nat, holder : Callers \cup {None}]]
      BY <1>2, <2>2, <2>6 DEF Lock, At, Holding
    <3> QED  BY <1>1, <1>2, <2>6, <3>1, <3>2, CallerTyped DEF Lock
  <2>7. CASE Unlock(c)
    <3>1. /\ [q EXCEPT !.pc = "unref"] \in CallerType
          /\ caller' = [caller EXCEPT ![c] = [q EXCEPT !.pc = "unref"]]
      BY <2>1, <2>7 DEF Unlock, Goes, CallerType
    <3>2. locks' \in [Locks -> [refs : Nat, holder : Callers \cup {None}]]
      BY <1>2, <2>2, <2>7 DEF Unlock, At, Holding, Inside
    <3> QED  BY <1>1, <1>2, <2>7, <3>1, <3>2, CallerTyped DEF Unlock
  <2>8. CASE Unref(c)
    <3> DEFINE new == IF q.actor = None THEN Resting ELSE [q EXCEPT !.lock = None, !.pc = "dispatch"]
    <3>1. new \in CallerType /\ caller' = [caller EXCEPT ![c] = new]
      <4>1. [q EXCEPT !.lock = None, !.pc = "dispatch"] \in CallerType
        BY <2>1 DEF CallerType
      <4>2. new \in CallerType
        BY <1>1, <4>1
      <4>3. caller' = [caller EXCEPT ![c] = new]
        BY <2>8 DEF Unref
      <4> QED  BY <4>2, <4>3
    <3>2. l \in Locks /\ locks[l].refs \in Nat \ {0}
      BY <2>8, LockIs DEF Unref, At, Holding
    <3>3. locks' \in [Locks -> [refs : Nat, holder : Callers \cup {None}]]
      <4>1. locks[l] \in [refs : Nat, holder : Callers \cup {None}]
        BY <1>2, <3>2
      <4>2. locks[l].refs - 1 \in Nat
        BY <3>2
      <4>3. [locks[l] EXCEPT !.refs = @ - 1] \in [refs : Nat, holder : Callers \cup {None}]
        BY <4>1, <4>2
      <4>4. locks' = [locks EXCEPT ![l] = [locks[l] EXCEPT !.refs = @ - 1]]
        BY <2>8 DEF Unref
      <4> QED  BY <1>2, <3>2, <4>3, <4>4
    <3>4. entry' \in Locks \cup {None}
      <4>1. entry' \in {None, entry}
        BY <2>8, Zenon DEF Unref
      <4> QED  BY <1>2, <4>1
    <3>5. UNCHANGED <<registry, actor, idler, keeper, drain, stops, asked>>
      BY <2>8 DEF Unref
    <3> QED  BY <1>1, <1>2, <3>1, <3>3, <3>4, <3>5, CallerTyped
  <2>9. CASE LoadFails(c)
    <3> DEFINE new == [q EXCEPT !.pc = "unlock", !.actor = None]
    <3>1. new \in CallerType
      BY <2>1 DEF CallerType
    <3>2. caller' = [caller EXCEPT ![c] = new] /\ stops' \in Nat
      BY <1>2, <2>9 DEF LoadFails
    <3> QED  BY <1>1, <1>2, <2>9, <3>1, <3>2, CallerTyped DEF LoadFails
  <2>10. CASE Make(c)
    <3> DEFINE a == CHOOSE b \in Actors : actor[b].state = "unmade"
    <3>1. a \in Actors
      BY <2>10 DEF Make
    <3>2. PICK lease \in {"held", "none"} : actor' = [actor EXCEPT ![a].state = "made", ![a].lease = lease]
      BY <2>10 DEF Make
    <3>3. actor' \in [Actors -> ActorType]
      BY <1>1, <3>1, <3>2 DEF ActorType
    <3> DEFINE new == [q EXCEPT !.pc = "note", !.actor = a]
    <3>4. new \in CallerType
      BY <2>1, <3>1 DEF CallerType
    <3>5. caller' = [caller EXCEPT ![c] = new]
      BY <2>10 DEF Make
    <3> QED  BY <1>1, <1>2, <2>10, <3>3, <3>4, <3>5, CallerTyped DEF Make
  <2>11. CASE Note(c)
    <3>1. q.actor \in Actors
      BY <2>11 DEF Note, At, Made, Making
    <3>2. registry' \in RegistryType
      BY <1>1, <2>11, <3>1 DEF Note, RegistryType
    <3>3. /\ [q EXCEPT !.pc = "start"] \in CallerType
          /\ caller' = [caller EXCEPT ![c] = [q EXCEPT !.pc = "start"]]
      BY <2>1, <2>11 DEF Note, Goes, CallerType
    <3> QED  BY <1>1, <1>2, <2>11, <3>2, <3>3, CallerTyped DEF Note
  <2>12. CASE Start(c)
    <3>1. q.actor \in Actors
      BY <2>12 DEF Start, At, Made, Making
    <3>2. actor' \in [Actors -> ActorType]
      BY <1>1, <2>12, <3>1 DEF Start, ActorType
    <3>3. /\ [q EXCEPT !.pc = "register"] \in CallerType
          /\ caller' = [caller EXCEPT ![c] = [q EXCEPT !.pc = "register"]]
      BY <2>1, <2>12 DEF Start, Goes, CallerType
    <3>4. /\ idler' \in [Actors -> {"off", "watching", "waiting"}]
          /\ keeper' \in [Actors -> {"off", "watching", "waiting"}]
      BY <1>2, <2>12, <3>1 DEF Start
    <3> QED  BY <1>1, <1>2, <2>12, <3>2, <3>3, <3>4, CallerTyped DEF Start
  <2>13. CASE Register(c)
    <3>1. registry' \in RegistryType
      BY <1>1, <2>1, <2>13 DEF Register, RegistryType, CallerType
    <3>2. /\ [q EXCEPT !.pc = "unlock"] \in CallerType
          /\ caller' = [caller EXCEPT ![c] = [q EXCEPT !.pc = "unlock"]]
      BY <2>1, <2>13 DEF Register, Goes, CallerType
    <3> QED  BY <1>1, <1>2, <2>13, <3>1, <3>2, CallerTyped DEF Register
  <2>14. CASE Send(c)
    <3>1. /\ [q EXCEPT !.pc = "sent", !.sent = TRUE] \in CallerType
          /\ caller' = [caller EXCEPT ![c] = [q EXCEPT !.pc = "sent", !.sent = TRUE]]
      BY <2>1, <2>14 DEF Send, CallerType
    <3> QED  BY <1>1, <1>2, <2>14, <3>1, CallerTyped DEF Send
  <2>15. CASE Stopped(c)
    <3> DEFINE new == IF q.stops + 1 < Resolves THEN [Resting EXCEPT !.stops = q.stops + 1] ELSE Resting
    <3>1. [Resting EXCEPT !.stops = q.stops + 1] \in CallerType
      <4>1. q.stops \in Nat
        BY <2>1 DEF CallerType
      <4>2. q.stops + 1 \in Nat
        BY <4>1
      <4> QED  BY <1>1, <4>2 DEF CallerType
    <3>2. new \in CallerType /\ caller' = [caller EXCEPT ![c] = new]
      BY <1>1, <2>15, <3>1 DEF Stopped
    <3> QED  BY <1>1, <1>2, <2>15, <3>2, CallerTyped DEF Stopped
  <2>16. CASE Reply(c)
    BY <1>1, <1>2, <2>16, CallerTyped DEF Reply
  <2> QED
    BY <1>3, <2>3, <2>4, <2>5, <2>6, <2>7, <2>8, <2>9, <2>10, <2>11, <2>12, <2>13, <2>14, <2>15, <2>16
    DEF Creates, Asks
<1>4. ASSUME NEW a \in Actors, NEW c \in Callers, Serve(a, c) PROVE TypeOK'
  <2>1. actor' \in [Actors -> ActorType]
    BY <1>1, <1>4 DEF Serve, ActorType
  <2>2. caller' \in [Callers -> CallerType]
    <3>1. [caller[c] EXCEPT !.sent = FALSE] \in CallerType
      BY <1>1 DEF CallerType
    <3>2. caller' = [caller EXCEPT ![c] = [caller[c] EXCEPT !.sent = FALSE]]
      BY <1>4 DEF Serve
    <3> QED  BY <1>1, <3>1, <3>2
  <2> QED  BY <1>1, <1>2, <1>4, <2>1, <2>2, OtherTyped DEF Serve
<1>5. ASSUME NEW a \in Actors,
             Finish(a) \/ Stop(a) \/ LoseLease(a) \/ GoIdle(a) \/ AfterLoss(a) \/ AfterIdle(a)
      PROVE  TypeOK'
  <2>1. CASE Finish(a)
    <3>1. actor[a].serving \in Callers
      BY <1>1, <2>1 DEF Finish, ActorType
    <3>2. actor' \in [Actors -> ActorType]
      BY <1>1, <2>1 DEF Finish, ActorType
    <3>3. caller' \in [Callers -> CallerType]
      <4> PICK d \in Callers : d = actor[a].serving
        BY <3>1
      <4>1. caller' = [caller EXCEPT ![d] = [caller[d] EXCEPT !.ran = TRUE]]
        BY <2>1 DEF Finish
      <4>2. [caller[d] EXCEPT !.ran = TRUE] \in CallerType
        BY <1>1 DEF CallerType
      <4> QED  BY <1>1, <4>1, <4>2
    <3> QED  BY <1>1, <1>2, <2>1, <3>2, <3>3, OtherTyped DEF Finish
  <2>2. CASE Stop(a)
    <3>1. actor' \in [Actors -> ActorType]
      BY <1>1, <2>2 DEF Stop, ActorType
    <3> QED  BY <1>1, <1>2, <2>2, <3>1, OtherTyped DEF Stop
  <2>3. CASE LoseLease(a)
    <3>1. actor' \in [Actors -> ActorType]
      <4>1. actor' = [actor EXCEPT ![a] = [actor[a] EXCEPT !.cancelled = TRUE, !.lease = "returned"]]
        BY <2>3 DEF LoseLease
      <4>2. [actor[a] EXCEPT !.cancelled = TRUE, !.lease = "returned"] \in ActorType
        BY <1>1 DEF ActorType
      <4> QED  BY <1>1, <4>1, <4>2
    <3> QED  BY <1>1, <1>2, <2>3, <3>1, OtherTyped DEF LoseLease
  <2>4. CASE GoIdle(a)
    <3>1. actor' \in [Actors -> ActorType]
      BY <1>1, <2>4, CancelsIs DEF GoIdle
    <3> QED  BY <1>1, <1>2, <2>4, <3>1, OtherTyped DEF GoIdle
  <2>5. CASE AfterLoss(a)
    <3>1. actor' \in [Actors -> ActorType] /\ registry' \in RegistryType
      BY <1>1, <2>5, GivesBackIs DEF AfterLoss, Remove, Removed
    <3> QED  BY <1>1, <1>2, <2>5, <3>1, OtherTyped DEF AfterLoss
  <2>6. CASE AfterIdle(a)
    <3>1. actor' \in [Actors -> ActorType] /\ registry' \in RegistryType
      BY <1>1, <2>6, GivesBackIs DEF AfterIdle, Remove, Removed
    <3> QED  BY <1>1, <1>2, <2>6, <3>1, OtherTyped DEF AfterIdle
  <2> QED  BY <1>5, <2>1, <2>2, <2>3, <2>4, <2>5, <2>6
<1>6. CASE StartDrain \/ Release \/ Released \/ Drained
  <2>1. actor' \in [Actors -> ActorType]
    <3>1. drain.release \in Actors \cup {None}
      BY <1>2
    <3>2. Released => actor' \in [Actors -> ActorType]
      BY <1>1, <3>1, GivesBackIs DEF Released
    <3>3. Release => actor' \in [Actors -> ActorType]
      BY <1>1, CancelsIs DEF Release
    <3> QED  BY <1>1, <1>6, <3>2, <3>3 DEF StartDrain, Drained
  <2>2. registry' \in RegistryType
    BY <1>1, <1>6 DEF StartDrain, Release, Released, Drained
  <2>3. drain' \in [pc : {"no", "release", "wait", "await", "over"}, listed : Actors \cup {None},
                    actor : Actors \cup {None}, release : Actors \cup {None}]
    BY <1>1, <1>2, <1>6 DEF StartDrain, Release, Released, Drained
  <2> QED  BY <1>1, <1>2, <1>6, <2>1, <2>2, <2>3, OtherTyped DEF StartDrain, Release, Released, Drained
<1>7. CASE UNCHANGED vars
  BY <1>7 DEF vars, TypeOK
<1> QED  BY <1>3, <1>4, <1>5, <1>6, <1>7 DEF Next, Stops, Drains

----------------------------------------------------------------------------
(* The lock of the table                                                   *)

(* A step that neither comes to the lock nor leaves it keeps Locked.       *)
LEMMA LockedKept ==
  ASSUME Locked, UNCHANGED <<entry, locks>>,
         \A d \in Callers : /\ caller'[d].lock = caller[d].lock
                            /\ caller'[d].pc \in Holding <=> caller[d].pc \in Holding
                            /\ caller'[d].pc \in Inside => caller[d].pc \in Inside
  PROVE  Locked'
<1>1. \A l : Referring(l)' = Referring(l)
  BY DEF Referring
<1> QED  BY <1>1 DEF Locked

LEMMA LookUpMoves ==
  ASSUME TypeOK, NEW c \in Callers, NEW found, NEW missed, LookUp(c, found, missed)
  PROVE  /\ \A d \in Callers : d # c => caller'[d] = caller[d]
         /\ caller'[c].lock = caller[c].lock /\ caller'[c].pc \in {found, missed}
<1>1. caller \in [Callers -> CallerType]
  BY Types
<1>2. CASE Finds(registry.actor)
  <2> DEFINE q == [caller[c] EXCEPT !.pc = found, !.actor = registry.actor]
  <2>1. caller' = [caller EXCEPT ![c] = q]
    BY <1>2 DEF LookUp
  <2>2. q.lock = caller[c].lock /\ q.pc = found
    BY <1>1 DEF CallerType
  <2> HIDE DEF q
  <2> QED  BY <1>1, <2>1, <2>2
<1>3. CASE ~Finds(registry.actor)
  BY <1>1, <1>3 DEF LookUp, Goes, CallerType
<1> QED  BY <1>2, <1>3

(* The steps of a caller that are not about the lock.                      *)
LEMMA CallerLocked ==
  ASSUME TypeOK, Locked, NEW c \in Callers,
         \/ Resolve(c) \/ LookAgain(c) \/ LoadFails(c) \/ Make(c) \/ Note(c) \/ Start(c)
         \/ Register(c) \/ Asks(c)
  PROVE  Locked'
<1>1. caller \in [Callers -> CallerType]
  BY Types
<1>2. \A d \in Callers : d # c => caller'[d] = caller[d]
  BY <1>1 DEF Resolve, LookAgain, LoadFails, Make, Note, Start, Register, Asks, Send, Stopped, Reply,
              LookUp, Goes
<1>3. UNCHANGED <<entry, locks>>
  BY DEF Resolve, LookAgain, LoadFails, Make, Note, Start, Register, Asks, Send, Stopped, Reply
<1>4. /\ caller'[c].lock = caller[c].lock
      /\ caller'[c].pc \in Holding <=> caller[c].pc \in Holding
      /\ caller'[c].pc \in Inside => caller[c].pc \in Inside
  <2>1. CASE Resolve(c)
    <3>1. LookUp(c, "dispatch", "want lock") /\ caller[c].pc = "resting"
      BY <2>1 DEF Resolve, At
    <3>2. caller'[c].pc \in {"dispatch", "want lock"} /\ caller'[c].lock = caller[c].lock
      BY <3>1, LookUpMoves
    <3> QED  BY <3>1, <3>2 DEF Holding, Inside, Making
  <2>2. CASE LookAgain(c)
    BY <2>2, LookUpMoves DEF LookAgain, At, Holding, Inside, Making
  <2>3. CASE LoadFails(c)
    BY <1>1, <2>3 DEF LoadFails, At, Holding, Inside, Making
  <2>4. CASE Make(c)
    <3> DEFINE a == CHOOSE b \in Actors : actor[b].state = "unmade"
    <3>0. caller' = [caller EXCEPT ![c] = [caller[c] EXCEPT !.pc = "note", !.actor = a]]
      BY <2>4 DEF Make
    <3> HIDE DEF a
    <3>1. /\ [caller[c] EXCEPT !.pc = "note", !.actor = a].pc = "note"
          /\ [caller[c] EXCEPT !.pc = "note", !.actor = a].lock = caller[c].lock
      BY <1>1 DEF CallerType
    <3>2. caller'[c].pc = "note" /\ caller'[c].lock = caller[c].lock /\ caller[c].pc = "load"
      BY <1>1, <2>4, <3>0, <3>1 DEF Make, At
    <3> QED  BY <3>2 DEF Holding, Inside, Making
  <2>5. CASE Note(c)
    BY <1>1, <2>5 DEF Note, Goes, At, Holding, Inside, Making
  <2>6. CASE Start(c)
    BY <1>1, <2>6 DEF Start, Goes, At, Holding, Inside, Making
  <2>7. CASE Register(c)
    BY <1>1, <2>7 DEF Register, Goes, At, Holding, Inside, Making
  <2>8. CASE Send(c)
    BY <1>1, <2>8 DEF Send, At, Holding, Inside, Making
  <2>9. CASE Stopped(c) \/ Reply(c)
    <3>1. caller[c].pc \in {"dispatch", "sent"} /\ caller[c].lock = None
      BY <2>9 DEF Stopped, Reply, At, Locked, Holding, Inside, Making
    <3>2. caller'[c].pc = "resting" /\ caller'[c].lock = None
      BY <1>1, <2>9 DEF Stopped, Reply, Resting
    <3> QED  BY <3>1, <3>2 DEF Holding, Inside, Making
  <2> QED  BY <2>1, <2>2, <2>3, <2>4, <2>5, <2>6, <2>7, <2>8, <2>9 DEF Asks
<1> QED  BY <1>2, <1>3, <1>4, LockedKept

(* Who refers to a lock is counted.                                        *)
LEMMA ReferringIs == \A l : IsFiniteSet(Referring(l)) /\ Cardinality(Referring(l)) \in Nat
<1> TAKE l
<1>1. IsFiniteSet(Referring(l))
  BY RegistryAssumption, FS_Subset DEF Referring
<1> QED  BY <1>1, FS_CardinalityType

LEMMA WantLockLocked ==
  ASSUME TypeOK, Locked, NEW c \in Callers, WantLock(c)
  PROVE  Locked'
<1> DEFINE k == IF entry # None THEN entry ELSE CHOOSE j \in Locks : Unused(j)
<1>1. /\ caller \in [Callers -> CallerType] /\ entry \in Locks \cup {None}
      /\ locks \in [Locks -> [refs : Nat, holder : Callers \cup {None}]]
  BY Types DEF TypeOK
<1>2. k \in Locks /\ k # None /\ (entry = None => Unused(k))
  BY <1>1, RegistryAssumption DEF WantLock
<1>3. /\ entry' = k /\ locks' = [locks EXCEPT ![k].refs = @ + 1]
      /\ caller' = [caller EXCEPT ![c].pc = "wait", ![c].lock = k]
  BY DEF WantLock
<1> HIDE DEF k
<1>4. caller[c].lock = None /\ caller[c].pc = "want lock"
  BY DEF WantLock, At, Locked, Holding, Inside, Making
<1>5. /\ \A d \in Callers : d # c => caller'[d] = caller[d]
      /\ caller'[c].pc = "wait" /\ caller'[c].lock = k
  BY <1>1, <1>3
<1>6. \A d \in Callers : caller[d].lock # None => caller[d].lock = k
  BY RegistryAssumption DEF Locked, k
<1>7. \A l \in Locks : locks'[l].refs = Cardinality(Referring(l)')
  <2> SUFFICES ASSUME NEW l \in Locks PROVE locks'[l].refs = Cardinality(Referring(l)')
    OBVIOUS
  <2>1. CASE l = k
    <3>1. Referring(l)' = Referring(l) \cup {c} /\ c \notin Referring(l)
      BY <1>2, <1>4, <1>5, <2>1 DEF Referring
    <3>2. Cardinality(Referring(l)') = Cardinality(Referring(l)) + 1
      BY <3>1, ReferringIs, FS_AddElement
    <3>3. locks'[l].refs = locks[l].refs + 1
      BY <1>1, <1>3, <2>1
    <3> QED  BY <3>2, <3>3 DEF Locked
  <2>2. CASE l # k
    <3>1. Referring(l)' = Referring(l)
      BY <1>4, <1>5, <2>2, RegistryAssumption DEF Referring
    <3>2. locks'[l] = locks[l]
      BY <1>1, <1>3, <2>2
    <3> QED  BY <3>1, <3>2 DEF Locked
  <2> QED  BY <2>1, <2>2
<1>8. locks'[k].refs > 0 /\ \A l \in Locks : locks'[l].holder = locks[l].holder
  <2>1. locks[k].refs \in Nat
    BY <1>1, <1>2
  <2> QED  BY <1>1, <1>2, <1>3, <2>1
<1>9. \A d \in Callers : caller'[d].pc \in Inside => locks'[caller'[d].lock].holder = d
  <2> SUFFICES ASSUME NEW d \in Callers, caller'[d].pc \in Inside
               PROVE  locks'[caller'[d].lock].holder = d
    OBVIOUS
  <2>1. d # c /\ caller[d].pc \in Inside
    BY <1>5 DEF Inside, Making
  <2>2. caller[d].lock \in Locks
    BY <2>1, LockIs DEF Holding
  <2> QED  BY <1>5, <1>8, <2>1, <2>2 DEF Locked
<1>10. \A d \in Callers : /\ caller'[d].lock # None <=> caller'[d].pc \in Holding
                          /\ caller'[d].lock # None => caller'[d].lock = k
  <2>1. caller'[c].pc \in Holding
    BY <1>5 DEF Holding
  <2>2. caller'[c].lock # None /\ caller'[c].lock = k
    BY <1>2, <1>5
  <2>3. \A d \in Callers : d # c => /\ caller'[d].lock # None <=> caller'[d].pc \in Holding
                                    /\ caller'[d].lock # None => caller'[d].lock = k
    BY <1>5, <1>6 DEF Locked
  <2> QED  BY <2>1, <2>2, <2>3
<1> QED  BY <1>3, <1>7, <1>8, <1>9, <1>10 DEF Locked

LEMMA LockLocked ==
  ASSUME TypeOK, Locked, NEW c \in Callers, Lock(c) \/ Unlock(c)
  PROVE  Locked'
<1>1. /\ caller \in [Callers -> CallerType] /\ entry \in Locks \cup {None}
      /\ locks \in [Locks -> [refs : Nat, holder : Callers \cup {None}]]
  BY Types DEF TypeOK
<1>2. caller[c].lock \in Locks /\ caller[c].lock = entry
  BY LockIs DEF Lock, Unlock, At, Holding, Inside
<1>3. /\ \A d \in Callers : caller'[d].lock = caller[d].lock /\ (d # c => caller'[d] = caller[d])
      /\ caller'[c].pc \in Holding /\ caller[c].pc \in Holding
      /\ \A l \in Locks : locks'[l].refs = locks[l].refs /\ UNCHANGED entry
  <2>1. CASE Lock(c)
    <3>1. /\ \A d \in Callers : caller'[d].lock = caller[d].lock /\ (d # c => caller'[d] = caller[d])
          /\ caller'[c].pc = "look again" /\ caller[c].pc = "wait"
      BY <1>1, <2>1 DEF Lock, Goes, At, CallerType
    <3>2. \A l \in Locks : locks'[l].refs = locks[l].refs /\ UNCHANGED entry
      BY <1>1, <1>2, <2>1 DEF Lock
    <3> QED  BY <3>1, <3>2 DEF Holding, Inside
  <2>2. CASE Unlock(c)
    <3>1. /\ \A d \in Callers : caller'[d].lock = caller[d].lock /\ (d # c => caller'[d] = caller[d])
          /\ caller'[c].pc = "unref" /\ caller[c].pc = "unlock"
      BY <1>1, <2>2 DEF Unlock, Goes, At, CallerType
    <3>2. \A l \in Locks : locks'[l].refs = locks[l].refs /\ UNCHANGED entry
      BY <1>1, <1>2, <2>2 DEF Unlock
    <3> QED  BY <3>1, <3>2 DEF Holding, Inside
  <2> QED  BY <2>1, <2>2
<1>4. \A l : Referring(l)' = Referring(l)
  BY <1>3 DEF Referring
<1>5. \A d \in Callers : caller'[d].pc \in Inside => locks'[caller'[d].lock].holder = d
  <2> SUFFICES ASSUME NEW d \in Callers, caller'[d].pc \in Inside
               PROVE  locks'[caller'[d].lock].holder = d
    OBVIOUS
  <2>1. CASE Lock(c)
    <3>1. locks[entry].holder = None /\ locks' = [locks EXCEPT ![entry].holder = c]
      BY <1>2, <2>1 DEF Lock
    <3>2. CASE d = c
      BY <1>1, <1>2, <1>3, <3>1, <3>2
    <3>3. CASE d # c
      <4>1. caller[d].pc \in Inside /\ caller[d].lock = entry
        BY <1>3, <3>3, LockIs DEF Holding
      <4>2. locks[entry].holder = d
        BY <4>1 DEF Locked
      <4> QED  BY <3>1, <4>2, RegistryAssumption
    <3> QED  BY <3>2, <3>3
  <2>2. CASE Unlock(c)
    <3>1. caller[c].pc \in Inside /\ caller'[c].pc = "unref"
      BY <1>1, <2>2 DEF Unlock, Goes, At, Inside, CallerType
    <3>2. d # c
      BY <3>1 DEF Inside, Making
    <3>3. caller[d].pc \in Inside
      BY <1>3, <3>2
    <3> QED  BY <3>1, <3>2, <3>3, OneInside
  <2> QED  BY <2>1, <2>2
<1>6. \A d \in Callers : caller'[d].lock # None <=> caller'[d].pc \in Holding
  BY <1>3 DEF Locked
<1> QED  BY <1>1, <1>3, <1>4, <1>5, <1>6 DEF Locked

LEMMA UnrefLocked ==
  ASSUME TypeOK, Locked, NEW c \in Callers, Unref(c)
  PROVE  Locked'
<1>1. /\ caller \in [Callers -> CallerType] /\ entry \in Locks \cup {None}
      /\ locks \in [Locks -> [refs : Nat, holder : Callers \cup {None}]]
  BY Types DEF TypeOK
<1> PICK l \in Locks : l = caller[c].lock
  BY LockIs DEF Unref, At, Holding
<1>2. l = entry /\ locks[l].refs \in Nat \ {0} /\ l # None
  BY LockIs, RegistryAssumption DEF Unref, At, Holding
<1>3. /\ \A d \in Callers : d # c => caller'[d] = caller[d]
      /\ caller'[c].lock = None /\ caller'[c].pc \in {"resting", "dispatch"}
  BY <1>1 DEF Unref, Resting
<1>4. /\ \A k \in Locks : k # l => locks'[k] = locks[k]
      /\ locks'[l].refs = locks[l].refs - 1
      /\ \A k \in Locks : locks'[k].holder = locks[k].holder
  BY <1>1, <1>2 DEF Unref
<1>5. /\ \A k \in Locks : k # l => Referring(k)' = Referring(k)
      /\ Referring(l)' = Referring(l) \ {c} /\ c \in Referring(l)
  <2>1. \A k \in Locks : k # None
    BY RegistryAssumption
  <2>2. ASSUME NEW k \in Locks, k # l PROVE Referring(k)' = Referring(k)
    <3>1. caller[c].lock # k /\ caller'[c].lock # k
      BY <1>3, <2>1, <2>2
    <3>2. \A d \in Callers : caller'[d].lock = k <=> caller[d].lock = k
      BY <1>3, <3>1
    <3> QED  BY <3>2 DEF Referring
  <2>3. \A d \in Callers : caller'[d].lock = l <=> caller[d].lock = l /\ d # c
    BY <1>2, <1>3
  <2>4. c \in Referring(l)
    BY DEF Referring
  <2>5. Referring(l)' = Referring(l) \ {c}
    BY <2>3 DEF Referring
  <2> QED  BY <2>2, <2>4, <2>5
<1>6. Cardinality(Referring(l)') = Cardinality(Referring(l)) - 1
  <2>1. IsFiniteSet(Referring(l))
    BY ReferringIs
  <2>2. Cardinality(Referring(l) \ {c}) = Cardinality(Referring(l)) - 1
    BY <1>5, <2>1, FS_RemoveElement
  <2> QED  BY <1>5, <2>2
<1>7. \A k \in Locks : locks'[k].refs = Cardinality(Referring(k)')
  <2>1. \A k \in Locks : locks[k].refs = Cardinality(Referring(k))
    BY DEF Locked
  <2>2. locks'[l].refs = Cardinality(Referring(l)')
    BY <1>4, <1>6, <2>1
  <2>3. ASSUME NEW k \in Locks, k # l PROVE locks'[k].refs = Cardinality(Referring(k)')
    BY <1>4, <1>5, <2>1, <2>3
  <2> QED  BY <2>2, <2>3
<1>8. /\ locks[l].refs = 1 => entry' = None
      /\ locks[l].refs # 1 => entry' = entry
  BY <1>2 DEF Unref, Unwanted
<1>9. locks[l].refs = 1 => \A d \in Callers : d # c => caller[d].lock = None
  <2> SUFFICES ASSUME locks[l].refs = 1, NEW d \in Callers, d # c, caller[d].lock # None PROVE FALSE
    OBVIOUS
  <2>1. caller[d].lock = l
    BY <1>2 DEF Locked
  <2>2. d \in Referring(l)'
    BY <1>3, <2>1 DEF Referring
  <2>3. Cardinality(Referring(l)') = 0
    BY <1>2, <1>6 DEF Locked
  <2>4. IsFiniteSet(Referring(l)')
    BY <1>5, ReferringIs, FS_RemoveElement
  <2> QED  BY <2>2, <2>3, <2>4, FS_EmptySet
<1>10. \A d \in Callers : /\ caller'[d].lock # None <=> caller'[d].pc \in Holding
                          /\ caller'[d].lock # None => caller'[d].lock = entry'
  <2>1. caller'[c].lock = None /\ caller'[c].pc \notin Holding
    BY <1>3 DEF Holding, Inside, Making
  <2>2. \A d \in Callers : d # c => (caller'[d].lock # None <=> caller'[d].pc \in Holding)
    BY <1>3 DEF Locked
  <2>3. \A d \in Callers : d # c /\ caller'[d].lock # None => caller'[d].lock = entry'
    BY <1>3, <1>8, <1>9 DEF Locked
  <2> QED  BY <2>1, <2>2, <2>3
<1>11. \A d \in Callers : caller'[d].pc \in Inside => locks'[caller'[d].lock].holder = d
  <2> SUFFICES ASSUME NEW d \in Callers, caller'[d].pc \in Inside
               PROVE  locks'[caller'[d].lock].holder = d
    OBVIOUS
  <2>1. d # c /\ caller[d].pc \in Inside
    BY <1>3 DEF Inside, Making
  <2>2. caller[d].lock \in Locks
    BY <2>1, LockIs DEF Holding
  <2> QED  BY <1>3, <1>4, <2>1, <2>2 DEF Locked
<1>12. entry' # None => locks'[entry'].refs > 0
  BY <1>2, <1>4, <1>8
<1> QED  BY <1>7, <1>10, <1>11, <1>12 DEF Locked

(* A step of nobody's request leaves where each caller is.                 *)
LEMMA OthersStand ==
  ASSUME TypeOK, [Next]_vars,
         ~\E c \in Callers : Resolve(c) \/ Creates(c) \/ Lock(c) \/ Asks(c)
  PROVE  /\ UNCHANGED <<entry, locks>>
         /\ \A d \in Callers : /\ caller'[d].pc = caller[d].pc /\ caller'[d].lock = caller[d].lock
                               /\ caller'[d].actor = caller[d].actor
<1>1. caller \in [Callers -> CallerType] /\ actor \in [Actors -> ActorType]
  BY Types
<1>2. ASSUME NEW a \in Actors, NEW c \in Callers, Serve(a, c)
      PROVE  \A d \in Callers : /\ caller'[d].pc = caller[d].pc /\ caller'[d].lock = caller[d].lock
                                /\ caller'[d].actor = caller[d].actor
  BY <1>1, <1>2 DEF Serve, CallerType
<1>3. ASSUME NEW a \in Actors, Finish(a)
      PROVE  \A d \in Callers : /\ caller'[d].pc = caller[d].pc /\ caller'[d].lock = caller[d].lock
                                /\ caller'[d].actor = caller[d].actor
  <2> PICK d \in Callers : d = actor[a].serving
    BY <1>1, <1>3 DEF Finish, ActorType
  <2>1. caller' = [caller EXCEPT ![d] = [caller[d] EXCEPT !.ran = TRUE]]
    BY <1>3 DEF Finish
  <2>2. [caller[d] EXCEPT !.ran = TRUE].pc = caller[d].pc /\ [caller[d] EXCEPT !.ran = TRUE].lock = caller[d].lock
        /\ [caller[d] EXCEPT !.ran = TRUE].actor = caller[d].actor
    BY <1>1 DEF CallerType
  <2> QED  BY <1>1, <2>1, <2>2
<1>4. \/ UNCHANGED caller
      \/ \E a \in Actors : Finish(a) \/ \E c \in Callers : Serve(a, c)
  BY DEF Next, Stops, Drains, Stop, LoseLease, GoIdle, AfterLoss, AfterIdle, StartDrain, Release,
         Released, Drained, vars
<1>5. UNCHANGED <<entry, locks>>
  BY DEF Next, Stops, Drains, Serve, Finish, Stop, LoseLease, GoIdle, AfterLoss, AfterIdle,
         StartDrain, Release, Released, Drained, vars
<1> QED  BY <1>2, <1>3, <1>4, <1>5

LEMMA LockedStep == TypeOK /\ Locked /\ [Next]_vars => Locked'
<1> SUFFICES ASSUME TypeOK, Locked, [Next]_vars PROVE Locked'
  OBVIOUS
<1>1. ASSUME NEW c \in Callers, Resolve(c) \/ Creates(c) \/ Lock(c) \/ Asks(c) PROVE Locked'
  BY <1>1, CallerLocked, WantLockLocked, LockLocked, UnrefLocked DEF Creates
<1>2. CASE ~\E c \in Callers : Resolve(c) \/ Creates(c) \/ Lock(c) \/ Asks(c)
  BY <1>2, OthersStand, LockedKept
<1> QED  BY <1>1, <1>2

----------------------------------------------------------------------------
(* Who makes an actor                                                      *)

Makes(c) == Make(c) \/ Note(c) \/ Start(c) \/ Register(c)

(* Actors stop and start not again; no lease is taken; the registry keeps  *)
(* what it has, unless its actor has stopped or the drain takes it out.    *)
Stands ==
  /\ \A b \in Actors :
       \/ actor'[b].state = actor[b].state
       \/ actor[b].state = "running" /\ actor'[b].state = "done"
  /\ \A b \in Actors : actor'[b].lease = "held" => actor[b].lease = "held"
  /\ \A b \in Actors : actor'[b].lease = "held" /\ b \in {registry.release, drain.release} =>
       b \in {registry'.release, drain'.release}
  /\ \/ registry' = registry
     \/ registry' = Nothing /\ (drain.pc = "release" \/ ~Alive(registry.actor))
  /\ drain'.pc = "no" => drain.pc = "no"
  /\ drain'.pc \in {"no", "release"} => drain.pc \in {"no", "release"} /\ drain'.release = drain.release

(* Who makes an actor goes on with it.                                     *)
Continues(d) ==
  /\ caller[d].pc \in Making \/ caller'[d].pc \in Making =>
       caller'[d].pc = caller[d].pc /\ caller'[d].actor = caller[d].actor
  /\ caller'[d].pc = "load" =>
       \/ caller[d].pc = "load"
       \/ /\ caller[d].pc = "look again" /\ ~Finds(registry.actor)
          /\ registry.actor = None \/ registry' = Nothing

LEMMA LookUpStands ==
  ASSUME TypeOK, NEW c \in Callers, NEW found, NEW missed, LookUp(c, found, missed), found # missed,
         UNCHANGED drain
  PROVE  /\ Stands
         /\ caller'[c].pc = missed =>
              ~Finds(registry.actor) /\ (registry.actor = None \/ registry' = Nothing)
<1>1. /\ caller \in [Callers -> CallerType] /\ registry.release \in Actors \cup {None}
      /\ actor \in [Actors -> ActorType]
  BY Types DEF RegistryType
<1>2. CASE Finds(registry.actor)
  <2>1. caller' = [caller EXCEPT ![c].pc = found, ![c].actor = registry.actor]
    BY <1>2 DEF LookUp
  <2>2. caller'[c].pc = found
    BY <1>1, <2>1 DEF CallerType
  <2>3. UNCHANGED <<registry, actor>>
    BY <1>2 DEF LookUp
  <2> QED  BY <2>2, <2>3 DEF Stands
<1>3. CASE ~Finds(registry.actor)
  <2>1. CASE registry.actor = None
    <3>1. UNCHANGED <<registry, actor>>
      BY <1>3, <2>1 DEF LookUp
    <3> QED  BY <1>3, <2>1, <3>1 DEF Stands
  <2>2. CASE registry.actor # None
    <3>1. registry' = Nothing /\ actor' = GivesBack(actor, registry.release) /\ ~Alive(registry.actor)
      BY <1>3, <2>2 DEF LookUp, Finds
    <3>2. \A b \in Actors : /\ actor'[b].state = actor[b].state
                            /\ actor'[b].lease = "held" => actor[b].lease = "held" /\ b # registry.release
      BY <1>1, <3>1, GivesBackIs
    <3> QED  BY <1>3, <3>1, <3>2 DEF Stands
  <2> QED  BY <2>1, <2>2
<1> QED  BY <1>2, <1>3

LEMMA CallerStands ==
  ASSUME TypeOK, Locked, NEW c \in Callers, Resolve(c) \/ Creates(c) \/ Lock(c) \/ Asks(c), ~Makes(c)
  PROVE  Stands /\ \A d \in Callers : Continues(d)
<1>1. caller \in [Callers -> CallerType]
  BY Types
<1>2. CASE Resolve(c)
  <2>1. LookUp(c, "dispatch", "want lock") /\ caller[c].pc = "resting" /\ UNCHANGED drain
    BY <1>2 DEF Resolve, At
  <2>2. /\ \A d \in Callers : d # c => caller'[d] = caller[d]
        /\ caller'[c].pc \in {"dispatch", "want lock"} /\ Stands
    BY <2>1, LookUpMoves, LookUpStands
  <2> QED  BY <2>1, <2>2 DEF Continues, Making
<1>3. CASE LookAgain(c)
  <2>1. LookUp(c, "unlock", "load") /\ caller[c].pc = "look again" /\ UNCHANGED drain
    BY <1>3 DEF LookAgain, At
  <2>2. /\ \A d \in Callers : d # c => caller'[d] = caller[d]
        /\ caller'[c].pc \in {"unlock", "load"} /\ Stands
        /\ caller'[c].pc = "load" => ~Finds(registry.actor) /\ (registry.actor = None \/ registry' = Nothing)
    BY <2>1, LookUpMoves, LookUpStands
  <2> QED  BY <2>1, <2>2 DEF Continues, Making
<1>4. CASE WantLock(c) \/ Lock(c) \/ Unlock(c) \/ Unref(c) \/ LoadFails(c) \/ Asks(c)
  <2>1. UNCHANGED <<registry, actor, drain>>
    BY <1>4 DEF WantLock, Lock, Unlock, Unref, LoadFails, Asks, Send, Stopped, Reply
  <2>2. \A d \in Callers : d # c => caller'[d] = caller[d]
    BY <1>1, <1>4 DEF WantLock, Lock, Unlock, Unref, LoadFails, Asks, Send, Stopped, Reply, Goes
  <2>3. caller[c].pc \notin Making /\ caller'[c].pc \notin Making \cup {"load"}
    <3>1. CASE WantLock(c)
      BY <1>1, <3>1 DEF WantLock, At, Making, CallerType
    <3>2. CASE Lock(c)
      BY <1>1, <3>2 DEF Lock, Goes, At, Making, CallerType
    <3>3. CASE Unlock(c)
      BY <1>1, <3>3 DEF Unlock, Goes, At, Making, CallerType
    <3>4. CASE Unref(c)
      BY <1>1, <3>4 DEF Unref, At, Making, CallerType, Resting
    <3>5. CASE LoadFails(c)
      BY <1>1, <3>5 DEF LoadFails, At, Making, CallerType
    <3>6. CASE Send(c)
      BY <1>1, <3>6 DEF Send, At, Making, CallerType
    <3>7. CASE Stopped(c)
      BY <1>1, <3>7 DEF Stopped, At, Making, Resting
    <3>8. CASE Reply(c)
      BY <1>1, <3>8 DEF Reply, At, Making, Resting
    <3> QED  BY <1>4, <3>1, <3>2, <3>3, <3>4, <3>5, <3>6, <3>7, <3>8 DEF Asks
  <2> QED  BY <2>1, <2>2, <2>3 DEF Stands, Continues
<1> QED  BY <1>2, <1>3, <1>4 DEF Creates, Makes

LEMMA RemoveStands ==
  ASSUME TypeOK, NEW a \in Actors, Remove(a), UNCHANGED drain
  PROVE  Stands
<1>1. registry.release \in Actors \cup {None} /\ actor \in [Actors -> ActorType]
  BY Types DEF RegistryType
<1>2. CASE registry' = registry
  BY <1>2 DEF Remove, Stands
<1>3. CASE registry' # registry
  <2>1. registry' = Nothing /\ ~Alive(registry.actor) /\ actor' = GivesBack(actor, registry.release)
    BY <1>3 DEF Remove, Removed
  <2>2. \A b \in Actors : /\ actor'[b].state = actor[b].state
                          /\ actor'[b].lease = "held" => actor[b].lease = "held" /\ b # registry.release
    BY <1>1, <2>1, GivesBackIs
  <2> QED  BY <2>1, <2>2 DEF Stands
<1> QED  BY <1>2, <1>3

LEMMA OtherStands ==
  ASSUME TypeOK, Owed, [Next]_vars,
         ~\E c \in Callers : Resolve(c) \/ Creates(c) \/ Lock(c) \/ Asks(c)
  PROVE  Stands /\ \A d \in Callers : Continues(d)
<1>1. /\ actor \in [Actors -> ActorType] /\ registry \in RegistryType
      /\ registry.cancel \in Actors \cup {None} /\ drain.release \in Actors \cup {None}
      /\ drain \in [pc : {"no", "release", "wait", "await", "over"}, listed : Actors \cup {None},
                    actor : Actors \cup {None}, release : Actors \cup {None}]
  BY Types DEF RegistryType, TypeOK
<1>2. \A d \in Callers : Continues(d)
  BY OthersStand DEF Continues, Making
<1>3. ASSUME NEW a \in Actors, \/ Finish(a) \/ Stop(a) \/ LoseLease(a) \/ GoIdle(a)
                               \/ \E c \in Callers : Serve(a, c)
      PROVE  Stands
  <2>1. UNCHANGED <<registry, drain>>
    BY <1>3 DEF Finish, Stop, LoseLease, GoIdle, Serve
  <2>2. \A b \in Actors : /\ \/ actor'[b].state = actor[b].state
                             \/ actor[b].state = "running" /\ actor'[b].state = "done"
                          /\ actor'[b].lease = "held" => actor[b].lease = "held"
    <3>1. CASE Finish(a) \/ \E c \in Callers : Serve(a, c)
      BY <1>1, <3>1 DEF Finish, Serve, ActorType
    <3>2. CASE Stop(a)
      BY <1>1, <3>2 DEF Stop, Running, ActorType
    <3>3. CASE LoseLease(a)
      BY <1>1, <3>3 DEF LoseLease, ActorType
    <3>4. CASE GoIdle(a)
      BY <1>1, <3>4, CancelsIs DEF GoIdle
    <3> QED  BY <1>3, <3>1, <3>2, <3>3, <3>4
  <2> QED  BY <2>1, <2>2 DEF Stands
<1>4. ASSUME NEW a \in Actors, AfterLoss(a) \/ AfterIdle(a) PROVE Stands
  BY <1>4, RemoveStands DEF AfterLoss, AfterIdle
<1>5. CASE StartDrain
  <2>1. UNCHANGED <<registry, actor>> /\ drain.pc = "no" /\ drain'.release = drain.release
    BY <1>1, <1>5 DEF StartDrain
  <2> QED  BY <1>2, <2>1 DEF Stands
<1>6. CASE Release
  <2>1. \A b \in Actors : actor'[b].state = actor[b].state /\ actor'[b].lease = actor[b].lease
    BY <1>1, <1>6, CancelsIs DEF Release
  <2>2. drain.release = None
    BY <1>6 DEF Release, Owed
  <2>3. drain'.pc = "wait" /\ drain'.release = registry.release /\ registry' = Nothing /\ drain.pc = "release"
    BY <1>1, <1>6 DEF Release
  <2>4. None \notin Actors
    BY RegistryAssumption
  <2>5. \A b \in Actors : b \in {registry.release, drain.release} => b \in {registry'.release, drain'.release}
    BY <2>2, <2>3, <2>4
  <2> QED  BY <1>2, <2>1, <2>3, <2>5 DEF Stands
<1>7. CASE Released
  <2>1. \A b \in Actors : /\ actor'[b].state = actor[b].state
                          /\ actor'[b].lease = "held" => actor[b].lease = "held" /\ b # drain.release
    BY <1>1, <1>7, GivesBackIs DEF Released
  <2>2. drain'.pc = "await" /\ UNCHANGED registry
    BY <1>1, <1>7 DEF Released
  <2>3. \A b \in Actors : actor'[b].lease = "held" /\ b \in {registry.release, drain.release} =>
          b \in {registry'.release, drain'.release}
    BY <2>1, <2>2
  <2> QED  BY <1>2, <2>1, <2>2, <2>3 DEF Stands
<1>8. CASE Drained \/ UNCHANGED vars
  <2>1. UNCHANGED <<registry, actor>> /\ drain'.release = drain.release
    BY <1>1, <1>8 DEF Drained, vars
  <2>2. drain'.pc \in {"no", "release"} => drain' = drain
    BY <1>1, <1>8 DEF Drained, vars
  <2> QED  BY <1>2, <2>1, <2>2 DEF Stands
<1> QED  BY <1>2, <1>3, <1>4, <1>5, <1>6, <1>7, <1>8 DEF Next, Stops, Drains

(* While nobody makes an actor, what is known of those who do stays.       *)
LEMMA StandsKeeps ==
  ASSUME TypeOK, Made, Locked, Alone, Owed, Stands, \A d \in Callers : Continues(d)
  PROVE  Made' /\ Alone' /\ Owed'
<1>1. Made'
  <2>1. ASSUME NEW d \in Callers, caller'[d].pc \in Making
        PROVE  caller'[d].actor \in Actors /\ caller'[d].actor = caller[d].actor /\ caller'[d].pc = caller[d].pc
    BY <2>1 DEF Made, Continues
  <2>2. ASSUME NEW d \in Callers, caller'[d].pc \in {"note", "start"}
        PROVE  actor'[caller'[d].actor].state = "made"
    <3>1. caller'[d].actor \in Actors /\ caller'[d].actor = caller[d].actor /\ caller'[d].pc = caller[d].pc
      BY <2>1, <2>2 DEF Making
    <3>2. actor[caller[d].actor].state = "made"
      BY <2>2, <3>1 DEF Made
    <3> QED  BY <3>1, <3>2 DEF Stands
  <2> QED  BY <2>1, <2>2 DEF Made
<1>2. \A a \in Actors : Live(a)' => Live(a)
  BY DEF Stands, Live
<1>3. ASSUME drain'.pc = "no"
      PROVE  /\ drain.pc = "no"
             /\ \A a \in Actors : Live(a) /\ registry.actor = a => registry'.actor = a
  <2>1. drain.pc = "no"
    BY <1>3 DEF Stands
  <2>2. \A a \in Actors : Live(a) => Alive(a)
    BY DEF Live, Alive
  <2> QED  BY <2>1, <2>2 DEF Stands
<1>4. ASSUME NEW c \in Callers, caller[c].pc = "look again", ~Finds(registry.actor),
             drain.pc = "no", NEW a \in Actors
      PROVE  ~Live(a)
  <2> SUFFICES ASSUME Live(a) PROVE FALSE
    OBVIOUS
  <2>1. registry.actor = a \/ \E d \in Callers : caller[d].pc \in Making
    BY <1>4 DEF Alone
  <2>2. ~\E d \in Callers : caller[d].pc \in Making
    BY <1>4, OneInside DEF Inside, Making
  <2>3. Alive(a) /\ a # None
    BY RegistryAssumption DEF Live, Alive
  <2> QED  BY <1>4, <2>1, <2>2, <2>3 DEF Finds
<1>5. Alone'
  <2> SUFFICES ASSUME drain'.pc = "no"
               PROVE  /\ \A a \in Actors : Live(a)' =>
                           \/ registry'.actor = a
                           \/ \E c \in Callers : caller'[c].pc \in Making /\ caller'[c].actor = a
                      /\ \A c \in Callers : caller'[c].pc = "load" => \A a \in Actors : ~Live(a)'
                      /\ \A c \in Callers : caller'[c].pc \in Making =>
                           \A a \in Actors : Live(a)' => a = caller'[c].actor
    BY DEF Alone
  <2>1. drain.pc = "no" /\ \A a \in Actors : Live(a) /\ registry.actor = a => registry'.actor = a
    BY <1>3
  <2>2. \A a \in Actors : Live(a)' =>
          registry'.actor = a \/ \E c \in Callers : caller'[c].pc \in Making /\ caller'[c].actor = a
    <3> SUFFICES ASSUME NEW a \in Actors, Live(a), registry.actor # a
                 PROVE  \E c \in Callers : caller'[c].pc \in Making /\ caller'[c].actor = a
      BY <1>2, <2>1
    <3> PICK c \in Callers : caller[c].pc \in Making /\ caller[c].actor = a
      BY <2>1 DEF Alone
    <3> QED  BY DEF Continues
  <2>3. \A c \in Callers : caller'[c].pc = "load" => \A a \in Actors : ~Live(a)'
    BY <1>2, <1>4, <2>1 DEF Alone, Continues
  <2>4. \A c \in Callers : caller'[c].pc \in Making => \A a \in Actors : Live(a)' => a = caller'[c].actor
    BY <1>2, <2>1 DEF Alone, Continues
  <2> QED  BY <2>2, <2>3, <2>4
<1>6. \A a \in Actors : actor'[a].lease = "held" =>
        \/ a \in {registry'.release, drain'.release}
        \/ \E c \in Callers : caller'[c].pc = "note" /\ caller'[c].actor = a
  <2> SUFFICES ASSUME NEW a \in Actors, actor'[a].lease = "held"
               PROVE  \/ a \in {registry'.release, drain'.release}
                      \/ \E c \in Callers : caller'[c].pc = "note" /\ caller'[c].actor = a
    OBVIOUS
  <2>1. actor[a].lease = "held"
    BY DEF Stands
  <2>2. CASE a \in {registry.release, drain.release}
    BY <2>2 DEF Stands
  <2>3. ASSUME NEW c \in Callers, caller[c].pc = "note", caller[c].actor = a
        PROVE  caller'[c].pc = "note" /\ caller'[c].actor = a
    BY <2>3 DEF Continues, Making
  <2> QED  BY <2>1, <2>2, <2>3 DEF Owed
<1>7. registry' = registry \/ registry'.release = None
  BY DEF Stands, Nothing
<1>8. registry'.release # None =>
        registry'.actor # None \/ \E c \in Callers : caller'[c].pc \in {"start", "register"}
  <2> SUFFICES ASSUME registry'.release # None
               PROVE  registry'.actor # None \/ \E c \in Callers : caller'[c].pc \in {"start", "register"}
    OBVIOUS
  <2>1. registry' = registry
    BY <1>7
  <2> QED  BY <2>1 DEF Owed, Continues, Making
<1>9. \A c \in Callers : caller'[c].pc \in {"load", "note"} => registry'.release = None
  <2> SUFFICES ASSUME NEW c \in Callers, caller'[c].pc \in {"load", "note"}, registry' = registry
               PROVE  registry.release = None
    BY <1>7
  <2>1. CASE caller[c].pc \in {"load", "note"}
    BY <2>1 DEF Owed
  <2>2. CASE caller[c].pc \notin {"load", "note"}
    <3>1. caller[c].pc = "look again" /\ (registry.actor = None \/ registry' = Nothing)
      BY <2>2 DEF Continues, Making
    <3>2. registry.actor = None
      <4>1. Nothing.actor = None
        BY DEF Nothing
      <4> QED  BY <3>1, <4>1
    <3>3. ~\E d \in Callers : caller[d].pc \in {"start", "register"}
      BY <3>1, OneInside DEF Inside, Making
    <3> QED  BY <3>2, <3>3 DEF Owed
  <2> QED  BY <2>1, <2>2
<1>10. drain'.pc \in {"no", "release"} => drain'.release = None
  BY DEF Owed, Stands
<1>11. Owed'
  BY <1>6, <1>8, <1>9, <1>10 DEF Owed
<1> QED  BY <1>1, <1>5, <1>11

(* The steps that make an actor, start it and register it.                 *)
LEMMA MakesKeeps ==
  ASSUME TypeOK, Made, Locked, Alone, Owed, NEW c \in Callers, Makes(c)
  PROVE  Made' /\ Alone' /\ Owed'
<1>1. /\ actor \in [Actors -> ActorType] /\ caller \in [Callers -> CallerType]
      /\ registry \in RegistryType /\ None \notin Actors
  BY Types, RegistryAssumption
<1>2. /\ caller[c].pc \in {"load"} \cup Making
      /\ caller'[c].pc \in Making \cup {"unlock"}
      /\ \A d \in Callers : d # c => caller'[d] = caller[d]
      /\ UNCHANGED drain
  <2>1. CASE Make(c)
    <3> DEFINE b == CHOOSE a \in Actors : actor[a].state = "unmade"
    <3>1. caller[c].pc = "load" /\ UNCHANGED drain
      BY <2>1 DEF Make, At
    <3>2. caller' = [caller EXCEPT ![c] = [caller[c] EXCEPT !.pc = "note", !.actor = b]]
      BY <2>1 DEF Make
    <3>3. [caller[c] EXCEPT !.pc = "note", !.actor = b].pc = "note"
      BY <1>1 DEF CallerType
    <3> QED  BY <1>1, <3>1, <3>2, <3>3 DEF Making
  <2>2. CASE Note(c)
    BY <1>1, <2>2 DEF Note, Goes, At, Making, CallerType
  <2>3. CASE Start(c)
    BY <1>1, <2>3 DEF Start, Goes, At, Making, CallerType
  <2>4. CASE Register(c)
    BY <1>1, <2>4 DEF Register, Goes, At, Making, CallerType
  <2> QED  BY <2>1, <2>2, <2>3, <2>4 DEF Makes
<1>3. \A d \in Callers : d # c => caller[d].pc \notin Making \cup {"load"}
  BY <1>2, OneInside DEF Inside
<1>4. CASE Make(c)
  <2> DEFINE b == CHOOSE a \in Actors : actor[a].state = "unmade"
  <2>1. b \in Actors /\ actor[b].state = "unmade"
    BY <1>4 DEF Make
  <2>2. /\ \A a \in Actors : a # b => actor'[a] = actor[a]
        /\ actor'[b].state = "made"
    BY <1>1, <1>4, <2>1 DEF Make, ActorType
  <2>3. caller'[c].pc = "note" /\ caller'[c].actor = b /\ caller[c].pc = "load" /\ UNCHANGED registry
    <3>1. caller[c].pc = "load" /\ UNCHANGED registry
      BY <1>4 DEF Make, At
    <3>2. caller' = [caller EXCEPT ![c] = [caller[c] EXCEPT !.pc = "note", !.actor = b]]
      BY <1>4 DEF Make
    <3> HIDE DEF b
    <3>3. /\ [caller[c] EXCEPT !.pc = "note", !.actor = b].pc = "note"
          /\ [caller[c] EXCEPT !.pc = "note", !.actor = b].actor = b
      BY <1>1 DEF CallerType
    <3> QED  BY <1>1, <3>1, <3>2, <3>3
  <2> HIDE DEF b
  <2>4. Made'
    BY <1>2, <1>3, <2>1, <2>2, <2>3 DEF Made, Making
  <2>5. drain.pc = "no" => \A a \in Actors : Live(a)' => a = b
    BY <2>2, <2>3 DEF Alone, Live
  <2>6. Alone'
    BY <1>2, <1>3, <2>3, <2>5 DEF Alone, Making
  <2>7. registry.release = None
    BY <2>3 DEF Owed
  <2>8. Owed'
    BY <1>2, <1>3, <2>2, <2>3, <2>7 DEF Owed, Making
  <2> QED  BY <2>4, <2>6, <2>8
<1>5. CASE Note(c)
  <2>1. /\ caller[c].pc = "note" /\ caller'[c].pc = "start" /\ caller'[c].actor = caller[c].actor
        /\ UNCHANGED actor
    BY <1>1, <1>5 DEF Note, Goes, At, CallerType
  <2>2. /\ registry'.actor = registry.actor
        /\ actor[caller[c].actor].lease # "none" => registry'.release = caller[c].actor
        /\ actor[caller[c].actor].lease = "none" => registry'.release = registry.release
    BY <1>1, <1>5 DEF Note, RegistryType
  <2>3. registry.release = None /\ caller[c].actor \in Actors
    BY <2>1 DEF Owed, Made, Making
  <2>4. Made'
    BY <1>2, <1>3, <2>1 DEF Made, Making
  <2>5. \A a \in Actors : Live(a)' <=> Live(a)
    BY <2>1 DEF Live
  <2>6. \A a \in Actors : (\E d \in Callers : caller[d].pc \in Making /\ caller[d].actor = a)
                            => caller'[c].pc \in Making /\ caller'[c].actor = a
    BY <1>3, <2>1 DEF Making
  <2>7. Alone'
    BY <1>2, <1>3, <2>1, <2>2, <2>5, <2>6 DEF Alone, Making
  <2>8. \A a \in Actors : actor[a].lease = "held" => a \in {registry'.release, drain'.release}
    <3> SUFFICES ASSUME NEW a \in Actors, actor[a].lease = "held"
                 PROVE  a \in {registry'.release, drain'.release}
      OBVIOUS
    <3>1. a = drain.release \/ a = caller[c].actor
      <4>1. \A d \in Callers : caller[d].pc = "note" => d = c
        BY <1>3 DEF Making
      <4> QED  BY <1>1, <2>3, <4>1 DEF Owed
    <3> QED  BY <1>2, <2>2, <3>1
  <2>9. Owed'
    BY <1>2, <1>3, <2>1, <2>8 DEF Owed
  <2> QED  BY <2>4, <2>7, <2>9
<1>6. CASE Start(c)
  <2>1. /\ caller[c].pc = "start" /\ caller'[c].pc = "register" /\ caller'[c].actor = caller[c].actor
        /\ UNCHANGED registry
    BY <1>1, <1>6 DEF Start, Goes, At, CallerType
  <2>2. caller[c].actor \in Actors /\ actor[caller[c].actor].state = "made"
    BY <2>1 DEF Made, Making
  <2>3. \A a \in Actors : /\ a # caller[c].actor => actor'[a] = actor[a]
                          /\ actor'[a].lease = actor[a].lease
    BY <1>1, <1>6, <2>2 DEF Start, ActorType
  <2>4. Made'
    BY <1>2, <1>3, <2>1, <2>2 DEF Made, Making
  <2>5. \A a \in Actors : Live(a)' => Live(a)
    BY <2>2, <2>3 DEF Live
  <2>6. \A a \in Actors : (\E d \in Callers : caller[d].pc \in Making /\ caller[d].actor = a)
                            => caller'[c].pc \in Making /\ caller'[c].actor = a
    BY <1>3, <2>1 DEF Making
  <2>7. Alone'
    BY <1>2, <1>3, <2>1, <2>5, <2>6 DEF Alone, Making
  <2>8. ~\E d \in Callers : caller[d].pc = "note"
    BY <1>3, <2>1 DEF Making
  <2>9. Owed'
    BY <1>2, <1>3, <2>1, <2>3, <2>8 DEF Owed, Making
  <2> QED  BY <2>4, <2>7, <2>9
<1>7. CASE Register(c)
  <2>1. /\ caller[c].pc = "register" /\ caller'[c].pc = "unlock" /\ UNCHANGED actor
    BY <1>1, <1>7 DEF Register, Goes, At, CallerType
  <2>2. registry'.actor = caller[c].actor /\ registry'.release = registry.release
    BY <1>1, <1>7 DEF Register, RegistryType
  <2>3. caller[c].actor \in Actors
    BY <2>1 DEF Made, Making
  <2>4. Made'
    BY <1>2, <1>3, <2>1 DEF Made, Making
  <2>5. \A a \in Actors : Live(a)' <=> Live(a)
    BY <2>1 DEF Live
  <2>6. drain.pc = "no" => \A a \in Actors : Live(a)' => registry'.actor = a
    BY <2>1, <2>2, <2>5 DEF Alone, Making
  <2>7. Alone'
    BY <1>2, <1>3, <2>1, <2>6 DEF Alone, Making
  <2>8. Owed'
    BY <1>1, <1>2, <1>3, <2>1, <2>2, <2>3 DEF Owed, Making
  <2> QED  BY <2>4, <2>7, <2>8
<1> QED  BY <1>4, <1>5, <1>6, <1>7 DEF Makes

----------------------------------------------------------------------------
(* The invariant, and what follows from it                                 *)

LEMMA InitInv == Init => IInv
<1> SUFFICES ASSUME Init PROVE IInv
  OBVIOUS
<1>1. TypeOK
  BY DEF Init, TypeOK, Nothing, Unmade, Resting
<1>2. \A l \in Locks : Referring(l) = {}
  BY RegistryAssumption DEF Init, Referring, Resting
<1>3. Locked
  BY <1>2, FS_EmptySet DEF Init, Locked, Resting, Holding, Inside, Making
<1>4. Made /\ Alone /\ Owed
  BY DEF Init, Made, Alone, Owed, Resting, Unmade, Nothing, Making, Live
<1> QED  BY <1>1, <1>3, <1>4 DEF IInv

LEMMA Invariant == Spec => []IInv
<1>1. IInv /\ [Next]_vars => IInv'
  <2> SUFFICES ASSUME TypeOK, Made, Locked, Alone, Owed, [Next]_vars PROVE IInv'
    BY DEF IInv
  <2>1. TypeOK' /\ Locked'
    BY NextTyped, LockedStep
  <2>2. CASE \E c \in Callers : Makes(c)
    BY <2>1, <2>2, MakesKeeps DEF IInv
  <2>3. CASE ~\E c \in Callers : Makes(c)
    <3>1. Stands /\ \A d \in Callers : Continues(d)
      BY <2>3, CallerStands, OtherStands
    <3> QED  BY <2>1, <3>1, StandsKeeps DEF IInv
  <2> QED  BY <2>2, <2>3
<1> QED  BY <1>1, InitInv, PTL DEF Spec

(* Every state has the types the module gives; in particular no count of   *)
(* the references to a lock falls below zero.                              *)
THEOREM TypeCorrect == Spec => []TypeOK
<1>1. IInv => TypeOK
  BY DEF IInv
<1> QED  BY <1>1, Invariant, PTL

(* As long as the process does not drain, two actors of the table never    *)
(* live at the same time (GetOrCreateWithState), with any number of        *)
(* callers, losses of the lease and idle periods.                          *)
THEOREM NeverTwoActors == Spec => []OneActor
<1>1. IInv => OneActor
  <2> SUFFICES ASSUME IInv, drain.pc = "no", NEW a \in Actors, NEW b \in Actors, Live(a), Live(b)
               PROVE  a = b
    BY DEF OneActor
  <2>1. CASE \E c \in Callers : caller[c].pc \in Making
    BY <2>1 DEF IInv, Alone
  <2>2. CASE ~\E c \in Callers : caller[c].pc \in Making
    BY <2>2 DEF IInv, Alone
  <2> QED  BY <2>1, <2>2
<1> QED  BY <1>1, Invariant, PTL

(* A lock is forgotten with its last reference, and every lease that a     *)
(* stopped actor holds is one that somebody will give back (releaseLock,   *)
(* removeIfDead).                                                          *)
THEOREM NothingIsLeaked == Spec => []NothingLeaks
<1>1. IInv => NothingLeaks
  <2> SUFFICES ASSUME IInv PROVE NothingLeaks
    OBVIOUS
  <2>1. ASSUME entry # None PROVE \E c \in Callers : caller[c].lock = entry
    <3>1. entry \in Locks /\ locks[entry].refs > 0 /\ locks[entry].refs = Cardinality(Referring(entry))
      BY <2>1 DEF IInv, TypeOK, Locked
    <3>2. Referring(entry) # {}
      BY <3>1, FS_EmptySet
    <3> QED  BY <3>2 DEF Referring
  <2>2. ASSUME NEW a \in Actors, ~Alive(a), actor[a].lease = "held"
        PROVE  a \in {registry.release, drain.release}
    <3>1. ~\E c \in Callers : caller[c].pc = "note" /\ caller[c].actor = a
      BY <2>2 DEF IInv, Made, Alive
    <3> QED  BY <2>2, <3>1 DEF IInv, Owed
  <2> QED  BY <2>1, <2>2 DEF NothingLeaks
<1> QED  BY <1>1, Invariant, PTL
===============================================================================
