---------------------------- MODULE EntryFeeProofs ----------------------------
(***************************************************************************)
(* Theorems about the entry fee of one player: any number of requests and  *)
(* tables, a window of any length, and any number of calls that fail.      *)
(***************************************************************************)
EXTENDS EntryFee, TLAPS

Holding == {"rebind", "claim", "confirm", "record", "debit", "mark"}

(* A request that holds a reservation, a sweep that is at a row and a row  *)
(* that was claimed all say which; a row is listed until its attempts are  *)
(* used up.                                                                *)
Shaped ==
  /\ \A r \in Requests : request[r].pc # "idle" => request[r].room \in Rooms
  /\ \A r \in Requests : request[r].pc \in Holding => request[r].using \in Reservations
  /\ \A o \in Rooms : rows[o].expires # 0 => rows[o].bound \in Rooms
  /\ \A k \in Keys : fees[k].listed => fees[k].attempts < MaxAttempts
  /\ sweep.pc # "resting" => sweep.key \in Keys /\ sweep.attempts < MaxAttempts

Typed == TypeOK /\ Shaped

(* Whoever says that a fee is paid has it from the wallet.                 *)
Paid ==
  /\ \A k \in Keys : fees[k].resolved => k \in charged
  /\ \A r \in Requests : request[r].pc = "mark" => KeyOf(request[r].using) \in charged
  /\ sweep.pc = "mark" => sweep.key \in charged
  /\ PaidBeforeSeated

(* A key that has not run out is the one claimed at its table.             *)
Claimed(k) == k[2] > clock => rows[k[1]].expires = k[2]

(* All who know a key know it from the table's row, so that a table with a *)
(* live key has no other: its row is written again only when it is over.   *)
Known ==
  /\ \A k \in charged : Claimed(k)
  /\ \A k \in Keys : fees[k].recorded => Claimed(k)
  /\ \A k \in Keys : fees[k].listed => fees[k].recorded
  /\ \A r \in Requests : \A e \in request[r].seen : Claimed(KeyOf(e))
  /\ \A r \in Requests : request[r].pc \in Holding \ {"claim"} => Claimed(KeyOf(request[r].using))
  /\ sweep.pc # "resting" => Claimed(sweep.key)

(* Who is about to move a reservation saw it at a table that was           *)
(* unavailable; who is about to write one made it up to last.              *)
Looked ==
  /\ full \subseteq filled
  /\ \A r \in Requests : request[r].pc = "rebind" => request[r].using.bound \in filled
  /\ \A r \in Requests : request[r].pc = "claim" => request[r].using.expires > clock

(* The inductive invariant.                                                *)
IInv == Typed /\ Paid /\ Known /\ Looked

----------------------------------------------------------------------------
(* The types                                                               *)

LEMMA KeyTyped == \A e \in Reservations : KeyOf(e) \in Keys
BY DEF Reservations, KeyOf, Keys

(* Whoever reads the reservations reads reservations of this tier, each    *)
(* under the key of its table's row.                                       *)
LEMMA ActiveTyped ==
  ASSUME Typed
  PROVE  /\ ActiveFor \subseteq Reservations
         /\ \A e \in ActiveFor : e.origin \in Rooms /\ e.expires = rows[e.origin].expires
<1>1. clock \in Nat
  BY FeeAssumption DEF Typed, TypeOK
<1>2. SUFFICES ASSUME NEW o \in Rooms, rows[o].expires > clock
               PROVE  /\ Reservation(o) \in Reservations
                      /\ Reservation(o).origin = o /\ Reservation(o).expires = rows[o].expires
  BY DEF ActiveFor
<1>3. rows[o].expires \in {0} \cup Times /\ Times \subseteq Nat
  BY FeeAssumption DEF Typed, TypeOK, Times
<1>4. rows[o].expires \in Times /\ rows[o].expires # 0
  BY <1>1, <1>2, <1>3
<1>5. rows[o].bound \in Rooms
  BY <1>4 DEF Typed, Shaped
<1> QED  BY <1>4, <1>5 DEF Reservation, Reservations

LEMMA InitTyped == Init => Typed
<1> SUFFICES ASSUME Init PROVE Typed
  OBVIOUS
<1>1. MaxClock \in Nat /\ MaxTurns \in Nat /\ MaxAsks \in Nat /\ MaxAttempts \in Nat \ {0}
  BY FeeAssumption
<1>2. TypeOK
  BY <1>1 DEF Init, TypeOK, NoRow, NoFee, Idle, Resting
<1>3. Shaped
  BY <1>1 DEF Init, Shaped, NoRow, NoFee, Idle, Resting, Holding
<1> QED  BY <1>2, <1>3 DEF Typed

(* The types of what a step of one request changes.                        *)
Requested(r, q) ==
  /\ q.pc # "idle" => q.room \in Rooms
  /\ q.pc \in Holding => q.using \in Reservations
  /\ q \in [pc : {"idle", "load", "choose", "rebind", "claim", "reread", "confirm", "record",
                  "debit", "mark"},
            room : Rooms \cup {None}, seen : SUBSET Reservations, using : Reservations \cup {None}]

LEMMA IdleTyped == \A r : Requested(r, Idle)
BY DEF Requested, Idle, Holding

LEMMA RequestWas == Typed => \A r \in Requests : Requested(r, request[r])
BY DEF Typed, TypeOK, Shaped, Requested

RowsTyped ==
  /\ rows \in [Rooms -> [bound : Rooms \cup {None}, expires : {0} \cup Times]]
  /\ \A o \in Rooms : rows[o].expires # 0 => rows[o].bound \in Rooms

FeesTyped ==
  /\ fees \in [Keys -> [recorded : BOOLEAN, resolved : BOOLEAN, listed : BOOLEAN,
                        attempts : 0 .. MaxAttempts]]
  /\ \A k \in Keys : fees[k].listed => fees[k].attempts < MaxAttempts

LEMMA StoreTyped == Typed => RowsTyped /\ FeesTyped
BY DEF Typed, TypeOK, Shaped, RowsTyped, FeesTyped

(* A step that changes one request and the stores, and keeps them typed,   *)
(* keeps all types.                                                        *)
LEMMA CallTyped ==
  ASSUME Typed, NEW r \in Requests, NEW q, Requested(r, q),
         request' = [request EXCEPT ![r] = q], RowsTyped', FeesTyped',
         UNCHANGED <<clock, full, sweep, turns, filled>>,
         charged' \subseteq Keys, asks' \in 0 .. MaxAsks, admitted' \in Keys \cup {None}
  PROVE  Typed'
<1>1. request' \in [Requests -> [pc : {"idle", "load", "choose", "rebind", "claim", "reread",
                                     "confirm", "record", "debit", "mark"},
                                room : Rooms \cup {None}, seen : SUBSET Reservations,
                                using : Reservations \cup {None}]]
  BY DEF Typed, TypeOK, Requested
<1>2. TypeOK'
  BY <1>1 DEF Typed, TypeOK, RowsTyped, FeesTyped
<1>3. Shaped'
  BY DEF Typed, TypeOK, Shaped, Requested, RowsTyped, FeesTyped
<1> QED  BY <1>2, <1>3 DEF Typed

(* Most steps change one request and no store.                             *)
LEMMA RequestTyped ==
  ASSUME Typed, NEW r \in Requests, NEW q, Requested(r, q),
         request' = [request EXCEPT ![r] = q],
         UNCHANGED <<clock, full, rows, fees, sweep, turns, filled>>,
         charged' \subseteq Keys, asks' \in 0 .. MaxAsks, admitted' \in Keys \cup {None}
  PROVE  Typed'
<1>1. RowsTyped' /\ FeesTyped'
  BY StoreTyped DEF RowsTyped, FeesTyped
<1> QED  BY <1>1, CallTyped

(* A fee row that is closed is off the list.                               *)
LEMMA CloseTyped == \A k \in Keys : FeesTyped /\ Close(k) => FeesTyped'
<1> SUFFICES ASSUME NEW k \in Keys, FeesTyped, Close(k) PROVE FeesTyped'
  OBVIOUS
<1> DEFINE Fee == [recorded : BOOLEAN, resolved : BOOLEAN, listed : BOOLEAN, attempts : 0 .. MaxAttempts]
<1> DEFINE closed == [fees[k] EXCEPT !.resolved = TRUE, !.listed = FALSE]
<1>1. fees[k] \in Fee
  BY DEF FeesTyped
<1>2. closed \in Fee /\ closed.listed = FALSE
  BY <1>1
<1>3. fees' = [fees EXCEPT ![k] = closed]
  BY DEF Close
<1> HIDE DEF closed
<1>4. /\ \A j \in Keys : j # k => fees'[j] = fees[j]
      /\ fees'[k] = closed
      /\ fees' \in [Keys -> Fee]
  BY <1>2, <1>3 DEF FeesTyped
<1> QED  BY <1>2, <1>4 DEF FeesTyped

(* A row that is moved, and a fee that is written down, have their types.  *)
LEMMA MovedTyped ==
  ASSUME RowsTyped, NEW o \in Rooms, NEW room \in Rooms,
         rows' = [rows EXCEPT ![o].bound = room]
  PROVE  RowsTyped'
<1>1. rows[o] \in [bound : Rooms \cup {None}, expires : {0} \cup Times]
  BY DEF RowsTyped
<1>2. /\ rows'[o] \in [bound : Rooms \cup {None}, expires : {0} \cup Times]
      /\ rows'[o].bound \in Rooms
  BY <1>1 DEF RowsTyped
<1>3. /\ \A p \in Rooms : p # o => rows'[p] = rows[p]
      /\ rows' \in [Rooms -> [bound : Rooms \cup {None}, expires : {0} \cup Times]]
  BY <1>2 DEF RowsTyped
<1> QED  BY <1>2, <1>3 DEF RowsTyped

LEMMA RecordedTyped ==
  ASSUME FeesTyped, NEW k \in Keys,
         fees' = [fees EXCEPT ![k] = IF @.recorded THEN @ ELSE Owed]
  PROVE  FeesTyped'
<1>1. MaxAttempts \in Nat \ {0}
  BY FeeAssumption
<1> QED  BY <1>1 DEF FeesTyped, Owed

(* Every step of a request keeps the types.                                *)
LEMMA RequestStepTyped ==
  ASSUME Typed, NEW r \in Requests, RequestStep(r)
  PROVE  Typed'
<1> DEFINE now == request[r]
<1>1. /\ Requested(r, now) /\ Requested(r, Idle)
      /\ clock \in Nat /\ Window \in Nat \ {0}
      /\ asks \in 0 .. MaxAsks /\ charged \subseteq Keys /\ admitted \in Keys \cup {None}
  BY IdleTyped, RequestWas, FeeAssumption DEF Typed, TypeOK
<1>2. ASSUME NEW room \in Rooms, Ask(r, room) PROVE Typed'
  <2>1. Requested(r, [Idle EXCEPT !.pc = "load", !.room = room])
    BY DEF Idle, Requested, Holding
  <2>2. asks' \in 0 .. MaxAsks
    BY <1>1, <1>2, FeeAssumption DEF Ask
  <2> QED  BY <1>1, <1>2, <2>1, <2>2, RequestTyped DEF Ask
<1>3. CASE Load(r)
  <2>1. CASE \E e \in ActiveFor : request' = [request EXCEPT ![r].pc = "confirm", ![r].using = e]
    <3>1. PICK e \in ActiveFor : request' = [request EXCEPT ![r].pc = "confirm", ![r].using = e]
      BY <2>1
    <3>2. Requested(r, [now EXCEPT !.pc = "confirm", !.using = e])
      BY <1>1, <1>3, ActiveTyped DEF Load, Requested, Holding
    <3>3. request' = [request EXCEPT ![r] = [now EXCEPT !.pc = "confirm", !.using = e]]
      BY <3>1
    <3> QED  BY <1>1, <1>3, <3>2, <3>3, RequestTyped DEF Load
  <2>2. CASE request' = [request EXCEPT ![r].pc = "choose", ![r].seen = ActiveFor]
    <3>1. Requested(r, [now EXCEPT !.pc = "choose", !.seen = ActiveFor])
      BY <1>1, <1>3, ActiveTyped DEF Load, Requested, Holding
    <3>2. request' = [request EXCEPT ![r] = [now EXCEPT !.pc = "choose", !.seen = ActiveFor]]
      BY <2>2
    <3> QED  BY <1>1, <1>3, <3>1, <3>2, RequestTyped DEF Load
  <2> QED  BY <1>3, <2>1, <2>2 DEF Load
<1>4. CASE Choose(r)
  <2>1. PICK e \in request[r].seen :
           \/ request' = [request EXCEPT ![r].pc = "rebind", ![r].using = e]
           \/ request' = [request EXCEPT ![r].seen = @ \ {e}]
    BY <1>4 DEF Choose
  <2>2. /\ Requested(r, [now EXCEPT !.pc = "rebind", !.using = e])
        /\ Requested(r, [now EXCEPT !.seen = @ \ {e}])
    BY <1>1, <1>4 DEF Choose, Requested, Holding
  <2>3. \/ request' = [request EXCEPT ![r] = [now EXCEPT !.pc = "rebind", !.using = e]]
        \/ request' = [request EXCEPT ![r] = [now EXCEPT !.seen = @ \ {e}]]
    BY <2>1
  <2> QED  BY <1>1, <1>4, <2>2, <2>3, RequestTyped DEF Choose
<1>5. CASE Rebind(r)
  <2> DEFINE e == request[r].using
  <2>1. e \in Reservations /\ request[r].room \in Rooms
    BY <1>1, <1>5 DEF Rebind, Requested, Holding
  <2>2. CASE Movable(e)
    <3>1. /\ rows' = [rows EXCEPT ![e.origin].bound = request[r].room]
          /\ \E pc \in {"confirm", "rebind"} : request' = [request EXCEPT ![r].pc = pc]
      BY <1>5, <2>2 DEF Rebind
    <3>2. PICK pc \in {"confirm", "rebind"} : request' = [request EXCEPT ![r] = [now EXCEPT !.pc = pc]]
      BY <3>1
    <3>3. Requested(r, [now EXCEPT !.pc = pc])
      BY <1>1, <2>1 DEF Requested, Holding
    <3>4. RowsTyped' /\ FeesTyped'
      <4>1. e.origin \in Rooms
        BY <2>1 DEF Reservations
      <4>2. RowsTyped'
        BY <2>1, <3>1, <4>1, StoreTyped, MovedTyped
      <4> QED  BY <1>5, <4>2, StoreTyped DEF Rebind, FeesTyped
    <3> QED  BY <1>1, <1>5, <3>2, <3>3, <3>4, CallTyped DEF Rebind
  <2>3. CASE ~Movable(e)
    <3>1. Requested(r, [now EXCEPT !.pc = "choose", !.seen = @ \ {e}])
      BY <1>1, <1>5 DEF Rebind, Requested, Holding
    <3>2. request' = [request EXCEPT ![r] = [now EXCEPT !.pc = "choose", !.seen = @ \ {e}]]
      BY <1>5, <2>3 DEF Rebind
    <3> QED  BY <1>1, <1>5, <2>3, <3>1, <3>2, RequestTyped DEF Rebind
  <2> QED  BY <2>2, <2>3
<1>6. CASE MakeClaim(r)
  <2> DEFINE e == [origin |-> request[r].room, bound |-> request[r].room, expires |-> clock + Window]
  <2>1. request[r].room \in Rooms
    BY <1>1, <1>6 DEF MakeClaim, Requested
  <2>2. clock + Window \in Times
    BY FeeAssumption DEF Typed, TypeOK, Times
  <2>3. Requested(r, [now EXCEPT !.pc = "claim", !.using = e])
    BY <1>1, <2>1, <2>2 DEF Requested, Holding, Reservations
  <2>4. request' = [request EXCEPT ![r] = [now EXCEPT !.pc = "claim", !.using = e]]
    BY <1>6 DEF MakeClaim
  <2> QED  BY <1>1, <1>6, <2>3, <2>4, RequestTyped DEF MakeClaim
<1>7. CASE Claim(r)
  <2> DEFINE e == request[r].using
  <2>1. e \in Reservations /\ request[r].room \in Rooms
    BY <1>1, <1>7 DEF Claim, Requested, Holding
  <2>2. CASE rows[e.origin].expires <= clock
    <3>1. /\ rows' = [rows EXCEPT ![e.origin] = [bound |-> e.bound, expires |-> e.expires]]
          /\ \E pc \in {"record", "claim"} : request' = [request EXCEPT ![r].pc = pc]
      <4>1. clock \in Nat /\ rows[e.origin].expires \in Nat
        BY <2>1, FeeAssumption DEF Typed, TypeOK, Times, Reservations
      <4> QED  BY <1>7, <2>2, <4>1 DEF Claim, Goes
    <3>2. e.bound \in Rooms /\ e.origin \in Rooms /\ e.expires \in Times
      BY <2>1 DEF Reservations
    <3>3. PICK pc \in {"record", "claim"} : request' = [request EXCEPT ![r] = [now EXCEPT !.pc = pc]]
      BY <3>1
    <3>4. Requested(r, [now EXCEPT !.pc = pc])
      BY <1>1, <2>1 DEF Requested, Holding
    <3>5. RowsTyped' /\ FeesTyped'
      BY <1>7, <3>1, <3>2, StoreTyped DEF Claim, RowsTyped, FeesTyped
    <3> QED  BY <1>1, <1>7, <3>3, <3>4, <3>5, CallTyped DEF Claim
  <2>3. CASE ~(rows[e.origin].expires <= clock)
    <3>1. request' = [request EXCEPT ![r] = [now EXCEPT !.pc = "reread"]] /\ UNCHANGED rows
      BY <1>7, <2>3 DEF Claim, AlreadyClaimed, Goes
    <3>2. Requested(r, [now EXCEPT !.pc = "reread"])
      BY <1>1, <2>1 DEF Requested, Holding
    <3> QED  BY <1>1, <1>7, <3>1, <3>2, RequestTyped DEF Claim
  <2> QED  BY <2>2, <2>3
<1>8. CASE Reread(r)
  <2>1. CASE \E e \in ActiveFor : request' = [request EXCEPT ![r].pc = "confirm", ![r].using = e]
    <3>1. PICK e \in ActiveFor : request' = [request EXCEPT ![r].pc = "confirm", ![r].using = e]
      BY <2>1
    <3>2. Requested(r, [now EXCEPT !.pc = "confirm", !.using = e])
      BY <1>1, <1>8, ActiveTyped DEF Reread, Requested, Holding
    <3>3. request' = [request EXCEPT ![r] = [now EXCEPT !.pc = "confirm", !.using = e]]
      BY <3>1
    <3> QED  BY <1>1, <1>8, <3>2, <3>3, RequestTyped DEF Reread
  <2>2. CASE request' = [request EXCEPT ![r] = Idle]
    BY <1>1, <1>8, <2>2, RequestTyped DEF Reread
  <2> QED  BY <1>8, <2>1, <2>2 DEF Reread
<1> DEFINE key == KeyOf(request[r].using)
<1>9. request[r].pc \in Holding => key \in Keys /\ request[r].using \in Reservations
  BY <1>1, KeyTyped DEF Requested
<1>10. CASE Confirm(r)
  <2>1. CASE Covered(key)
    BY <1>1, <1>9, <1>10, <2>1, RequestTyped DEF Confirm, Admits, Holding
  <2>2. CASE ~Covered(key)
    <3>1. request' = [request EXCEPT ![r] = [now EXCEPT !.pc = "record"]] /\ UNCHANGED admitted
      BY <1>10, <2>2 DEF Confirm, Goes
    <3>2. Requested(r, [now EXCEPT !.pc = "record"])
      BY <1>1, <1>10 DEF Confirm, Requested, Holding
    <3> QED  BY <1>1, <1>10, <3>1, <3>2, RequestTyped DEF Confirm
  <2> QED  BY <2>1, <2>2
<1>11. CASE Record(r)
  <2>1. /\ key \in Keys
        /\ fees' = [fees EXCEPT ![key] = IF @.recorded THEN @ ELSE Owed]
        /\ request' = [request EXCEPT ![r] = [now EXCEPT !.pc = "debit"]]
    BY <1>9, <1>11 DEF Record, Goes, Holding
  <2>2. Requested(r, [now EXCEPT !.pc = "debit"])
    BY <1>1, <1>9, <1>11 DEF Record, Requested, Holding
  <2>3. FeesTyped'
    BY <2>1, StoreTyped, RecordedTyped
  <2>4. RowsTyped'
    BY <1>11, StoreTyped DEF Record, RowsTyped
  <2> QED  BY <1>1, <1>11, <2>1, <2>2, <2>3, <2>4, CallTyped DEF Record
<1>12. CASE Debit(r)
  <2>1. CASE charged' = charged \cup {key} /\ Goes(r, "mark")
    <3>1. Requested(r, [now EXCEPT !.pc = "mark"]) /\ charged' \subseteq Keys
      BY <1>1, <1>9, <1>12, <2>1 DEF Debit, Requested, Holding
    <3>2. request' = [request EXCEPT ![r] = [now EXCEPT !.pc = "mark"]]
      BY <2>1 DEF Goes
    <3> QED  BY <1>1, <1>12, <3>1, <3>2, RequestTyped DEF Debit
  <2>2. CASE request' = [request EXCEPT ![r] = Idle] /\ UNCHANGED charged
    BY <1>1, <1>12, <2>2, RequestTyped DEF Debit
  <2> QED  BY <1>12, <2>1, <2>2 DEF Debit
<1>13. CASE Mark(r)
  <2>1. key \in Keys /\ (Close(key) \/ UNCHANGED fees)
    BY <1>9, <1>13 DEF Mark, Holding
  <2>2. request' = [request EXCEPT ![r] = Idle] /\ admitted' = key
    BY <1>13 DEF Mark, Admits
  <2>3. FeesTyped'
    BY <2>1, StoreTyped, CloseTyped DEF FeesTyped
  <2>4. RowsTyped'
    BY <1>13, StoreTyped DEF Mark, RowsTyped
  <2> QED  BY <1>1, <1>13, <2>1, <2>2, <2>3, <2>4, CallTyped DEF Mark
<1>14. CASE Stop(r)
  BY <1>1, <1>14, RequestTyped DEF Stop
<1> QED
  BY <1>2, <1>3, <1>4, <1>5, <1>6, <1>7, <1>8, <1>10, <1>11, <1>12, <1>13, <1>14 DEF RequestStep

(* The rest of a state, which a step of the sweep leaves alone.            *)
LEMMA SweepTyped ==
  ASSUME Typed, FeesTyped', charged' \subseteq Keys,
         UNCHANGED <<clock, full, rows, request, turns, asks, filled, admitted>>,
         sweep' \in [pc : {"resting", "debit", "mark"}, key : Keys \cup {None},
                     attempts : 0 .. MaxAttempts],
         sweep'.pc # "resting" => sweep'.key \in Keys /\ sweep'.attempts < MaxAttempts
  PROVE  Typed'
BY DEF Typed, TypeOK, Shaped, FeesTyped

LEMMA NextTyped == Typed /\ [Next]_vars => Typed'
<1> SUFFICES ASSUME Typed, [Next]_vars PROVE Typed'
  OBVIOUS
<1>1. /\ FeesTyped /\ charged \subseteq Keys /\ MaxAttempts \in Nat \ {0}
      /\ sweep \in [pc : {"resting", "debit", "mark"}, key : Keys \cup {None},
                    attempts : 0 .. MaxAttempts]
      /\ sweep.pc # "resting" => sweep.key \in Keys /\ sweep.attempts < MaxAttempts
  BY StoreTyped, FeeAssumption DEF Typed, TypeOK, Shaped
<1>2. Resting \in [pc : {"resting", "debit", "mark"}, key : Keys \cup {None}, attempts : 0 .. MaxAttempts]
  BY <1>1 DEF Resting
<1>3. ASSUME NEW r \in Requests, RequestStep(r) PROVE Typed'
  BY <1>3, RequestStepTyped
<1>4. CASE SweepNext
  <2>1. PICK key \in Keys :
          /\ fees[key].listed
          /\ sweep' = [pc |-> "debit", key |-> key, attempts |-> fees[key].attempts]
    BY <1>4 DEF SweepNext
  <2>2. fees[key].attempts \in 0 .. MaxAttempts /\ fees[key].attempts < MaxAttempts
    BY <1>1, <2>1 DEF FeesTyped
  <2>3. FeesTyped'
    BY <1>1, <1>4 DEF SweepNext, FeesTyped
  <2> QED  BY <1>1, <1>4, <2>1, <2>2, <2>3, SweepTyped DEF SweepNext
<1>5. CASE SweepDebit
  <2>1. CASE charged' = charged \cup {sweep.key} /\ sweep' = [sweep EXCEPT !.pc = "mark"] /\ UNCHANGED fees
    <3>1. FeesTyped'
      BY <1>1, <2>1 DEF FeesTyped
    <3> QED  BY <1>1, <1>5, <2>1, <3>1, SweepTyped DEF SweepDebit
  <2>2. CASE /\ LET tried == sweep.attempts + 1
                IN  fees' = [fees EXCEPT ![sweep.key].attempts = tried,
                                         ![sweep.key].listed = @ /\ tried < MaxAttempts]
             /\ sweep' = Resting /\ UNCHANGED charged
    <3>1. FeesTyped'
      <4> DEFINE k == sweep.key
                 tried == sweep.attempts + 1
      <4>1. k \in Keys /\ tried \in 0 .. MaxAttempts
        BY <1>1, <1>5 DEF SweepDebit
      <4>2. /\ fees'[k] \in [recorded : BOOLEAN, resolved : BOOLEAN, listed : BOOLEAN,
                             attempts : 0 .. MaxAttempts]
            /\ fees'[k].listed => fees'[k].attempts < MaxAttempts
        <5>1. fees[k] \in [recorded : BOOLEAN, resolved : BOOLEAN, listed : BOOLEAN,
                            attempts : 0 .. MaxAttempts]
          BY <1>1, <4>1 DEF FeesTyped
        <5>2. fees'[k] = [fees[k] EXCEPT !.attempts = tried, !.listed = @ /\ tried < MaxAttempts]
          BY <1>1, <2>2, <4>1 DEF FeesTyped
        <5>3. CASE tried < MaxAttempts
          BY <4>1, <5>1, <5>2, <5>3
        <5>4. CASE ~(tried < MaxAttempts)
          BY <4>1, <5>1, <5>2, <5>4
        <5> QED  BY <5>3, <5>4
      <4>3. /\ \A l \in Keys : l # k => fees'[l] = fees[l]
            /\ fees' \in [Keys -> [recorded : BOOLEAN, resolved : BOOLEAN, listed : BOOLEAN,
                                   attempts : 0 .. MaxAttempts]]
        BY <1>1, <2>2, <4>1, <4>2 DEF FeesTyped
      <4> QED  BY <1>1, <4>2, <4>3 DEF FeesTyped
    <3> QED  BY <1>1, <1>2, <1>5, <2>2, <3>1, SweepTyped DEF SweepDebit, Resting
  <2> QED  BY <1>5, <2>1, <2>2 DEF SweepDebit
<1>6. CASE SweepMark
  <2>1. FeesTyped'
    BY <1>1, <1>6, CloseTyped DEF SweepMark
  <2> QED  BY <1>1, <1>2, <1>6, <2>1, SweepTyped DEF SweepMark, Resting
<1>7. CASE SweepStop
  <2>1. FeesTyped'
    BY <1>1, <1>7 DEF SweepStop, FeesTyped
  <2> QED  BY <1>1, <1>2, <1>7, <2>1, SweepTyped DEF SweepStop, Resting
<1>8. ASSUME NEW room \in Rooms, Turn(room) PROVE Typed'
  <2>1. turns' \in 0 .. MaxTurns /\ full' \subseteq Rooms /\ filled' \subseteq Rooms
    BY <1>8, FeeAssumption DEF Turn, Typed, TypeOK
  <2> QED  BY <1>8, <2>1 DEF Turn, Typed, TypeOK, Shaped
<1>9. CASE Tick
  <2>1. clock' \in 0 .. MaxClock
    BY <1>9, FeeAssumption DEF Tick, Typed, TypeOK
  <2> QED  BY <1>9, <2>1 DEF Tick, Typed, TypeOK, Shaped
<1>10. CASE UNCHANGED vars
  BY <1>10 DEF vars, Typed, TypeOK, Shaped
<1> QED  BY <1>3, <1>4, <1>5, <1>6, <1>7, <1>8, <1>9, <1>10 DEF Next

(* Every state has the types the module gives, and with them every request *)
(* and the sweep know what they are about (resolveEntitlement).            *)
THEOREM TypeCorrect == Spec => []TypeOK
<1>1. Init => Typed
  BY InitTyped
<1>2. Typed /\ [Next]_vars => Typed'
  BY NextTyped
<1>3. Typed => TypeOK
  BY DEF Typed
<1> QED  BY <1>1, <1>2, <1>3, PTL DEF Spec

----------------------------------------------------------------------------
(* What was paid                                                           *)

(* A step that closes no row keeps Paid, if whoever comes to the point     *)
(* where a row is closed has its key charged.                              *)
LEMMA PaidKept ==
  ASSUME Paid, charged \subseteq charged', UNCHANGED <<fees, admitted>>,
         \A q \in Requests : request'[q].pc = "mark" =>
           request'[q] = request[q] \/ KeyOf(request'[q].using) \in charged',
         sweep'.pc = "mark" => sweep' = sweep \/ sweep'.key \in charged'
  PROVE  Paid'
BY DEF Paid, PaidBeforeSeated, KeyOf

LEMMA PaidStep == Typed /\ Paid /\ [Next]_vars => Paid'
<1> SUFFICES ASSUME Typed, Paid, [Next]_vars PROVE Paid'
  OBVIOUS
<1> USE DEF Idle
<1>1. /\ request \in [Requests -> [pc : {"idle", "load", "choose", "rebind", "claim", "reread",
                                      "confirm", "record", "debit", "mark"},
                                 room : Rooms \cup {None}, seen : SUBSET Reservations,
                                 using : Reservations \cup {None}]]
      /\ fees \in [Keys -> [recorded : BOOLEAN, resolved : BOOLEAN, listed : BOOLEAN,
                            attempts : 0 .. MaxAttempts]]
  BY DEF Typed, TypeOK
<1>2. ASSUME NEW r \in Requests, RequestStep(r) PROVE Paid'
  <2> DEFINE key == KeyOf(request[r].using)
  <2>1. request[r].pc \in Holding => key \in Keys
    BY <1>1, KeyTyped DEF Typed, Shaped
  <2>2. ASSUME NEW room \in Rooms, Ask(r, room) PROVE Paid'
    BY <1>1, <2>2, PaidKept DEF Ask
  <2>3. CASE Load(r)
    BY <1>1, <2>3, PaidKept DEF Load
  <2>4. CASE Choose(r)
    BY <1>1, <2>4, PaidKept DEF Choose
  <2>5. CASE Rebind(r)
    BY <1>1, <2>5, PaidKept DEF Rebind
  <2>6. CASE MakeClaim(r)
    BY <1>1, <2>6, PaidKept DEF MakeClaim
  <2>7. CASE Claim(r)
    BY <1>1, <2>7, PaidKept DEF Claim, Goes, AlreadyClaimed
  <2>8. CASE Reread(r)
    BY <1>1, <2>8, PaidKept DEF Reread
  <2>9. CASE Confirm(r)
    <3>1. CASE Covered(key)
      <4>1. key \in charged /\ admitted' = key
        BY <2>1, <2>9, <3>1 DEF Confirm, Admits, Covered, Paid, Holding
      <4> QED  BY <1>1, <2>9, <3>1, <4>1 DEF Confirm, Admits, Paid, PaidBeforeSeated, KeyOf
    <3>2. CASE ~Covered(key)
      BY <1>1, <2>9, <3>2, PaidKept DEF Confirm, Goes
    <3> QED  BY <3>1, <3>2
  <2>10. CASE Record(r)
    <3>1. \A k \in Keys : fees'[k].resolved => fees[k].resolved
      BY <1>1, <2>1, <2>10 DEF Record, Holding, Owed
    <3> QED  BY <1>1, <2>10, <3>1 DEF Record, Goes, Paid, PaidBeforeSeated, KeyOf
  <2>11. CASE Debit(r)
    BY <1>1, <2>11, PaidKept DEF Debit, Goes, KeyOf
  <2>12. CASE Mark(r)
    <3>1. key \in charged /\ key \in Keys
      BY <2>1, <2>12 DEF Mark, Paid, Holding
    <3>2. \A k \in Keys : fees'[k].resolved => k = key \/ fees[k].resolved
      BY <1>1, <2>12, <3>1 DEF Mark, Close
    <3> QED  BY <1>1, <2>12, <3>1, <3>2 DEF Mark, Admits, Paid, PaidBeforeSeated, KeyOf
  <2>13. CASE Stop(r)
    BY <1>1, <2>13, PaidKept DEF Stop
  <2> QED
    BY <1>2, <2>2, <2>3, <2>4, <2>5, <2>6, <2>7, <2>8, <2>9, <2>10, <2>11, <2>12, <2>13 DEF RequestStep
<1>3. CASE SweepNext
  BY <1>3, PaidKept DEF SweepNext
<1>4. CASE SweepDebit
  <2>1. CASE charged' = charged \cup {sweep.key} /\ sweep' = [sweep EXCEPT !.pc = "mark"] /\ UNCHANGED fees
    <3>1. sweep'.key = sweep.key
      BY <2>1 DEF Typed, TypeOK
    <3> QED  BY <1>4, <2>1, <3>1, PaidKept DEF SweepDebit
  <2>2. CASE sweep' = Resting /\ UNCHANGED charged
    <3>1. \A k \in Keys : fees'[k].resolved = fees[k].resolved
      BY <1>1, <1>4, <2>2 DEF SweepDebit, Resting
    <3> QED  BY <1>4, <2>2, <3>1 DEF SweepDebit, Resting, Paid, PaidBeforeSeated, KeyOf
  <2> QED  BY <1>4, <2>1, <2>2 DEF SweepDebit
<1>5. CASE SweepMark
  <2>1. sweep.key \in charged
    BY <1>5 DEF SweepMark, Paid
  <2>2. \A k \in Keys : fees'[k].resolved => k = sweep.key \/ fees[k].resolved
    BY <1>1, <1>5 DEF SweepMark, Close
  <2> QED  BY <1>5, <2>1, <2>2 DEF SweepMark, Resting, Paid, PaidBeforeSeated, KeyOf
<1>6. CASE SweepStop
  BY <1>6, PaidKept DEF SweepStop, Resting
<1>7. ASSUME NEW room \in Rooms, Turn(room) PROVE Paid'
  BY <1>7, PaidKept DEF Turn
<1>8. CASE Tick
  BY <1>8, PaidKept DEF Tick
<1>9. CASE UNCHANGED vars
  BY <1>9, PaidKept DEF vars
<1> QED  BY <1>2, <1>3, <1>4, <1>5, <1>6, <1>7, <1>8, <1>9 DEF Next

(* Nobody is seated on a reservation whose fee was not taken               *)
(* (confirmFeeCharged, payEntryFee), with any number of requests, tables   *)
(* and failures.                                                           *)
THEOREM SeatedArePaid == Spec => []PaidBeforeSeated
<1>1. Init => Typed /\ Paid
  BY InitTyped DEF Init, Paid, PaidBeforeSeated, Idle, Resting, NoFee
<1>2. Typed /\ Paid /\ [Next]_vars => (Typed /\ Paid)'
  BY NextTyped, PaidStep
<1>3. Paid => PaidBeforeSeated
  BY DEF Paid
<1> QED  BY <1>1, <1>2, <1>3, PTL DEF Spec

----------------------------------------------------------------------------
(* One live key for a table                                                *)

(* What was read under a live key stays so while rows keep their hour and  *)
(* the clock does not go back.                                             *)
LEMMA ClaimedKept ==
  ASSUME Typed, clock' = clock \/ clock' = clock + 1,
         \A o \in Rooms : rows'[o].expires = rows[o].expires
  PROVE  \A k \in Keys : Claimed(k) => Claimed(k)'
<1>1. clock \in Nat
  BY FeeAssumption DEF Typed, TypeOK
<1> SUFFICES ASSUME NEW k \in Keys, Claimed(k), k[2] > clock' PROVE rows'[k[1]].expires = k[2]
  BY DEF Claimed
<1>2. k[1] \in Rooms /\ k[2] \in Nat
  BY FeeAssumption DEF Keys, Times
<1> QED  BY <1>1, <1>2 DEF Claimed

Uses(q, using) == q.pc \in Holding \ {"claim"} /\ q.using = using

(* A step keeps Known if the keys that are known stay claimed, and those   *)
(* that become known are.                                                  *)
LEMMA KnownKept ==
  ASSUME Typed, Known, \A k \in Keys : Claimed(k) => Claimed(k)',
         \A k \in charged' : k \in charged \/ Claimed(k)',
         \A k \in Keys : fees'[k].recorded => fees[k].recorded \/ Claimed(k)',
         \A k \in Keys : fees'[k].listed => fees'[k].recorded,
         \A q \in Requests : \A e \in request'[q].seen :
           e \in request[q].seen \/ Claimed(KeyOf(e))',
         \A q \in Requests : request'[q].pc \in Holding \ {"claim"} =>
           Uses(request[q], request'[q].using) \/ Claimed(KeyOf(request[q].using))',
         sweep'.pc # "resting" =>
           (sweep.pc # "resting" /\ sweep'.key = sweep.key) \/ Claimed(sweep.key)'
  PROVE  Known'
<1>1. /\ charged \subseteq Keys
      /\ \A q \in Requests : request[q].seen \subseteq Reservations
      /\ \A q \in Requests : request[q].pc \in Holding => request[q].using \in Reservations
      /\ sweep.pc # "resting" => sweep.key \in Keys
  BY DEF Typed, TypeOK, Shaped
<1>2. /\ \A k \in charged' : Claimed(k)'
      /\ \A k \in Keys : fees'[k].recorded => Claimed(k)'
  BY <1>1 DEF Known
<1>3. \A q \in Requests : \A e \in request'[q].seen : Claimed(KeyOf(e))'
  <2> SUFFICES ASSUME NEW q \in Requests, NEW e \in request[q].seen PROVE Claimed(KeyOf(e))'
    OBVIOUS
  <2>1. KeyOf(e) \in Keys /\ Claimed(KeyOf(e))
    BY <1>1, KeyTyped DEF Known
  <2> QED  BY <2>1
<1>4. \A q \in Requests : request'[q].pc \in Holding \ {"claim"} => Claimed(KeyOf(request[q].using))'
  <2> SUFFICES ASSUME NEW q \in Requests, Uses(request[q], request'[q].using)
               PROVE  Claimed(KeyOf(request[q].using))'
    OBVIOUS
  <2>1. KeyOf(request[q].using) \in Keys /\ Claimed(KeyOf(request[q].using))
    BY <1>1, KeyTyped DEF Known, Uses
  <2>2. KeyOf(request[q].using)' = KeyOf(request[q].using)
    BY DEF Uses, KeyOf
  <2> QED  BY <2>1, <2>2 DEF Claimed
<1>5. sweep'.pc # "resting" => Claimed(sweep.key)'
  BY <1>1 DEF Known, Claimed
<1> QED  BY <1>2, <1>3, <1>4, <1>5 DEF Known

(* A reservation that is read is read under a claimed key.                 *)
LEMMA ActiveClaimed ==
  ASSUME Typed
  PROVE  \A e \in ActiveFor : e \in Reservations /\ Claimed(KeyOf(e))
BY ActiveTyped DEF Claimed, KeyOf

LEMMA RequestStepKnown ==
  ASSUME Typed, Known, Looked, NEW r \in Requests, RequestStep(r)
  PROVE  Known'
<1> USE DEF Idle
<1>1. /\ request \in [Requests -> [pc : {"idle", "load", "choose", "rebind", "claim", "reread",
                                      "confirm", "record", "debit", "mark"},
                                 room : Rooms \cup {None}, seen : SUBSET Reservations,
                                 using : Reservations \cup {None}]]
      /\ FeesTyped /\ RowsTyped
      /\ request[r].pc \in Holding => request[r].using \in Reservations
      /\ \A k \in Keys : fees[k].listed => fees[k].recorded
  BY StoreTyped DEF Typed, TypeOK, Shaped, Known
<1> DEFINE key == KeyOf(request[r].using)
<1>2. /\ request[r].pc \in Holding => key \in Keys
      /\ request[r].pc \in Holding \ {"claim"} => Claimed(key)
  BY <1>1, KeyTyped DEF Known
<1>3. UNCHANGED <<clock, rows>> => \A k \in Keys : Claimed(k) => Claimed(k)'
  BY ClaimedKept
<1>4. ASSUME NEW room \in Rooms, Ask(r, room) PROVE Known'
  <2>1. \A q \in Requests : q # r => request'[q] = request[q]
    BY <1>1, <1>4 DEF Ask
  <2>2. request'[r].pc = "load" /\ request'[r].seen = {}
    BY <1>1, <1>4 DEF Ask
  <2> QED  BY <1>1, <1>3, <1>4, <2>1, <2>2, KnownKept DEF Ask, Uses, Holding
<1>5. CASE Load(r)
  <2>1. CASE \E e \in ActiveFor : request' = [request EXCEPT ![r].pc = "confirm", ![r].using = e]
    <3>1. PICK e \in ActiveFor : request' = [request EXCEPT ![r].pc = "confirm", ![r].using = e]
      BY <2>1
    <3>2. Claimed(KeyOf(e))' /\ KeyOf(request[r].using)' = KeyOf(e)
      BY <1>1, <1>3, <1>5, <3>1, ActiveClaimed, KeyTyped DEF Load, KeyOf, Claimed
    <3>3. Claimed(KeyOf(request[r].using))'
      BY <3>2 DEF Claimed
    <3> QED  BY <1>1, <1>3, <1>5, <3>1, <3>3, KnownKept DEF Load, Uses
  <2>2. CASE request' = [request EXCEPT ![r].pc = "choose", ![r].seen = ActiveFor]
    <3>1. \A e \in ActiveFor : Claimed(KeyOf(e))'
      BY <1>3, <1>5, ActiveClaimed, KeyTyped DEF Load, Claimed, KeyOf
    <3> QED  BY <1>1, <1>3, <1>5, <2>2, <3>1, KnownKept DEF Load, Uses, Holding
  <2> QED  BY <1>5, <2>1, <2>2 DEF Load
<1>6. CASE Choose(r)
  <2>1. PICK e \in request[r].seen :
           \/ request' = [request EXCEPT ![r].pc = "rebind", ![r].using = e]
           \/ request' = [request EXCEPT ![r].seen = @ \ {e}]
    BY <1>6 DEF Choose
  <2>2. CASE request' = [request EXCEPT ![r].pc = "rebind", ![r].using = e]
    <3>1. e \in Reservations /\ Claimed(KeyOf(e)) /\ KeyOf(request[r].using)' = KeyOf(e)
      BY <1>1, <2>1, <2>2 DEF Known, KeyOf
    <3>2. Claimed(KeyOf(request[r].using))'
      BY <1>6, <3>1 DEF Choose, Claimed
    <3> QED  BY <1>1, <1>3, <1>6, <2>2, <3>2, KnownKept DEF Choose, Uses
  <2>3. CASE request' = [request EXCEPT ![r].seen = @ \ {e}]
    BY <1>1, <1>3, <1>6, <2>3, KnownKept DEF Choose, Uses
  <2> QED  BY <2>1, <2>2, <2>3
<1>7. CASE Rebind(r)
  <2> DEFINE e == request[r].using
  <2>1. CASE Movable(e)
    <3>1. /\ rows' = [rows EXCEPT ![e.origin].bound = request[r].room]
          /\ \E pc \in {"confirm", "rebind"} : request' = [request EXCEPT ![r].pc = pc]
      BY <1>7, <2>1 DEF Rebind
    <3>2. \A o \in Rooms : rows'[o].expires = rows[o].expires
      BY <1>1, <3>1 DEF RowsTyped
    <3>3. \A k \in Keys : Claimed(k) => Claimed(k)'
      BY <1>7, <3>2, ClaimedKept DEF Rebind
    <3>4. \A q \in Requests : request'[q].pc \in Holding \ {"claim"} => Uses(request[q], request'[q].using)
      BY <1>1, <1>7, <3>1 DEF Rebind, Uses, Holding
    <3> QED  BY <1>1, <1>7, <3>1, <3>3, <3>4, KnownKept DEF Rebind
  <2>2. CASE ~Movable(e)
    BY <1>1, <1>3, <1>7, <2>2, KnownKept DEF Rebind, Uses, Holding
  <2> QED  BY <2>1, <2>2
<1>8. CASE MakeClaim(r)
  <2>1. \A q \in Requests : /\ q # r => request'[q] = request[q]
                            /\ request'[q].seen = request[q].seen
    BY <1>1, <1>8 DEF MakeClaim
  <2>2. request'[r].pc = "claim"
    BY <1>1, <1>8 DEF MakeClaim
  <2>3. \A q \in Requests : request'[q].pc \in Holding \ {"claim"} => Uses(request[q], request'[q].using)
    BY <2>1, <2>2 DEF Uses
  <2> QED  BY <1>1, <1>3, <1>8, <2>1, <2>3, KnownKept DEF MakeClaim
<1>9. CASE Claim(r)
  <2> DEFINE e == request[r].using
  <2>1. e \in Reservations /\ e.expires > clock /\ clock \in Nat /\ rows[e.origin].expires \in Nat
    BY <1>1, <1>9, FeeAssumption DEF Claim, Holding, Looked, Typed, TypeOK, RowsTyped, Times, Reservations
  <2>2. CASE rows[e.origin].expires <= clock
    <3>1. /\ rows' = [rows EXCEPT ![e.origin] = [bound |-> e.bound, expires |-> e.expires]]
          /\ \E pc \in {"record", "claim"} : request' = [request EXCEPT ![r].pc = pc]
      BY <1>9, <2>1, <2>2 DEF Claim, Goes
    <3>2. \A k \in Keys : Claimed(k) => Claimed(k)'
      <4> SUFFICES ASSUME NEW k \in Keys, Claimed(k), k[2] > clock PROVE rows'[k[1]].expires = k[2]
        BY <1>9 DEF Claim, Claimed
      <4>1. k[1] \in Rooms /\ rows[k[1]].expires = k[2] /\ k[2] \in Nat
        BY FeeAssumption DEF Claimed, Keys, Times
      <4>2. k[1] # e.origin
        BY <2>1, <2>2, <4>1
      <4> QED  BY <1>1, <3>1, <4>1, <4>2 DEF RowsTyped
    <3>3. Claimed(key)' /\ request'[r].using = e
      BY <1>1, <2>1, <3>1 DEF Claimed, KeyOf, Reservations, RowsTyped
    <3>4. \A q \in Requests : request'[q].pc \in Holding \ {"claim"} =>
            Uses(request[q], request'[q].using) \/ Claimed(KeyOf(request[q].using))'
      BY <1>1, <3>1, <3>3 DEF Uses
    <3> QED  BY <1>1, <1>9, <3>1, <3>2, <3>4, KnownKept DEF Claim
  <2>3. CASE ~(rows[e.origin].expires <= clock)
    <3>1. Goes(r, "reread") /\ UNCHANGED <<clock, rows>>
      BY <1>9, <2>3 DEF Claim, AlreadyClaimed
    <3> QED  BY <1>1, <1>3, <1>9, <3>1, KnownKept DEF Claim, Goes, Uses, Holding
  <2> QED  BY <2>2, <2>3
<1>10. CASE Reread(r)
  <2>1. CASE \E e \in ActiveFor : request' = [request EXCEPT ![r].pc = "confirm", ![r].using = e]
    <3>1. PICK e \in ActiveFor : request' = [request EXCEPT ![r].pc = "confirm", ![r].using = e]
      BY <2>1
    <3>2. Claimed(KeyOf(e)) /\ KeyOf(request[r].using)' = KeyOf(e)
      BY <1>1, <3>1, ActiveClaimed DEF KeyOf
    <3>3. Claimed(KeyOf(request[r].using))'
      BY <1>10, <3>2 DEF Reread, Claimed
    <3> QED  BY <1>1, <1>3, <1>10, <3>1, <3>3, KnownKept DEF Reread, Uses
  <2>2. CASE request' = [request EXCEPT ![r] = Idle]
    BY <1>1, <1>3, <1>10, <2>2, KnownKept DEF Reread, Uses, Holding
  <2> QED  BY <1>10, <2>1, <2>2 DEF Reread
<1>11. CASE Confirm(r)
  <2>1. request' = [request EXCEPT ![r] = Idle] \/ request' = [request EXCEPT ![r].pc = "record"]
    BY <1>11 DEF Confirm, Admits, Goes
  <2> QED  BY <1>1, <1>3, <1>11, <2>1, KnownKept DEF Confirm, Uses, Holding
<1>12. CASE Record(r)
  <2>1. key \in Keys /\ Claimed(key)
    BY <1>2, <1>12 DEF Record, Holding
  <2>2. \A k \in Keys : /\ fees'[k].recorded => fees[k].recorded \/ k = key
                        /\ fees'[k].listed => fees'[k].recorded
    BY <1>1, <1>12, <2>1 DEF Record, FeesTyped, Owed
  <2>3. \A k \in Keys : fees'[k].recorded => fees[k].recorded \/ Claimed(k)'
    BY <1>3, <1>12, <2>1, <2>2 DEF Record
  <2>4. \A q \in Requests : request'[q].pc \in Holding \ {"claim"} => Uses(request[q], request'[q].using)
    BY <1>1, <1>12 DEF Record, Goes, Uses, Holding
  <2>5. \A q \in Requests : request'[q].seen = request[q].seen
    BY <1>1, <1>12 DEF Record, Goes
  <2> QED  BY <1>3, <1>12, <2>2, <2>3, <2>4, <2>5, KnownKept DEF Record
<1>13. CASE Debit(r)
  <2>1. key \in Keys /\ Claimed(key)
    BY <1>2, <1>13 DEF Debit, Holding
  <2>2. \A k \in charged' : k \in charged \/ Claimed(k)'
    BY <1>3, <1>13, <2>1 DEF Debit
  <2>3. \A q \in Requests : request'[q].pc \in Holding \ {"claim"} => Uses(request[q], request'[q].using)
    BY <1>1, <1>13 DEF Debit, Goes, Uses, Holding
  <2>4. \A q \in Requests : request'[q].seen \subseteq request[q].seen
    BY <1>1, <1>13 DEF Debit, Goes
  <2> QED  BY <1>1, <1>3, <1>13, <2>2, <2>3, <2>4, KnownKept DEF Debit
<1>14. CASE Mark(r)
  <2>1. key \in Keys /\ Claimed(key) /\ request' = [request EXCEPT ![r] = Idle]
    BY <1>2, <1>14 DEF Mark, Admits, Holding
  <2>2. \A k \in Keys : fees'[k].recorded = fees[k].recorded /\ (fees'[k].listed => fees[k].listed)
    BY <1>1, <1>14, <2>1 DEF Mark, Close, FeesTyped
  <2> QED  BY <1>1, <1>3, <1>14, <2>1, <2>2, KnownKept DEF Mark, Uses, Holding
<1>15. CASE Stop(r)
  BY <1>1, <1>3, <1>15, KnownKept DEF Stop, Uses, Holding
<1> QED
  BY <1>4, <1>5, <1>6, <1>7, <1>8, <1>9, <1>10, <1>11, <1>12, <1>13, <1>14, <1>15 DEF RequestStep

LEMMA KnownStep == Typed /\ Known /\ Looked /\ [Next]_vars => Known'
<1> SUFFICES ASSUME Typed, Known, Looked, [Next]_vars PROVE Known'
  OBVIOUS
<1>1. /\ FeesTyped
      /\ \A q \in Requests : request[q].pc \in Holding \ {"claim"} => Uses(request[q], request[q].using)
      /\ \A k \in Keys : fees[k].listed => fees[k].recorded
      /\ sweep.pc # "resting" => sweep.key \in Keys /\ Claimed(sweep.key)
  BY StoreTyped DEF Uses, Typed, Shaped, Known
<1>2. UNCHANGED <<clock, rows>> => \A k \in Keys : Claimed(k) => Claimed(k)'
  BY ClaimedKept
<1>3. ASSUME NEW r \in Requests, RequestStep(r) PROVE Known'
  BY <1>3, RequestStepKnown
<1>4. CASE SweepNext
  <2>1. PICK k \in Keys : fees[k].listed /\ sweep'.key = k
    BY <1>4 DEF SweepNext
  <2>2. Claimed(k)
    BY <1>1, <2>1 DEF Known
  <2>3. Claimed(sweep.key)'
    BY <1>4, <2>1, <2>2 DEF SweepNext, Claimed
  <2> QED  BY <1>1, <1>2, <1>4, <2>3, KnownKept DEF SweepNext
<1>5. CASE SweepDebit
  <2>1. /\ \A k \in charged' : k \in charged \/ k = sweep.key
        /\ sweep.key \in Keys /\ Claimed(sweep.key)
    BY <1>1, <1>5 DEF SweepDebit
  <2>3. \A k \in charged' : k \in charged \/ Claimed(k)'
    BY <1>2, <1>5, <2>1 DEF SweepDebit
  <2>4. \A k \in Keys : fees'[k].recorded = fees[k].recorded /\ (fees'[k].listed => fees[k].listed)
    BY <1>1, <1>5 DEF SweepDebit, FeesTyped
  <2>5. sweep'.pc # "resting" => sweep.pc # "resting" /\ sweep'.key = sweep.key
    BY <1>5 DEF SweepDebit, Resting, Typed, TypeOK
  <2> QED  BY <1>1, <1>2, <1>5, <2>3, <2>4, <2>5, KnownKept DEF SweepDebit
<1>6. CASE SweepMark
  <2>1. \A k \in Keys : fees'[k].recorded = fees[k].recorded /\ (fees'[k].listed => fees[k].listed)
    BY <1>1, <1>6 DEF SweepMark, Close, FeesTyped
  <2> QED  BY <1>1, <1>2, <1>6, <2>1, KnownKept DEF SweepMark, Resting
<1>7. CASE SweepStop
  BY <1>1, <1>2, <1>7, KnownKept DEF SweepStop, Resting
<1>8. ASSUME NEW room \in Rooms, Turn(room) PROVE Known'
  BY <1>1, <1>2, <1>8, KnownKept DEF Turn
<1>9. CASE Tick
  <2>1. \A k \in Keys : Claimed(k) => Claimed(k)'
    BY <1>9, ClaimedKept DEF Tick
  <2> QED  BY <1>1, <1>9, <2>1, KnownKept DEF Tick
<1>10. CASE UNCHANGED vars
  BY <1>1, <1>2, <1>10, KnownKept DEF vars
<1> QED  BY <1>3, <1>4, <1>5, <1>6, <1>7, <1>8, <1>9, <1>10 DEF Next

(* A step of a request keeps what is known of tables that were looked at.  *)
LEMMA LookedKept ==
  ASSUME Looked, full' \subseteq filled', filled \subseteq filled', clock' = clock,
         \A q \in Requests : request'[q].pc = "rebind" =>
           \/ request[q].pc = "rebind" /\ request'[q].using = request[q].using
           \/ request'[q].using.bound \in filled,
         \A q \in Requests : request'[q].pc = "claim" =>
           \/ request[q].pc = "claim" /\ request'[q].using = request[q].using
           \/ request'[q].using.expires > clock
  PROVE  Looked'
BY DEF Looked

LEMMA LookedStep == Typed /\ Looked /\ [Next]_vars => Looked'
<1> SUFFICES ASSUME Typed, Looked, [Next]_vars PROVE Looked'
  OBVIOUS
<1> USE DEF Idle
<1>1. /\ request \in [Requests -> [pc : {"idle", "load", "choose", "rebind", "claim", "reread",
                                      "confirm", "record", "debit", "mark"},
                                 room : Rooms \cup {None}, seen : SUBSET Reservations,
                                 using : Reservations \cup {None}]]
      /\ clock \in Nat /\ Window \in Nat \ {0} /\ full \subseteq filled
  BY FeeAssumption DEF Typed, TypeOK, Looked
<1>2. ASSUME NEW r \in Requests, RequestStep(r) PROVE Looked'
  <2>1. ASSUME NEW room \in Rooms, Ask(r, room) PROVE Looked'
    <3>1. request'[r].pc = "load" /\ \A q \in Requests : q # r => request'[q] = request[q]
      BY <1>1, <2>1 DEF Ask
    <3> QED  BY <1>1, <2>1, <3>1, LookedKept DEF Ask
  <2>2. CASE Load(r)
    BY <1>1, <2>2, LookedKept DEF Load
  <2>3. CASE Choose(r)
    <3>1. PICK e \in request[r].seen :
            \/ e.bound \in full /\ request' = [request EXCEPT ![r].pc = "rebind", ![r].using = e]
            \/ request' = [request EXCEPT ![r].seen = @ \ {e}]
      BY <2>3 DEF Choose
    <3> QED  BY <1>1, <2>3, <3>1, LookedKept DEF Choose
  <2>4. CASE Rebind(r)
    BY <1>1, <2>4, LookedKept DEF Rebind
  <2>5. CASE MakeClaim(r)
    <3>1. request'[r].using.expires = clock + Window /\ request'[r].pc = "claim"
      BY <1>1, <2>5 DEF MakeClaim
    <3>2. request'[r].using.expires > clock
      BY <1>1, <3>1
    <3>3. \A q \in Requests : q # r => request'[q] = request[q]
      BY <1>1, <2>5 DEF MakeClaim
    <3> QED  BY <1>1, <2>5, <3>1, <3>2, <3>3, LookedKept DEF MakeClaim
  <2>6. CASE Claim(r)
    BY <1>1, <2>6, LookedKept DEF Claim, Goes, AlreadyClaimed
  <2>7. CASE Reread(r)
    BY <1>1, <2>7, LookedKept DEF Reread
  <2>8. CASE Confirm(r)
    BY <1>1, <2>8, LookedKept DEF Confirm, Admits, Goes
  <2>9. CASE Record(r)
    BY <1>1, <2>9, LookedKept DEF Record, Goes
  <2>10. CASE Debit(r)
    BY <1>1, <2>10, LookedKept DEF Debit, Goes
  <2>11. CASE Mark(r)
    BY <1>1, <2>11, LookedKept DEF Mark, Admits
  <2>12. CASE Stop(r)
    BY <1>1, <2>12, LookedKept DEF Stop
  <2> QED
    BY <1>2, <2>1, <2>2, <2>3, <2>4, <2>5, <2>6, <2>7, <2>8, <2>9, <2>10, <2>11, <2>12 DEF RequestStep
<1>3. CASE SweepNext \/ SweepDebit \/ SweepMark \/ SweepStop \/ UNCHANGED vars
  BY <1>1, <1>3, LookedKept DEF SweepNext, SweepDebit, SweepMark, SweepStop, vars
<1>4. ASSUME NEW room \in Rooms, Turn(room) PROVE Looked'
  BY <1>1, <1>4, LookedKept DEF Turn
<1>5. CASE Tick
  BY <1>1, <1>5 DEF Tick, Looked
<1> QED  BY <1>2, <1>3, <1>4, <1>5 DEF Next

----------------------------------------------------------------------------
(* The invariant, and what follows from it                                 *)

LEMMA Invariant == Spec => []IInv
<1>1. Init => IInv
  BY InitTyped DEF Init, IInv, Paid, PaidBeforeSeated, Known, Looked, Idle, Resting, NoFee, Holding
<1>2. IInv /\ [Next]_vars => IInv'
  BY NextTyped, PaidStep, KnownStep, LookedStep DEF IInv
<1> QED  BY <1>1, <1>2, PTL DEF Spec

(* Of the fees taken for a table, one at most has not run out (Claim's     *)
(* condition, and the key that names the hour), with any number of         *)
(* requests, tables and failures.                                          *)
THEOREM NeverChargedTwice == Spec => []OneLiveCharge
<1>1. IInv => OneLiveCharge
  <2> SUFFICES ASSUME IInv, NEW k \in charged, NEW l \in charged,
                      k[1] = l[1], k[2] > clock, l[2] > clock
               PROVE  k = l
    BY DEF OneLiveCharge
  <2>1. k[2] = rows[k[1]].expires /\ l[2] = rows[k[1]].expires
    BY DEF IInv, Known, Claimed
  <2>2. k \in Keys /\ l \in Keys
    BY DEF IInv, Typed, TypeOK
  <2> QED  BY <2>1, <2>2 DEF Keys
<1> QED  BY <1>1, Invariant, PTL

(* A reservation leaves only a table that was unavailable at some time     *)
(* (Rebind's condition).                                                   *)
THEOREM MovedFromFilled == Spec => LeavesOnlyFilled
<1> DEFINE Step == \A o \in Rooms :
       rows'[o].expires = rows[o].expires /\ rows'[o].bound # rows[o].bound => rows[o].bound \in filled
<1>1. IInv /\ [Next]_vars => [Step]_vars
  <2> SUFFICES ASSUME IInv, Next, NEW o \in Rooms,
                      rows'[o].expires = rows[o].expires, rows'[o].bound # rows[o].bound
               PROVE  rows[o].bound \in filled
    OBVIOUS
  <2>1. PICK r \in Requests : Rebind(r) \/ Claim(r)
    BY DEF Next, RequestStep, Ask, Load, Choose, MakeClaim, Reread, Confirm, Record, Debit, Mark,
           Stop, SweepNext, SweepDebit, SweepMark, SweepStop, Turn, Tick
  <2>2. /\ RowsTyped /\ clock \in Nat
        /\ request[r].using \in Reservations
    BY <2>1, StoreTyped, FeeAssumption DEF IInv, Typed, TypeOK, Shaped, Rebind, Claim, Holding
  <2> DEFINE e == request[r].using
  <2>3. CASE Rebind(r)
    <3>1. rows[e.origin].bound = e.bound /\ rows' = [rows EXCEPT ![e.origin].bound = request[r].room]
      BY <2>3 DEF Rebind, Movable
    <3>2. o = e.origin
      BY <2>2, <3>1 DEF RowsTyped
    <3> QED  BY <2>3, <3>1, <3>2 DEF IInv, Looked, Rebind
  <2>4. CASE Claim(r)
    <3>1. /\ rows[e.origin].expires <= clock
          /\ rows' = [rows EXCEPT ![e.origin] = [bound |-> e.bound, expires |-> e.expires]]
      BY <2>4 DEF Claim
    <3>2. o = e.origin /\ rows'[o].expires = e.expires
      BY <2>2, <3>1 DEF RowsTyped
    <3>3. e.expires > clock /\ e.expires \in Nat /\ rows[o].expires \in Nat
      BY <2>2, <2>4, FeeAssumption DEF IInv, Looked, Claim, Reservations, Times, RowsTyped
    <3> QED  BY <2>2, <3>1, <3>2, <3>3
  <2> QED  BY <2>1, <2>3, <2>4
<1> QED  BY <1>1, Invariant, PTL DEF Spec, LeavesOnlyFilled
===============================================================================
