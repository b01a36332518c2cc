------------------------------- MODULE EntryFee -------------------------------
(***************************************************************************)
(* The entry fee of the real-money tables of one tier, for one player.  A  *)
(* paid reservation covers a table for some hours; when that table fills   *)
(* or closes, the reservation may be moved to another.  Requests to buy in *)
(* run side by side: each reads the reservations, uses one, moves one, or  *)
(* claims one, and has the fee of the one it uses paid before the player   *)
(* is seated.  A sweep completes the fees that requests left unpaid.       *)
(*                                                                         *)
(* Every call of a store or of the wallet is a step.  A request may end    *)
(* after any of them: the call failed, its answer was lost, or the         *)
(* process is gone.                                                        *)
(***************************************************************************)
EXTENDS Naturals

CONSTANTS
  Requests,    \* requests of the player, served at the same time
  Rooms,       \* tables of the tier
  None,
  Window,      \* ticks a reservation lasts
  MaxAttempts, \* sweeps that may fail before a person is asked
  MaxClock,    \* bound: ticks of the clock
  MaxTurns,    \* bound: tables filling up, closing or opening again
  MaxAsks      \* bound: requests made

ASSUME FeeAssumption ==
  /\ Window \in Nat \ {0} /\ MaxAttempts \in Nat \ {0}
  /\ MaxClock \in Nat /\ MaxTurns \in Nat /\ MaxAsks \in Nat
  /\ None \notin Rooms

VARIABLES
  clock,
  full,      \* tables that are archived or have no seat free
  rows,      \* the reservation claimed at each table: where it is bound, until when
  fees,      \* the fee rows: what the sweep knows of each key
  charged,   \* the keys the wallet has taken a fee for
  request,   \* how far each request is
  sweep,     \* the row the sweep is at
  turns,     \* history: what MaxTurns counts
  asks,      \* history: what MaxAsks counts
  filled,    \* history: tables that were unavailable at some time
  admitted   \* history: the key of the fee that covered the last admission

vars == <<clock, full, rows, fees, charged, request, sweep, turns, asks, filled, admitted>>

Times == 1 .. (MaxClock + Window)
Keys  == Rooms \X Times                          \* the table claimed at, the hour it ends

NoRow    == [bound |-> None, expires |-> 0]
NoFee    == [recorded |-> FALSE, resolved |-> FALSE, listed |-> FALSE, attempts |-> 0]
Owed     == [recorded |-> TRUE, resolved |-> FALSE, listed |-> TRUE, attempts |-> 0]
Idle     == [pc |-> "idle", room |-> None, seen |-> {}, using |-> None]
Resting  == [pc |-> "resting", key |-> None, attempts |-> 0]

(* A reservation as a request reads it.                                    *)
Reservation(origin) ==
  [origin |-> origin, bound |-> rows[origin].bound, expires |-> rows[origin].expires]

KeyOf(e) == <<e.origin, e.expires>>

(* The reservations that have not run out.                                 *)
ActiveFor == {Reservation(o) : o \in {o \in Rooms : rows[o].expires > clock}}

Init ==
  /\ clock = 0 /\ full = {} /\ charged = {} /\ turns = 0 /\ asks = 0 /\ filled = {} /\ admitted = None
  /\ rows = [o \in Rooms |-> NoRow]
  /\ fees = [k \in Keys |-> NoFee]
  /\ request = [r \in Requests |-> Idle]
  /\ sweep = Resting

Goes(r, pc) == request' = [request EXCEPT ![r].pc = pc]

(* The player asks for a seat; a request that ended may be made again.     *)
Ask(r, room) ==
  /\ request[r].pc = "idle"
  /\ asks < MaxAsks /\ asks' = asks + 1
  /\ request' = [request EXCEPT ![r] = [Idle EXCEPT !.pc = "load", !.room = room]]
  /\ UNCHANGED <<clock, full, rows, fees, charged, sweep, turns, filled, admitted>>

(* The reservations are read.  One bound to this table covers it, if its   *)
(* fee is paid; otherwise those of other tables are tried one by one.      *)
Load(r) ==
  /\ request[r].pc = "load"
  /\ LET here == {e \in ActiveFor : e.bound = request[r].room}
     IN  \/ \E e \in here :
              request' = [request EXCEPT ![r].pc = "confirm", ![r].using = e]
         \/ /\ here = {}
            /\ request' = [request EXCEPT ![r].pc = "choose", ![r].seen = ActiveFor]
  /\ UNCHANGED <<clock, full, rows, fees, charged, sweep, turns, asks, filled, admitted>>

(* The next reservation of another table: its table is looked at, and the  *)
(* reservation is dropped if that table is available or cannot be read.    *)
Choose(r) ==
  /\ request[r].pc = "choose"
  /\ \E e \in request[r].seen :
       \/ /\ e.bound \in full
          /\ request' = [request EXCEPT ![r].pc = "rebind", ![r].using = e]
       \/ request' = [request EXCEPT ![r].seen = @ \ {e}]
  /\ UNCHANGED <<clock, full, rows, fees, charged, sweep, turns, asks, filled, admitted>>

(* A mutated form: a reservation that has not run out may be moved,        *)
(* wherever it is bound by now.                                            *)
MovableAnyway(e) == rows[e.origin].expires > clock

Movable(e) == rows[e.origin].expires > clock /\ rows[e.origin].bound = e.bound

(* The reservation is moved to this table if it is still where it was      *)
(* seen.  A call whose answer is lost may be sent again.                   *)
Rebind(r) ==
  /\ request[r].pc = "rebind"
  /\ LET e == request[r].using
     IN  \/ /\ Movable(e)
            /\ rows' = [rows EXCEPT ![e.origin].bound = request[r].room]
            /\ request' \in {[request EXCEPT ![r].pc = pc] : pc \in {"confirm", "rebind"}}
         \/ /\ ~Movable(e)
            /\ request' = [request EXCEPT ![r].pc = "choose", ![r].seen = @ \ {e}]
            /\ UNCHANGED rows
  /\ UNCHANGED <<clock, full, fees, charged, sweep, turns, asks, filled, admitted>>

(* No reservation can be used: a new one is made up, which ends a Window   *)
(* from now.                                                               *)
MakeClaim(r) ==
  /\ request[r].pc = "choose" /\ request[r].seen = {}
  /\ LET room == request[r].room
     IN  request' = [request EXCEPT ![r].pc = "claim",
                       ![r].using = [origin |-> room, bound |-> room, expires |-> clock + Window]]
  /\ UNCHANGED <<clock, full, rows, fees, charged, sweep, turns, asks, filled, admitted>>

(* A mutated form: the loser of a claim goes on to pay for its own.        *)
LoserUses(r) == Goes(r, "record")

(* The loser of a claim reads the winner's reservation.                    *)
AlreadyClaimed(r) == Goes(r, "reread")

(* The new reservation is written, unless one of this table is still good. *)
(* A call whose answer is lost may be sent again.                          *)
Claim(r) ==
  /\ request[r].pc = "claim"
  /\ LET e == request[r].using
     IN  \/ /\ rows[e.origin].expires <= clock
            /\ rows' = [rows EXCEPT ![e.origin] = [bound |-> e.bound, expires |-> e.expires]]
            /\ Goes(r, "record") \/ Goes(r, "claim")
         \/ /\ rows[e.origin].expires > clock
            /\ AlreadyClaimed(r)
            /\ UNCHANGED rows
  /\ UNCHANGED <<clock, full, fees, charged, sweep, turns, asks, filled, admitted>>

(* The loser uses the reservation claimed at this table, wherever that is  *)
(* bound; without one the seat is refused.                                 *)
Reread(r) ==
  /\ request[r].pc = "reread"
  /\ LET winners == {e \in ActiveFor : e.origin = request[r].room}
     IN  \/ \E e \in winners :
              request' = [request EXCEPT ![r].pc = "confirm", ![r].using = e]
         \/ /\ winners = {}
            /\ request' = [request EXCEPT ![r] = Idle]
  /\ UNCHANGED <<clock, full, rows, fees, charged, sweep, turns, asks, filled, admitted>>

(* A mutated form: a fee row, closed or not, covers the reservation.       *)
RecordedCovers(key) == fees[key].recorded

Covered(key) == fees[key].resolved

(* The request gets its seat under the reservation it uses.                *)
Admits(r) ==
  /\ request' = [request EXCEPT ![r] = Idle]
  /\ admitted' = KeyOf(request[r].using)

(* Is the fee of this reservation paid?  Only a closed row says so.        *)
Confirm(r) ==
  /\ request[r].pc = "confirm"
  /\ IF Covered(KeyOf(request[r].using))
       THEN Admits(r)
       ELSE Goes(r, "record") /\ UNCHANGED admitted
  /\ UNCHANGED <<clock, full, rows, fees, charged, sweep, turns, asks, filled>>

(* What is owed is written down, unless it already was.                    *)
Record(r) ==
  /\ request[r].pc = "record"
  /\ LET key == KeyOf(request[r].using)
     IN  fees' = [fees EXCEPT ![key] = IF @.recorded THEN @ ELSE Owed]
  /\ Goes(r, "debit")
  /\ UNCHANGED <<clock, full, rows, charged, sweep, turns, asks, filled, admitted>>

(* The wallet takes the fee, once for a key, or refuses.                   *)
Debit(r) ==
  /\ request[r].pc = "debit"
  /\ \/ /\ charged' = charged \cup {KeyOf(request[r].using)}
        /\ Goes(r, "mark")
     \/ /\ request' = [request EXCEPT ![r] = Idle]
        /\ UNCHANGED charged
  /\ UNCHANGED <<clock, full, rows, fees, sweep, turns, asks, filled, admitted>>

Close(key) == fees' = [fees EXCEPT ![key].resolved = TRUE, ![key].listed = FALSE]

(* The row is closed and the player admitted, also when closing it failed. *)
Mark(r) ==
  /\ request[r].pc = "mark"
  /\ Close(KeyOf(request[r].using)) \/ UNCHANGED fees
  /\ Admits(r)
  /\ UNCHANGED <<clock, full, rows, charged, sweep, turns, asks, filled>>

(* A request ends: a store or the wallet failed or its answer was lost, or *)
(* the process stopped.                                                    *)
Stop(r) ==
  /\ request[r].pc # "idle"
  /\ request' = [request EXCEPT ![r] = Idle]
  /\ UNCHANGED <<clock, full, rows, fees, charged, sweep, turns, asks, filled, admitted>>

(* The sweep takes the next row it lists.                                  *)
SweepNext ==
  /\ sweep.pc = "resting"
  /\ \E key \in Keys :
       /\ fees[key].listed /\ ~fees[key].resolved
       /\ sweep' = [pc |-> "debit", key |-> key, attempts |-> fees[key].attempts]
  /\ UNCHANGED <<clock, full, rows, fees, charged, request, turns, asks, filled, admitted>>

(* It charges the fee under the same key; a failure is counted, from the   *)
(* count it read, and the last one takes the row off the list.             *)
SweepDebit ==
  /\ sweep.pc = "debit"
  /\ \/ /\ charged' = charged \cup {sweep.key}
        /\ sweep' = [sweep EXCEPT !.pc = "mark"]
        /\ UNCHANGED fees
     \/ /\ LET tried == sweep.attempts + 1
           IN  fees' = [fees EXCEPT ![sweep.key].attempts = tried,
                                    ![sweep.key].listed = @ /\ tried < MaxAttempts]
        /\ sweep' = Resting
        /\ UNCHANGED charged
  /\ UNCHANGED <<clock, full, rows, request, turns, asks, filled, admitted>>

SweepMark ==
  /\ sweep.pc = "mark"
  /\ Close(sweep.key)
  /\ sweep' = Resting
  /\ UNCHANGED <<clock, full, rows, charged, request, turns, asks, filled, admitted>>

(* A call of the sweep fails or its answer is lost, or it is stopped.      *)
SweepStop ==
  /\ sweep.pc # "resting"
  /\ sweep' = Resting
  /\ UNCHANGED <<clock, full, rows, fees, charged, request, turns, asks, filled, admitted>>

(* A table fills up or closes, or one has a free seat again.               *)
Turn(room) ==
  /\ turns < MaxTurns /\ turns' = turns + 1
  /\ full' = IF room \in full THEN full \ {room} ELSE full \cup {room}
  /\ filled' = filled \cup full'
  /\ UNCHANGED <<clock, rows, fees, charged, request, sweep, asks, admitted>>

(* Time passes.  A request is not held so long that the reservation it has *)
(* made up would be over before it is written.                             *)
Tick ==
  /\ clock < MaxClock /\ clock' = clock + 1
  /\ \A r \in Requests : request[r].pc = "claim" => request[r].using.expires > clock'
  /\ UNCHANGED <<full, rows, fees, charged, request, sweep, turns, asks, filled, admitted>>

RequestStep(r) ==
  \/ \E room \in Rooms : Ask(r, room)
  \/ Load(r) \/ Choose(r) \/ Rebind(r) \/ MakeClaim(r) \/ Claim(r) \/ Reread(r)
  \/ Confirm(r) \/ Record(r) \/ Debit(r) \/ Mark(r) \/ Stop(r)

Next ==
  \/ \E r \in Requests : RequestStep(r)
  \/ SweepNext \/ SweepDebit \/ SweepMark \/ SweepStop
  \/ \E room \in Rooms : Turn(room)
  \/ Tick

Spec == Init /\ [][Next]_vars

(***************************************************************************)
(* Properties                                                              *)
(***************************************************************************)
Reservations == [origin : Rooms, bound : Rooms, expires : Times]

(* The type of every variable.                                             *)
TypeOK ==
  /\ clock \in 0 .. MaxClock /\ turns \in 0 .. MaxTurns /\ asks \in 0 .. MaxAsks
  /\ full \subseteq Rooms /\ filled \subseteq Rooms /\ charged \subseteq Keys
  /\ rows \in [Rooms -> [bound : Rooms \cup {None}, expires : {0} \cup Times]]
  /\ fees \in [Keys -> [recorded : BOOLEAN, resolved : BOOLEAN, listed : BOOLEAN,
                        attempts : 0 .. MaxAttempts]]
  /\ request \in [Requests -> [pc : {"idle", "load", "choose", "rebind", "claim", "reread",
                                      "confirm", "record", "debit", "mark"},
                               room : Rooms \cup {None}, seen : SUBSET Reservations,
                               using : Reservations \cup {None}]]
  /\ sweep \in [pc : {"resting", "debit", "mark"}, key : Keys \cup {None},
                attempts : 0 .. MaxAttempts]
  /\ admitted \in Keys \cup {None}

(* Nobody is seated on a reservation whose fee was not taken, whichever    *)
(* request claimed it, moved it or paid it, and whichever of them failed:  *)
(* a reservation exists before its fee is paid.                            *)
PaidBeforeSeated == admitted # None => admitted \in charged

(* Two requests for one table never both charge: of the fees taken for     *)
(* reservations claimed at a table, one at most has not run out.           *)
OneLiveCharge ==
  \A k, l \in charged : k[1] = l[1] /\ k[2] > clock /\ l[2] > clock => k = l

(* A reservation leaves only a table that was unavailable at some time:    *)
(* of two requests that saw it at a full table, the second does not take   *)
(* it from the table the first one has just moved it to.                   *)
LeavesOnlyFilled ==
  [][\A o \in Rooms :
       rows'[o].expires = rows[o].expires /\ rows'[o].bound # rows[o].bound
         => rows[o].bound \in filled]_vars
===============================================================================
