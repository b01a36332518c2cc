---------------------------- MODULE PurchasesProofs ----------------------------
(***************************************************************************)
(* What holds of Purchases for every number of keys, calls, requests and   *)
(* stops.  OwnedIsPaid is not inductive: that a grant is paid is known     *)
(* since the gateway was read, that it was decided before a refund since   *)
(* Decide looked at the row, and that a row is paid by the debit or the    *)
(* grant that confirmed it.  IInv says all of this of the calls that are   *)
(* served, of the rows and of the entitlement.                             *)
(***************************************************************************)
EXTENDS Purchases, TLAPS

(* An entitlement has the method of the purchase it is for, and is         *)
(* reserved for a purchase, or for the request that is opening it.         *)
EntOK ==
  ent # None =>
    /\ ent.method = "pix" /\ ent.purchase # None => ent.purchase \in PixPurchases
    /\ ent.by \in PixPurchases => ent.method = "pix"
    /\ Pending /\ ent.method = "pix" => ent.by \notin ChipPurchases
    /\ Pending /\ ent.method = "pix" /\ ent.purchase = None => ent.by \in PixPurchases
    /\ ent.method = "chips" => ent.purchase \in ChipPurchases

(* What a call knows of the purchase it serves.                            *)
CallOK(c) ==
  LET k == call[c]
  IN  /\ k.pc \in {"buy", "cancel", "attach", "stored", "read", "decide", "recover",
                   "close", "grant", "entitle", "confirm", "fill"} => k.p \in PixPurchases
      /\ k.pc \in {"debit", "own", "undo"} => k.p \in ChipPurchases
      /\ k.pc \in {"revoke", "return", "complete"} => k.p \in AllPurchases
      /\ k.pc = "own" => k.p \in debited
      /\ k.wallet = "confirmed" => k.p \in PixPurchases /\ invoice[k.p] = "paid"
      /\ k.wallet = "expired" => k.p \in PixPurchases /\ invoice[k.p] = "void"
      /\ k.pc \in {"grant", "entitle", "confirm", "fill"} => k.wallet = "confirmed"
      /\ k.pc \in {"attach", "stored", "decide", "recover"} => k.wallet # None
      /\ k.pc \in {"read", "attach", "decide", "recover"} => invoice[k.p] # "none"
      /\ k.pc = "recover" => k.wallet # "confirmed"
      /\ k.pc = "stored" => rec[k.p] # None
      /\ k.pc = "close" => k.wallet = "expired" /\ k.local # None
      /\ k.pc \in {"grant", "entitle", "confirm"} /\ k.p \in revoked => k.p \in late

CallsOK == \A c \in Callers : CallOK(c)

(* What a row says of the money.                                           *)
RowOK(p) ==
  /\ p \in PixPurchases /\ rec[p] # None => invoice[p] # "none"
  /\ p \in PixPurchases => Status(p) # "processing"
  /\ Status(p) \in {"confirmed", "refunding", "refunded"} => Paid(p)
  /\ p \in revoked => p \in late \/ Status(p) \in {"refunding", "refunded"}

RowsOK == \A p \in AllPurchases : RowOK(p)

IInv == TypeOK /\ EntOK /\ CallsOK /\ RowsOK /\ OwnedIsPaid

----------------------------------------------------------------------------
(* What a step may do to the records the other calls know of.              *)
Grows ==
  /\ \A p \in PixPurchases : /\ invoice[p] \in {"paid", "void"} => invoice'[p] = invoice[p]
                             /\ invoice[p] # "none" => invoice'[p] # "none"
                             /\ rec[p] # None => rec'[p] # None
  /\ debited \subseteq debited' /\ late \subseteq late'
  /\ \A p \in revoked' \ revoked : \A d \in Callers : Granting(d, p) => p \in late'

CallRecords ==
  [pc : Places, p : AllPurchases \cup {None},
   wallet : {"confirmed", "pending", "expired", None},
   local : Statuses \cup {None}, ent : Entitlements \cup {None}, fills : BOOLEAN]

Others(c) == \A d \in Callers \ {c} : call'[d] = call[d]

(* A purchase has one method.                                              *)
LEMMA Methods ==
  /\ \A p \in PixPurchases : p \in AllPurchases /\ p \notin ChipPurchases /\ p[1] = "pix" /\ p # None
  /\ \A p \in ChipPurchases : p \in AllPurchases /\ p \notin PixPurchases /\ p[1] = "chips" /\ p # None
  /\ \A p \in AllPurchases : p \in PixPurchases \/ p \in ChipPurchases
  /\ None \notin AllPurchases /\ None \notin Statuses /\ None \notin Records /\ None \notin Entitlements
BY PurchasesAssumption DEF PixPurchases, ChipPurchases, AllPurchases

(* Calls that a step leaves alone know what they knew.                     *)
LEMMA OthersStay ==
  ASSUME CallsOK, Grows, NEW c \in Callers, Others(c), CallOK(c)'
  PROVE  CallsOK'
<1> SUFFICES ASSUME NEW d \in Callers, d # c PROVE CallOK(d)'
  BY DEF CallsOK
<1>1. call'[d] = call[d] /\ CallOK(d)
  BY DEF Others, CallsOK
<1> QED
  BY <1>1 DEF CallOK, Grows, Granting

(* A step that writes no row and takes back no money leaves the rest.      *)
LEMMA RowsStay ==
  ASSUME IInv, UNCHANGED rows, revoked' = revoked, Grows
  PROVE  EntOK' /\ RowsOK' /\ OwnedIsPaid'
<1>1. \A p \in AllPurchases : Paid(p) => Paid(p)'
  BY Methods DEF Paid, Grows
<1>2. EntOK'
  BY DEF IInv, EntOK, Pending, rows
<1>3. RowsOK'
  BY <1>1 DEF IInv, RowsOK, RowOK, Status, rows, Grows
<1>4. OwnedIsPaid'
  BY <1>1 DEF IInv, OwnedIsPaid, Active, Paid, Grows, rows
<1> QED
  BY <1>2, <1>3, <1>4

(* How a call is left, whatever it did.                                    *)
CallTurns(c) == call' \in [Callers -> CallRecords] /\ Others(c) /\ CallOK(c)'

DataOK ==
  /\ ent \in Entitlements \cup {None}
  /\ rec \in [AllPurchases -> Records \cup {None}]
  /\ invoice \in [PixPurchases -> {"none", "open", "paid", "void"}]
  /\ debited \subseteq ChipPurchases /\ returned \subseteq AllPurchases
  /\ revoked \subseteq AllPurchases /\ late \subseteq AllPurchases
  /\ verified \in BOOLEAN /\ applied \in BOOLEAN
  /\ asked \in 0 .. MaxAsks /\ stops \in 0 .. MaxStops

LEMMA Types == TypeOK <=> DataOK /\ call \in [Callers -> CallRecords]
BY DEF TypeOK, DataOK, CallRecords

LEMMA CallEnds ==
  ASSUME TypeOK, NEW c \in Callers, Ends(c)
  PROVE  CallTurns(c)
<1>1. Idle \in CallRecords
  BY Zenon DEF Idle, CallRecords, Places
<1>2. call' \in [Callers -> CallRecords] /\ Others(c) /\ call'[c] = Idle
  BY <1>1, Types DEF Ends, Others
<1>3. CallOK(c)'
  BY <1>2, PurchasesAssumption DEF CallOK, Idle, Statuses
<1> QED
  BY <1>2, <1>3 DEF CallTurns

LEMMA CallStarts ==
  ASSUME TypeOK, NEW c \in Callers, NEW p \in AllPurchases \cup {None}, NEW pc \in Places, Starts(c, pc, p), invoice' = invoice,
         \/ pc = "buy" /\ p \in PixPurchases
         \/ pc = "read" /\ p \in PixPurchases /\ invoice[p] # "none"
         \/ pc = "debit" /\ p \in ChipPurchases
         \/ pc \in {"revoke", "return"} /\ p \in AllPurchases
         \/ pc = "apply"
  PROVE  CallTurns(c)
<1> DEFINE k == [Idle EXCEPT !.pc = pc, !.p = p]
<1>1. Idle \in CallRecords
  BY Zenon DEF Idle, CallRecords, Places
<1>2. /\ k \in CallRecords /\ k.pc = pc /\ k.p = p
      /\ k.wallet = None /\ k.local = None
  BY <1>1 DEF Idle, CallRecords
<1>3. call' \in [Callers -> CallRecords] /\ Others(c) /\ call'[c] = k
  BY <1>2, Types DEF Starts, Others
<1> HIDE DEF k
<1>4. CallOK(c)'
  BY <1>2, <1>3, PurchasesAssumption DEF CallOK, Statuses
<1> QED
  BY <1>3, <1>4 DEF CallTurns

(* A call that goes on keeps what it knows.                                *)
LEMMA CallGoes ==
  ASSUME TypeOK, NEW c \in Callers, NEW pc \in Places, Goes(c, pc)
  PROVE  /\ call' \in [Callers -> CallRecords] /\ Others(c)
         /\ call'[c].pc = pc /\ call'[c].p = call[c].p
         /\ call'[c].wallet = call[c].wallet /\ call'[c].local = call[c].local
<1>1. call[c] \in CallRecords
  BY Types
<1>2. call'[c] = [call[c] EXCEPT !.pc = pc]
  BY Types DEF Goes
<1>3. [call[c] EXCEPT !.pc = pc] \in CallRecords
  BY <1>1 DEF CallRecords
<1>4. call' \in [Callers -> CallRecords] /\ Others(c)
  BY <1>2, <1>3, Types DEF Goes, Others
<1> QED
  BY <1>1, <1>2, <1>4 DEF CallRecords

(* What is left to show of a step.                                         *)
LEMMA StepKeeps ==
  ASSUME IInv, NEW c \in Callers, CallTurns(c), Grows, DataOK', EntOK', RowsOK', OwnedIsPaid'
  PROVE  IInv'
<1>1. TypeOK' <=> DataOK' /\ call' \in [Callers -> CallRecords]
  BY DEF TypeOK, DataOK, CallRecords
<1>2. CallsOK'
  BY OthersStay DEF CallTurns, IInv
<1> QED
  BY <1>1, <1>2 DEF IInv, CallTurns

LEMMA QuietKeeps ==
  ASSUME IInv, NEW c \in Callers, CallTurns(c), UNCHANGED <<rows, money, past>>,
         verified' \in BOOLEAN, applied' \in BOOLEAN,
         asked' \in 0 .. MaxAsks, stops' \in 0 .. MaxStops
  PROVE  IInv'
<1>1. DataOK
  BY Types DEF IInv
<1>2. DataOK' /\ Grows
  BY <1>1 DEF DataOK, Grows, rows, money, past
<1> QED
  BY <1>2, RowsStay, StepKeeps DEF rows, past

----------------------------------------------------------------------------
(* Steps that only the call remembers                                      *)

LEMMA StopKeeps ==
  ASSUME IInv, NEW c \in Callers, Stop(c)
  PROVE  IInv'
<1>1. CallTurns(c)
  BY CallEnds DEF Stop, IInv
<1> QED
  BY <1>1, QuietKeeps, PurchasesAssumption DEF Stop, IInv, TypeOK

LEMMA SyncKeeps ==
  ASSUME IInv, NEW c \in Callers, NEW p \in PixPurchases, Sync(c, p)
  PROVE  IInv'
<1>1. CallTurns(c)
  BY CallStarts, Methods DEF Sync, IInv, Places, money
<1> QED
  BY <1>1, QuietKeeps DEF Sync, Serves, IInv, TypeOK

LEMMA ReadKeeps ==
  ASSUME IInv, NEW c \in Callers, Read(c)
  PROVE  IInv'
<1>1. call[c] \in CallRecords /\ call[c].pc = "read" /\ CallOK(c)
  BY Types DEF Read, At, IInv, CallsOK
<1>2. call[c].p \in PixPurchases /\ invoice[call[c].p] \in {"open", "paid", "void"}
  BY <1>1 DEF CallOK, IInv, TypeOK
<1> DEFINE w == ViewOf(invoice[call[c].p])
           k == [call[c] EXCEPT !.pc = "decide", !.wallet = w]
<1>3. /\ w \in {"confirmed", "pending", "expired"}
      /\ w = "confirmed" => invoice[call[c].p] = "paid"
      /\ w = "expired" => invoice[call[c].p] = "void"
  BY <1>2 DEF ViewOf
<1>4. call' = [call EXCEPT ![c] = k]
  BY DEF Read
<1> HIDE DEF w
<1>5. k \in CallRecords /\ k.pc = "decide" /\ k.p = call[c].p /\ k.wallet = w
  BY <1>1, <1>3 DEF CallRecords, Places
<1> HIDE DEF k
<1>6. call' \in [Callers -> CallRecords] /\ Others(c) /\ call'[c] = k
  BY <1>4, <1>5, Types DEF IInv, Others
<1>7. CallOK(c)'
  BY <1>2, <1>3, <1>5, <1>6, PurchasesAssumption DEF Read, CallOK, money, Statuses
<1> QED
  BY <1>6, <1>7, QuietKeeps DEF Read, Serves, IInv, TypeOK, CallTurns

LEMMA GrantReadsRowKeeps ==
  ASSUME IInv, NEW c \in Callers, GrantReadsRow(c)
  PROVE  IInv'
<1>1. call[c] \in CallRecords /\ call[c].pc = "grant" /\ CallOK(c)
  BY Types DEF GrantReadsRow, At, IInv, CallsOK
<1>2. call[c].p \in PixPurchases
  BY <1>1 DEF CallOK
<1> DEFINE l == Status(call[c].p)
           k == [call[c] EXCEPT !.pc = "entitle", !.local = l]
<1>3. l \in Statuses \cup {None}
  BY <1>2, Methods DEF Status, IInv, TypeOK, Records
<1>4. call' = [call EXCEPT ![c] = k]
  BY DEF GrantReadsRow
<1> HIDE DEF l
<1>5. k \in CallRecords /\ k.pc = "entitle" /\ k.p = call[c].p /\ k.wallet = call[c].wallet
  BY <1>1, <1>3 DEF CallRecords, Places
<1> HIDE DEF k
<1>6. call' \in [Callers -> CallRecords] /\ Others(c) /\ call'[c] = k
  BY <1>4, <1>5, Types DEF IInv, Others
<1>7. CallOK(c)'
  BY <1>1, <1>5, <1>6 DEF GrantReadsRow, CallOK, money, past
<1> QED
  BY <1>6, <1>7, QuietKeeps DEF GrantReadsRow, Serves, IInv, TypeOK, CallTurns

LEMMA GrantReadsEntitlementKeeps ==
  ASSUME IInv, NEW c \in Callers, GrantReadsEntitlement(c)
  PROVE  IInv'
<1>1. call[c] \in CallRecords /\ call[c].pc = "entitle" /\ CallOK(c)
  BY Types DEF GrantReadsEntitlement, At, IInv, CallsOK
<1> DEFINE k == [call[c] EXCEPT !.pc = "confirm", !.ent = ent]
<1>2. call' = [call EXCEPT ![c] = k]
  BY DEF GrantReadsEntitlement
<1>3. k \in CallRecords /\ k.pc = "confirm" /\ k.p = call[c].p /\ k.wallet = call[c].wallet
  BY <1>1 DEF CallRecords, Places, IInv, TypeOK
<1> HIDE DEF k
<1>4. call' \in [Callers -> CallRecords] /\ Others(c) /\ call'[c] = k
  BY <1>2, <1>3, Types DEF IInv, Others
<1>5. CallOK(c)'
  BY <1>1, <1>3, <1>4 DEF GrantReadsEntitlement, CallOK, money, past
<1> QED
  BY <1>4, <1>5, QuietKeeps DEF GrantReadsEntitlement, Serves, IInv, TypeOK, CallTurns

LEMMA RefreshSandboxKeeps ==
  ASSUME IInv, NEW c \in Callers, NEW p \in ChipPurchases, RefreshSandbox(c, p)
  PROVE  IInv'
<1>1. CallTurns(c)
  BY CallStarts, Methods DEF RefreshSandbox, IInv, Places, money
<1> QED
  BY <1>1, QuietKeeps, PurchasesAssumption DEF RefreshSandbox, Asks, IInv, TypeOK

LEMMA RefundKeeps ==
  ASSUME IInv, NEW c \in Callers, NEW p \in AllPurchases, Refund(c, p)
  PROVE  IInv'
<1>1. CallTurns(c)
  BY CallStarts DEF Refund, IInv, Places, money
<1> QED
  BY <1>1, QuietKeeps, PurchasesAssumption DEF Refund, Asks, IInv, TypeOK

LEMMA RequireCosmeticKeeps ==
  ASSUME IInv, NEW c \in Callers, RequireCosmetic(c)
  PROVE  IInv'
<1>1. CallTurns(c)
  BY CallStarts DEF RequireCosmetic, IInv, Places, money
<1> QED
  BY <1>1, QuietKeeps, PurchasesAssumption DEF RequireCosmetic, Asks, IInv, TypeOK

LEMMA ApplyKeeps ==
  ASSUME IInv, NEW c \in Callers, Apply(c)
  PROVE  IInv'
<1>1. CallTurns(c)
  BY CallEnds DEF Apply, IInv
<1>2. DataOK
  BY Types DEF IInv
<1>3. UNCHANGED <<rows, money, past>> /\ verified' \in BOOLEAN
  BY <1>2 DEF Apply, Serves, DataOK
<1> QED
  BY <1>1, <1>2, <1>3, QuietKeeps DEF Apply, Serves, DataOK

(* What Decide says to do, from what the gateway and the row say.          *)
LEMMA DecideSays ==
  ASSUME NEW wallet \in {"confirmed", "pending", "expired"},
         NEW local \in Statuses \cup {None}, local # "processing"
  PROVE  LET d == Decide(wallet, local)
         IN  /\ d.recover => wallet # "confirmed"
             /\ ~d.recover => d.step \in {"grant", "close", "ignore", "drop"}
             /\ d.step = "grant" => wallet = "confirmed" /\ local \notin {"refunding", "refunded"}
             /\ d.step = "close" /\ ~d.recover => wallet = "expired" /\ local # None
<1>1. CASE wallet = "confirmed"
  BY <1>1 DEF Decide, Decision
<1>2. CASE wallet = "pending"
  BY <1>2, PurchasesAssumption DEF Decide, Unpaid, Decision, Terminal, Statuses
<1>3. CASE wallet = "expired"
  <2>1. CASE local = None
    BY <1>3, <2>1 DEF Decide, Unpaid, Decision, Terminal
  <2>2. CASE local # None
    BY <1>3, <2>2 DEF Decide, Unpaid, Decision, Terminal
  <2> QED
    BY <2>1, <2>2
<1> QED
  BY <1>1, <1>2, <1>3

LEMMA FollowKeeps ==
  ASSUME IInv, NEW c \in Callers, Follow(c)
  PROVE  IInv'
<1> DEFINE w == call[c].wallet
           p == call[c].p
           l == Status(p)
           d == Decide(w, l)
<1>1. call[c] \in CallRecords /\ call[c].pc = "decide" /\ CallOK(c)
  BY Types DEF Follow, At, IInv, CallsOK
<1>2. p \in PixPurchases /\ w \in {"confirmed", "pending", "expired"}
  BY <1>1 DEF CallOK, CallRecords
<1>3. l \in Statuses \cup {None} /\ l # "processing"
  BY <1>2, Methods DEF Status, IInv, TypeOK, Records, RowsOK, RowOK
<1>4. /\ d.recover => w # "confirmed"
      /\ ~d.recover => d.step \in {"grant", "close", "ignore", "drop"}
      /\ d.step = "grant" => w = "confirmed" /\ l \notin {"refunding", "refunded"}
      /\ d.step = "close" /\ ~d.recover => w = "expired" /\ l # None
  BY <1>2, <1>3, DecideSays
<1>5. p \in revoked => p \in late \/ l \in {"refunding", "refunded"}
  BY <1>2, Methods DEF IInv, RowsOK, RowOK
<1>6. /\ UNCHANGED <<rows, money, past>>
      /\ \/ d.recover /\ Goes(c, "recover")
         \/ /\ ~d.recover /\ d.step \notin {"ignore", "drop"}
            /\ call' = [call EXCEPT ![c].pc = d.step, ![c].local = l]
         \/ Ends(c)
  BY DEF Follow
<1> HIDE DEF d, l
<1>7. ASSUME d.recover, Goes(c, "recover") PROVE CallTurns(c)
  <2>1. /\ call' \in [Callers -> CallRecords] /\ Others(c)
        /\ call'[c].pc = "recover" /\ call'[c].p = p /\ call'[c].wallet = w
    BY <1>7, CallGoes DEF IInv, Places
  <2>2. CallOK(c)'
    BY <1>1, <1>2, <1>4, <1>6, <1>7, <2>1 DEF CallOK, money, past
  <2> QED
    BY <2>1, <2>2 DEF CallTurns
<1>8. ASSUME ~d.recover, d.step \notin {"ignore", "drop"},
             call' = [call EXCEPT ![c].pc = d.step, ![c].local = l]
      PROVE  CallTurns(c)
  <2> DEFINE k == [call[c] EXCEPT !.pc = d.step, !.local = l]
  <2>1. call' = [call EXCEPT ![c] = k]
    BY <1>8
  <2>2. d.step \in {"grant", "close"}
    BY <1>4, <1>8
  <2>3. k \in CallRecords /\ k.pc = d.step /\ k.p = p /\ k.wallet = w /\ k.local = l
    BY <1>1, <1>3, <2>2 DEF CallRecords, Places
  <2> HIDE DEF k
  <2>4. call' \in [Callers -> CallRecords] /\ Others(c) /\ call'[c] = k
    BY <2>1, <2>3, Types DEF IInv, Others
  <2>5. CallOK(c)'
    BY <1>1, <1>2, <1>4, <1>5, <1>6, <1>8, <2>2, <2>3, <2>4 DEF CallOK, money, past
  <2> QED
    BY <2>4, <2>5 DEF CallTurns
<1>9. CallTurns(c)
  BY <1>6, <1>7, <1>8, CallEnds DEF IInv
<1> QED
  BY <1>9, QuietKeeps DEF Follow, Serves, IInv, TypeOK

----------------------------------------------------------------------------
(* Steps that move money                                                   *)

LEMMA BuyKeeps ==
  ASSUME IInv, NEW c \in Callers, Buy(c)
  PROVE  IInv'
<1> DEFINE p == call[c].p
           opened == IF invoice[p] = "none" THEN "open" ELSE invoice[p]
<1>1. call[c] \in CallRecords /\ call[c].pc = "buy" /\ CallOK(c) /\ DataOK
  BY Types DEF Buy, At, IInv, CallsOK
<1>2. p \in PixPurchases
  BY <1>1 DEF CallOK
<1>3. opened \in {"open", "paid", "void"} /\ ViewOf(opened) \in {"confirmed", "pending", "expired"}
  BY <1>1, <1>2 DEF DataOK, ViewOf
<1>4. CASE Goes(c, "cancel") /\ UNCHANGED invoice
  <2>1. /\ call' \in [Callers -> CallRecords] /\ Others(c)
        /\ call'[c].pc = "cancel" /\ call'[c].p = p /\ call'[c].wallet = call[c].wallet
    BY <1>4, CallGoes DEF IInv, Places
  <2>2. CallOK(c)'
    BY <1>1, <1>2, <1>4, <2>1 DEF CallOK
  <2> QED
    BY <1>1, <1>4, <2>1, <2>2, QuietKeeps DEF CallTurns, Buy, Serves, DataOK, money
<1>5. CASE /\ invoice' = [invoice EXCEPT ![p] = opened]
           /\ call' = [call EXCEPT ![c].pc = "attach", ![c].wallet = ViewOf(opened)]
  <2> DEFINE w == ViewOf(opened)
             k == [call[c] EXCEPT !.pc = "attach", !.wallet = w]
  <2>1. call' = [call EXCEPT ![c] = k]
    BY <1>5
  <2>2. k \in CallRecords /\ k.pc = "attach" /\ k.p = p /\ k.wallet = w
    BY <1>1, <1>3 DEF CallRecords, Places
  <2> HIDE DEF k
  <2>3. call' \in [Callers -> CallRecords] /\ Others(c) /\ call'[c] = k
    BY <2>1, <2>2, Types DEF IInv, Others
  <2>4. invoice'[p] = opened /\ invoice' \in [PixPurchases -> {"none", "open", "paid", "void"}]
    BY <1>1, <1>2, <1>3, <1>5 DEF DataOK
  <2>5. CallOK(c)'
    BY <1>2, <1>3, <2>2, <2>3, <2>4, PurchasesAssumption DEF CallOK, ViewOf, Statuses
  <2>6. DataOK' /\ Grows
    BY <1>1, <1>2, <1>3, <1>5, <2>4 DEF DataOK, Grows, Buy, Serves, rows, past
  <2> QED
    BY <2>3, <2>5, <2>6, RowsStay, StepKeeps DEF CallTurns, Buy, past
<1> QED
  BY <1>4, <1>5 DEF Buy

LEMMA StoredKeeps ==
  ASSUME IInv, NEW c \in Callers, Stored(c)
  PROVE  IInv'
<1> DEFINE p == call[c].p
           w == call[c].wallet
<1>1. call[c] \in CallRecords /\ call[c].pc = "stored" /\ CallOK(c) /\ DataOK
  BY Types DEF Stored, At, IInv, CallsOK
<1>2. p \in PixPurchases /\ rec[p] # None /\ Status(p) \in Statuses
  BY <1>1, Methods DEF CallOK, DataOK, Status, Records
<1>3. late' = IF w = "confirmed" THEN late \cup ({p} \cap revoked) ELSE late
  BY DEF Stored
<1>4. DataOK' /\ Grows
  BY <1>1, <1>3 DEF DataOK, Grows, Stored, Serves, rows, money
<1>5. ASSUME w = "confirmed", Goes(c, "grant") PROVE CallTurns(c)
  <2>1. /\ call' \in [Callers -> CallRecords] /\ Others(c)
        /\ call'[c].pc = "grant" /\ call'[c].p = p /\ call'[c].wallet = w
    BY <1>5, CallGoes DEF IInv, Places
  <2>2. CallOK(c)'
    BY <1>1, <1>2, <1>3, <1>5, <2>1 DEF CallOK, Stored, money
  <2> QED
    BY <2>1, <2>2 DEF CallTurns
<1>6. ASSUME Terminal(w), call' = [call EXCEPT ![c].pc = "close", ![c].local = Status(p)]
      PROVE  CallTurns(c)
  <2> DEFINE l == Status(p)
             k == [call[c] EXCEPT !.pc = "close", !.local = l]
  <2>1. call' = [call EXCEPT ![c] = k]
    BY <1>6
  <2>2. w = "expired" /\ l # None
    BY <1>1, <1>2, <1>6, PurchasesAssumption DEF Terminal, CallRecords, CallOK
  <2>3. l \in Statuses
    BY <1>2
  <2> HIDE DEF l
  <2>4. k \in CallRecords /\ k.pc = "close" /\ k.p = p /\ k.wallet = w /\ k.local = l
    BY <1>1, <2>3 DEF CallRecords, Places
  <2> HIDE DEF k
  <2>5. call' \in [Callers -> CallRecords] /\ Others(c) /\ call'[c] = k
    BY <2>1, <2>4, Types DEF IInv, Others
  <2>6. CallOK(c)'
    BY <1>1, <1>2, <2>2, <2>4, <2>5 DEF CallOK, Stored, money
  <2> QED
    BY <2>5, <2>6 DEF CallTurns
<1>7. CallTurns(c)
  BY <1>5, <1>6, CallEnds DEF Stored, IInv
<1> QED
  BY <1>4, <1>7, RowsStay, StepKeeps DEF Stored

LEMMA DebitKeeps ==
  ASSUME IInv, NEW c \in Callers, Debit(c)
  PROVE  IInv'
<1> DEFINE p == call[c].p
<1>1. call[c] \in CallRecords /\ call[c].pc = "debit" /\ CallOK(c) /\ DataOK
  BY Types DEF Debit, At, IInv, CallsOK
<1>2. p \in ChipPurchases
  BY <1>1 DEF CallOK
<1>3. DataOK' /\ Grows
  BY <1>1, <1>2 DEF DataOK, Grows, Debit, Serves, rows, past
<1>4. PICK pc \in {"own", "undo"} : Goes(c, pc) /\ (pc = "own" => debited' = debited \cup {p})
  BY DEF Debit
<1>5. /\ call' \in [Callers -> CallRecords] /\ Others(c)
      /\ call'[c].pc = pc /\ call'[c].p = p /\ call'[c].wallet = call[c].wallet
  BY <1>4, CallGoes DEF IInv, Places
<1>6. CallOK(c)'
  BY <1>1, <1>2, <1>4, <1>5 DEF CallOK, Debit
<1> QED
  BY <1>3, <1>5, <1>6, RowsStay, StepKeeps DEF CallTurns, Debit, past

LEMMA GiveBackKeeps ==
  ASSUME IInv, NEW c \in Callers, GiveBack(c)
  PROVE  IInv'
<1>1. call[c] \in CallRecords /\ call[c].pc = "return" /\ CallOK(c) /\ DataOK
  BY Types DEF GiveBack, At, IInv, CallsOK
<1>2. call[c].p \in AllPurchases
  BY <1>1 DEF CallOK
<1>3. DataOK' /\ Grows
  BY <1>1, <1>2 DEF DataOK, Grows, GiveBack, Serves, rows, past
<1>4. /\ call' \in [Callers -> CallRecords] /\ Others(c)
      /\ call'[c].pc = "complete" /\ call'[c].p = call[c].p /\ call'[c].wallet = call[c].wallet
  BY CallGoes DEF GiveBack, IInv, Places
<1>5. CallOK(c)'
  BY <1>1, <1>2, <1>4 DEF CallOK, GiveBack
<1> QED
  BY <1>3, <1>4, <1>5, RowsStay, StepKeeps DEF CallTurns, GiveBack, past

----------------------------------------------------------------------------
(* Steps that write rows                                                   *)

LEMMA RowMoves ==
  ASSUME RowsOK, Grows, revoked' = revoked, NEW p \in AllPurchases, RowOK(p)',
         \A q \in AllPurchases \ {p} : rec'[q] = rec[q]
  PROVE  RowsOK'
<1> SUFFICES ASSUME NEW q \in AllPurchases, q # p PROVE RowOK(q)'
  BY DEF RowsOK
<1>1. RowOK(q) /\ rec'[q] = rec[q] /\ (Paid(q) => Paid(q)')
  BY Methods DEF RowsOK, Paid, Grows
<1> QED
  BY <1>1 DEF RowOK, Status, Grows

LEMMA RowsKeep ==
  ASSUME RowsOK, Grows, revoked' = revoked, rec' = rec
  PROVE  RowsOK'
<1> SUFFICES ASSUME NEW q \in AllPurchases PROVE RowOK(q)'
  BY DEF RowsOK
<1>1. RowOK(q) /\ (Paid(q) => Paid(q)')
  BY Methods DEF RowsOK, Paid, Grows
<1> QED
  BY <1>1 DEF RowOK, Status, Grows

LEMMA OwnerKeeps ==
  ASSUME OwnedIsPaid, Grows, revoked' = revoked, Active' => ent' = ent
  PROVE  OwnedIsPaid'
<1>1. \A q : Paid(q) => Paid(q)'
  BY DEF Paid, Grows
<1> QED
  BY <1>1 DEF OwnedIsPaid, Active, Grows

(* A row that is there has a status.                                       *)
LEMMA StatusOf ==
  ASSUME DataOK, NEW p \in AllPurchases
  PROVE  /\ Status(p) \in Statuses \cup {None}
         /\ Status(p) = None <=> rec[p] = None
         /\ rec[p] # None => rec[p] \in Records /\ Status(p) = rec[p].status
BY Methods DEF DataOK, Status, Records

LEMMA SetStatusSays ==
  ASSUME DataOK, NEW p \in AllPurchases, rec[p] # None, NEW s \in Statuses, SetStatus(p, s)
  PROVE  /\ rec' \in [AllPurchases -> Records \cup {None}]
         /\ rec'[p] # None /\ Status(p)' = s
         /\ \A q \in AllPurchases \ {p} : rec'[q] = rec[q]
<1>1. rec[p] \in Records
  BY StatusOf
<1>2. [rec[p] EXCEPT !.status = s] \in Records /\ [rec[p] EXCEPT !.status = s].status = s
  BY <1>1 DEF Records
<1>3. /\ rec' \in [AllPurchases -> Records \cup {None}]
      /\ rec'[p] = [rec[p] EXCEPT !.status = s]
      /\ \A q \in AllPurchases \ {p} : rec'[q] = rec[q]
  BY <1>2 DEF DataOK, SetStatus
<1> QED
  BY <1>2, <1>3, Methods DEF Status

LEMMA CreateRealKeeps ==
  ASSUME IInv, NEW c \in Callers, NEW p \in PixPurchases, CreateReal(c, p)
  PROVE  IInv'
<1>1. DataOK /\ MaxAsks \in Nat /\ (ent # None => ent \in Entitlements)
  BY Types, PurchasesAssumption DEF IInv, DataOK
<1>2. Grows /\ asked' \in 0 .. MaxAsks /\ stops' \in 0 .. MaxStops /\ verified' \in BOOLEAN /\ applied' \in BOOLEAN
  BY <1>1 DEF Grows, CreateReal, Asks, money, past, DataOK
<1>3. CASE ent = None /\ ent' = Reservation(p, None, p) /\ Starts(c, "buy", p)
  <2>1. CallTurns(c)
    BY <1>3, CallStarts, Methods DEF CreateReal, IInv, Places, money
  <2>2. /\ ent' \in Entitlements /\ ent' # None /\ ent'.status = "pending" /\ ent'.method = "pix"
        /\ ent'.purchase = None /\ ent'.by = p
    BY <1>3, Methods DEF Reservation, Entitlements
  <2>3. DataOK'
    BY <1>1, <1>2, <2>2 DEF CreateReal, DataOK, money, past
  <2>4. EntOK' /\ ~Active'
    BY <2>2, Methods DEF EntOK, Pending, Active
  <2>5. RowsOK' /\ OwnedIsPaid'
    BY <1>2, <2>4, RowsKeep, OwnerKeeps DEF CreateReal, IInv, past
  <2> QED
    BY <1>2, <2>1, <2>3, <2>4, <2>5, StepKeeps
<1>4. ASSUME UNCHANGED ent, CallTurns(c)
      PROVE  IInv'
  BY <1>1, <1>2, <1>4, QuietKeeps DEF CreateReal, rows
<1>5. ASSUME Active, ent.by = p, ent.purchase # None, rec[ent.purchase] # None, UNCHANGED ent,
             call' = [call EXCEPT ![c] = [Idle EXCEPT !.pc = "read", !.p = ent.purchase, !.fills = TRUE]]
      PROVE  IInv'
  <2>1. ent.purchase \in PixPurchases
    BY <1>5 DEF IInv, EntOK, Active
  <2>2. invoice[ent.purchase] # "none"
    BY <1>5, <2>1, Methods DEF IInv, RowsOK, RowOK
  <2> DEFINE k == [Idle EXCEPT !.pc = "read", !.p = ent.purchase, !.fills = TRUE]
  <2>3. Idle \in CallRecords
    BY Zenon DEF Idle, CallRecords, Places
  <2>4. /\ k \in CallRecords /\ k.pc = "read" /\ k.p = ent.purchase
        /\ k.wallet = None /\ k.local = None
    BY <2>1, <2>3, Methods DEF Idle, CallRecords, Places
  <2>5. call' = [call EXCEPT ![c] = k]
    BY <1>5
  <2> HIDE DEF k
  <2>6. call' \in [Callers -> CallRecords] /\ Others(c) /\ call'[c] = k
    BY <2>4, <2>5, Types DEF Others, IInv
  <2>7. CallOK(c)'
    BY <2>1, <2>2, <2>4, <2>6, PurchasesAssumption DEF CallOK, Statuses, CreateReal, money
  <2> QED
    BY <1>4, <1>5, <2>6, <2>7 DEF CallTurns
<1>6. ASSUME Pending, ent.method = "pix", ent.purchase # None, rec[ent.purchase] # None,
             Starts(c, "read", ent.purchase), UNCHANGED ent
      PROVE  IInv'
  <2>1. ent.purchase \in PixPurchases
    BY <1>6 DEF IInv, EntOK, Pending
  <2>2. invoice[ent.purchase] # "none"
    BY <1>6, <2>1, Methods DEF IInv, RowsOK, RowOK
  <2>3. CallTurns(c)
    BY <1>6, <2>1, <2>2, CallStarts, Methods DEF IInv, Places, CreateReal, money
  <2> QED
    BY <1>4, <1>6, <2>3
<1>7. ASSUME Pending, ent.method = "pix", ent.purchase = None, Starts(c, "buy", ent.by), UNCHANGED ent
      PROVE  IInv'
  <2>1. ent.by \in PixPurchases
    BY <1>7 DEF IInv, EntOK, Pending
  <2>2. CallTurns(c)
    BY <1>7, <2>1, CallStarts, Methods DEF IInv, Places, CreateReal, money
  <2> QED
    BY <1>4, <1>7, <2>2
<1> QED
  BY <1>3, <1>5, <1>6, <1>7 DEF CreateReal

LEMMA CancelReservationKeeps ==
  ASSUME IInv, NEW c \in Callers, CancelReservation(c)
  PROVE  IInv'
<1>1. DataOK
  BY Types DEF IInv
<1>2. CallTurns(c)
  BY CallEnds DEF CancelReservation, IInv
<1>3. ent' = None \/ ent' = ent
  BY DEF CancelReservation
<1>4. DataOK' /\ Grows
  BY <1>1, <1>3 DEF DataOK, Grows, CancelReservation, Serves, money, past
<1>5. EntOK' /\ (Active' => ent' = ent)
  BY <1>3 DEF IInv, EntOK, Pending, Active
<1> QED
  BY <1>2, <1>4, <1>5, RowsKeep, OwnerKeeps, StepKeeps DEF IInv, CancelReservation, past

LEMMA AttachKeeps ==
  ASSUME IInv, NEW c \in Callers, AttachRealPurchase(c)
  PROVE  IInv'
<1>0. PICK p : p = call[c].p
  OBVIOUS
<1> USE <1>0
<1> DEFINE w == call[c].wallet
<1>1. call[c] \in CallRecords /\ call[c].pc = "attach" /\ CallOK(c) /\ DataOK
  BY Types DEF AttachRealPurchase, At, IInv, CallsOK
<1>2. p \in PixPurchases /\ p \in AllPurchases /\ w \in {"confirmed", "pending", "expired"} /\ invoice[p] # "none"
  BY <1>1, Methods DEF CallOK, CallRecords
<1>3. UNCHANGED <<money, past, applied>> /\ Serves
  BY DEF AttachRealPurchase
<1>4. ASSUME Goes(c, "stored"), rec'[p] # None
      PROVE  CallTurns(c)
  <2>1. /\ call' \in [Callers -> CallRecords] /\ Others(c)
        /\ call'[c].pc = "stored" /\ call'[c].p = p /\ call'[c].wallet = w
    BY <1>4, CallGoes DEF IInv, Places
  <2>2. CallOK(c)'
    BY <1>1, <1>2, <1>3, <1>4, <2>1 DEF CallOK, money, past
  <2> QED
    BY <2>1, <2>2 DEF CallTurns
<1>5. CASE /\ rec[p] = None /\ Reserved(p)
           /\ rec' = [rec EXCEPT ![p] = [status |-> w, keyed |-> TRUE]]
           /\ ent' = [ent EXCEPT !.purchase = p] /\ Goes(c, "stored")
  <2> DEFINE r == [status |-> w, keyed |-> TRUE]
  <2>1. r \in Records /\ r.status = w
    BY <1>2 DEF Records, Statuses
  <2> HIDE DEF r
  <2>2. /\ rec' \in [AllPurchases -> Records \cup {None}] /\ rec'[p] = r
        /\ \A q \in AllPurchases \ {p} : rec'[q] = rec[q]
    BY <1>1, <1>2, <1>5, <2>1 DEF DataOK, r
  <2>3. Status(p)' = w /\ rec'[p] # None
    BY <2>1, <2>2, Methods DEF Status
  <2>4. ent \in Entitlements /\ ent # None /\ ent.status = "pending" /\ ent.by = p /\ ent.method = "pix"
    BY <1>1, <1>2, <1>5 DEF DataOK, Reserved, Pending, IInv, EntOK
  <2>5. /\ ent' \in Entitlements /\ ent' # None /\ ent'.status = "pending" /\ ent'.by = p
        /\ ent'.method = "pix" /\ ent'.purchase = p
    BY <1>2, <1>5, <2>4, Methods DEF Entitlements
  <2>6. DataOK' /\ Grows
    <3>1. DataOK'
      BY <1>1, <1>3, <2>2, <2>5 DEF DataOK, Serves, money, past
    <3>2. Grows
      BY <1>3, <1>5, <2>2, <2>3, Methods DEF Grows, money, past
    <3> QED
      BY <3>1, <3>2
  <2>7. EntOK' /\ ~Active'
    BY <1>2, <2>5, Methods DEF EntOK, Pending, Active
  <2>8. Status(p) = None /\ RowOK(p)
    BY <1>2, <1>5 DEF Status, IInv, RowsOK
  <2>9. RowOK(p)'
    BY <1>1, <1>2, <1>3, <2>3, <2>8, PurchasesAssumption DEF RowOK, CallOK, Paid, money, past, Statuses
  <2> QED
    BY <1>2, <1>3, <1>4, <1>5, <2>2, <2>3, <2>6, <2>7, <2>9, RowMoves, OwnerKeeps, StepKeeps DEF IInv, past
<1>6. CASE rec[p] # None /\ rec' = [rec EXCEPT ![p].keyed = TRUE] /\ UNCHANGED ent /\ Goes(c, "stored")
  <2>1. rec[p] \in Records
    BY <1>1, <1>2, <1>6 DEF DataOK
  <2>2. [rec[p] EXCEPT !.keyed = TRUE] \in Records /\ [rec[p] EXCEPT !.keyed = TRUE].status = rec[p].status
    BY <2>1 DEF Records
  <2>3. /\ rec' \in [AllPurchases -> Records \cup {None}] /\ rec'[p] = [rec[p] EXCEPT !.keyed = TRUE]
        /\ \A q \in AllPurchases \ {p} : rec'[q] = rec[q]
    BY <1>1, <1>2, <1>6, <2>2 DEF DataOK
  <2>4. Status(p)' = Status(p) /\ rec'[p] # None
    BY <1>6, <2>2, <2>3, Methods DEF Status
  <2>5. DataOK' /\ Grows
    BY <1>1, <1>3, <1>6, <2>3, <2>4 DEF DataOK, Grows, Serves, money, past
  <2>6. EntOK'
    BY <1>6 DEF IInv, EntOK, Pending
  <2>7. RowOK(p)'
    BY <1>2, <1>3, <1>6, <2>4 DEF IInv, RowsOK, RowOK, Paid, money, past
  <2> QED
    BY <1>2, <1>3, <1>4, <1>6, <2>3, <2>4, <2>5, <2>6, <2>7, RowMoves, OwnerKeeps, StepKeeps DEF IInv, past
<1>7. CASE UNCHANGED rows /\ Ends(c)
  BY <1>1, <1>3, <1>7, CallEnds, QuietKeeps DEF IInv, DataOK, Serves
<1> QED
  BY <1>5, <1>6, <1>7 DEF AttachRealPurchase

LEMMA RecoverKeeps ==
  ASSUME IInv, NEW c \in Callers, RecoverPendingPIX(c)
  PROVE  IInv'
<1>0. PICK p : p = call[c].p
  OBVIOUS
<1> USE <1>0
<1> DEFINE w == call[c].wallet
           free == ent = None \/ (Pending /\ ent.method = "pix" /\ ent.purchase \in {None, p})
<1>1. call[c] \in CallRecords /\ call[c].pc = "recover" /\ CallOK(c) /\ DataOK
  BY Types DEF RecoverPendingPIX, At, IInv, CallsOK
<1>2. p \in PixPurchases /\ p \in AllPurchases /\ w \in {"pending", "expired"} /\ invoice[p] # "none"
  BY <1>1, Methods DEF CallOK, CallRecords
<1>3. UNCHANGED <<money, past, applied>> /\ Serves
  BY DEF RecoverPendingPIX
<1>4. ASSUME Terminal(w), call' = [call EXCEPT ![c].pc = "close", ![c].local = w]
      PROVE  CallTurns(c)
  <2> DEFINE k == [call[c] EXCEPT !.pc = "close", !.local = w]
  <2>1. call' = [call EXCEPT ![c] = k]
    BY <1>4
  <2>2. w = "expired" /\ w # None
    BY <1>1, <1>2, <1>4, PurchasesAssumption DEF Terminal, CallOK
  <2>3. k \in CallRecords /\ k.pc = "close" /\ k.p = p /\ k.wallet = w /\ k.local = w
    BY <1>1, <1>2 DEF CallRecords, Places, Statuses
  <2> HIDE DEF k
  <2>4. call' \in [Callers -> CallRecords] /\ Others(c) /\ call'[c] = k
    BY <2>1, <2>3, Types DEF IInv, Others
  <2>5. CallOK(c)'
    BY <1>1, <1>2, <1>3, <2>2, <2>3, <2>4 DEF CallOK, money, past
  <2> QED
    BY <2>4, <2>5 DEF CallTurns
<1>5. CallTurns(c)
  BY <1>4, CallEnds DEF RecoverPendingPIX, IInv
<1>6. CASE rec[p] = None /\ free
  <2> DEFINE r == [status |-> w, keyed |-> FALSE]
  <2>1. r \in Records /\ r.status = w
    BY <1>2, Zenon DEF Records, Statuses
  <2> HIDE DEF r
  <2>2. /\ rec' \in [AllPurchases -> Records \cup {None}] /\ rec'[p] = r
        /\ \A q \in AllPurchases \ {p} : rec'[q] = rec[q]
    BY <1>1, <1>2, <1>6, <2>1 DEF DataOK, r, RecoverPendingPIX
  <2>3. Status(p)' = w /\ rec'[p] # None
    BY <2>1, <2>2, Methods DEF Status
  <2>4. /\ ent' \in Entitlements /\ ent' # None /\ ent'.status = "pending"
        /\ ent'.method = "pix" /\ ent'.purchase = p /\ ent'.by \notin ChipPurchases
    <3>1. CASE ent = None
      <4>1. ent' = [status |-> "pending", method |-> "pix", purchase |-> p, by |-> None]
        BY <1>2, <1>6, <3>1, Methods DEF RecoverPendingPIX, Reservation
      <4> QED
        BY <1>2, <4>1, Methods DEF Entitlements
    <3>2. CASE ent # None
      <4>1. ent \in Entitlements /\ ent.status = "pending" /\ ent.method = "pix" /\ ent.by \notin ChipPurchases
        BY <1>1, <1>6, <3>2 DEF DataOK, Pending, IInv, EntOK
      <4>2. ent' = [ent EXCEPT !.purchase = p]
        BY <1>6, <3>2 DEF RecoverPendingPIX
      <4> QED
        BY <1>2, <4>1, <4>2, Methods DEF Entitlements
    <3> QED
      BY <3>1, <3>2
  <2>5. DataOK'
    BY <1>1, <1>3, <2>2, <2>4 DEF DataOK, Serves, money, past
  <2>6. Grows
    BY <1>3, <1>6, <2>2, <2>3, Methods DEF Grows, money, past
  <2>7. EntOK' /\ ~Active'
    BY <1>2, <2>4, Methods DEF EntOK, Pending, Active
  <2>8. Status(p) = None /\ RowOK(p)
    BY <1>2, <1>6 DEF Status, IInv, RowsOK
  <2>9. RowOK(p)'
    BY <1>2, <1>3, <2>3, <2>8, PurchasesAssumption DEF RowOK, money, past, Statuses
  <2> QED
    BY <1>2, <1>3, <1>5, <2>2, <2>5, <2>6, <2>7, <2>9, RowMoves, OwnerKeeps, StepKeeps DEF IInv, past
<1>7. CASE ~(rec[p] = None /\ free)
  <2>1. UNCHANGED rows
    BY <1>7 DEF RecoverPendingPIX
  <2> QED
    BY <1>1, <1>3, <1>5, <2>1, QuietKeeps DEF DataOK, Serves
<1> QED
  BY <1>6, <1>7

LEMMA CloseKeeps ==
  ASSUME IInv, NEW c \in Callers, ClosePIXTerminal(c)
  PROVE  IInv'
<1>0. PICK p : p = call[c].p
  OBVIOUS
<1> USE <1>0
<1> DEFINE l == call[c].local
           held == IF l = "confirmed" THEN Owned(p) ELSE Pending /\ ent.purchase = p
<1>1. call[c] \in CallRecords /\ call[c].pc = "close" /\ CallOK(c) /\ DataOK
  BY Types DEF ClosePIXTerminal, At, IInv, CallsOK
<1>2. /\ p \in PixPurchases /\ p \in AllPurchases /\ call[c].wallet = "expired"
      /\ l # None /\ invoice[p] = "void" /\ RowOK(p)
  BY <1>1, Methods DEF CallOK, IInv, RowsOK
<1>3. UNCHANGED <<money, past, applied>> /\ Serves
  BY DEF ClosePIXTerminal
<1>4. CallTurns(c)
  BY CallEnds DEF ClosePIXTerminal, IInv
<1>5. CASE Status(p) = l /\ held
  <2>1. rec[p] # None /\ Pending
    BY <1>1, <1>2, <1>5, StatusOf DEF RowOK, Paid
  <2>2. SetStatus(p, "expired") /\ ent' = None
    BY <1>2, <1>5 DEF ClosePIXTerminal
  <2>3. /\ rec' \in [AllPurchases -> Records \cup {None}]
        /\ rec'[p] # None /\ Status(p)' = "expired"
        /\ \A q \in AllPurchases \ {p} : rec'[q] = rec[q]
    BY <1>1, <1>2, <2>1, <2>2, SetStatusSays DEF Statuses
  <2>4. DataOK'
    BY <1>1, <1>3, <2>2, <2>3 DEF DataOK, Serves, money, past
  <2>5. Grows
    BY <1>3, <2>3, Methods DEF Grows, money, past
  <2>6. EntOK' /\ ~Active'
    BY <2>2 DEF EntOK, Active
  <2>7. RowOK(p)'
    BY <1>2, <1>3, <2>3 DEF RowOK, Paid, money, past
  <2> QED
    BY <1>2, <1>3, <1>4, <2>3, <2>4, <2>5, <2>6, <2>7, RowMoves, OwnerKeeps, StepKeeps DEF IInv, past
<1>6. CASE ~(Status(p) = l /\ held)
  <2>1. UNCHANGED rows
    BY <1>6 DEF ClosePIXTerminal
  <2> QED
    BY <1>1, <1>3, <1>4, <2>1, QuietKeeps DEF DataOK, Serves
<1> QED
  BY <1>5, <1>6

LEMMA GrantConfirmedKeeps ==
  ASSUME IInv, NEW c \in Callers, GrantConfirmed(c)
  PROVE  IInv'
<1>0. PICK p : p = call[c].p
  OBVIOUS
<1> USE <1>0
<1> DEFINE l == call[c].local
           seen == call[c].ent
           goes == (l = "confirmed" \/ Status(p) = l) /\ Grantable(seen, p)
<1>1. call[c] \in CallRecords /\ call[c].pc = "confirm" /\ CallOK(c) /\ DataOK
  BY Types DEF GrantConfirmed, At, IInv, CallsOK
<1>2. /\ p \in PixPurchases /\ p \in AllPurchases /\ call[c].wallet = "confirmed"
      /\ invoice[p] = "paid" /\ (p \in revoked => p \in late) /\ RowOK(p)
  BY <1>1, Methods DEF CallOK, IInv, RowsOK
<1>3. UNCHANGED <<money, past, applied>> /\ Serves
  BY DEF GrantConfirmed
<1>4. CallTurns(c)
  <2>1. ASSUME Goes(c, "fill") PROVE CallTurns(c)
    <3>1. /\ call' \in [Callers -> CallRecords] /\ Others(c)
          /\ call'[c].pc = "fill" /\ call'[c].p = p /\ call'[c].wallet = call[c].wallet
      BY <2>1, CallGoes DEF IInv, Places
    <3>2. CallOK(c)'
      BY <1>1, <1>2, <1>3, <3>1 DEF CallOK, money, past
    <3> QED
      BY <3>1, <3>2 DEF CallTurns
  <2> QED
    BY <2>1, CallEnds DEF GrantConfirmed, Granted, IInv
<1>5. CASE goes
  <2>1. /\ rec' = CASE l = None -> [rec EXCEPT ![p] = [status |-> "confirmed", keyed |-> FALSE]]
                    [] l = "confirmed" -> rec
                    [] OTHER -> [rec EXCEPT ![p].status = "confirmed"]
        /\ ent' = IF Has(seen, p) THEN ent
                  ELSE [status |-> "active", method |-> "pix", purchase |-> p,
                        by |-> IF ent = None THEN None ELSE ent.by]
    BY <1>5 DEF GrantConfirmed
  <2>2. /\ rec' \in [AllPurchases -> Records \cup {None}]
        /\ rec' = rec \/ (rec'[p] # None /\ Status(p)' = "confirmed")
        /\ \A q \in AllPurchases \ {p} : rec'[q] = rec[q]
    <3>1. CASE l = None
      <4> DEFINE r == [status |-> "confirmed", keyed |-> FALSE]
      <4>1. r \in Records /\ r.status = "confirmed"
        BY Zenon DEF Records, Statuses
      <4> HIDE DEF r
      <4>2. rec' = [rec EXCEPT ![p] = r]
        BY <2>1, <3>1, PurchasesAssumption DEF r, Statuses
      <4>3. /\ rec' \in [AllPurchases -> Records \cup {None}] /\ rec'[p] = r
            /\ \A q \in AllPurchases \ {p} : rec'[q] = rec[q]
        BY <1>1, <1>2, <4>1, <4>2 DEF DataOK
      <4> QED
        BY <4>1, <4>3, Methods DEF Status
    <3>2. CASE l = "confirmed"
      <4>1. rec' = rec
        BY <2>1, <3>2, PurchasesAssumption DEF Statuses
      <4> QED
        BY <1>1, <4>1 DEF DataOK
    <3>3. CASE l \notin {None, "confirmed"}
      <4>1. SetStatus(p, "confirmed") /\ Status(p) = l
        BY <1>5, <2>1, <3>3 DEF SetStatus
      <4>2. rec[p] # None
        BY <1>1, <1>2, <3>3, <4>1, StatusOf
      <4> QED
        BY <1>1, <1>2, <4>1, <4>2, SetStatusSays DEF Statuses
    <3> QED
      BY <3>1, <3>2, <3>3
  <2>3. ASSUME ~Has(seen, p)
        PROVE  /\ ent' \in Entitlements /\ ent' # None /\ ent'.status = "active"
               /\ ent'.method = "pix" /\ ent'.purchase = p
    <3> DEFINE b == IF ent = None THEN None ELSE ent.by
    <3>1. b \in AllPurchases \cup {None}
      BY <1>1 DEF DataOK, Entitlements
    <3>2. ent' = [status |-> "active", method |-> "pix", purchase |-> p, by |-> b]
      BY <2>1, <2>3
    <3> HIDE DEF b
    <3> QED
      BY <1>2, <3>1, <3>2, Methods DEF Entitlements
  <2>4. ent' \in Entitlements \cup {None}
    BY <1>1, <2>1, <2>3 DEF DataOK
  <2>5. DataOK'
    BY <1>1, <1>3, <2>2, <2>4 DEF DataOK, Serves, money, past
  <2>6. Grows
    BY <1>3, <2>2, Methods DEF Grows, money, past
  <2>7. EntOK'
    BY <1>2, <2>1, <2>3, Methods DEF IInv, EntOK, Pending
  <2>8. RowOK(p)'
    BY <1>2, <1>3, <2>2 DEF RowOK, Status, Paid, money, past
  <2>9. OwnedIsPaid'
    <3>1. CASE Has(seen, p)
      BY <1>3, <2>1, <2>6, <3>1, OwnerKeeps DEF IInv, past
    <3>2. CASE ~Has(seen, p)
      BY <1>2, <1>3, <2>3, <3>2 DEF OwnedIsPaid, Paid, money, past
    <3> QED
      BY <3>1, <3>2
  <2> QED
    BY <1>2, <1>3, <1>4, <2>2, <2>5, <2>6, <2>7, <2>8, <2>9, RowMoves, StepKeeps DEF IInv, past
<1>6. CASE ~goes
  <2>1. UNCHANGED rows
    BY <1>6 DEF GrantConfirmed
  <2> QED
    BY <1>1, <1>3, <1>4, <2>1, QuietKeeps DEF DataOK, Serves
<1> QED
  BY <1>5, <1>6

LEMMA HydrateKeeps ==
  ASSUME IInv, NEW c \in Callers, HydratePIXDetails(c)
  PROVE  IInv'
<1>0. PICK p : p = call[c].p
  OBVIOUS
<1> USE <1>0
<1>1. call[c] \in CallRecords /\ call[c].pc = "fill" /\ CallOK(c) /\ DataOK
  BY Types DEF HydratePIXDetails, At, IInv, CallsOK
<1>2. p \in PixPurchases /\ p \in AllPurchases /\ RowOK(p)
  BY <1>1, Methods DEF CallOK, IInv, RowsOK
<1>3. UNCHANGED <<ent, money, past, applied>> /\ Serves /\ CallTurns(c)
  BY CallEnds DEF HydratePIXDetails, IInv
<1>4. CASE Status(p) = "confirmed"
  <2>1. rec[p] # None /\ rec[p] \in Records
    BY <1>1, <1>2, <1>4, StatusOf, PurchasesAssumption DEF Statuses
  <2>2. [rec[p] EXCEPT !.keyed = TRUE] \in Records /\ [rec[p] EXCEPT !.keyed = TRUE].status = rec[p].status
    BY <2>1 DEF Records
  <2>3. /\ rec' \in [AllPurchases -> Records \cup {None}] /\ rec'[p] = [rec[p] EXCEPT !.keyed = TRUE]
        /\ \A q \in AllPurchases \ {p} : rec'[q] = rec[q]
    BY <1>1, <1>2, <1>4, <2>2 DEF DataOK, HydratePIXDetails
  <2>4. Status(p)' = Status(p) /\ rec'[p] # None
    BY <2>1, <2>2, <2>3, Methods DEF Status
  <2>5. DataOK'
    BY <1>1, <1>3, <2>3 DEF DataOK, Serves, money, past
  <2>6. Grows
    BY <1>3, <2>3, <2>4, Methods DEF Grows, money, past
  <2>7. EntOK'
    BY <1>3 DEF IInv, EntOK, Pending
  <2>8. RowOK(p)'
    BY <1>2, <1>3, <2>1, <2>4 DEF RowOK, Paid, money, past
  <2> QED
    BY <1>2, <1>3, <2>3, <2>5, <2>6, <2>7, <2>8, RowMoves, OwnerKeeps, StepKeeps DEF IInv, past
<1>5. CASE Status(p) # "confirmed"
  <2>1. UNCHANGED rows
    BY <1>3, <1>5 DEF HydratePIXDetails, rows
  <2> QED
    BY <1>1, <1>3, <2>1, QuietKeeps DEF DataOK, Serves
<1> QED
  BY <1>4, <1>5

LEMMA CreateSandboxKeeps ==
  ASSUME IInv, NEW c \in Callers, NEW p \in ChipPurchases, CreateSandbox(c, p)
  PROVE  IInv'
<1>1. DataOK /\ p \in AllPurchases /\ RowOK(p)
  BY Types, Methods DEF IInv, RowsOK
<1>2. /\ UNCHANGED <<money, past, applied, stops, verified>>
      /\ asked' \in 0 .. MaxAsks
  BY <1>1, PurchasesAssumption DEF CreateSandbox, Asks, DataOK
<1>3. CASE /\ rec[p] = None /\ ent = None
           /\ rec' = [rec EXCEPT ![p] = [status |-> "processing", keyed |-> TRUE]]
           /\ ent' = Reservation(p, p, p) /\ Starts(c, "debit", p)
  <2>1. CallTurns(c)
    BY <1>1, <1>2, <1>3, CallStarts DEF IInv, Places, money
  <2> DEFINE r == [status |-> "processing", keyed |-> TRUE]
  <2>2. r \in Records /\ r.status = "processing"
    BY Zenon DEF Records, Statuses
  <2> HIDE DEF r
  <2>3. rec' = [rec EXCEPT ![p] = r]
    BY <1>3 DEF r
  <2>4. /\ rec' \in [AllPurchases -> Records \cup {None}] /\ rec'[p] = r
        /\ \A q \in AllPurchases \ {p} : rec'[q] = rec[q]
    BY <1>1, <2>2, <2>3 DEF DataOK
  <2>5. Status(p)' = "processing" /\ Status(p) = None
    BY <1>3, <2>2, <2>4, Methods DEF Status
  <2>6. /\ ent' \in Entitlements /\ ent' # None /\ ent'.status = "pending"
        /\ ent'.method = "chips" /\ ent'.purchase = p /\ ent'.by = p
    BY <1>1, <1>3, Methods DEF Reservation, Entitlements
  <2>7. DataOK'
    BY <1>1, <1>2, <2>4, <2>6 DEF DataOK, money, past
  <2>8. Grows
    BY <1>2, <2>4, Methods DEF Grows, money, past
  <2>9. EntOK' /\ ~Active'
    BY <2>6, Methods DEF EntOK, Pending, Active
  <2>10. RowOK(p)'
    BY <1>1, <1>2, <2>5, Methods, PurchasesAssumption DEF RowOK, past, Statuses
  <2> QED
    BY <1>1, <1>2, <2>1, <2>4, <2>7, <2>8, <2>9, <2>10, RowMoves, OwnerKeeps, StepKeeps DEF IInv, past
<1>4. CASE /\ Pending /\ ent.method = "chips" /\ Status(ent.purchase) = "processing"
           /\ Starts(c, "debit", ent.purchase) /\ UNCHANGED rows
  <2>1. ent.purchase \in ChipPurchases
    BY <1>4 DEF IInv, EntOK, Pending
  <2>2. CallTurns(c)
    BY <1>2, <1>4, <2>1, CallStarts, Methods DEF IInv, Places, money
  <2> QED
    BY <1>1, <1>2, <1>4, <2>2, QuietKeeps DEF DataOK
<1> QED
  BY <1>3, <1>4 DEF CreateSandbox

LEMMA ConfirmSandboxKeeps ==
  ASSUME IInv, NEW c \in Callers, ConfirmSandbox(c)
  PROVE  IInv'
<1>0. PICK p : p = call[c].p
  OBVIOUS
<1> USE <1>0
<1>1. call[c] \in CallRecords /\ call[c].pc = "own" /\ CallOK(c) /\ DataOK
  BY Types DEF ConfirmSandbox, At, IInv, CallsOK
<1>2. /\ p \in ChipPurchases /\ p \in AllPurchases /\ p \notin PixPurchases
      /\ p \in debited /\ RowOK(p)
  BY <1>1, Methods DEF CallOK, IInv, RowsOK
<1>3. UNCHANGED <<money, past, applied>> /\ Serves /\ CallTurns(c)
  BY CallEnds DEF ConfirmSandbox, IInv
<1>4. CASE Status(p) = "processing" /\ Reserved(p)
  <2>1. rec[p] # None
    BY <1>1, <1>2, <1>4, StatusOf, PurchasesAssumption DEF Statuses
  <2>2. SetStatus(p, "confirmed") /\ ent' = [ent EXCEPT !.status = "active", !.purchase = p]
    BY <1>4 DEF ConfirmSandbox
  <2>3. /\ rec' \in [AllPurchases -> Records \cup {None}]
        /\ rec'[p] # None /\ Status(p)' = "confirmed"
        /\ \A q \in AllPurchases \ {p} : rec'[q] = rec[q]
    BY <1>1, <1>2, <2>1, <2>2, SetStatusSays DEF Statuses
  <2>4. ent \in Entitlements /\ ent.by = p /\ ent.method = "chips"
    BY <1>1, <1>2, <1>4 DEF DataOK, Reserved, Pending, IInv, EntOK, Entitlements
  <2>5. /\ ent' \in Entitlements /\ ent' # None /\ ent'.status = "active"
        /\ ent'.method = "chips" /\ ent'.purchase = p /\ ent'.by = p
    BY <1>2, <2>2, <2>4, Methods DEF Entitlements
  <2>6. DataOK'
    BY <1>1, <1>3, <2>3, <2>5 DEF DataOK, Serves, money, past
  <2>7. Grows
    BY <1>3, <2>3, Methods DEF Grows, money, past
  <2>8. EntOK'
    BY <1>2, <2>5 DEF EntOK, Pending
  <2>9. (p \in revoked => p \in late) /\ RowOK(p)'
    BY <1>2, <1>3, <1>4, <2>3 DEF RowOK, Paid, money, past
  <2>10. OwnedIsPaid'
    BY <1>2, <1>3, <2>5, <2>9 DEF OwnedIsPaid, Paid, money, past
  <2> QED
    BY <1>2, <1>3, <2>3, <2>6, <2>7, <2>8, <2>9, <2>10, RowMoves, StepKeeps DEF IInv, past
<1>5. CASE ~(Status(p) = "processing" /\ Reserved(p))
  <2>1. UNCHANGED rows
    BY <1>5 DEF ConfirmSandbox
  <2> QED
    BY <1>1, <1>3, <2>1, QuietKeeps DEF DataOK, Serves
<1> QED
  BY <1>4, <1>5

LEMMA CancelSandboxKeeps ==
  ASSUME IInv, NEW c \in Callers, CancelSandboxReservation(c)
  PROVE  IInv'
<1>0. PICK p : p = call[c].p
  OBVIOUS
<1> USE <1>0
<1>1. call[c] \in CallRecords /\ call[c].pc = "undo" /\ CallOK(c) /\ DataOK
  BY Types DEF CancelSandboxReservation, At, IInv, CallsOK
<1>2. p \in ChipPurchases /\ p \in AllPurchases /\ p \notin PixPurchases /\ RowOK(p)
  BY <1>1, Methods DEF CallOK, IInv, RowsOK
<1>3. UNCHANGED <<money, past, applied>> /\ Serves /\ CallTurns(c)
  BY CallEnds DEF CancelSandboxReservation, IInv
<1>4. CASE Status(p) = "processing" /\ Reserved(p)
  <2>1. rec' = [rec EXCEPT ![p] = None] /\ ent' = None
    BY <1>4 DEF CancelSandboxReservation
  <2>2. /\ rec' \in [AllPurchases -> Records \cup {None}] /\ Status(p)' = None
        /\ \A q \in AllPurchases \ {p} : rec'[q] = rec[q]
    BY <1>1, <1>2, <2>1 DEF DataOK, Status
  <2>3. DataOK'
    BY <1>1, <1>3, <2>1, <2>2 DEF DataOK, Serves, money, past
  <2>4. Grows
    BY <1>2, <1>3, <2>2, Methods DEF Grows, money, past
  <2>5. EntOK' /\ ~Active'
    BY <2>1 DEF EntOK, Active
  <2>6. RowOK(p)'
    BY <1>2, <1>3, <1>4, <2>2, PurchasesAssumption DEF RowOK, past, Statuses
  <2> QED
    BY <1>2, <1>3, <2>2, <2>3, <2>4, <2>5, <2>6, RowMoves, OwnerKeeps, StepKeeps DEF IInv, past
<1>5. CASE ~(Status(p) = "processing" /\ Reserved(p))
  <2>1. UNCHANGED rows
    BY <1>5 DEF CancelSandboxReservation
  <2> QED
    BY <1>1, <1>3, <2>1, QuietKeeps DEF DataOK, Serves
<1> QED
  BY <1>4, <1>5

(* The purchases being granted when a refund begins are late from then on. *)
LEMMA BeginRefundKeeps ==
  ASSUME IInv, NEW c \in Callers, BeginRefund(c)
  PROVE  IInv'
<1>0. PICK p : p = call[c].p
  OBVIOUS
<1> USE <1>0
<1>1. call[c] \in CallRecords /\ call[c].pc = "revoke" /\ CallOK(c) /\ DataOK
  BY Types DEF BeginRefund, At, IInv, CallsOK
<1>2. p \in AllPurchases /\ RowOK(p)
  BY <1>1 DEF CallOK, IInv, RowsOK
<1>3. UNCHANGED <<money, applied>> /\ Serves
  BY DEF BeginRefund
<1>4. ASSUME Goes(c, "return")
      PROVE  CallTurns(c)
  <2>1. /\ call' \in [Callers -> CallRecords] /\ Others(c)
        /\ call'[c].pc = "return" /\ call'[c].p = p /\ call'[c].wallet = call[c].wallet
    BY <1>4, CallGoes DEF IInv, Places
  <2>2. CallOK(c)'
    BY <1>1, <1>2, <1>3, <2>1 DEF CallOK, money
  <2> QED
    BY <2>1, <2>2 DEF CallTurns
<1>5. CASE Status(p) = "confirmed" /\ ent # None /\ ent.purchase = p
  <2>1. /\ SetStatus(p, "refunding") /\ ent' = None /\ revoked' = revoked \cup {p}
        /\ late' = IF \E d \in Callers : Granting(d, p) THEN late \cup {p} ELSE late
        /\ CallTurns(c)
    BY <1>4, <1>5 DEF BeginRefund
  <2>2. rec[p] # None
    BY <1>1, <1>2, <1>5, StatusOf, PurchasesAssumption DEF Statuses
  <2>3. /\ rec' \in [AllPurchases -> Records \cup {None}]
        /\ rec'[p] # None /\ Status(p)' = "refunding"
        /\ \A q \in AllPurchases \ {p} : rec'[q] = rec[q]
    BY <1>1, <1>2, <2>1, <2>2, SetStatusSays DEF Statuses
  <2>4. DataOK'
    BY <1>1, <1>2, <1>3, <2>1, <2>3 DEF DataOK, Serves, money
  <2>5. Grows
    BY <1>3, <2>1, <2>3, Methods DEF Grows, money
  <2>6. EntOK' /\ OwnedIsPaid'
    BY <2>1 DEF EntOK, OwnedIsPaid, Active
  <2>7. RowsOK'
    <3> SUFFICES ASSUME NEW q \in AllPurchases PROVE RowOK(q)'
      BY DEF RowsOK
    <3>1. RowOK(q) /\ (Paid(q)' <=> Paid(q))
      BY <1>3 DEF IInv, RowsOK, Paid, money
    <3>2. CASE q = p
      BY <1>5, <2>2, <2>3, <3>1, <3>2, <1>3 DEF RowOK, money
    <3>3. CASE q # p
      <4>1. Status(q)' = Status(q) /\ rec'[q] = rec[q] /\ (q \in revoked' => q \in revoked)
        BY <2>1, <2>3, <3>3 DEF Status
      <4> QED
        BY <1>3, <2>1, <3>1, <4>1 DEF RowOK, money
    <3> QED
      BY <3>2, <3>3
  <2> QED
    BY <2>1, <2>4, <2>5, <2>6, <2>7, StepKeeps
<1>6. CASE ~(Status(p) = "confirmed" /\ ent # None /\ ent.purchase = p)
  <2>1. UNCHANGED <<rows, past>> /\ CallTurns(c)
    BY <1>4, <1>6, CallEnds DEF BeginRefund, IInv
  <2> QED
    BY <1>1, <1>3, <2>1, QuietKeeps DEF DataOK, Serves
<1> QED
  BY <1>5, <1>6

LEMMA CompleteRefundKeeps ==
  ASSUME IInv, NEW c \in Callers, CompleteRefund(c)
  PROVE  IInv'
<1>0. PICK p : p = call[c].p
  OBVIOUS
<1> USE <1>0
<1>1. call[c] \in CallRecords /\ call[c].pc = "complete" /\ CallOK(c) /\ DataOK
  BY Types DEF CompleteRefund, At, IInv, CallsOK
<1>2. p \in AllPurchases /\ RowOK(p)
  BY <1>1 DEF CallOK, IInv, RowsOK
<1>3. UNCHANGED <<ent, money, past, applied>> /\ Serves /\ CallTurns(c)
  BY CallEnds DEF CompleteRefund, IInv
<1>4. CASE Status(p) = "refunding"
  <2>1. rec[p] # None
    BY <1>1, <1>2, <1>4, StatusOf, PurchasesAssumption DEF Statuses
  <2>2. SetStatus(p, "refunded")
    BY <1>4 DEF CompleteRefund, SetStatus
  <2>3. /\ rec' \in [AllPurchases -> Records \cup {None}]
        /\ rec'[p] # None /\ Status(p)' = "refunded"
        /\ \A q \in AllPurchases \ {p} : rec'[q] = rec[q]
    BY <1>1, <1>2, <2>1, <2>2, SetStatusSays DEF Statuses
  <2>4. DataOK'
    BY <1>1, <1>3, <2>3 DEF DataOK, Serves, money, past
  <2>5. Grows
    BY <1>3, <2>3, Methods DEF Grows, money, past
  <2>6. EntOK'
    BY <1>3 DEF IInv, EntOK, Pending
  <2>7. RowOK(p)'
    BY <1>2, <1>3, <1>4, <2>1, <2>3 DEF RowOK, Paid, money, past
  <2> QED
    BY <1>2, <1>3, <2>3, <2>4, <2>5, <2>6, <2>7, RowMoves, OwnerKeeps, StepKeeps DEF IInv, past
<1>5. CASE Status(p) # "refunding"
  <2>1. UNCHANGED rows
    BY <1>3, <1>5 DEF CompleteRefund, rows
  <2> QED
    BY <1>1, <1>3, <2>1, QuietKeeps DEF DataOK, Serves
<1> QED
  BY <1>4, <1>5

----------------------------------------------------------------------------
(* The world, and the specification                                        *)

LEMMA WorldKeeps ==
  ASSUME IInv,
         \/ PutAway \/ Verify \/ UNCHANGED vars
         \/ \E p \in PixPurchases : Pay(p) \/ Void(p)
  PROVE  IInv'
<1>1. DataOK /\ MaxAsks \in Nat /\ call \in [Callers -> CallRecords]
  BY Types, PurchasesAssumption DEF IInv
<1>2. call' = call /\ UNCHANGED <<rows, debited, returned, past>>
  BY DEF PutAway, Verify, vars, Pay, Void, money
<1>3. /\ invoice' \in [PixPurchases -> {"none", "open", "paid", "void"}]
      /\ \A p \in PixPurchases : invoice'[p] = invoice[p] \/ (invoice[p] = "open" /\ invoice'[p] # "none")
  BY <1>1 DEF PutAway, Verify, vars, Pay, Void, money, DataOK
<1>4. verified' \in BOOLEAN /\ applied' \in BOOLEAN /\ asked' \in 0 .. MaxAsks /\ stops' \in 0 .. MaxStops
  <2>1. CASE PutAway
    <3>1. applied' = FALSE
      BY <2>1 DEF PutAway
    <3>2. applied' \in BOOLEAN
      BY <3>1, Zenon
    <3>3. verified' \in BOOLEAN /\ asked' \in 0 .. MaxAsks /\ stops' \in 0 .. MaxStops
      BY <1>1, <2>1 DEF PutAway, Asks, DataOK
    <3> QED
      BY <3>2, <3>3
  <2>2. CASE Verify
    BY <1>1, <2>2 DEF Verify, DataOK
  <2>3. CASE UNCHANGED vars
    BY <1>1, <2>3 DEF vars, DataOK
  <2>4. CASE \E p \in PixPurchases : Pay(p) \/ Void(p)
    BY <1>1, <2>4 DEF Pay, Void, DataOK
  <2> QED
    BY <2>1, <2>2, <2>3, <2>4
<1>5. DataOK'
  BY <1>1, <1>2, <1>3, <1>4 DEF DataOK, rows, past
<1>6. Grows
  BY <1>2, <1>3 DEF Grows, rows, past
<1>7. CallsOK'
  BY <1>2, <1>6 DEF IInv, CallsOK, CallOK, Grows, rows, past
<1>8. TypeOK'
  BY <1>1, <1>2, <1>5 DEF TypeOK, DataOK, CallRecords
<1> QED
  BY <1>2, <1>6, <1>7, <1>8, RowsStay DEF IInv, past

LEMMA InitKeeps == Init => IInv
<1> SUFFICES ASSUME Init PROVE IInv
  OBVIOUS
<1>1. Idle \in CallRecords
  BY Zenon DEF Idle, CallRecords, Places
<1>2. TypeOK
  <2>1. call \in [Callers -> CallRecords]
    BY <1>1 DEF Init
  <2>2. verified \in BOOLEAN /\ applied \in BOOLEAN
    BY Zenon DEF Init
  <2>3. DataOK
    BY <2>2, PurchasesAssumption DEF Init, DataOK
  <2> QED
    BY <2>1, <2>3, Types
<1>3. EntOK /\ OwnedIsPaid
  BY DEF Init, EntOK, OwnedIsPaid, Active
<1>4. CallsOK
  BY PurchasesAssumption DEF Init, CallsOK, CallOK, Idle, Statuses
<1>5. RowsOK
  BY PurchasesAssumption DEF Init, RowsOK, RowOK, Status, Statuses
<1> QED
  BY <1>2, <1>3, <1>4, <1>5 DEF IInv

LEMMA NextKeeps == IInv /\ [Next]_vars => IInv'
<1> SUFFICES ASSUME IInv, [Next]_vars PROVE IInv'
  OBVIOUS
<1>1. CASE \/ PutAway \/ Verify \/ UNCHANGED vars
           \/ \E p \in PixPurchases : Pay(p) \/ Void(p)
  BY <1>1, WorldKeeps
<1>2. ASSUME NEW c \in Callers, Step(c) PROVE IInv'
  BY <1>2, BuyKeeps, CancelReservationKeeps, AttachKeeps, StoredKeeps, ReadKeeps, FollowKeeps,
     RecoverKeeps, CloseKeeps, GrantReadsRowKeeps, GrantReadsEntitlementKeeps, GrantConfirmedKeeps,
     HydrateKeeps, DebitKeeps, ConfirmSandboxKeeps, CancelSandboxKeeps, BeginRefundKeeps,
     GiveBackKeeps, CompleteRefundKeeps, ApplyKeeps DEF Step
<1>3. ASSUME NEW c \in Callers, Stop(c) \/ RequireCosmetic(c) PROVE IInv'
  BY <1>3, StopKeeps, RequireCosmeticKeeps
<1>4. ASSUME NEW c \in Callers, NEW p \in PixPurchases, CreateReal(c, p) \/ Sync(c, p) PROVE IInv'
  BY <1>4, CreateRealKeeps, SyncKeeps
<1>5. ASSUME NEW c \in Callers, NEW p \in ChipPurchases, CreateSandbox(c, p) \/ RefreshSandbox(c, p) PROVE IInv'
  BY <1>5, CreateSandboxKeeps, RefreshSandboxKeeps
<1>6. ASSUME NEW c \in Callers, NEW p \in AllPurchases, Refund(c, p) PROVE IInv'
  BY <1>6, RefundKeeps
<1> QED
  BY <1>1, <1>2, <1>3, <1>4, <1>5, <1>6 DEF Next

LEMMA IInvHolds == Spec => []IInv
BY InitKeeps, NextKeeps, PTL DEF Spec

(* The variables keep their types, whatever number of purchases and calls  *)
(* there is: every row that a call writes a status into is there.          *)
THEOREM TypeCorrect == Spec => []TypeOK
<1>1. IInv => TypeOK
  BY DEF IInv
<1> QED
  BY <1>1, IInvHolds, PTL

(* Whoever owns the item has paid for it, whoever granted it.  If he asked *)
(* for the money since, the grant was decided before the refund was begun, *)
(* or a repeated request, which never decides, grants it (both are in      *)
(* late): short of these, a delivery or a poll that decides after the      *)
(* refund was begun makes no owner (OwnedIsPaid).                          *)
THEOREM OwnersPaid == Spec => []OwnedIsPaid
<1>1. IInv => OwnedIsPaid
  BY DEF IInv
<1> QED
  BY <1>1, IInvHolds, PTL

(* What each step does to the entitlement of an owner.                     *)
LEMMA StepTakes ==
  ASSUME IInv, [Next]_vars, Active
  PROVE  ent' = ent \/ (ent' = None /\ rec'[ent.purchase].status = "refunding")
<1>1. ent # None /\ ~Pending
  BY DEF Active, Pending
<1>2. ASSUME NEW c \in Callers, ClosePIXTerminal(c)
      PROVE  ent' = ent
  <2>0. PICK p : p = call[c].p
    OBVIOUS
  <2>1. call[c].pc = "close" /\ CallOK(c)
    BY <1>2 DEF ClosePIXTerminal, At, IInv, CallsOK
  <2>2. p \in PixPurchases /\ p \in AllPurchases /\ invoice[p] = "void" /\ RowOK(p)
    BY <2>0, <2>1, Methods DEF CallOK, IInv, RowsOK
  <2>3. Status(p) # "confirmed"
    BY <2>2 DEF RowOK, Paid
  <2> QED
    BY <1>1, <1>2, <2>0, <2>3 DEF ClosePIXTerminal, rows
<1>3. ASSUME NEW c \in Callers, BeginRefund(c)
      PROVE  ent' = ent \/ (ent' = None /\ rec'[ent.purchase].status = "refunding")
  <2>0. PICK p : p = call[c].p
    OBVIOUS
  <2>1. call[c].pc = "revoke" /\ CallOK(c) /\ DataOK
    BY <1>3, Types DEF BeginRefund, At, IInv, CallsOK
  <2>2. p \in AllPurchases
    BY <2>0, <2>1 DEF CallOK
  <2>3. CASE Status(p) = "confirmed" /\ ent.purchase = p
    <3>1. rec[p] # None
      BY <2>1, <2>2, <2>3, StatusOf, PurchasesAssumption DEF Statuses
    <3>2. SetStatus(p, "refunding") /\ ent' = None
      BY <1>1, <1>3, <2>0, <2>3 DEF BeginRefund
    <3>3. rec'[p] # None /\ Status(p)' = "refunding"
      BY <2>1, <2>2, <3>1, <3>2, SetStatusSays DEF Statuses
    <3> QED
      BY <2>3, <3>2, <3>3 DEF Status
  <2>4. CASE ~(Status(p) = "confirmed" /\ ent.purchase = p)
    BY <1>3, <2>0, <2>4 DEF BeginRefund, rows
  <2> QED
    BY <2>3, <2>4
<1>4. ASSUME NEW c \in Callers, Step(c)
      PROVE  ent' = ent \/ (ent' = None /\ rec'[ent.purchase].status = "refunding")
  <2>1. CASE \/ Buy(c) \/ Stored(c) \/ Read(c) \/ Follow(c) \/ GrantReadsRow(c) \/ GrantReadsEntitlement(c)
             \/ HydratePIXDetails(c) \/ Debit(c) \/ GiveBack(c) \/ CompleteRefund(c) \/ Apply(c)
    BY <2>1 DEF Buy, Stored, Read, Follow, GrantReadsRow, GrantReadsEntitlement,
       HydratePIXDetails, Debit, GiveBack, CompleteRefund, Apply, rows
  <2>2. CASE CancelReservation(c) \/ AttachRealPurchase(c) \/ ConfirmSandbox(c) \/ CancelSandboxReservation(c)
    BY <1>1, <2>2 DEF CancelReservation, AttachRealPurchase, ConfirmSandbox, CancelSandboxReservation, Reserved, rows
  <2>3. CASE RecoverPendingPIX(c)
    BY <1>1, <2>3 DEF RecoverPendingPIX, rows
  <2>4. CASE GrantConfirmed(c)
    BY <1>1, <2>4 DEF GrantConfirmed, Grantable, rows
  <2> QED
    BY <1>2, <1>3, <1>4, <2>1, <2>2, <2>3, <2>4 DEF Step
<1>5. ASSUME NEW c \in Callers,
             \/ Stop(c) \/ RequireCosmetic(c)
             \/ \E p \in PixPurchases : CreateReal(c, p) \/ Sync(c, p)
             \/ \E p \in ChipPurchases : CreateSandbox(c, p) \/ RefreshSandbox(c, p)
             \/ \E p \in AllPurchases : Refund(c, p)
      PROVE  ent' = ent
  BY <1>1, <1>5 DEF Stop, RequireCosmetic, CreateReal, Sync, CreateSandbox, RefreshSandbox, Refund, rows
<1>6. ASSUME PutAway \/ Verify \/ UNCHANGED vars \/ \E p \in PixPurchases : Pay(p) \/ Void(p)
      PROVE  ent' = ent
  BY <1>6 DEF PutAway, Verify, vars, Pay, Void, rows
<1> QED
  BY <1>4, <1>5, <1>6 DEF Next

(* Only the refund of the purchase that owns the item takes the item: no   *)
(* late delivery, no second payment and no invoice that is over does       *)
(* (OnlyRefundTakes).                                                      *)
THEOREM RefundsOnlyTake == Spec => OnlyRefundTakes
<1>1. IInv /\ [Next]_vars =>
        [Active => \/ ent' = ent
                   \/ ent' = None /\ rec'[ent.purchase].status = "refunding"]_vars
  BY StepTakes
<1> QED
  BY <1>1, IInvHolds, PTL DEF Spec, OnlyRefundTakes
================================================================================
