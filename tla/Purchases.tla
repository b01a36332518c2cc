------------------------------- MODULE Purchases -------------------------------
(***************************************************************************)
(* How one player buys one premium cosmetic and gives it back: the row     *)
(* that reserves the item and grants it, the history of purchases, and the *)
(* three ways in which they move: a purchase opened at the gateway and     *)
(* paid by PIX some time later, a debit of chips, and a refund.  Requests, *)
(* polls and webhook deliveries are served side by side, and each of them  *)
(* may stop after any of its calls.                                        *)
(*                                                                         *)
(* A purchase is known by its method and by the idempotency key of the     *)
(* request that opened it: both ids are hashes of these.                   *)
(***************************************************************************)
EXTENDS Naturals

CONSTANTS
  PixKeys, ChipKeys,  \* idempotency keys of purchase requests
  Callers,            \* requests, polls and deliveries being served
  None,
  MaxAsks,            \* bound: requests of the player
  MaxStops            \* bound: calls that stop half-way

PixPurchases  == {"pix"} \X PixKeys
ChipPurchases == {"chips"} \X ChipKeys
AllPurchases  == PixPurchases \cup ChipPurchases

Statuses == {"processing", "pending", "confirmed", "refunding", "refunded", "expired"}
Records  == [status : Statuses, keyed : BOOLEAN]
Entitlements ==
  [status : {"pending", "active"}, method : {"pix", "chips"},
   purchase : AllPurchases \cup {None}, by : AllPurchases \cup {None}]

ASSUME PurchasesAssumption ==
  /\ None \notin AllPurchases \cup Statuses \cup Records \cup Entitlements
  /\ MaxAsks \in Nat /\ MaxStops \in Nat

VARIABLES
  ent,       \* the entitlement: a reservation or ownership of the item
  rec,       \* [AllPurchases -> its history row]
  invoice,   \* [PixPurchases -> what the gateway's invoice says]
  verified,  \* the player's identity is verified
  debited,   \* purchases whose chips the wallet took
  returned,  \* purchases whose money was given back
  revoked,   \* history: purchases whose refund was begun
  late,      \* history: purchases granted, or decided to be, past their refund
  applied,   \* the player plays with the item
  call,      \* [Callers -> the call that is served]
  asked, stops  \* history: requests, calls that stopped

rows  == <<ent, rec>>
money == <<invoice, debited, returned>>
past  == <<revoked, late>>
vars  == <<rows, money, verified, past, applied, call, asked, stops>>

Idle == [pc |-> "idle", p |-> None, wallet |-> None, local |-> None, ent |-> None, fills |-> FALSE]

(* A reservation is told apart by the request that made it.                *)
Reservation(p, purchase, by) ==
  [status |-> "pending", method |-> p[1], purchase |-> purchase, by |-> by]

Active   == ent # None /\ ent.status = "active"
Pending  == ent # None /\ ent.status = "pending"
Owned(p) == Active /\ ent.purchase = p
Reserved(p) == Pending /\ ent.by = p

Status(p) == IF rec[p] = None THEN None ELSE rec[p].status
SetStatus(p, status) == rec' = [rec EXCEPT ![p].status = status]

(* What the gateway makes of an invoice.  One that was refunded stays paid. *)
ViewOf(state) ==
  CASE state = "paid" -> "confirmed"
    [] state = "open" -> "pending"
    [] state = "void" -> "expired"

----------------------------------------------------------------------------
(* The transition matrix of a purchase                                     *)

Terminal(status) == status \in {"failed", "expired", "refunded"}

Decision(recover, step) == [recover |-> recover, step |-> step]

(* What follows from a purchase that the gateway does not call paid.       *)
Unpaid(wallet, local) ==
  LET known == IF local = None THEN wallet ELSE local
      lost  == local = None
  IN  IF lost /\ wallet # "pending" /\ ~Terminal(wallet) THEN Decision(FALSE, "drop")
      ELSE IF wallet = "refunded" /\ known = "refunding" THEN Decision(lost, "complete")
      ELSE IF Terminal(wallet) THEN Decision(lost, "close")
      ELSE IF known \in {"refunding", "confirmed", wallet} \/ Terminal(known) THEN Decision(lost, "ignore")
      ELSE Decision(lost, "update")

(* Mutated forms of Decide: a refund in flight is not looked at; a row that *)
(* is missing is not made up.                                              *)
DecideAnyway(wallet, local) ==
  IF wallet = "confirmed" THEN Decision(FALSE, "grant") ELSE Unpaid(wallet, local)
DecideKnown(wallet, local) ==
  IF local = None THEN Decision(FALSE, "drop")
  ELSE IF wallet # "confirmed" THEN Unpaid(wallet, local)
  ELSE Decision(FALSE, IF local \in {"refunding", "refunded"} THEN "ignore" ELSE "grant")

(* wallet is what the gateway reported, local the status of the history    *)
(* row, or None.                                                           *)
Decide(wallet, local) ==
  IF wallet # "confirmed" THEN Unpaid(wallet, local)
  ELSE Decision(FALSE, IF local \in {"refunding", "refunded"} THEN "ignore" ELSE "grant")

----------------------------------------------------------------------------
(* Serving a call                                                          *)

Goes(c, pc) == call' = [call EXCEPT ![c].pc = pc]
Ends(c)     == call' = [call EXCEPT ![c] = Idle]
At(c, pc)   == call[c].pc = pc

Starts(c, pc, p) ==
  /\ At(c, "idle")
  /\ call' = [call EXCEPT ![c] = [Idle EXCEPT !.pc = pc, !.p = p]]

Asks == asked < MaxAsks /\ asked' = asked + 1 /\ UNCHANGED <<stops, verified>>
Serves == UNCHANGED <<asked, stops, verified>>

(* An error of the store, a call that times out, a crash: nobody goes on.  *)
Stop(c) ==
  /\ ~At(c, "idle") /\ Ends(c) /\ stops < MaxStops /\ stops' = stops + 1
  /\ UNCHANGED <<rows, money, verified, past, applied, asked>>

----------------------------------------------------------------------------
(* Buying by PIX                                                           *)

(* The slot of the item is taken before the gateway is asked.  Whoever     *)
(* finds it taken goes on with what it is taken for, or is refused.        *)
CreateReal(c, p) ==
  /\ Asks /\ UNCHANGED <<rec, money, past, applied>>
  /\ \/ ent = None /\ ent' = Reservation(p, None, p) /\ Starts(c, "buy", p)
     \/ /\ Active /\ ent.by = p /\ ent.purchase # None /\ rec[ent.purchase] # None
        /\ At(c, "idle")
        /\ call' = [call EXCEPT ![c] = [Idle EXCEPT !.pc = "read", !.p = ent.purchase, !.fills = TRUE]]
        /\ UNCHANGED ent
     \/ /\ Pending /\ ent.method = "pix" /\ ent.purchase # None /\ rec[ent.purchase] # None
        /\ Starts(c, "read", ent.purchase) /\ UNCHANGED ent
     \/ /\ Pending /\ ent.method = "pix" /\ ent.purchase = None
        /\ Starts(c, "buy", ent.by) /\ UNCHANGED ent

(* PurchaseProduct opens an invoice, or finds the one of an earlier call.  *)
Buy(c) ==
  LET p == call[c].p
      opened == IF invoice[p] = "none" THEN "open" ELSE invoice[p]
  IN  /\ At(c, "buy") /\ Serves /\ UNCHANGED <<rows, debited, returned, past, applied>>
      /\ \/ invoice[p] = "none" /\ ~verified /\ Goes(c, "cancel") /\ UNCHANGED invoice
         \/ /\ invoice[p] = "none" => verified
            /\ invoice' = [invoice EXCEPT ![p] = opened]
            /\ call' = [call EXCEPT ![c].pc = "attach", ![c].wallet = ViewOf(opened)]

CancelReservation(c) ==
  /\ At(c, "cancel") /\ Serves /\ Ends(c)
  /\ ent' = IF Reserved(call[c].p) THEN None ELSE ent
  /\ UNCHANGED <<rec, money, past, applied>>

AttachRealPurchase(c) ==
  LET p == call[c].p
  IN  /\ At(c, "attach") /\ Serves /\ UNCHANGED <<money, past, applied>>
      /\ \/ /\ rec[p] = None /\ Reserved(p)
            /\ rec' = [rec EXCEPT ![p] = [status |-> call[c].wallet, keyed |-> TRUE]]
            /\ ent' = [ent EXCEPT !.purchase = p] /\ Goes(c, "stored")
         \/ /\ rec[p] # None /\ (rec[p].keyed \/ (Status(p) = "confirmed" /\ Owned(p)))
            /\ rec' = [rec EXCEPT ![p].keyed = TRUE]
            /\ UNCHANGED ent /\ Goes(c, "stored")
         \/ /\ ~(rec[p] = None /\ Reserved(p))
            /\ ~(rec[p] # None /\ (rec[p].keyed \/ (Status(p) = "confirmed" /\ Owned(p))))
            /\ UNCHANGED rows /\ Ends(c)

(* What the gateway answered is applied to the row that was attached.      *)
Stored(c) ==
  LET p == call[c].p
  IN  /\ At(c, "stored") /\ Serves /\ UNCHANGED <<rows, money, revoked, applied>>
      /\ late' = IF call[c].wallet = "confirmed" THEN late \cup ({p} \cap revoked) ELSE late
      /\ \/ call[c].wallet = "confirmed" /\ Goes(c, "grant")
         \/ /\ Terminal(call[c].wallet)
            /\ call' = [call EXCEPT ![c].pc = "close", ![c].local = Status(p)]
         \/ call[c].wallet = "pending" /\ Ends(c)

----------------------------------------------------------------------------
(* Following the gateway: deliveries, polls, and requests that found their *)
(* purchase                                                                *)

(* The delivery or the poll says nothing itself: the purchase is read.     *)
Sync(c, p) ==
  /\ invoice[p] # "none" /\ Starts(c, "read", p)
  /\ Serves /\ UNCHANGED <<rows, money, past, applied>>

Read(c) ==
  /\ At(c, "read") /\ Serves /\ UNCHANGED <<rows, money, past, applied>>
  /\ call' = [call EXCEPT ![c].pc = "decide", ![c].wallet = ViewOf(invoice[call[c].p])]

(* The step that Decide names comes next; a row that is missing is written *)
(* first.                                                                  *)
Follow(c) ==
  LET local    == Status(call[c].p)
      decision == Decide(call[c].wallet, local)
  IN  /\ At(c, "decide") /\ Serves /\ UNCHANGED <<rows, money, past, applied>>
      /\ \/ decision.recover /\ Goes(c, "recover")
         \/ /\ ~decision.recover /\ decision.step \notin {"ignore", "drop"}
            /\ call' = [call EXCEPT ![c].pc = decision.step, ![c].local = local]
         \/ ~decision.recover /\ decision.step \in {"ignore", "drop"} /\ Ends(c)

(* The missing history row, and the slot if nobody else has it.            *)
RecoverPendingPIX(c) ==
  LET p      == call[c].p
      status == call[c].wallet
      free   == ent = None \/ (Pending /\ ent.method = "pix" /\ ent.purchase \in {None, p})
  IN  /\ At(c, "recover") /\ Serves /\ UNCHANGED <<money, past, applied>>
      /\ IF rec[p] = None /\ free
         THEN /\ rec' = [rec EXCEPT ![p] = [status |-> status, keyed |-> FALSE]]
              /\ ent' = IF ent = None THEN Reservation(p, p, None) ELSE [ent EXCEPT !.purchase = p]
         ELSE UNCHANGED rows
      /\ IF (rec[p] # None \/ free) /\ Terminal(status)
         THEN call' = [call EXCEPT ![c].pc = "close", ![c].local = status]
         ELSE Ends(c)

(* A purchase that will never be paid gives its slot back.                 *)
ClosePIXTerminal(c) ==
  LET p == call[c].p
      held == IF call[c].local = "confirmed" THEN Owned(p) ELSE Pending /\ ent.purchase = p
  IN  /\ At(c, "close") /\ Serves /\ UNCHANGED <<money, past, applied>> /\ Ends(c)
      /\ IF Status(p) = call[c].local /\ held
         THEN SetStatus(p, call[c].wallet) /\ ent' = None
         ELSE UNCHANGED rows

(* GrantConfirmed reads the row again, and the entitlement, and writes     *)
(* what is missing of a paid purchase.                                     *)
GrantReadsRow(c) ==
  /\ At(c, "grant") /\ Serves /\ UNCHANGED <<rows, money, past, applied>>
  /\ call' = [call EXCEPT ![c].pc = "entitle", ![c].local = Status(call[c].p)]

GrantReadsEntitlement(c) ==
  /\ At(c, "entitle") /\ Serves /\ UNCHANGED <<rows, money, past, applied>>
  /\ call' = [call EXCEPT ![c].pc = "confirm", ![c].ent = ent]

Has(seen, p) == seen # None /\ seen.status = "active" /\ seen.purchase = p

(* What the grant asks of the entitlement that it writes.  A mutated form: *)
(* it must be there, and may have become another purchase's.               *)
GrantableIfThere(seen, p) == Has(seen, p) \/ (seen = None) = (ent = None)
Grantable(seen, p) == Has(seen, p) \/ (IF seen = None THEN ent = None ELSE Pending)

Granted(c) ==
  IF call[c].fills THEN Goes(c, "fill") ELSE Ends(c)

GrantConfirmed(c) ==
  LET p     == call[c].p
      local == call[c].local
      seen  == call[c].ent
  IN  /\ At(c, "confirm") /\ Serves /\ UNCHANGED <<money, past, applied>>
      /\ IF (local = "confirmed" \/ Status(p) = local) /\ Grantable(seen, p)
         THEN /\ rec' = CASE local = None -> [rec EXCEPT ![p] = [status |-> "confirmed", keyed |-> FALSE]]
                          [] local = "confirmed" -> rec
                          [] OTHER -> [rec EXCEPT ![p].status = "confirmed"]
              /\ ent' = IF Has(seen, p) THEN ent
                        ELSE [status |-> "active", method |-> "pix", purchase |-> p,
                              by |-> IF ent = None THEN None ELSE ent.by]
              /\ Granted(c)
         ELSE UNCHANGED rows /\ (IF Status(p) = "confirmed" /\ Owned(p) THEN Granted(c) ELSE Ends(c))

HydratePIXDetails(c) ==
  /\ At(c, "fill") /\ Serves /\ Ends(c) /\ UNCHANGED <<ent, money, past, applied>>
  /\ rec' = IF Status(call[c].p) = "confirmed" THEN [rec EXCEPT ![call[c].p].keyed = TRUE] ELSE rec

----------------------------------------------------------------------------
(* Buying with chips                                                       *)

(* The intent and the slot are written together before the debit.  A       *)
(* purchase that was under way is gone on with.                            *)
CreateSandbox(c, p) ==
  /\ Asks /\ UNCHANGED <<money, past, applied>>
  /\ \/ /\ rec[p] = None /\ ent = None
        /\ rec' = [rec EXCEPT ![p] = [status |-> "processing", keyed |-> TRUE]]
        /\ ent' = Reservation(p, p, p) /\ Starts(c, "debit", p)
     \/ /\ Pending /\ ent.method = "chips" /\ Status(ent.purchase) = "processing"
        /\ Starts(c, "debit", ent.purchase) /\ UNCHANGED rows

(* A poll of a purchase whose debit nobody heard of.                       *)
RefreshSandbox(c, p) ==
  /\ Asks /\ Status(p) = "processing" /\ Starts(c, "debit", p)
  /\ UNCHANGED <<rows, money, past, applied>>

(* The wallet takes the chips once per key.                                *)
Debit(c) ==
  LET p == call[c].p
  IN  /\ At(c, "debit") /\ Serves /\ UNCHANGED <<rows, invoice, returned, past, applied>>
      /\ \/ debited' = debited \cup {p} /\ Goes(c, "own")
         \/ p \notin debited /\ Goes(c, "undo") /\ UNCHANGED debited

ConfirmSandbox(c) ==
  LET p == call[c].p
  IN  /\ At(c, "own") /\ Serves /\ Ends(c) /\ UNCHANGED <<money, past, applied>>
      /\ IF Status(p) = "processing" /\ Reserved(p)
         THEN SetStatus(p, "confirmed") /\ ent' = [ent EXCEPT !.status = "active", !.purchase = p]
         ELSE UNCHANGED rows

CancelSandboxReservation(c) ==
  LET p == call[c].p
  IN  /\ At(c, "undo") /\ Serves /\ Ends(c) /\ UNCHANGED <<money, past, applied>>
      /\ IF Status(p) = "processing" /\ Reserved(p)
         THEN rec' = [rec EXCEPT ![p] = None] /\ ent' = None
         ELSE UNCHANGED rows

----------------------------------------------------------------------------
(* Giving back, and playing with the item                                  *)

(* A refund of a purchase nobody wrote down follows the gateway instead.   *)
Refund(c, p) ==
  /\ Asks /\ UNCHANGED <<rows, money, past, applied>>
  /\ \/ rec[p] = None /\ p \in PixPurchases /\ invoice[p] # "none" /\ Starts(c, "read", p)
     \/ Status(p) = "confirmed" /\ Owned(p) /\ ~applied /\ Starts(c, "revoke", p)
     \/ Status(p) = "refunding" /\ Starts(c, "return", p)

Granting(c, p) == call[c].p = p /\ call[c].pc \in {"grant", "entitle", "confirm"}

BeginRefund(c) ==
  LET p == call[c].p
  IN  /\ At(c, "revoke") /\ Serves /\ UNCHANGED <<money, applied>>
      /\ IF Status(p) = "confirmed" /\ ent # None /\ ent.purchase = p
         THEN /\ SetStatus(p, "refunding") /\ ent' = None
              /\ revoked' = revoked \cup {p} /\ Goes(c, "return")
              /\ late' = IF \E d \in Callers : Granting(d, p) THEN late \cup {p} ELSE late
         ELSE /\ UNCHANGED <<rows, past>>
              /\ IF Status(p) = "refunding" THEN Goes(c, "return") ELSE Ends(c)

(* The gateway refunds an invoice once, the wallet credits a key once.     *)
GiveBack(c) ==
  /\ At(c, "return") /\ Serves /\ Goes(c, "complete")
  /\ returned' = returned \cup {call[c].p}
  /\ UNCHANGED <<rows, invoice, debited, past, applied>>

CompleteRefund(c) ==
  LET p == call[c].p
  IN  /\ At(c, "complete") /\ Serves /\ Ends(c)
      /\ rec' = IF Status(p) = "refunding" THEN [rec EXCEPT ![p].status = "refunded"] ELSE rec
      /\ UNCHANGED <<ent, money, past, applied>>

(* A premium item is applied by whoever owns it, and is kept when the      *)
(* ownership was read.                                                     *)
RequireCosmetic(c) ==
  /\ Asks /\ Active /\ Starts(c, "apply", None)
  /\ UNCHANGED <<rows, money, past, applied>>

Apply(c) ==
  /\ At(c, "apply") /\ Serves /\ Ends(c) /\ applied' = TRUE
  /\ UNCHANGED <<rows, money, past>>

PutAway ==
  /\ applied /\ Asks /\ applied' = FALSE
  /\ UNCHANGED <<rows, money, past, call>>

----------------------------------------------------------------------------
(* The world outside                                                       *)

Pay(p) ==
  /\ invoice[p] = "open" /\ invoice' = [invoice EXCEPT ![p] = "paid"]
  /\ UNCHANGED <<rows, debited, returned, verified, past, applied, call, asked, stops>>

Void(p) ==
  /\ invoice[p] = "open" /\ invoice' = [invoice EXCEPT ![p] = "void"]
  /\ UNCHANGED <<rows, debited, returned, verified, past, applied, call, asked, stops>>

Verify ==
  /\ ~verified /\ verified' = TRUE
  /\ UNCHANGED <<rows, money, past, applied, call, asked, stops>>

----------------------------------------------------------------------------
Init ==
  /\ ent = None /\ rec = [p \in AllPurchases |-> None]
  /\ invoice = [p \in PixPurchases |-> "none"] /\ verified \in BOOLEAN
  /\ debited = {} /\ returned = {} /\ revoked = {} /\ late = {} /\ applied = FALSE
  /\ call = [c \in Callers |-> Idle] /\ asked = 0 /\ stops = 0

Step(c) ==
  \/ Buy(c) \/ CancelReservation(c) \/ AttachRealPurchase(c) \/ Stored(c)
  \/ Read(c) \/ Follow(c) \/ RecoverPendingPIX(c) \/ ClosePIXTerminal(c)
  \/ GrantReadsRow(c) \/ GrantReadsEntitlement(c) \/ GrantConfirmed(c) \/ HydratePIXDetails(c)
  \/ Debit(c) \/ ConfirmSandbox(c) \/ CancelSandboxReservation(c)
  \/ BeginRefund(c) \/ GiveBack(c) \/ CompleteRefund(c) \/ Apply(c)

Next ==
  \/ \E c \in Callers :
       \/ Step(c) \/ Stop(c) \/ RequireCosmetic(c)
       \/ \E p \in PixPurchases : CreateReal(c, p) \/ Sync(c, p)
       \/ \E p \in ChipPurchases : CreateSandbox(c, p) \/ RefreshSandbox(c, p)
       \/ \E p \in AllPurchases : Refund(c, p)
  \/ PutAway \/ Verify
  \/ \E p \in PixPurchases : Pay(p) \/ Void(p)

Spec == Init /\ [][Next]_vars

(* A call that is served goes on until it ends or stops, and the gateway   *)
(* delivers a purchase, or the player's page polls it, again and again.    *)
FairSpec ==
  /\ Spec
  /\ \A c \in Callers : WF_vars(Step(c))
  /\ \A p \in PixPurchases : SF_vars(\E c \in Callers : Sync(c, p))

----------------------------------------------------------------------------
(* Properties                                                              *)

Places ==
  {"idle", "buy", "cancel", "attach", "stored", "read", "decide", "recover", "close",
   "grant", "entitle", "confirm", "fill", "debit", "own", "undo", "revoke", "return",
   "complete", "apply"}

TypeOK ==
  /\ ent \in Entitlements \cup {None}
  /\ rec \in [AllPurchases -> Records \cup {None}]
  /\ invoice \in [PixPurchases -> {"none", "open", "paid", "void"}]
  /\ debited \subseteq ChipPurchases /\ returned \subseteq AllPurchases
  /\ revoked \subseteq AllPurchases /\ late \subseteq AllPurchases
  /\ verified \in BOOLEAN /\ applied \in BOOLEAN
  /\ call \in [Callers -> [pc : Places, p : AllPurchases \cup {None},
                           wallet : {"confirmed", "pending", "expired", None},
                           local : Statuses \cup {None}, ent : Entitlements \cup {None},
                           fills : BOOLEAN]]
  /\ asked \in 0 .. MaxAsks /\ stops \in 0 .. MaxStops

Paid(p) == IF p \in PixPurchases THEN invoice[p] = "paid" ELSE p \in debited

(* Whoever owns the item has paid for it, whatever deliveries, polls,       *)
(* repeated requests and refunds went on side by side, and no delivery or  *)
(* poll that decides after a refund was begun makes an owner again (Decide *)
(* in purchaselifecycle.go).  The grants that do are set apart, in late:   *)
(* of who had decided before, and of a repeated request with the key of    *)
(* the purchase, which never decides (CreateReal).                         *)
OwnedIsPaid ==
  Active => Paid(ent.purchase) /\ (ent.purchase \in revoked => ent.purchase \in late)

(* A purchase that was paid by PIX ends with an owner of the item or with  *)
(* a refund, though the request that opened it stopped before it wrote     *)
(* anything down, or the slot was taken by another purchase since.         *)
PaidIsOwned ==
  \A p \in PixPurchases : invoice[p] = "paid" ~> (Active \/ p \in revoked)

(* The item is lost only by the refund of the purchase that owns it: a     *)
(* delivery of another purchase, late or not, never takes it over, nor     *)
(* does the end of one that was never paid.                                *)
OnlyRefundTakes ==
  [][Active => \/ ent' = ent
               \/ ent' = None /\ rec'[ent.purchase].status = "refunding"]_vars
=============================================================================
