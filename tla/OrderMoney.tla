----------------------------- MODULE OrderMoney -----------------------------
(***************************************************************************)
(* The money of one order: the receivable its confirmation makes, the       *)
(* receipt its payment registers, the commission the payment owes the       *)
(* partner and the disbursement of that, and the balance of the bank        *)
(* account, which runs beside the payments.  apps/sales moves all of it in  *)
(* transactions of their own, before or after the order's row is written,   *)
(* and decides on what it read before them.                                 *)
(*                                                                         *)
(* Abstractions: one account; a claim is paid in full; shipping and the     *)
(* stock are in OrderFulfilment, the halves of an undone payment and the    *)
(* list pages in Treasury; the look for a receivable or for stale receipts  *)
(* and what is done about them are one step; vouchers and invoices are not  *)
(* here.                                                                    *)
(***************************************************************************)
EXTENDS Integers, FiniteSets

CONSTANTS
    Total,      \* Order.grand_total
    Fee,        \* the commission of the order
    Opening,    \* the balance at the start
    Payments,   \* bound: payments ever registered
    Fees,       \* bound: commission records ever made
    Session,    \* requests that may be in progress at once
    Scenes      \* the combinations of entry points

\* "payers": several requests may be paying or settling at once.
EntryPoint == {"status", "edit", "claim", "fee", "race", "payers", "crash"}

VARIABLES
    order,      \* Order.status and Order.is_paid
    claim,      \* AccountReceivable of the order
    payment,    \* Payment
    fee,        \* CommissionRecord
    balance,    \* BankAccount.balance
    session,    \* where each request is, and what it loaded
    scene

vars == <<order, claim, payment, fee, balance, session, scene>>

PaymentId == 1..Payments
FeeId == 1..Fees
Status == {"DRAFT", "CONFIRMED", "SHIPPED", "DELIVERED", "CLOSED", "CANCELLED"}
\* Order.STATUS_TRANSITIONS, PARTIAL_SHIPPED left out
Allowed == [s \in Status |->
    CASE s = "DRAFT" -> {"CONFIRMED", "CANCELLED"}
      [] s = "CONFIRMED" -> {"SHIPPED", "CANCELLED"}
      [] s = "SHIPPED" -> {"DELIVERED"}
      [] s = "DELIVERED" -> {"CLOSED"}
      [] OTHER -> {}]
Claim == [row: {"absent", "active", "retired"}, paid: BOOLEAN]
\* of: the commission record a disbursement is for.
Payment == [row: {"absent", "active", "retired"}, kind: {"receipt", "claim", "fee"},
            of: 0..Fees]
FeeStatus == {"absent", "PENDING", "SETTLED", "retired"}
\* record: the commission record found, 0 for none.
Work == [stage: {"idle", "paying", "sweeping", "recording", "feeing", "settling",
                 "closing", "handling", "cancelling", "writing"},
         status: Status, paid: BOOLEAN, whole: BOOLEAN, record: 0..Fees]
Idle == [stage |-> "idle", status |-> "DRAFT", paid |-> FALSE, whole |-> FALSE,
         record |-> 0]

At(p, stage) == session[p].stage = stage
Goto(p, w) == session' = [session EXCEPT ![p] = w]
Step(p, stage) == Goto(p, [session[p] EXCEPT !.stage = stage])
Done(p) == Goto(p, Idle)
Pays(w) == w.stage \in {"paying", "sweeping", "recording", "feeing", "settling"}
Starts(p) ==
    /\ At(p, "idle")
    /\ "race" \in scene \/ \A q \in Session : At(q, "idle")
StartsPaying(p) ==
    Starts(p) /\ ("payers" \in scene \/ \A q \in Session : ~Pays(session[q]))

Amount(kind) == IF kind = "receipt" \/ kind = "claim" THEN Total ELSE Fee
\* A receipt adds to the account, a disbursement takes from it.
Signed(kind) == IF kind = "fee" THEN -Amount(kind) ELSE Amount(kind)
Active(kind) == {k \in PaymentId : payment[k].row = "active" /\ payment[k].kind = kind}
Retired(ks) ==
    [k \in PaymentId |-> IF k \in ks THEN [payment[k] EXCEPT !.row = "retired"]
                         ELSE payment[k]]
\* Payment.objects.create, and payment_update_balance_and_voucher.
Register(k, kind, f) ==
    /\ payment[k].row = "absent" /\ \A i \in 1..(k-1) : payment[i].row # "absent"
    /\ payment' = [payment EXCEPT ![k] = [row |-> "active", kind |-> kind, of |-> f]]
    /\ balance' = balance + Signed(kind)

-----------------------------------------------------------------------------
(* OrderPaymentView, and the settlement's SalesSettlementPaymentView: any     *)
(* order that is not paid, whatever its status.                               *)

AskPay(p) ==
    /\ StartsPaying(p) /\ ~order.paid
    /\ Goto(p, [Idle EXCEPT !.stage = "paying", !.status = order.status])
    /\ UNCHANGED <<order, claim, payment, fee, balance, scene>>

\* _auto_create_payment: is_paid is read again ...
Recheck(p) ==
    /\ At(p, "paying")
    /\ IF order.paid THEN Done(p) ELSE Step(p, "sweeping")
    /\ UNCHANGED <<order, claim, payment, fee, balance, scene>>

\* Mutant: receipts left from before are kept.
StaleNone == {}

Stale == Active("receipt")

\* ... receipts left from before are retired, and the balance with them ...
Sweep(p) ==
    /\ At(p, "sweeping")
    /\ payment' = Retired(Stale)
    /\ balance' = balance - Cardinality(Stale) * Total
    /\ Step(p, "recording")
    /\ UNCHANGED <<order, claim, fee, scene>>

\* ... and one transaction registers the receipt and marks the order paid.
Record(p, k) ==
    /\ At(p, "recording")
    /\ Register(k, "receipt", 0)
    /\ order' = [status |-> order.status, paid |-> TRUE]
    /\ Step(p, "feeing")
    /\ UNCHANGED <<claim, fee, scene>>

\* _auto_create_commission: the newest record of the order is looked for ...
LookForFee(p) ==
    LET known == {f \in FeeId : fee[f] \in {"PENDING", "SETTLED"}}
        newest == CHOOSE f \in known : \A g \in known : g <= f
    IN  /\ At(p, "feeing")
        /\ IF known = {} THEN Goto(p, [session[p] EXCEPT !.stage = "settling", !.record = 0])
           ELSE IF fee[newest] = "PENDING"
           THEN Goto(p, [session[p] EXCEPT !.stage = "settling", !.record = newest])
           ELSE Step(p, "closing")
        /\ UNCHANGED <<order, claim, payment, fee, balance, scene>>

\* ... and one transaction settles it, or makes one, and disburses it; a record
\* that was retired meanwhile stays so.
Settle(p, f, k) ==
    /\ At(p, "settling")
    /\ IF session[p].record = 0
       THEN fee[f] = "absent" /\ \A g \in 1..(f-1) : fee[g] # "absent"
       ELSE f = session[p].record
    /\ fee' = [fee EXCEPT ![f] = IF @ = "retired" THEN @ ELSE "SETTLED"]
    /\ Register(k, "fee", f)
    /\ Step(p, "closing")
    /\ UNCHANGED <<order, claim, scene>>

\* _try_close_order, by the status loaded at the start.
Close(p) ==
    /\ At(p, "closing")
    /\ order' = IF session[p].status = "DELIVERED" /\ order.paid
                THEN [status |-> "CLOSED", paid |-> order.paid] ELSE order
    /\ Done(p)
    /\ UNCHANGED <<claim, payment, fee, balance, scene>>

-----------------------------------------------------------------------------
(* What else moves money. *)

\* A payment of the receivable, in one transaction that locks it (Treasury).
PayClaim(k) ==
    /\ "claim" \in scene
    /\ claim.row = "active" /\ ~claim.paid
    /\ claim' = [row |-> "active", paid |-> TRUE]
    /\ Register(k, "claim", 0)
    /\ UNCHANGED <<order, fee, session, scene>>

\* CommissionRecordCreateView: the form sets the status too.
AddFee(f, status) ==
    /\ "fee" \in scene
    /\ fee[f] = "absent" /\ \A g \in 1..(f-1) : fee[g] # "absent"
    /\ fee' = [fee EXCEPT ![f] = status]
    /\ UNCHANGED <<order, claim, payment, balance, session, scene>>

\* CommissionRecordSettleView: a record read as PENDING, then Settle.
AskSettle(p, f) ==
    /\ "fee" \in scene
    /\ StartsPaying(p) /\ fee[f] = "PENDING"
    /\ Goto(p, [Idle EXCEPT !.stage = "settling", !.record = f])
    /\ UNCHANGED <<order, claim, payment, fee, balance, scene>>

-----------------------------------------------------------------------------
(* Saving the order: auto_stock_out_on_ship, then the row. *)

\* OrderStatusChangeView
AskStatus(p, s) ==
    /\ "status" \in scene
    /\ Starts(p) /\ s \in Allowed[order.status]
    /\ Goto(p, [Idle EXCEPT !.stage = "handling", !.status = s])
    /\ UNCHANGED <<order, claim, payment, fee, balance, scene>>

\* OrderUpdateView: every column as it was loaded.
AskEdit(p) ==
    /\ "edit" \in scene
    /\ Starts(p)
    /\ Goto(p, [Idle EXCEPT !.stage = "handling", !.status = order.status,
                            !.paid = order.paid, !.whole = TRUE])
    /\ UNCHANGED <<order, claim, payment, fee, balance, scene>>

\* The row is read: what follows depends on the status it has now.
\* _auto_create_ar makes a receivable if none is active.
Handle(p) ==
    LET new == session[p].status
    IN  /\ At(p, "handling")
        /\ claim' = IF new = "CONFIRMED" /\ order.status # "CONFIRMED"
                       /\ claim.row # "active"
                    THEN [row |-> "active", paid |-> FALSE] ELSE claim
        /\ IF new = "CANCELLED" /\ order.status # "CANCELLED"
           THEN Step(p, "cancelling") ELSE Step(p, "writing")
        /\ UNCHANGED <<order, payment, fee, balance, scene>>

\* Mutant: the balance is not restored by hand.
GivenBackNot(ks) == 0

\* The balance of the disbursements retired is restored by hand.
GivenBack(ks) == Cardinality(ks) * Fee

\* _auto_cancel_order, in one transaction.  The payments of the receivable are
\* retired as well, with the restoration of the balance switched off, and
\* nothing restores it for them.
Cancel(p) ==
    LET undone == IF claim.row = "active" /\ claim.paid THEN Active("claim") ELSE {}
        returned == IF \E f \in FeeId : fee[f] = "SETTLED" THEN Active("fee") ELSE {}
    IN  /\ At(p, "cancelling")
        /\ claim' = IF claim.row = "active" THEN [row |-> "retired", paid |-> FALSE] ELSE claim
        /\ payment' = Retired(undone \cup returned)
        /\ balance' = balance + GivenBack(returned)
        /\ fee' = [f \in FeeId |-> IF fee[f] = "absent" THEN "absent" ELSE "retired"]
        /\ Step(p, "writing")
        /\ UNCHANGED <<order, scene>>

Write(p) ==
    LET w == session[p]
    IN  /\ At(p, "writing")
        /\ order' = [status |-> w.status, paid |-> IF w.whole THEN w.paid ELSE order.paid]
        /\ Done(p)
        /\ UNCHANGED <<claim, payment, fee, balance, scene>>

\* A request dies between its transactions.
Die(p) ==
    /\ "crash" \in scene /\ ~At(p, "idle")
    /\ Done(p)
    /\ UNCHANGED <<order, claim, payment, fee, balance, scene>>

-----------------------------------------------------------------------------
Init ==
    /\ scene \in Scenes
    /\ order = [status |-> "DRAFT", paid |-> FALSE]
    /\ claim = [row |-> "absent", paid |-> FALSE]
    /\ payment = [k \in PaymentId |-> [row |-> "absent", kind |-> "receipt", of |-> 0]]
    /\ fee = [f \in FeeId |-> "absent"]
    /\ balance = Opening
    /\ session = [p \in Session |-> Idle]

Paying(p) ==
    \/ AskPay(p) \/ Recheck(p) \/ Sweep(p)
    \/ \E k \in PaymentId : Record(p, k)
    \/ LookForFee(p)
    \/ \E f \in FeeId, k \in PaymentId : Settle(p, f, k)
    \/ \E f \in FeeId : AskSettle(p, f)
    \/ Close(p)
Saving(p) ==
    \/ \E s \in Status : AskStatus(p, s)
    \/ AskEdit(p) \/ Handle(p) \/ Cancel(p) \/ Write(p)

Next ==
    \/ \E p \in Session : Paying(p) \/ Saving(p) \/ Die(p)
    \/ \E k \in PaymentId : PayClaim(k)
    \/ \E f \in FeeId, status \in {"PENDING", "SETTLED"} : AddFee(f, status)

Spec == Init /\ [][Next]_vars

-----------------------------------------------------------------------------
(* What holds. *)

TypeOK ==
    /\ scene \in Scenes
    /\ order \in [status: Status, paid: BOOLEAN]
    /\ claim \in Claim /\ payment \in [PaymentId -> Payment]
    /\ fee \in [FeeId -> FeeStatus]
    /\ balance \in Int /\ session \in [Session -> Work]

Banked(kind) == Cardinality(Active(kind)) * Signed(kind)

\* What validate_migration checks of an account: its balance is the opening
\* balance and the active payments.
BalanceIsPayments ==
    balance = Opening + Banked("receipt") + Banked("claim") + Banked("fee")

\* Where no receivable is paid for itself, it is, however payments, status
\* changes, cancellations and edits race and whatever dies.
BankAgrees == "claim" \notin scene => BalanceIsPayments

\* Where requests do not pay the same order at once: an order has one receipt
\* in force at most, however often a stale form makes it unpaid again; when it
\* reads paid it has one (unless such a form says so); and no commission is paid
\* out twice.
PaidOnce ==
    "payers" \notin scene =>
        /\ Cardinality(Active("receipt")) <= 1
        /\ order.paid /\ "edit" \notin scene => Active("receipt") # {}
        /\ \A k, i \in Active("fee") : payment[k].of = payment[i].of => k = i
=============================================================================
