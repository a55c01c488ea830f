----------------------------- MODULE Settlements -----------------------------
(***************************************************************************)
(* Sales settlements: orders gathered into a settlement by a form of        *)
(* apps/accounting/views.py or by the weekly job of apps/sales/tasks.py,    *)
(* the voucher for what platforms kept of them, and the payment of the      *)
(* commission, by the bank or by hand.                                      *)
(*                                                                         *)
(* Every request and the job read first and commit one transaction then;    *)
(* nothing is locked in between.                                            *)
(*                                                                         *)
(* Abstractions: a platform keeps 1 of every order of Platform, nothing of  *)
(* the others; prices, costs and the receipts of the orders are left out;   *)
(* the branches of the form that pay or receive at once never run, because  *)
(* they look for a partner among orders that were marked settled before.    *)
(***************************************************************************)
EXTENDS Sums, FiniteSets

CONSTANTS
    Orders,     \* orders that are closed
    Platform,   \* those of a platform, which the job gathers
    Settled,    \* bound: settlements ever created
    Rates,      \* the commissions a form may ask for an order
    Opening,    \* BankAccount.balance at the start
    Session,    \* requests and jobs that may be in progress at once
    Scenes      \* the combinations of entry points

EntryPoint == {"form", "job", "pay", "manual", "closing", "race", "crash"}

VARIABLES
    order,      \* Order.is_settled
    settlement, \* SalesSettlement with its SalesSettlementOrder rows
    balance,    \* BankAccount.balance of the account commissions are paid from
    closed,     \* whether the month is closed
    session, scene

vars == <<order, settlement, balance, closed, session, scene>>

OrderId == 1..Orders
SettlementId == 1..Settled
Link == {"none", "auto", "payment"}
\* vouchers: those posted for the platform; voucher: the one commission_voucher
\* names; payouts: disbursements made; payable: whether its payable is paid.
Settlement == [by: {"none", "form", "job"}, orders: SUBSET OrderId, commission: Nat, paid: BOOLEAN,
               voucher: Link, vouchers: Nat, payouts: Nat, payable: BOOLEAN]
NoSettlement == [by |-> "none", orders |-> {}, commission |-> 0, paid |-> FALSE,
                 voucher |-> "none", vouchers |-> 0, payouts |-> 0, payable |-> FALSE]
Work == [stage: {"idle", "creating", "gathering", "paying", "marking"},
         orders: SUBSET OrderId, rate: Rates, settlement: SettlementId, voucher: Link]
Idle == [stage |-> "idle", orders |-> {}, rate |-> CHOOSE r \in Rates : TRUE, settlement |-> 1,
         voucher |-> "none"]

At(p, stage) == session[p].stage = stage
Goto(p, w) == session' = [session EXCEPT ![p] = w]
Done(p) == Goto(p, Idle)
MayAsk(p) == At(p, "idle") /\ ("race" \in scene \/ \A q \in Session : At(q, "idle"))
Existing == {s \in SettlementId : settlement[s].by # "none"}
Set(s, doc) == settlement' = [settlement EXCEPT ![s] = doc]
Doc(p) == settlement[session[p].settlement]

Init ==
    /\ scene \in Scenes
    /\ order = [o \in OrderId |-> FALSE]
    /\ settlement = [s \in SettlementId |-> NoSettlement]
    /\ balance = Opening /\ closed = FALSE
    /\ session = [p \in Session |-> Idle]

-----------------------------------------------------------------------------
(* auto_voucher_on_settlement, after a settlement was saved. *)

Kept(S) == Cardinality(S \cap Platform)
\* Mutant: the handler does not look for a voucher.
PostsAlways(doc, link) == ~closed /\ Kept(doc.orders) > 0
\* link: the voucher the instance in memory knows of.
Posts(doc, link) == link = "none" /\ ~closed /\ Kept(doc.orders) > 0
Saved(doc, link) ==
    IF Posts(doc, link) THEN [doc EXCEPT !.voucher = "auto", !.vouchers = @ + 1] ELSE doc

-----------------------------------------------------------------------------
(* Creation. *)

\* Mutant: the form takes the orders it was sent.
AsSent(S) == S
\* Order.objects.filter(pk__in=order_ids, is_settled=False)
Unsettled(S) == {o \in S : ~order[o]}

\* SalesSettlementCreateView.post, of orders a page has shown some time ago.
AskCreate(p, S, r) ==
    /\ "form" \in scene /\ MayAsk(p) /\ S # {}
    /\ Goto(p, [Idle EXCEPT !.stage = "creating", !.orders = Unsettled(S), !.rate = r])
    /\ UNCHANGED <<order, settlement, balance, closed, scene>>

\* What is marked when a settlement is committed.
Marked(S) == [o \in OrderId |-> order[o] \/ o \in S]
\* The totals are saved after the rows, and that save posts the voucher.
CommitCreate(p, s) ==
    LET S == session[p].orders
        doc == [NoSettlement EXCEPT !.by = "form", !.orders = S,
                                    !.commission = session[p].rate * Cardinality(S)]
    IN /\ At(p, "creating") /\ Done(p) /\ s \notin Existing
       /\ Set(s, Saved(doc, "none")) /\ order' = Marked(S)
       /\ UNCHANGED <<balance, closed, scene>>

\* auto_settle_marketplace_orders: orders of the platform, unsettled and in no
\* settlement, as they are before its transaction.
StartJob(p) ==
    LET due == {o \in Unsettled(Platform) : \A s \in Existing : o \notin settlement[s].orders}
    IN /\ "job" \in scene /\ MayAsk(p) /\ due # {}
       /\ Goto(p, [Idle EXCEPT !.stage = "gathering", !.orders = due])
       /\ UNCHANGED <<order, settlement, balance, closed, scene>>
\* It saves twice; the instance does not learn of the voucher of the first.
CommitJob(p, s) ==
    LET S == session[p].orders
        doc == [NoSettlement EXCEPT !.by = "job", !.orders = S]
    IN /\ At(p, "gathering") /\ Done(p) /\ s \notin Existing
       /\ Set(s, Saved(Saved(doc, "none"), "none")) /\ order' = Marked(S)
       /\ UNCHANGED <<balance, closed, scene>>

-----------------------------------------------------------------------------
(* The commission. *)

\* Mutant: what is paid may be paid again.
MayPayAgain(doc) == TRUE
\* if settlement.commission_paid
MayPay(doc) == ~doc.paid
Ask(p, s, stage) ==
    /\ MayAsk(p) /\ s \in Existing /\ MayPay(settlement[s])
    /\ Goto(p, [Idle EXCEPT !.stage = stage, !.settlement = s, !.voucher = settlement[s].voucher])
    /\ UNCHANGED <<order, settlement, balance, closed, scene>>

\* SalesSettlementCommissionPayView: a voucher, a disbursement, a payable, and the
\* settlement.  No voucher can be written in a closed month: nothing is.
AskPay(p, s) == "pay" \in scene /\ settlement[s].commission > 0 /\ Ask(p, s, "paying")
CommitPay(p) ==
    LET doc == Doc(p)
    IN /\ At(p, "paying") /\ Done(p)
       /\ IF closed THEN UNCHANGED <<settlement, balance>>
          ELSE /\ Set(session[p].settlement, [doc EXCEPT !.payouts = @ + 1, !.payable = TRUE,
                                                         !.paid = TRUE, !.voucher = "payment"])
               /\ balance' = balance - doc.commission
       /\ UNCHANGED <<order, closed, scene>>

\* SalesSettlementCommissionManualView writes the whole row it read, and may post
\* the voucher that a closed month prevented.
AskManual(p, s) == "manual" \in scene /\ Ask(p, s, "marking")
CommitManual(p) ==
    LET w == session[p]
        doc == [Doc(p) EXCEPT !.paid = TRUE, !.voucher = w.voucher]
    IN /\ At(p, "marking") /\ Done(p)
       /\ Set(w.settlement, Saved(doc, w.voucher))
       /\ UNCHANGED <<order, balance, closed, scene>>

\* The month is closed, or opened again.
Close ==
    /\ "closing" \in scene /\ closed' = ~closed
    /\ UNCHANGED <<order, settlement, balance, session, scene>>

\* The worker dies before its transaction commits.
Crash(p) ==
    /\ "crash" \in scene /\ ~At(p, "idle") /\ Done(p)
    /\ UNCHANGED <<order, settlement, balance, closed, scene>>

Next ==
    \/ Close
    \/ \E p \in Session :
        \/ \E S \in SUBSET OrderId, r \in Rates : AskCreate(p, S, r)
        \/ \E s \in SettlementId :
            CommitCreate(p, s) \/ CommitJob(p, s) \/ AskPay(p, s) \/ AskManual(p, s)
        \/ StartJob(p) \/ CommitPay(p) \/ CommitManual(p) \/ Crash(p)

Spec == Init /\ [][Next]_vars

-----------------------------------------------------------------------------
(* What holds. *)

TypeOK ==
    /\ scene \in Scenes
    /\ order \in [OrderId -> BOOLEAN] /\ settlement \in [SettlementId -> Settlement]
    /\ balance \in Int /\ closed \in BOOLEAN /\ session \in [Session -> Work]

\* An order is settled exactly when it is in a settlement, whoever races and
\* dies; and it is in one only, unless creations race.
SettledOnce ==
    \A o \in OrderId :
        LET homes == {s \in Existing : o \in settlement[s].orders}
        IN /\ order[o] <=> homes # {}
           /\ "race" \notin scene => Cardinality(homes) <= 1

\* The bank gave what was paid out; a settlement that was paid out is paid and
\* its payable too, and it is paid out once unless two payments race.
PayoutsExact ==
    /\ balance = Opening - SumTo([s \in SettlementId |-> settlement[s].payouts * settlement[s].commission],
                              Settled)
    /\ \A s \in SettlementId :
        /\ settlement[s].payouts > 0 => settlement[s].paid /\ settlement[s].payable
        /\ "race" \notin scene => settlement[s].payouts <= 1

\* What the platform kept of a settlement that a form created is posted once,
\* where the month was never closed; and never twice, unless requests race.
KeptPosted ==
    \A s \in SettlementId :
        settlement[s].by = "form" =>
            /\ "race" \notin scene => settlement[s].vouchers <= 1
            /\ "closing" \notin scene /\ Kept(settlement[s].orders) > 0 => settlement[s].vouchers >= 1

=============================================================================
