---------------------------- MODULE Production ----------------------------
(***************************************************************************)
(* A production plan, its work orders and the production records of them,   *)
(* with the stock movements every record stands for: goods in (PI-...) and  *)
(* materials out (PO-...), made and reversed by the handlers of             *)
(* apps/production.                                                         *)
(*                                                                         *)
(* A record is created in one transaction, whose movements lock the product *)
(* of the plan, so that the records of a plan take turns; but it decides on *)
(* the statuses of the order and the plan as its form loaded them.  A form  *)
(* of an order or a plan runs its cascade in one transaction and writes the *)
(* row after it; so does the form that edits a record.                      *)
(*                                                                         *)
(* Abstractions: one unit of one material for a unit of product, no         *)
(* defects; costs, serial numbers and batches are not here.                 *)
(***************************************************************************)
EXTENDS Sums

CONSTANTS
    Orders,     \* the work orders of the plan are numbered 1..Orders
    Records,    \* bound: records ever created
    Needed,     \* WorkOrder.quantity
    Quantity,   \* the good quantities of the forms
    Chosen,     \* the statuses the forms of orders and plans set
    Session,    \* requests that may be in progress at once
    Scenes      \* the combinations of entry points

\* "longer": record 1 is followed by records 10, 11, ...
EntryPoint == {"record", "form", "edit", "race", "crash", "longer"}

VARIABLES
    plan,       \* ProductionPlan.status
    order,      \* WorkOrder.status
    record,     \* ProductionRecord, each with its movements
    session,    \* where each request is, and what it loaded
    scene

vars == <<plan, order, record, session, scene>>

OrderId == 1..Orders
RecordId == 1..Records
PlanStatus == {"DRAFT", "CONFIRMED", "IN_PROGRESS", "COMPLETED", "CANCELLED"}
OrderStatus == {"PENDING", "IN_PROGRESS", "COMPLETED", "CANCELLED"}
\* goods, used: the quantities of the active movements; numbered: movements
\* were made, so that their unique numbers are taken.
Record == [row: {"absent", "active", "retired"}, order: OrderId, good: Nat,
           goods: Nat, used: Nat, numbered: BOOLEAN]
NoRecord == [row |-> "absent", order |-> 1, good |-> 0, goods |-> 0, used |-> 0,
             numbered |-> FALSE]
Work == [stage: {"idle", "recording", "planning", "ordering", "writingPlan",
                 "writingOrder", "editing"},
         order: OrderId, record: RecordId, qty: Nat, plan: PlanStatus,
         status: OrderStatus]
Idle == [stage |-> "idle", order |-> 1, record |-> 1, qty |-> 0, plan |-> "DRAFT",
         status |-> "PENDING"]

At(p, stage) == session[p].stage = stage
Goto(p, w) == session' = [session EXCEPT ![p] = w]
Done(p) == Goto(p, Idle)
Starts(p, entry) ==
    /\ entry \in scene
    /\ At(p, "idle")
    /\ "race" \in scene \/ \A q \in Session : At(q, "idle")
Active(r) == record[r].row = "active"

\* The records whose number continues that of record r.
Longer(r) == IF "longer" \in scene /\ r = 1 THEN RecordId \ {1} ELSE {}

\* Mutant: a work order is complete when more than its quantity is made.
CompleteLate(total) == total > Needed

Complete(total) == total >= Needed

\* The good quantity of the active records of an order, in a table of records.
Produced(table, o) ==
    SumTo([r \in RecordId |-> IF table[r].row = "active" /\ table[r].order = o
                              THEN table[r].good ELSE 0], Records)

\* _update_work_order_status: the status loaded decides what is written.
OrderAfter(table, o, loaded) ==
    IF Complete(Produced(table, o))
    THEN IF loaded # "COMPLETED" THEN "COMPLETED" ELSE order[o]
    ELSE IF loaded = "COMPLETED" THEN "IN_PROGRESS" ELSE order[o]

\* _update_plan_status: all orders are read again, the plan is as loaded.
PlanAfter(orders, loaded) ==
    LET all == \A o \in OrderId : orders[o] = "COMPLETED"
    IN  IF all /\ loaded = "IN_PROGRESS" THEN "COMPLETED"
        ELSE IF ~all /\ loaded = "COMPLETED" THEN "IN_PROGRESS" ELSE plan

\* What follows a record's movements in its transaction.
Follow(table, o, w) ==
    LET orders == [order EXCEPT ![o] = OrderAfter(table, o, w.status)]
    IN  /\ record' = table
        /\ order' = orders
        /\ plan' = PlanAfter(orders, w.plan)

-----------------------------------------------------------------------------
\* ProductionRecordCreateView: the form loads the order and the plan ...
AskRecord(p, o, q) ==
    /\ Starts(p, "record")
    /\ Goto(p, [Idle EXCEPT !.stage = "recording", !.order = o, !.qty = q,
                            !.plan = plan, !.status = order[o]])
    /\ UNCHANGED <<plan, order, record, scene>>

\* ... and one transaction inserts the record and runs auto_stock_on_production.
CommitRecord(p, r) ==
    LET w == session[p]
        new == [row |-> "active", order |-> w.order, good |-> w.qty,
                goods |-> w.qty, used |-> w.qty, numbered |-> w.qty > 0]
    IN  /\ At(p, "recording")
        /\ record[r].row = "absent" /\ \A q \in 1..(r-1) : record[q].row # "absent"
        /\ Follow([record EXCEPT ![r] = new], w.order, w)
        /\ Done(p)
        /\ UNCHANGED scene

\* ProductionRecordUpdateView: the row is written first ...
AskEdit(p, r, q) ==
    /\ Starts(p, "edit") /\ Active(r)
    /\ record' = [record EXCEPT ![r].good = q]
    /\ Goto(p, [Idle EXCEPT !.stage = "editing", !.record = r, !.order = record[r].order,
                            !.qty = q, !.plan = plan, !.status = order[record[r].order]])
    /\ UNCHANGED <<plan, order, scene>>

\* ... and the handler's transaction reverses the old movements, the materials
\* of longer numbers among them, and makes new ones under the same numbers: if
\* those are taken it is rolled back.
CommitEdit(p) ==
    LET w == session[p]
        r == w.record
        Cleared(s) == IF s = r \/ s \in Longer(r)
                      THEN [record[s] EXCEPT !.used = 0, !.goods = IF s = r THEN 0 ELSE @]
                      ELSE record[s]
        table == [s \in RecordId |->
            IF s = r THEN [Cleared(s) EXCEPT !.goods = w.qty, !.used = w.qty,
                                             !.numbered = @ \/ w.qty > 0]
            ELSE Cleared(s)]
    IN  /\ At(p, "editing")
        /\ IF w.qty > 0 /\ record[r].numbered
           THEN UNCHANGED <<plan, order, record>>
           ELSE Follow(table, w.order, w)
        /\ Done(p)
        /\ UNCHANGED scene

-----------------------------------------------------------------------------
(* The forms of orders and plans set any status: here, one of those chosen. *)

\* Mutant: the materials stay consumed.
ReversedGoods(w) ==
    [row |-> "retired", order |-> w.order, good |-> w.good, goods |-> 0,
     used |-> w.used, numbered |-> w.numbered]

\* _cancel_production_records_stock, for one record.
Reversed(w) ==
    [row |-> "retired", order |-> w.order, good |-> w.good, goods |-> 0,
     used |-> 0, numbered |-> w.numbered]
Cancelled(os) ==
    [r \in RecordId |-> IF Active(r) /\ record[r].order \in os
                        THEN Reversed(record[r]) ELSE record[r]]

AskOrder(p, o, s) ==
    /\ Starts(p, "form") /\ s # order[o]
    /\ Goto(p, [Idle EXCEPT !.stage = "ordering", !.order = o, !.status = s])
    /\ UNCHANGED <<plan, order, record, scene>>
\* cancel_work_order_cascade, if the row is not cancelled yet
CascadeOrder(p) ==
    LET w == session[p]
    IN  /\ At(p, "ordering")
        /\ IF w.status = "CANCELLED" /\ order[w.order] # "CANCELLED"
           THEN record' = Cancelled({w.order}) ELSE UNCHANGED record
        /\ Goto(p, [w EXCEPT !.stage = "writingOrder"])
        /\ UNCHANGED <<plan, order, scene>>
WriteOrder(p) ==
    /\ At(p, "writingOrder")
    /\ order' = [order EXCEPT ![session[p].order] = session[p].status]
    /\ Done(p)
    /\ UNCHANGED <<plan, record, scene>>

AskPlan(p, s) ==
    /\ Starts(p, "form") /\ s # plan
    /\ Goto(p, [Idle EXCEPT !.stage = "planning", !.plan = s])
    /\ UNCHANGED <<plan, order, record, scene>>
\* cancel_plan_cascade: the orders of the plan are cancelled with it.
CascadePlan(p) ==
    LET w == session[p]
    IN  /\ At(p, "planning")
        /\ IF w.plan = "CANCELLED" /\ plan # "CANCELLED"
           THEN /\ record' = Cancelled(OrderId)
                /\ order' = [o \in OrderId |-> "CANCELLED"]
           ELSE UNCHANGED <<record, order>>
        /\ Goto(p, [w EXCEPT !.stage = "writingPlan"])
        /\ UNCHANGED <<plan, scene>>
WritePlan(p) ==
    /\ At(p, "writingPlan")
    /\ plan' = session[p].plan
    /\ Done(p)
    /\ UNCHANGED <<order, record, scene>>

\* A request dies between its transactions.
Die(p) ==
    /\ "crash" \in scene /\ ~At(p, "idle")
    /\ Done(p)
    /\ UNCHANGED <<plan, order, record, scene>>

-----------------------------------------------------------------------------
\* A plan in progress with its orders at work.
Init ==
    /\ scene \in Scenes
    /\ plan = "IN_PROGRESS"
    /\ order = [o \in OrderId |-> "IN_PROGRESS"]
    /\ record = [r \in RecordId |-> NoRecord]
    /\ session = [p \in Session |-> Idle]

Recording(p) ==
    \/ \E o \in OrderId, q \in Quantity : AskRecord(p, o, q)
    \/ \E r \in RecordId : CommitRecord(p, r)
    \/ \E r \in RecordId, q \in Quantity : AskEdit(p, r, q)
    \/ CommitEdit(p)
Forms(p) ==
    \/ \E o \in OrderId, s \in Chosen \cap OrderStatus : AskOrder(p, o, s)
    \/ CascadeOrder(p)
    \/ WriteOrder(p)
    \/ \E s \in Chosen \cap PlanStatus : AskPlan(p, s)
    \/ CascadePlan(p)
    \/ WritePlan(p)

Next == \E p \in Session : Recording(p) \/ Forms(p) \/ Die(p)

Spec == Init /\ [][Next]_vars

-----------------------------------------------------------------------------
(* What holds. *)

TypeOK ==
    /\ plan \in PlanStatus /\ order \in [OrderId -> OrderStatus]
    /\ record \in [RecordId -> Record]
    /\ session \in [Session -> Work] /\ scene \in Scenes

AtRest == \A p \in Session : At(p, "idle")

\* However records race with the cancellation of their orders and plan and
\* whatever dies: every record has as much material out as goods in; and unless
\* records are edited, one in force has what it says and one that is not,
\* nothing.  (Unless numbers continue each other, see CommitEdit.)
StockFollowsRecords ==
    \A r \in RecordId :
        /\ "longer" \notin scene => record[r].used = record[r].goods
        /\ "edit" \notin scene =>
               record[r].goods = IF Active(r) THEN record[r].good ELSE 0

\* Where no form sets a status and no record is edited, the records of a plan
\* may race: at rest an order is COMPLETED exactly when enough is made, and the
\* plan exactly when all its orders are.
CompletionNoticed ==
    AtRest /\ scene \cap {"form", "edit"} = {} =>
        /\ \A o \in OrderId :
               order[o] = "COMPLETED" <=> Produced(record, o) >= Needed
        /\ plan = "COMPLETED" <=> \A o \in OrderId : order[o] = "COMPLETED"
=============================================================================
