-------------------------- MODULE OrderFulfilment --------------------------
(***************************************************************************)
(* Orders of one stockable product from confirmation to closing, as         *)
(* apps/sales keeps them: the Order and OrderItem rows, the Shipments, the  *)
(* OUT movements the handlers issue, and the two figures of the product     *)
(* every order draws on, Product.current_stock and Product.reserved_stock.  *)
(*                                                                         *)
(* The views save the order in autocommit.  Model.save first runs the       *)
(* pre_save handler auto_stock_out_on_ship, which compares the new status   *)
(* with the row it reads, and commits its consequences in transactions of   *)
(* their own; the status itself is written last.  An action below is one of *)
(* those transactions, or one of the reads a later one depends on; requests *)
(* interleave between them, and a request may die there.                    *)
(*                                                                         *)
(* Abstractions: one product and one item per order (the handlers loop over *)
(* items within one transaction); StockLedger has the detail of a movement, *)
(* here an issue takes from current_stock and its reversal gives back;      *)
(* receivables, invoices, commissions and registrations are not here; the   *)
(* read of reserved_stock and the F() update of it are one step.            *)
(***************************************************************************)
EXTENDS Sums

CONSTANTS
    Orders,        \* orders are numbered 1..Orders
    Shipments,     \* bound: shipments ever created
    Session,       \* requests that may be in progress at once
    Quantity,      \* the quantities of the forms
    Opening,       \* current_stock at the start
    MostReserved,  \* bound: reserved_stock, which repeated requests raise for ever
    Scenes         \* the entry points each session uses, one choice for a behaviour

EntryPoint == {"status", "partial", "shipment", "pay", "modify",
               "edit", "erase", "retire", "undo", "crash"}

ASSUME FulfilmentAssumption ==
    /\ Orders \in Nat \ {0} /\ Shipments \in Nat
    /\ Opening \in Nat /\ MostReserved \in Nat
    /\ Quantity \subseteq Nat \ {0}
    /\ Scenes \subseteq [Session -> SUBSET EntryPoint]

VARIABLES
    stock,      \* Product.current_stock
    reserved,   \* Product.reserved_stock
    order,      \* the Order table, each row with its item
    full,       \* the movement OUT-<order>-<item> of a full shipment, by order
    shipment,   \* the Shipment table, each row with its item and its movement
    session,    \* where each request is, and what it holds in memory
    scene       \* the entry points each session uses, "crash": it may die

vars == <<stock, reserved, order, full, shipment, session, scene>>

OrderId == 1..Orders
ShipmentId == 1..Shipments
Status == {"DRAFT", "CONFIRMED", "PARTIAL_SHIPPED", "SHIPPED", "DELIVERED",
           "CLOSED", "CANCELLED"}
\* Order.STATUS_TRANSITIONS
Allowed == [s \in Status |->
    CASE s = "DRAFT" -> {"CONFIRMED", "CANCELLED"}
      [] s = "CONFIRMED" -> {"PARTIAL_SHIPPED", "SHIPPED", "CANCELLED"}
      [] s = "PARTIAL_SHIPPED" -> {"PARTIAL_SHIPPED", "SHIPPED", "CANCELLED"}
      [] s = "SHIPPED" -> {"DELIVERED"}
      [] s = "DELIVERED" -> {"CLOSED"}
      [] OTHER -> {}]

\* row: "active", "retired" (is_active is False) or "erased" (deleted).
OrderRow == [row: {"active", "retired", "erased"}, status: Status, qty: Nat,
             shipped: Nat, paid: BOOLEAN]
Movement == [state: {"none", "active", "reversed"}, qty: Nat]
NoMovement == [state |-> "none", qty |-> 0]

ShipmentStatus == {"PREPARING", "SHIPPED", "IN_TRANSIT", "DELIVERED"}
\* ShipmentUpdateView.SHIPMENT_STATUS_TRANSITIONS
ShipmentAllowed == [s \in ShipmentStatus |->
    CASE s = "PREPARING" -> {"SHIPPED"}
      [] s = "SHIPPED" -> {"IN_TRANSIT", "DELIVERED"}
      [] s = "IN_TRANSIT" -> {"DELIVERED"}
      [] OTHER -> {}]
ShipmentRow == [row: {"absent", "active", "retired", "erased"}, order: OrderId,
                status: ShipmentStatus, item: Movement]

Stage == {"idle", "asked", "reserving", "shipping", "issuing", "releasing",
          "delivering", "cancelling", "writing", "picking", "paying", "closing",
          "modifying", "editing", "updating", "sending"}
\* What a request holds: the rows it works on (0: none), the status it writes
\* and the one its handler read, the order as it was loaded, a quantity it
\* computed, the quantity of a form (0: none), whether the whole row is saved,
\* and the shipment status of a form.
Work == [stage: Stage, order: 0..Orders, shipment: 0..Shipments,
         new: Status, old: Status, copy: OrderRow, amount: Nat,
         edit: Nat, whole: BOOLEAN, sent: ShipmentStatus]

BlankOrder == [row |-> "active", status |-> "DRAFT", qty |-> 0, shipped |-> 0,
               paid |-> FALSE]
NoShipment == [row |-> "absent", order |-> 1, status |-> "PREPARING",
               item |-> NoMovement]

\* The updates of a request's variables, of an order and of a shipment.
Holds(stage, o, new, copy, amount) ==
    [stage |-> stage, order |-> o, shipment |-> 0, new |-> new, old |-> copy.status,
     copy |-> copy, amount |-> amount, edit |-> 0, whole |-> FALSE,
     sent |-> "PREPARING"]
Idle == Holds("idle", 0, "DRAFT", BlankOrder, 0)
WithEdit(w, q) ==
    [stage |-> w.stage, order |-> w.order, shipment |-> w.shipment, new |-> w.new,
     old |-> w.old, copy |-> w.copy, amount |-> w.amount, edit |-> q,
     whole |-> TRUE, sent |-> w.sent]
WithShipment(w, s, status) ==
    [stage |-> w.stage, order |-> w.order, shipment |-> s, new |-> w.new,
     old |-> w.old, copy |-> w.copy, amount |-> w.amount, edit |-> w.edit,
     whole |-> w.whole, sent |-> status]
Then(w, stage, old, amount) ==
    [stage |-> stage, order |-> w.order, shipment |-> w.shipment, new |-> w.new,
     old |-> old, copy |-> w.copy, amount |-> amount, edit |-> w.edit,
     whole |-> w.whole, sent |-> w.sent]
WithStatus(r, s) == [row |-> r.row, status |-> s, qty |-> r.qty,
                     shipped |-> r.shipped, paid |-> r.paid]
WithShipped(r, s, n) == [row |-> r.row, status |-> s, qty |-> r.qty,
                         shipped |-> n, paid |-> r.paid]
WithRow(r, a) == [row |-> a, status |-> r.status, qty |-> r.qty,
                  shipped |-> r.shipped, paid |-> r.paid]
Sent(r, s) == [row |-> r.row, order |-> r.order, status |-> s, item |-> r.item]
Dropped(r, a) == [row |-> a, order |-> r.order, status |-> r.status, item |-> r.item]
\* Mutant: the movement of a cancelled order left active.
UndoneForgotten(m) == m

Undone(m) == [state |-> IF m.state = "active" THEN "reversed" ELSE m.state, qty |-> m.qty]

-----------------------------------------------------------------------------
Lesser(a, b) == IF a <= b THEN a ELSE b
Live(o) == order[o].row = "active"

\* Mutant: partial shipments not taken into account.
RemainingWhole(r) == r.qty

\* OrderItem.remaining_quantity
Remaining(r) == r.qty - r.shipped
Taking(m) == IF m.state = "active" THEN m.qty ELSE 0
\* The shipments of an order, and what its partial issues have taken.  A
\* deleted shipment leaves its movement behind.
ShipmentsOf(o) == {s \in ShipmentId : shipment[s].order = o /\ shipment[s].row = "active"}
IssuedInParts(o) ==
    SumTo([s \in ShipmentId |-> IF shipment[s].order = o
                                THEN Taking(shipment[s].item) ELSE 0], Shipments)
Issued(o) == Taking(full[o]) + IssuedInParts(o)
\* ShipmentTracking rows, written at every change of status, protect a shipment.
Tracked(r) == \/ r.status \in {"IN_TRANSIT", "DELIVERED"}
              \/ r.status = "SHIPPED" /\ r.item.state = "none"
NextShipment(s) == s \in ShipmentId /\ shipment[s].row = "absent"
                   /\ \A t \in 1..(s-1) : shipment[t].row # "absent"

At(p, stage) == session[p].stage = stage
Goto(p, w) == session' = [session EXCEPT ![p] = w]
Done(p) == Goto(p, Idle)
Continue(p, stage) == Goto(p, Then(session[p], stage, session[p].old, session[p].amount))
Of(p) == session[p].order
Row(p) == order[Of(p)]
Present(p) == Of(p) # 0 /\ Row(p).row # "erased"
Update(o, r) == order' = [order EXCEPT ![o] = r]

-----------------------------------------------------------------------------
(* Changing the status of an order. *)

\* OrderStatusChangeView: the active order is loaded and the map consulted.
AskStatus(p, o, new) ==
    /\ "status" \in scene[p]
    /\ At(p, "idle") /\ Live(o)
    /\ new \in Allowed[order[o].status]
    /\ Goto(p, Holds("asked", o, new, order[o], 0))
    /\ UNCHANGED <<stock, reserved, order, full, shipment>>

\* What auto_stock_out_on_ship does first for a change from old to new.
Consequence(old, new) ==
    IF old = new THEN "writing"
    ELSE CASE new = "CONFIRMED" -> "reserving"
           [] new = "SHIPPED" -> "shipping"
           [] new = "DELIVERED" -> "delivering"
           [] new = "CANCELLED" -> "cancelling"
           [] OTHER -> "writing"

\* The handler reads the row again and compares.
Begin(p) ==
    /\ At(p, "asked") /\ Present(p)
    /\ Goto(p, Then(session[p], Consequence(Row(p).status, session[p].new),
                    Row(p).status, 0))
    /\ UNCHANGED <<stock, reserved, order, full, shipment>>

\* An increase of reserved_stock, within the bound.
ReserveTo(n) == n <= MostReserved /\ reserved' = n

\* _auto_reserve_stock
Reserve(p) ==
    /\ At(p, "reserving") /\ Present(p)
    /\ ReserveTo(reserved + Row(p).qty)
    /\ Continue(p, "writing")
    /\ UNCHANGED <<stock, order, full, shipment>>

\* Mutant: a full shipment keeps the reservation.
AfterShippingForgotten(p) == "writing"

\* A full shipment is followed by a release if the order held a reservation.
AfterShipping(p) == IF session[p].old \in {"CONFIRMED", "PARTIAL_SHIPPED"}
                    THEN "releasing" ELSE "writing"

\* _auto_full_ship, before its transaction has a lock: a movement of an
\* earlier attempt, or nothing left to ship, ends it; a shortage raises.
PickFull(p) ==
    LET remaining == Remaining(Row(p))
    IN  /\ At(p, "shipping") /\ Present(p)
        /\ \/ /\ full[Of(p)].state = "active" \/ remaining <= 0
              /\ Continue(p, AfterShipping(p))
           \/ /\ full[Of(p)].state # "active" /\ remaining > 0
              /\ IF stock >= remaining
                 THEN Goto(p, Then(session[p], "issuing", session[p].old, remaining))
                 ELSE Done(p)
        /\ UNCHANGED <<stock, reserved, order, full, shipment>>

\* Mutant: current_stock not reduced.
IssueFullUncounted(p) ==
    LET o == Of(p)
        q == session[p].amount
    IN  /\ At(p, "issuing") /\ Present(p)
        /\ full[o].state = "none" /\ stock >= q
        /\ full' = [full EXCEPT ![o] = [state |-> "active", qty |-> q]]
        /\ Update(o, WithShipped(Row(p), Row(p).status, Row(p).qty))
        /\ Continue(p, AfterShipping(p))
        /\ UNCHANGED <<stock, reserved, shipment>>

\* Mutant: the movement number not unique, so that a second one is issued.
IssueFullAgain(p) ==
    LET o == Of(p)
        q == session[p].amount
    IN  /\ At(p, "issuing") /\ Present(p)
        /\ stock >= q
        /\ stock' = stock - q
        /\ full' = [full EXCEPT ![o] = [state |-> "active", qty |-> Taking(full[o]) + q]]
        /\ Update(o, WithShipped(Row(p), Row(p).status, Row(p).qty))
        /\ Continue(p, AfterShipping(p))
        /\ UNCHANGED <<reserved, shipment>>

\* The block of _auto_full_ship.  Its movement number is unique, and the issue
\* is validated against current_stock under the product's lock.
IssueFull(p) ==
    LET o == Of(p)
        q == session[p].amount
    IN  /\ At(p, "issuing") /\ Present(p)
        /\ full[o].state = "none" /\ stock >= q
        /\ stock' = stock - q
        /\ full' = [full EXCEPT ![o] = [state |-> "active", qty |-> q]]
        /\ Update(o, WithShipped(Row(p), Row(p).status, Row(p).qty))
        /\ Continue(p, AfterShipping(p))
        /\ UNCHANGED <<reserved, shipment>>

IssueFullFails(p) ==
    /\ At(p, "issuing") /\ Present(p)
    /\ full[Of(p)].state # "none" \/ stock < session[p].amount
    /\ Done(p)
    /\ UNCHANGED <<stock, reserved, order, full, shipment>>

\* Mutant: the release not capped by what is reserved.
ReleaseUncapped(q) == reserved' = reserved - q

\* _auto_release_reserved_stock gives back no more than there is.
GiveBack(q) == reserved' = reserved - Lesser(q, reserved)

\* It is always called for the whole quantity of the order.
Release(p) ==
    /\ At(p, "releasing") /\ Present(p)
    /\ GiveBack(Row(p).qty)
    /\ Continue(p, "writing")
    /\ UNCHANGED <<stock, order, full, shipment>>

\* Mutant: a partial shipment not given back.
HasShippedInFull(old) == old \in {"SHIPPED", "DELIVERED"}

\* The statuses whose cancellation gives goods back.
HasShipped(old) == old \in {"PARTIAL_SHIPPED", "SHIPPED", "DELIVERED"}

\* _auto_cancel_order, one transaction: the reservation of what was not
\* shipped is released and, if the handler read a status after CONFIRMED, the
\* movements are reversed.
CancelOrder(p) ==
    LET o == Of(p)
        r == Row(p)
        held == session[p].old \in {"CONFIRMED", "PARTIAL_SHIPPED"} /\ Remaining(r) > 0
    IN  /\ At(p, "cancelling") /\ Present(p)
        /\ GiveBack(IF held THEN Remaining(r) ELSE 0)
        /\ IF HasShipped(session[p].old)
           THEN /\ stock' = stock + Issued(o)
                /\ full' = [full EXCEPT ![o] = Undone(@)]
                /\ shipment' = [s \in ShipmentId |->
                     IF shipment[s].order = o
                     THEN [row |-> shipment[s].row, order |-> o,
                           status |-> shipment[s].status, item |-> Undone(shipment[s].item)]
                     ELSE shipment[s]]
                /\ Update(o, WithShipped(r, r.status, 0))
           ELSE UNCHANGED <<stock, full, shipment, order>>
        /\ Continue(p, "writing")

\* _sync_shipments_delivered saves the open shipments one by one.
DeliverShipment(p, s) ==
    /\ At(p, "delivering") /\ Present(p)
    /\ s \in ShipmentsOf(Of(p)) /\ shipment[s].status # "DELIVERED"
    /\ shipment' = [shipment EXCEPT ![s] = Sent(@, "DELIVERED")]
    /\ UNCHANGED <<stock, reserved, order, full, session>>

\* _try_close_order, still inside pre_save: a paid order is loaded again, set
\* to CLOSED and saved.
CloseIfPaid(p) ==
    /\ At(p, "delivering") /\ Present(p)
    /\ \A s \in ShipmentsOf(Of(p)) : shipment[s].status = "DELIVERED"
    /\ IF Row(p).paid /\ Live(Of(p))
       THEN Update(Of(p), WithStatus(Row(p), "CLOSED"))
       ELSE UNCHANGED order
    /\ Continue(p, "writing")
    /\ UNCHANGED <<stock, reserved, full, shipment>>

\* Model.save writes the row at last: the status alone, or, for a form, every
\* column as it was loaded.
WriteOrder(p) ==
    LET w == session[p]
        next == IF w.shipment # 0 THEN "sending"
                ELSE IF w.edit # 0 THEN "editing" ELSE "idle"
    IN  /\ At(p, "writing") /\ Present(p)
        /\ IF w.whole
           THEN Update(w.order, [row |-> w.copy.row, status |-> w.copy.status,
                                 qty |-> Row(p).qty, shipped |-> Row(p).shipped,
                                 paid |-> w.copy.paid])
           ELSE Update(w.order, WithStatus(Row(p), w.new))
        /\ IF next = "idle" THEN Done(p) ELSE Continue(p, next)
        /\ UNCHANGED <<stock, reserved, full, shipment>>

\* A request whose order was deleted under it finds no items and no row.
RowGone(p) ==
    /\ Of(p) # 0 /\ ~Present(p)
    /\ Done(p)
    /\ UNCHANGED <<stock, reserved, order, full, shipment>>

-----------------------------------------------------------------------------
(* Shipments. *)

\* Mutant: the status of the order not checked.
AskPartialAlways(p, o, q) ==
    /\ "partial" \in scene[p]
    /\ At(p, "idle") /\ Live(o)
    /\ Remaining(order[o]) >= 0
    /\ Goto(p, Holds("picking", o, order[o].status, order[o],
                     Lesser(q, Remaining(order[o]))))
    /\ UNCHANGED <<stock, reserved, order, full, shipment>>

\* PartialShipmentView: the order's status is checked and its items are read
\* (one step here); a form quantity above the remaining one is cut down to it.
AskPartial(p, o, q) ==
    /\ "partial" \in scene[p]
    /\ At(p, "idle") /\ Live(o)
    /\ order[o].status \in {"CONFIRMED", "PARTIAL_SHIPPED"}
    /\ Remaining(order[o]) >= 0
    /\ Goto(p, Holds("picking", o, order[o].status, order[o],
                     Lesser(q, Remaining(order[o]))))
    /\ UNCHANGED <<stock, reserved, order, full, shipment>>

\* _check_order_shipment_status, which compares with the order in memory.
StatusAfter(r, loaded) ==
    LET new == IF r.shipped >= r.qty THEN "SHIPPED" ELSE "PARTIAL_SHIPPED"
    IN  IF r.shipped > 0 /\ loaded # new THEN new ELSE r.status

\* The transaction of PartialShipmentView and auto_stock_on_shipment_item.
CommitPartial(p) ==
    LET o == Of(p)
        q == session[p].amount
        r == WithShipped(Row(p), Row(p).status, Row(p).shipped + q)
    IN  /\ At(p, "picking") /\ Present(p)
        /\ stock >= q
        /\ \E s \in ShipmentId :
             /\ NextShipment(s)
             /\ shipment' = [shipment EXCEPT ![s] =
                  [row |-> "active", order |-> o, status |-> "SHIPPED",
                   item |-> [state |-> "active", qty |-> q]]]
        /\ stock' = stock - q
        /\ GiveBack(q)
        /\ Update(o, WithStatus(r, StatusAfter(r, session[p].copy.status)))
        /\ Done(p)
        /\ UNCHANGED full

PartialFails(p) ==
    /\ At(p, "picking") /\ Present(p)
    /\ stock < session[p].amount
    /\ Done(p)
    /\ UNCHANGED <<stock, reserved, order, full, shipment>>

\* ShipmentCreateView: a shipment in preparation, without items.
CreateShipment(p, o) ==
    /\ "shipment" \in scene[p]
    /\ At(p, "idle") /\ Live(o)
    /\ \E s \in ShipmentId :
         /\ NextShipment(s)
         /\ shipment' = [shipment EXCEPT ![s] =
              [row |-> "active", order |-> o, status |-> "PREPARING", item |-> NoMovement]]
    /\ UNCHANGED <<stock, reserved, order, full, session>>

\* ShipmentUpdateView.form_valid
AskShipment(p, s, status) ==
    LET o == shipment[s].order
    IN  /\ "shipment" \in scene[p]
        /\ At(p, "idle") /\ shipment[s].row = "active" /\ order[o].row # "erased"
        /\ status \in ShipmentAllowed[shipment[s].status]
        /\ Goto(p, WithShipment(Holds("updating", o, "DELIVERED", order[o], 0), s, status))
        /\ UNCHANGED <<stock, reserved, order, full, shipment>>

\* sync_order_on_shipment_delivered: with the last open shipment the order is
\* loaded, set to DELIVERED and saved, before the shipment itself is.
SyncOrder(p) ==
    LET w == session[p]
        last == /\ w.sent = "DELIVERED" /\ shipment[w.shipment].status # "DELIVERED"
                /\ \A s \in ShipmentsOf(w.order) \ {w.shipment} :
                     shipment[s].status = "DELIVERED"
                /\ Row(p).status \in {"SHIPPED", "PARTIAL_SHIPPED"}
    IN  /\ At(p, "updating") /\ Present(p)
        /\ Continue(p, IF last THEN "asked" ELSE "sending")
        /\ UNCHANGED <<stock, reserved, order, full, shipment>>

\* The form saves the whole row, as active as it was loaded.
WriteShipment(p) ==
    LET s == session[p].shipment
    IN  /\ At(p, "sending") /\ Present(p)
        /\ shipment' = [shipment EXCEPT ![s] = Sent(Dropped(@, "active"), session[p].sent)]
        /\ Done(p)
        /\ UNCHANGED <<stock, reserved, order, full>>

-----------------------------------------------------------------------------
(* Payment, as far as it closes orders. *)

\* OrderPaymentView
AskPay(p, o) ==
    /\ "pay" \in scene[p]
    /\ At(p, "idle") /\ Live(o) /\ ~order[o].paid
    /\ Goto(p, Holds("paying", o, "CLOSED", order[o], 0))
    /\ UNCHANGED <<stock, reserved, order, full, shipment>>

\* _auto_create_payment reads is_paid again; its transaction sets it (one step
\* here: the money itself is not modelled).
CommitPay(p) ==
    LET r == Row(p)
    IN  /\ At(p, "paying") /\ Present(p)
        /\ IF r.paid THEN Done(p) ELSE Continue(p, "closing")
        /\ Update(Of(p), [row |-> r.row, status |-> r.status, qty |-> r.qty,
                          shipped |-> r.shipped, paid |-> TRUE])
        /\ UNCHANGED <<stock, reserved, full, shipment>>

\* _try_close_order, by the status the request loaded at its start.
ClosePaid(p) ==
    /\ At(p, "closing") /\ Present(p)
    /\ IF session[p].copy.status = "DELIVERED" /\ Live(Of(p)) /\ Row(p).paid
       THEN Update(Of(p), WithStatus(Row(p), "CLOSED"))
       ELSE UNCHANGED order
    /\ Done(p)
    /\ UNCHANGED <<stock, reserved, full, shipment>>

-----------------------------------------------------------------------------
(* Editing and deleting an order. *)

\* OrderModifyView: a confirmed order of which nothing was shipped.
AskModify(p, o, q) ==
    /\ "modify" \in scene[p]
    /\ At(p, "idle") /\ Live(o)
    /\ order[o].status = "CONFIRMED" /\ order[o].shipped = 0
    /\ q # order[o].qty
    /\ Goto(p, WithEdit(Holds("modifying", o, "CONFIRMED", order[o], 0), q))
    /\ UNCHANGED <<stock, reserved, order, full, shipment>>

\* Its transaction releases, saves the form and the items as they were loaded,
\* and reserves again; saving the form runs the handler.
CommitModify(p) ==
    LET w == session[p]
        r == Row(p)
        again == IF r.status # "CONFIRMED" THEN r.qty ELSE 0
    IN  /\ At(p, "modifying") /\ Present(p)
        /\ ReserveTo(reserved - Lesser(r.qty, reserved) + again + w.edit)
        /\ Update(w.order, [row |-> w.copy.row, status |-> w.copy.status, qty |-> w.edit,
                            shipped |-> w.copy.shipped, paid |-> w.copy.paid])
        /\ Done(p)
        /\ UNCHANGED <<stock, full, shipment>>

\* OrderUpdateView: any order, whatever its status.  The form is saved, then
\* the items, then the form once more (with update_total just before it).
AskEdit(p, o, q) ==
    /\ "edit" \in scene[p]
    /\ At(p, "idle") /\ Live(o)
    /\ q # order[o].qty
    /\ Goto(p, WithEdit(Holds("asked", o, order[o].status, order[o], 0), q))
    /\ UNCHANGED <<stock, reserved, order, full, shipment>>

EditItem(p) ==
    LET w == session[p]
    IN  /\ At(p, "editing") /\ Present(p)
        /\ Update(w.order, [row |-> Row(p).row, status |-> Row(p).status, qty |-> w.edit,
                            shipped |-> w.copy.shipped, paid |-> Row(p).paid])
        /\ Goto(p, WithEdit(Then(w, "asked", w.old, 0), 0))
        /\ UNCHANGED <<stock, reserved, full, shipment>>

\* POST to OrderDeleteView and to ShipmentDeleteView: DeleteView.post calls
\* form_valid and so Model.delete, never the delete method the views define.
\* Shipment items and tracking rows protect what they refer to.  Left out: a
\* row erased while a form of it is being saved, which would insert it again.
EraseOrder(p, o) ==
    LET mine == {s \in ShipmentId : shipment[s].order = o
                                    /\ shipment[s].row \in {"active", "retired"}}
    IN  /\ "erase" \in scene[p]
        /\ At(p, "idle") /\ Live(o)
        /\ \A r \in Session : ~(session[r].order = o /\ session[r].whole)
        /\ \A s \in mine : shipment[s].item.state = "none" /\ ~Tracked(shipment[s])
        /\ Update(o, WithRow(order[o], "erased"))
        /\ shipment' = [s \in ShipmentId |-> IF s \in mine THEN Dropped(shipment[s], "erased")
                                             ELSE shipment[s]]
        /\ UNCHANGED <<stock, reserved, full, session>>

EraseShipment(p, s) ==
    /\ "erase" \in scene[p]
    /\ At(p, "idle") /\ shipment[s].row = "active" /\ ~Tracked(shipment[s])
    /\ \A r \in Session : session[r].shipment # s
    /\ shipment' = [shipment EXCEPT ![s] = Dropped(@, "erased")]
    /\ UNCHANGED <<stock, reserved, order, full, session>>

\* DELETE of the API: soft_delete, which changes no status.
RetireOrder(p, o) ==
    /\ "retire" \in scene[p]
    /\ At(p, "idle") /\ Live(o)
    /\ Update(o, WithRow(order[o], "retired"))
    /\ UNCHANGED <<stock, reserved, full, shipment, session>>

\* ShipmentDeleteView.delete, which an HTTP DELETE reaches: it restores the
\* reservation, and so does the handler of the item's soft_delete.
UndoShipment(p, s) ==
    LET o == shipment[s].order
        q == shipment[s].item.qty
    IN  /\ "undo" \in scene[p]
        /\ At(p, "idle") /\ shipment[s].row = "active" /\ order[o].row # "erased"
        /\ order[o].shipped >= q
        /\ stock' = stock + Taking(shipment[s].item)
        /\ ReserveTo(reserved + q + q)
        /\ Update(o, WithShipped(order[o], order[o].status, order[o].shipped - q))
        /\ shipment' = [shipment EXCEPT ![s] =
              [row |-> "retired", order |-> o, status |-> shipment[s].status,
               item |-> Undone(shipment[s].item)]]
        /\ UNCHANGED <<full, session>>

\* The process of a request dies between two transactions.
Crash(p) ==
    /\ "crash" \in scene[p]
    /\ ~At(p, "idle")
    /\ Done(p)
    /\ UNCHANGED <<stock, reserved, order, full, shipment>>

-----------------------------------------------------------------------------
\* The orders as OrderCreateView leaves them, but for those deleted as drafts;
\* shipments may have been created and deleted too.
Init ==
    /\ scene \in Scenes
    /\ stock = Opening
    /\ reserved = 0
    /\ \E q \in [OrderId -> Quantity], row \in [OrderId -> {"active", "erased"}] :
         order = [o \in OrderId |-> [row |-> row[o], status |-> "DRAFT", qty |-> q[o],
                                     shipped |-> 0, paid |-> FALSE]]
    /\ full = [o \in OrderId |-> NoMovement]
    /\ \E n \in 0..Shipments :
         shipment = [s \in ShipmentId |-> IF s <= n THEN Dropped(NoShipment, "erased")
                                          ELSE NoShipment]
    /\ session = [p \in Session |-> Idle]

Ask(p) ==
    \E o \in OrderId :
        \/ \E new \in Status : AskStatus(p, o, new)
        \/ \E q \in Quantity : AskPartial(p, o, q) \/ AskModify(p, o, q) \/ AskEdit(p, o, q)
        \/ CreateShipment(p, o) \/ AskPay(p, o) \/ EraseOrder(p, o) \/ RetireOrder(p, o)

Handle(p) ==
    \E s \in ShipmentId :
        \/ \E status \in ShipmentStatus : AskShipment(p, s, status)
        \/ DeliverShipment(p, s) \/ EraseShipment(p, s) \/ UndoShipment(p, s)

Proceed(p) ==
    \/ Begin(p) \/ Reserve(p) \/ PickFull(p) \/ IssueFull(p) \/ IssueFullFails(p)
    \/ Release(p) \/ CancelOrder(p) \/ CloseIfPaid(p) \/ WriteOrder(p) \/ RowGone(p)
    \/ CommitPartial(p) \/ PartialFails(p) \/ SyncOrder(p) \/ WriteShipment(p)
    \/ CommitPay(p) \/ ClosePaid(p) \/ CommitModify(p) \/ EditItem(p)
    \/ Crash(p)

Next ==
    /\ UNCHANGED scene
    /\ \E p \in Session : Ask(p) \/ Handle(p) \/ Proceed(p)

Spec == Init /\ [][Next]_vars

-----------------------------------------------------------------------------
(* Properties. *)

\* Every table row and every request is of its type; in particular neither
\* figure of the product ever goes below zero.
TypeOK ==
    /\ stock \in Nat
    /\ reserved \in Nat
    /\ order \in [OrderId -> OrderRow]
    /\ full \in [OrderId -> Movement]
    /\ shipment \in [ShipmentId -> ShipmentRow]
    /\ session \in [Session -> Work]
    /\ scene \in Scenes

\* Nothing is lost or made up: what is in stock and what the orders' movements
\* hold is what there was, whatever was shipped, cancelled or deleted.
StockConserved ==
    stock + SumTo([o \in OrderId |-> Issued(o)], Orders) = Opening

Without(E) == \A p \in Session : scene[p] \cap E = {}
OneAtATime == \E p \in Session : \A q \in Session \ {p} : scene[q] = {}

NeverOverShipped == \A o \in OrderId : Issued(o) <= order[o].qty
ShippedIsIssued == \A o \in OrderId : order[o].shipped = Issued(o)

\* When orders are shipped whole, no order is issued more than it asked for, and
\* shipped_quantity is what it was issued, whatever any number of requests do to
\* the status of the order and of its shipments, and wherever they die: the
\* number of the movement is unique.
IssuedOnce ==
    Without({"partial", "modify", "edit", "undo"}) => NeverOverShipped /\ ShippedIsIssued

\* When one request follows the other, shipped_quantity is what the movements of
\* the order hold, partial shipments and a full one taken together, through
\* every entry point; also where requests die between their transactions, unless
\* shipments are undone.  Unless its quantity is edited after the fact, no order
\* is issued more than it asked for.
ShippedExact ==
    OneAtATime /\ (Without({"crash"}) \/ Without({"undo"})) =>
        /\ ShippedIsIssued
        /\ Without({"edit"}) => NeverOverShipped

\* When one request follows the other and none dies, a cancelled order holds no
\* goods, through whichever entry points it went.
CancelledEmpty ==
    OneAtATime /\ Without({"crash"}) =>
        \A o \in OrderId : order[o].status = "CANCELLED" => Issued(o) = 0

\* When one request follows the other, the statuses an order goes through are
\* those of STATUS_TRANSITIONS, although its forms write the status back as they
\* loaded it, and wherever requests die; but for payments and the forms of
\* shipments, which close and deliver an order from other statuses.
FollowsMap ==
    \A o \in OrderId : order'[o].status # order[o].status
                          => order'[o].status \in Allowed[order[o].status]
StatusFollowsMap == [][OneAtATime /\ Without({"pay", "shipment"}) => FollowsMap]_vars

\* Once a request is over, reserved_stock is what the confirmed orders still
\* have to be shipped.
AllIdle == \A p \in Session : At(p, "idle")
Outstanding(o) == IF Live(o) /\ order[o].status \in {"CONFIRMED", "PARTIAL_SHIPPED"}
                  THEN order[o].qty - order[o].shipped ELSE 0
ReservedExact ==
    AllIdle => reserved = SumTo([o \in OrderId |-> Outstanding(o)], Orders)

\* When one request follows the other, none dies, and orders are modified,
\* shipped whole, paid and cancelled, reserved_stock is that.
ReservationsExact ==
    OneAtATime /\ Without(EntryPoint \ {"status", "pay", "modify"})
        => ReservedExact
=============================================================================
