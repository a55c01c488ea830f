----------------------------- MODULE Purchasing -----------------------------
(***************************************************************************)
(* One purchase order and what hangs on it, as apps/purchase keeps them:    *)
(* its lines, the goods receipts, the IN movement of every received item,   *)
(* and the payable and the tax invoice made when all of it is received.     *)
(*                                                                         *)
(* A received item is inserted in autocommit after two comparisons with     *)
(* lines read earlier; its handler then works in one transaction.  Its      *)
(* movement locks the product first and the line follows, so that receipts  *)
(* of one product take turns, but it sees the lines of other products only  *)
(* as they were last committed: the transaction is two actions, the reading *)
(* and the commit, with the locks held between them.                        *)
(*                                                                         *)
(* Abstractions: a form receives one line (several are several receipts);   *)
(* the stock is the quantity of the active movements (StockLedger has the   *)
(* rest); a cancelled order is not edited; fixed assets are not here.       *)
(***************************************************************************)
EXTENDS Sums

CONSTANTS
    Lines,      \* the order's lines are numbered 1..Lines
    Items,      \* bound: items ever received
    Ordered,    \* the quantity every line is ordered in
    Quantity,   \* the quantities received
    Edited,     \* the quantities a line is edited to
    Products,   \* what the lines may be of: functions from the lines
    Session,    \* requests that may be in progress at once
    Scenes      \* the combinations of entry points, one of them for a behaviour

EntryPoint == {"status", "receive", "remove", "edit", "delete", "race",
               "crash", "closed"}

ASSUME PurchasingAssumption ==
    /\ Lines \in Nat \ {0} /\ Items \in Nat \ {0}
    /\ Ordered \in Nat \ {0} /\ Quantity \subseteq Nat \ {0}
    /\ Edited \subseteq Nat \ {0}
    /\ \A f \in Products : DOMAIN f = 1..Lines
    /\ Scenes \subseteq SUBSET EntryPoint

VARIABLES
    live,      \* the order is not deleted
    status,    \* PurchaseOrder.status
    line,      \* PurchaseOrderItem: quantity and received_quantity
    item,      \* GoodsReceiptItem, each with its movement
    payables,  \* the live AccountPayable rows of the order
    invoices,  \* the live TaxInvoice rows of the order
    product,   \* the product of every line
    session,   \* where each request is, and what it holds in memory
    scene      \* the entry points in use; "closed": the month is closed

vars == <<live, status, line, item, payables, invoices, product, session, scene>>

LineId == 1..Lines
ItemId == 1..Items
Status == {"DRAFT", "CONFIRMED", "PARTIAL_RECEIVED", "RECEIVED", "CANCELLED"}
\* PurchaseOrder.STATUS_TRANSITIONS
Allowed == [s \in Status |->
    CASE s = "DRAFT" -> {"CONFIRMED", "CANCELLED"}
      [] s = "CONFIRMED" -> {"PARTIAL_RECEIVED", "RECEIVED", "CANCELLED"}
      [] s = "PARTIAL_RECEIVED" -> {"RECEIVED", "CANCELLED"}
      [] OTHER -> {}]
Line == [ordered: Nat, received: Nat]
Item == [row: {"absent", "active", "retired"}, line: LineId, qty: Nat,
         moved: {"none", "active", "reversed"}]
NoItem == [row |-> "absent", line |-> 1, qty |-> 0, moved |-> "none"]
\* What a request holds: the line, item and quantity it works on, the status it
\* writes, the line as loaded, and whether it saw everything received.
Work == [stage: {"idle", "saving", "cancelling", "writing", "inserting",
                 "handling", "scanned", "removing", "editing", "lining"},
         line: LineId, item: ItemId, qty: Nat, new: Status, copy: Line,
         full: BOOLEAN]
Idle == [stage |-> "idle", line |-> 1, item |-> 1, qty |-> 0, new |-> "DRAFT",
         copy |-> [ordered |-> 0, received |-> 0], full |-> FALSE]

At(p, stage) == session[p].stage = stage
Goto(p, w) == session' = [session EXCEPT ![p] = w]
Done(p) == Goto(p, Idle)
Starts(p, entry) ==
    /\ entry \in scene
    /\ At(p, "idle")
    /\ "race" \in scene \/ \A q \in Session : At(q, "idle")
Then(w, stage) ==
    [stage |-> stage, line |-> w.line, item |-> w.item, qty |-> w.qty,
     new |-> w.new, copy |-> w.copy, full |-> w.full]
ToStatus(w, stage, s) ==
    [stage |-> stage, line |-> w.line, item |-> w.item, qty |-> w.qty,
     new |-> s, copy |-> w.copy, full |-> w.full]

Remaining(l) == line[l].ordered - line[l].received
Active(i) == item[i].row = "active"
QtyOn(i, l) == IF Active(i) /\ item[i].line = l THEN item[i].qty ELSE 0
\* The sum over the active items of a line.
Received(l) == SumTo([i \in ItemId |-> QtyOn(i, l)], Items)
\* Mutant: nothing is locked.
UnlockedAlways(l) == TRUE

\* A transaction that holds the lock of a product keeps the others waiting.
Unlocked(l) == \A q \in Session :
                   At(q, "scanned") => product[session[q].line] # product[l]

-----------------------------------------------------------------------------
(* The status of the order. *)

\* PurchaseOrderStatusChangeView
AskStatus(p, new) ==
    /\ Starts(p, "status")
    /\ live /\ new \in Allowed[status]
    /\ Goto(p, ToStatus(Idle, "saving", new))
    /\ UNCHANGED <<live, status, line, item, payables, invoices, product, scene>>

\* Mutant: received goods do not block the cancellation.
BlockedNever == FALSE

\* An order of which something was received is not cancelled.
Blocked == \E i \in ItemId : Active(i) /\ item[i].qty > 0

\* handle_po_cancellation compares with the row it reads; a blocked
\* cancellation writes the old status again.
BeginSave(p) ==
    LET new == session[p].new
    IN  /\ At(p, "saving") /\ live
        /\ \/ /\ new # "CANCELLED" \/ status = new
              /\ Goto(p, ToStatus(session[p], "writing", new))
           \/ /\ new = "CANCELLED" /\ status # new /\ Blocked
              /\ Goto(p, ToStatus(session[p], "writing", status))
           \/ /\ new = "CANCELLED" /\ status # new /\ ~Blocked
              /\ Goto(p, ToStatus(session[p], "cancelling", new))
        /\ UNCHANGED <<live, status, line, item, payables, invoices, product, scene>>

\* Payables and invoices are deleted (softly) ...
CancelPayables(p) ==
    /\ At(p, "cancelling")
    /\ payables' = 0 /\ invoices' = 0
    /\ Goto(p, Then(session[p], "writing"))
    /\ UNCHANGED <<live, status, line, item, product, scene>>

\* ... and the status is written last.
WriteStatus(p) ==
    /\ At(p, "writing")
    /\ status' = session[p].new
    /\ Done(p)
    /\ UNCHANGED <<live, line, item, payables, invoices, product, scene>>

\* PurchaseOrderDeleteView: drafts only.
DeleteDraft(p) ==
    /\ Starts(p, "delete")
    /\ live /\ status = "DRAFT"
    /\ live' = FALSE
    /\ UNCHANGED <<status, line, item, payables, invoices, product, session, scene>>

\* PurchaseOrderUpdateView: the order and a line are loaded ...
AskEdit(p, l, q) ==
    /\ Starts(p, "edit") /\ live /\ status # "CANCELLED"
    /\ Goto(p, [Idle EXCEPT !.stage = "editing", !.line = l, !.qty = q,
                            !.new = status, !.copy = line[l]])
    /\ UNCHANGED <<live, status, line, item, payables, invoices, product, scene>>
\* ... every column of the order is saved, the status included ...
EditOrder(p) ==
    /\ At(p, "editing")
    /\ status' = session[p].new
    /\ Goto(p, Then(session[p], "lining"))
    /\ UNCHANGED <<live, line, item, payables, invoices, product, scene>>
\* ... then those of the line, received_quantity included, and the order again.
EditLine(p) ==
    /\ At(p, "lining")
    /\ line' = [line EXCEPT ![session[p].line] =
                   [ordered |-> session[p].qty, received |-> session[p].copy.received]]
    /\ Goto(p, Then(session[p], "writing"))
    /\ UNCHANGED <<live, status, item, payables, invoices, product, scene>>

-----------------------------------------------------------------------------
(* Goods receipts. *)

\* Mutant: a line accepts what was ordered, again and again.
AcceptsOrdered(l, q) == q <= line[l].ordered

\* validate_receipt_quantity, and the same comparison in the view
Accepts(l, q) == q <= Remaining(l)

\* GoodsReceiptCreateView: whatever the status of the order.
AskReceive(p, l, q) ==
    /\ Starts(p, "receive")
    /\ live /\ Accepts(l, q)
    /\ Goto(p, [Idle EXCEPT !.stage = "inserting", !.line = l, !.qty = q,
                            !.copy = line[l]])
    /\ UNCHANGED <<live, status, line, item, payables, invoices, product, scene>>

\* The item is inserted; the line was read before.
InsertItem(p, i) ==
    /\ At(p, "inserting")
    /\ item[i].row = "absent" /\ \A j \in 1..(i-1) : item[j].row # "absent"
    /\ item' = [item EXCEPT ![i] = [row |-> "active", line |-> session[p].line,
                                    qty |-> session[p].qty, moved |-> "none"]]
    /\ Goto(p, [Then(session[p], "handling") EXCEPT !.item = i])
    /\ UNCHANGED <<live, status, line, payables, invoices, product, scene>>

\* Mutant: the quantity is added to the line as it was loaded.
TotalLoaded(p) == session[p].copy.received + session[p].qty

\* The received quantity of the line, added up again from its items.
TotalOf(p) == Received(session[p].line)

\* handle_goods_receipt: the product is locked, the line's total taken, and the
\* lines compared, this one as written here and the others as committed.  A
\* deleted order has no lines to compare.
ScanReceipt(p) ==
    LET l == session[p].line
        total == TotalOf(p)
        After(m) == IF m = l THEN total ELSE line[m].received
        full == ~live \/ \A m \in LineId : After(m) >= line[m].ordered
        part == live /\ \E m \in LineId : After(m) > 0
        new == IF full THEN "RECEIVED" ELSE IF part THEN "PARTIAL_RECEIVED" ELSE status
    IN  /\ At(p, "handling") /\ Unlocked(l)
        /\ Goto(p, [session[p] EXCEPT !.stage = "scanned", !.qty = total,
                                      !.new = new, !.full = full])
        /\ UNCHANGED <<live, status, line, item, payables, invoices, product, scene>>

\* Mutant: a payable is made at every complete receipt.
OneMoreAlways(n) == n + 1

\* _auto_create_ap, _auto_create_purchase_tax_invoice: once, and not in a
\* closed month.
OneMore(n) == IF n > 0 \/ "closed" \in scene THEN n ELSE n + 1

\* ... the movement, the line and the status are written; the status takes the
\* order's row, so that the payable is looked for by one receipt at a time.
CommitReceipt(p) ==
    LET w == session[p]
    IN  /\ At(p, "scanned")
        /\ item' = [item EXCEPT ![w.item].moved = "active"]
        /\ line' = [line EXCEPT ![w.line].received = w.qty]
        /\ status' = w.new
        /\ payables' = IF w.full THEN OneMore(payables) ELSE payables
        /\ invoices' = IF w.full THEN OneMore(invoices) ELSE invoices
        /\ Done(p)
        /\ UNCHANGED <<live, product, scene>>

\* An item is deactivated in the administration: the handler reads it, ...
AskRemove(p, i) ==
    /\ Starts(p, "remove")
    /\ Active(i)
    /\ Goto(p, [Idle EXCEPT !.stage = "removing", !.item = i, !.line = item[i].line,
                            !.qty = item[i].qty])
    /\ UNCHANGED <<live, status, line, item, payables, invoices, product, scene>>

LessReceived(l, q) == [ordered |-> line[l].ordered, received |-> line[l].received - q]

\* Mutant: what is left of the line is not compared.
CarriesAny(l, q) == TRUE

Carries(l, q) == line[l].received >= q

\* ... reverses its movement and takes the quantity off every line of the same
\* product, unless one would fall below zero; the order's status stays.
CommitRemove(p) ==
    LET w == session[p]
        same == {l \in LineId : live /\ product[l] = product[w.line]}
    IN  /\ At(p, "removing") /\ Unlocked(w.line)
        /\ IF \A l \in same : Carries(l, w.qty)
           THEN /\ line' = [l \in LineId |-> IF l \in same THEN LessReceived(l, w.qty)
                                             ELSE line[l]]
                /\ item' = [item EXCEPT ![w.item] =
                       [row |-> "retired", line |-> @.line, qty |-> @.qty,
                        moved |-> IF @.moved = "active" THEN "reversed" ELSE @.moved]]
           ELSE UNCHANGED <<line, item>>
        /\ Done(p)
        /\ UNCHANGED <<live, status, payables, invoices, product, scene>>

\* A request dies; a transaction that has not committed leaves nothing.
Die(p) ==
    /\ "crash" \in scene /\ ~At(p, "idle")
    /\ Done(p)
    /\ UNCHANGED <<live, status, line, item, payables, invoices, product, scene>>

-----------------------------------------------------------------------------
Init ==
    /\ scene \in Scenes
    /\ product \in Products
    /\ live = TRUE /\ status = "DRAFT"
    /\ line = [l \in LineId |-> [ordered |-> Ordered, received |-> 0]]
    /\ item = [i \in ItemId |-> NoItem]
    /\ payables = 0 /\ invoices = 0
    /\ session = [p \in Session |-> Idle]

StatusForms(p) ==
    \/ \E new \in Status : AskStatus(p, new)
    \/ BeginSave(p)
    \/ CancelPayables(p)
    \/ WriteStatus(p)
    \/ DeleteDraft(p)
    \/ \E l \in LineId, q \in Edited : AskEdit(p, l, q)
    \/ EditOrder(p)
    \/ EditLine(p)
Receipts(p) ==
    \/ \E l \in LineId, q \in Quantity : AskReceive(p, l, q)
    \/ \E i \in ItemId : InsertItem(p, i)
    \/ ScanReceipt(p)
    \/ CommitReceipt(p)
    \/ \E i \in ItemId : AskRemove(p, i)
    \/ CommitRemove(p)

Next == \E p \in Session : StatusForms(p) \/ Receipts(p) \/ Die(p)

Spec == Init /\ [][Next]_vars

-----------------------------------------------------------------------------
(* What holds. *)

\* Every row keeps its type; received_quantity, a positive column, never needs
\* its CHECK constraint.
TypeOK ==
    /\ live \in BOOLEAN /\ status \in Status
    /\ line \in [LineId -> Line] /\ item \in [ItemId -> Item]
    /\ payables \in Nat /\ invoices \in Nat
    /\ product \in Products
    /\ session \in [Session -> Work]
    /\ scene \in Scenes

AtRest == \A p \in Session : At(p, "idle")
Distinct == \A l, m \in LineId : product[l] = product[m] => l = m

\* However receipts and cancellations race and die, the supplier is owed for
\* the order once at most: the check for the payable follows the update of the
\* order's row, which lets one receipt pass at a time.
OnePayable == payables <= 1 /\ invoices <= 1

\* When nothing is in progress, a line's received_quantity is the total of its
\* items, though receipts of it raced: each took the total under the lock.
\* (Without crashes, forms that save a line as loaded, and two removals at
\* once; and a removal takes from every line of its product.)
ReceivedExact ==
    /\ AtRest /\ live
    /\ scene \cap {"crash", "edit"} = {} /\ ~({"remove", "race"} \subseteq scene)
    /\ "remove" \in scene => Distinct
    => \A l \in LineId : line[l].received = Received(l)

\* An order of one product is RECEIVED, and owed for, as soon as every line is
\* complete, even when its last two receipts race.  With several products it
\* is not: each of the two may see the other's line as incomplete.
CompletionNoticed ==
    /\ AtRest /\ live
    /\ scene \cap {"crash", "edit", "remove", "status"} = {}
    /\ ("race" \in scene => \A l, m \in LineId : product[l] = product[m])
    /\ \A l \in LineId : line[l].received >= line[l].ordered
    => status = "RECEIVED" /\ ("closed" \notin scene => payables = 1)

\* One request at a time and none dying: no line receives more than was
\* ordered.  (A removal opens the other lines of its product for more.)
OneAtATime == scene \cap {"race", "crash", "edit"} = {} /\ AtRest
NotOverReceived ==
    OneAtATime /\ ("remove" \in scene => Distinct)
        => \A l \in LineId : Received(l) <= line[l].ordered

\* A cancelled order has received nothing and owes nothing.
CancelledOwesNothing ==
    OneAtATime /\ status = "CANCELLED" =>
        payables = 0 /\ invoices = 0 /\ \A i \in ItemId : ~Active(i)
=============================================================================
