---------------------------- MODULE StockLedger ----------------------------
(***************************************************************************)
(* The stock of one product, as apps/inventory keeps it: the movement rows  *)
(* (StockMovement), and the three figures its signal handlers derive from   *)
(* them -- Product.current_stock, the WarehouseStock rows and the StockLot  *)
(* rows.  Products do not share any of them, so one product is enough.      *)
(*                                                                         *)
(* Requests run in autocommit: Model.save sends pre_save, writes the row    *)
(* and sends post_save, and each handler has a transaction of its own.  An  *)
(* action below is one committed transaction; a session (a web request, an  *)
(* API call, an admin page) takes them in order, other sessions take theirs *)
(* in between, and a session may die between two.  The handlers' UPDATE of  *)
(* the Product row holds its lock to the end of their transaction, which is *)
(* why a handler's block is one action.                                     *)
(*                                                                         *)
(* Abstractions: quantities are small naturals; the movement types are the  *)
(* three classes the handlers tell apart; a missing WarehouseStock row is a *)
(* row of quantity 0 (both leave a subtraction without effect); movement    *)
(* dates follow the row numbers, so the LOT order is the row order; unit    *)
(* prices and the average cost are left out.                                *)
(***************************************************************************)
EXTENDS Sums

CONSTANTS
    Warehouses,   \* warehouses are numbered 1..Warehouses
    Rows,         \* bound: movement rows ever inserted, numbered 1..Rows
    Transfers,    \* bound: transfer documents ever inserted
    Reversals,    \* bound: a row reversed that often is not fetched again
    Session,      \* requests that may be in progress at once
    Quantity,     \* the quantities the forms accept
    Method,       \* Product.valuation_method: "FIFO" (AVG alike) or "LIFO"
    Entry         \* the entry points in use, a subset of EntryPoint

EntryPoint == {"receive", "adjust", "issue", "admin", "transfer",
               "cancel", "delete", "patch", "crash"}

ASSUME LedgerAssumption ==
    /\ Warehouses \in Nat \ {0} /\ Rows \in Nat /\ Transfers \in Nat /\ Reversals \in Nat
    /\ Quantity \subseteq Nat \ {0}
    /\ Method \in {"FIFO", "LIFO"}
    /\ Entry \subseteq EntryPoint

VARIABLES
    stock,      \* Product.current_stock
    ws,         \* WarehouseStock.quantity, by warehouse
    row,        \* the StockMovement table
    lot,        \* the StockLot table, by the movement that created the lot
    transfer,   \* the StockTransfer table
    session,    \* where each session is, and what it holds in memory
    posted,     \* history: times the effect of a row was committed
    reversed    \* history: times its reversal was

tables == <<stock, ws, row, lot, transfer>>
vars == <<stock, ws, row, lot, transfer, session, posted, reversed>>

Warehouse == 1..Warehouses
RowId == 1..Rows
TransferId == 1..Transfers
Status == {"absent", "active", "cancelled", "deleted"}

\* INBOUND_TYPES: IN, PROD_IN and RETURN open a LOT, ADJ_PLUS does not.
\* OUTBOUND_TYPES: OUT, ADJ_MINUS and PROD_OUT are handled alike.
Inbound == {"IN", "ADJ_PLUS"}
LotInbound == {"IN"}
Outbound == {"OUT"}
Kind == Inbound \cup Outbound

Movement == [status: Status, kind: Kind, wh: Warehouse, qty: Nat,
             transfer: 0..Transfers]
Transfer == [status: Status, from: Warehouse, to: Warehouse, qty: Nat]
Lot == [initial: Nat, remaining: Nat, active: BOOLEAN]

\* The updates of one column.
Holding(l, q) == [initial |-> l.initial, remaining |-> q, active |-> l.active]
Shut(l) == [initial |-> l.initial, remaining |-> l.remaining, active |-> FALSE]
Marked(r, s) == [status |-> s, kind |-> r.kind, wh |-> r.wh, qty |-> r.qty,
                 transfer |-> r.transfer]

NoMovement == [status |-> "absent", kind |-> "IN", wh |-> 1, qty |-> 0,
               transfer |-> 0]
NoTransfer == [status |-> "absent", from |-> 1, to |-> 1, qty |-> 0]
NoLot == [initial |-> 0, remaining |-> 0, active |-> FALSE]

\* A session holds the number of the row it works on and a copy of that row.
Stage == {"idle", "validated", "inserted", "cancelling", "reversed",
          "deleting", "patching", "transferring"}
Work == [stage: Stage, ref: Nat, copy: Movement]
Idle == [stage |-> "idle", ref |-> 0, copy |-> NoMovement]

-----------------------------------------------------------------------------
(* The effect of the handlers on the three figures. *)

Lesser(a, b) == IF a <= b THEN a ELSE b
Taken(f) == {i \in DOMAIN f : f[i].status # "absent"}
\* Primary keys are handed out in order.
NextRow(m) == m \in RowId /\ m \notin Taken(row) /\ \A i \in 1..(m-1) : i \in Taken(row)
NextTransfer(t) == t \in TransferId /\ t \notin Taken(transfer)
                   /\ \A i \in 1..(t-1) : i \in Taken(transfer)

\* Mutants: an upsert that forgets an existing row; an unclamped subtraction.
AddedNever(w, q) == ws
SubtractedUnclamped(w, q) == [ws EXCEPT ![w] = @ - q]

\* _update_warehouse_stock: the subtraction stops at zero.
Added(w, q) == [ws EXCEPT ![w] = @ + q]
Subtracted(w, q) == [ws EXCEPT ![w] = @ - Lesser(q, @)]

\* How much of amount falls on row i when the rows 1..Rows, holding size,
\* are served oldest first, or newest first.
Share(size, amount, oldestFirst, i) ==
    LET before == IF oldestFirst THEN SumTo(size, i-1)
                  ELSE SumTo(size, Rows) - SumTo(size, i)
    IN  IF amount <= before THEN 0 ELSE Lesser(size[i], amount - before)

\* _consume_lots_on_outbound: FIFO takes the oldest LOTs of the warehouse
\* first; a shortage is only logged.
Consumed(w, q) ==
    LET size == [i \in RowId |-> IF lot[i].active /\ row[i].wh = w
                                 THEN lot[i].remaining ELSE 0]
    IN  [i \in RowId |-> Holding(lot[i],
            lot[i].remaining - Share(size, q, Method = "FIFO", i))]

\* Mutant: a restoration that does not ask how much of a LOT was consumed.
RestoredBlindly(w, q) ==
    LET size == [i \in RowId |-> IF lot[i].active /\ row[i].wh = w
                                 THEN lot[i].initial ELSE 0]
    IN  [i \in RowId |-> Holding(lot[i],
            lot[i].remaining + Share(size, q, Method # "FIFO", i))]

\* _restore_lots_on_outbound_cancel: the consumed part of the LOTs of the
\* warehouse, in the opposite order, whoever consumed it.
Restored(w, q) ==
    LET size == [i \in RowId |-> IF lot[i].active /\ row[i].wh = w
                                 THEN lot[i].initial - lot[i].remaining ELSE 0]
    IN  [i \in RowId |-> Holding(lot[i],
            lot[i].remaining + Share(size, q, Method # "FIFO", i))]

\* _create_lot_on_inbound
Opened(m, q) == [lot EXCEPT ![m] = [initial |-> q, remaining |-> q, active |-> TRUE]]
\* _soft_delete_lots_on_inbound_cancel
Closed(m) == [lot EXCEPT ![m] = Shut(@)]

\* stock_non_negative: a subtraction of more fails.
Covers(q) == stock >= q

\* update_stock_on_save for the row m, as the copy r in memory has it.
Apply(m, r) ==
    \/ /\ r.kind \in Inbound
       /\ stock' = stock + r.qty
       /\ ws' = Added(r.wh, r.qty)
       /\ lot' = IF r.kind \in LotInbound THEN Opened(m, r.qty) ELSE lot
    \/ /\ r.kind \in Outbound
       /\ Covers(r.qty)
       /\ stock' = stock - r.qty
       /\ ws' = Subtracted(r.wh, r.qty)
       /\ lot' = Consumed(r.wh, r.qty)

\* reverse_stock_on_soft_delete; update_stock_on_delete leaves the LOTs alone.
Revert(m, r, withLots) ==
    \/ /\ r.kind \in Inbound
       /\ Covers(r.qty)
       /\ stock' = stock - r.qty
       /\ ws' = Subtracted(r.wh, r.qty)
       /\ lot' = IF withLots THEN Closed(m) ELSE lot
    \/ /\ r.kind \in Outbound
       /\ stock' = stock + r.qty
       /\ ws' = Added(r.wh, r.qty)
       /\ lot' = IF withLots THEN Restored(r.wh, r.qty) ELSE lot

-----------------------------------------------------------------------------
(* Sessions. *)

Goto(p, stage, ref, copy) ==
    session' = [session EXCEPT ![p] = [stage |-> stage, ref |-> ref, copy |-> copy]]
Done(p) == Goto(p, "idle", 0, NoMovement)
At(p, stage) == session[p].stage = stage
Insert(m, r) == row' = [row EXCEPT ![m] = r]
NewMovement(k, w, q, t) ==
    [status |-> "active", kind |-> k, wh |-> w, qty |-> q, transfer |-> t]
EntryOf(k) == IF k = "IN" THEN "receive" ELSE IF k = "ADJ_PLUS" THEN "adjust" ELSE "issue"

\* StockInCreateView: nothing to validate, the row is committed at once.
InsertInbound(p, k, w, q) ==
    /\ EntryOf(k) \in Entry
    /\ At(p, "idle") /\ k \in Inbound
    /\ \E m \in RowId :
         /\ NextRow(m)
         /\ Insert(m, NewMovement(k, w, q, 0))
         /\ Goto(p, "inserted", m, NewMovement(k, w, q, 0))
    /\ UNCHANGED <<stock, ws, lot, transfer, posted, reversed>>

\* validate_outbound_stock: the Product row is locked, compared and released.
\* A shortage ends the request with a ValidationError.
ValidateOutbound(p, w, q) ==
    /\ "issue" \in Entry
    /\ At(p, "idle") /\ stock >= q
    /\ Goto(p, "validated", 0, NewMovement("OUT", w, q, 0))
    /\ UNCHANGED <<tables, posted, reversed>>

\* The INSERT of the validated row commits.
InsertOutbound(p) ==
    /\ At(p, "validated")
    /\ \E m \in RowId :
         /\ NextRow(m)
         /\ Insert(m, session[p].copy)
         /\ Goto(p, "inserted", m, session[p].copy)
    /\ UNCHANGED <<stock, ws, lot, transfer, posted, reversed>>

\* Mutant: the handler runs again for a row it has posted.
PostRetried(p) ==
    /\ At(p, "inserted")
    /\ Apply(session[p].ref, session[p].copy)
    /\ posted' = [posted EXCEPT ![session[p].ref] = @ + 1]
    /\ UNCHANGED <<row, transfer, session, reversed>>

\* update_stock_on_save commits.
Post(p) ==
    /\ At(p, "inserted")
    /\ Apply(session[p].ref, session[p].copy)
    /\ posted' = [posted EXCEPT ![session[p].ref] = @ + 1]
    /\ Done(p)
    /\ UNCHANGED <<row, transfer, reversed>>

\* update_stock_on_save hits the CHECK constraint: its transaction is rolled
\* back and the request ends with an IntegrityError, but the row stays.
PostFails(p) ==
    /\ At(p, "inserted")
    /\ session[p].copy.kind \in Outbound /\ ~Covers(session[p].copy.qty)
    /\ Done(p)
    /\ UNCHANGED <<tables, posted, reversed>>

\* The admin pages, and the views wrapped in transaction.atomic, create a
\* movement in a single transaction, validation included.
CreateAtomically(p, k, w, q) ==
    /\ "admin" \in Entry
    /\ At(p, "idle")
    /\ \E m \in RowId :
         /\ NextRow(m)
         /\ Insert(m, NewMovement(k, w, q, 0))
         /\ Apply(m, NewMovement(k, w, q, 0))
         /\ posted' = [posted EXCEPT ![m] = @ + 1]
    /\ UNCHANGED <<transfer, session, reversed>>

-----------------------------------------------------------------------------
(* Cancelling, deleting and editing a movement. *)

\* Mutant: get_queryset without the is_active filter.
FetchAny(p, m, stage) ==
    /\ At(p, "idle")
    /\ row[m].status # "absent" /\ reversed[m] < Reversals + 1
    /\ Goto(p, stage, m, row[m])
    /\ UNCHANGED <<tables, posted, reversed>>

\* BaseModelViewSet.get_queryset, and ActiveManager: active rows only.
Fetch(p, m, stage) ==
    /\ At(p, "idle")
    /\ row[m].status = "active" /\ reversed[m] < Reversals
    /\ Goto(p, stage, m, row[m])
    /\ UNCHANGED <<tables, posted, reversed>>

\* Mutant: the row marked without the handler.
ReadForMark(p, m) == "cancel" \in Entry /\ Fetch(p, m, "reversed")

\* BaseModelViewSet.perform_destroy -> soft_delete; reverse_stock_on_soft_delete
\* reads the old row outside its transaction.
ReadForCancel(p, m) == "cancel" \in Entry /\ Fetch(p, m, "cancelling")

\* The block of reverse_stock_on_soft_delete commits.
CommitReversal(p) ==
    /\ At(p, "cancelling")
    /\ Revert(session[p].ref, session[p].copy, TRUE)
    /\ reversed' = [reversed EXCEPT ![session[p].ref] = @ + 1]
    /\ Goto(p, "reversed", session[p].ref, session[p].copy)
    /\ UNCHANGED <<row, transfer, posted>>

\* The reversal of a receipt whose goods are gone hits the CHECK constraint.
ReversalFails(p) ==
    /\ At(p, "cancelling") \/ At(p, "deleting")
    /\ session[p].copy.kind \in Inbound /\ ~Covers(session[p].copy.qty)
    /\ Done(p)
    /\ UNCHANGED <<tables, posted, reversed>>

\* Mutant: the row reversed and never marked.
MarkForgotten(p) ==
    /\ At(p, "reversed")
    /\ Done(p)
    /\ UNCHANGED <<tables, posted, reversed>>

\* The UPDATE of is_active commits (a row deleted meanwhile is not updated).
MarkCancelled(p) ==
    /\ At(p, "reversed")
    /\ row' = IF row[session[p].ref].status = "active"
              THEN [row EXCEPT ![session[p].ref] = Marked(@, "cancelled")] ELSE row
    /\ Done(p)
    /\ UNCHANGED <<stock, ws, lot, transfer, posted, reversed>>

\* StockMovementAdmin: the page reads the row, then Model.delete removes it and
\* update_stock_on_delete reverses it in the same transaction.
ReadForDelete(p, m) == "delete" \in Entry /\ Fetch(p, m, "deleting")

Delete(p) ==
    /\ At(p, "deleting")
    /\ Revert(session[p].ref, session[p].copy, FALSE)
    /\ reversed' = [reversed EXCEPT ![session[p].ref] = @ + 1]
    /\ row' = [row EXCEPT ![session[p].ref] = Marked(@, "deleted")]
    /\ Done(p)
    /\ UNCHANGED <<transfer, posted>>

\* PATCH of a quantity through StockMovementViewSet: the row is read, and all
\* its fields are written back; neither handler reacts.  (Django turns the
\* UPDATE of a row deleted meanwhile into an INSERT: left out.)
ReadForPatch(p, m) == "patch" \in Entry /\ Fetch(p, m, "patching")

WritePatch(p, q) ==
    /\ At(p, "patching")
    /\ row[session[p].ref].status # "deleted"
    /\ LET r == session[p].copy
       IN  Insert(session[p].ref, NewMovement(r.kind, r.wh, q, r.transfer))
    /\ Done(p)
    /\ UNCHANGED <<stock, ws, lot, transfer, posted, reversed>>

-----------------------------------------------------------------------------
(* Transfers between warehouses. *)

\* StockTransferCreateView: the document is committed first.
InsertTransfer(p, w1, w2, q) ==
    /\ "transfer" \in Entry
    /\ At(p, "idle") /\ w1 # w2
    /\ \E t \in TransferId :
         /\ NextTransfer(t)
         /\ transfer' = [transfer EXCEPT
              ![t] = [status |-> "active", from |-> w1, to |-> w2, qty |-> q]]
         /\ Goto(p, "transferring", t, NoMovement)
    /\ UNCHANGED <<stock, ws, row, lot, posted, reversed>>

\* Mutant: the source warehouse not checked.
SourceUnchecked(d) == TRUE

\* create_transfer_movements locks the source WarehouseStock and compares.
SourceHolds(d) == ws[d.from] >= d.qty

\* create_transfer_movements: TF-OUT and TF-IN are inserted and posted in one
\* transaction, the source row being locked.
PostTransfer(p) ==
    LET t == session[p].ref
        d == transfer[t]
    IN  /\ At(p, "transferring")
        /\ SourceHolds(d)
        /\ stock >= d.qty        \* validate_outbound_stock for TF-OUT
        /\ \E m \in RowId :
             /\ NextRow(m) /\ m + 1 \in RowId \ Taken(row)
             /\ row' = [row EXCEPT ![m] = NewMovement("OUT", d.from, d.qty, t),
                                   ![m+1] = NewMovement("IN", d.to, d.qty, t)]
             /\ ws' = [Subtracted(d.from, d.qty) EXCEPT ![d.to] = @ + d.qty]
             /\ lot' = [Consumed(d.from, d.qty) EXCEPT
                          ![m+1] = [initial |-> d.qty, remaining |-> d.qty, active |-> TRUE]]
             /\ posted' = [posted EXCEPT ![m] = @ + 1, ![m+1] = @ + 1]
        /\ Done(p)
        /\ UNCHANGED <<stock, transfer, reversed>>

\* The ValidationError leaves the document without movements.
TransferFails(p) ==
    LET d == transfer[session[p].ref]
    IN  /\ At(p, "transferring")
        /\ ~SourceHolds(d) \/ stock < d.qty
        /\ Done(p)
        /\ UNCHANGED <<tables, posted, reversed>>

\* reverse_transfer_on_soft_delete, from the admin page of the transfer: every
\* movement of the transfer that is still active is cancelled, TF-OUT first,
\* in the transaction of the page.
CancelTransfer(p, t) ==
    LET d == transfer[t]
        Live(k) == {m \in RowId : row[m].transfer = t /\ row[m].status = "active"
                                                      /\ row[m].kind = k}
        Total(k) == SumTo([m \in RowId |-> IF m \in Live(k) THEN row[m].qty ELSE 0], Rows)
    IN  /\ "transfer" \in Entry
        /\ At(p, "idle")
        /\ d.status = "active"
        /\ stock + Total("OUT") >= Total("IN")
        /\ stock' = stock + Total("OUT") - Total("IN")
        /\ ws' = [Added(d.from, Total("OUT")) EXCEPT ![d.to] = @ - Lesser(Total("IN"), @)]
        /\ lot' = [i \in RowId |->
                     IF i \in Live("IN") THEN Closed(i)[i]
                     ELSE Restored(d.from, Total("OUT"))[i]]
        /\ row' = [i \in RowId |-> IF i \in Live("IN") \cup Live("OUT")
                                   THEN Marked(row[i], "cancelled") ELSE row[i]]
        /\ reversed' = [i \in RowId |-> IF i \in Live("IN") \cup Live("OUT")
                                        THEN reversed[i] + 1 ELSE reversed[i]]
        /\ transfer' = [transfer EXCEPT ![t] =
              [status |-> "cancelled", from |-> d.from, to |-> d.to, qty |-> d.qty]]
        /\ UNCHANGED <<session, posted>>

\* The process of a session dies between two transactions.
Crash(p) ==
    /\ "crash" \in Entry
    /\ ~At(p, "idle")
    /\ Done(p)
    /\ UNCHANGED <<tables, posted, reversed>>

-----------------------------------------------------------------------------
Init ==
    /\ stock = 0
    /\ ws = [w \in Warehouse |-> 0]
    /\ row = [m \in RowId |-> NoMovement]
    /\ lot = [m \in RowId |-> NoLot]
    /\ transfer = [t \in TransferId |-> NoTransfer]
    /\ session = [p \in Session |-> Idle]
    /\ posted = [m \in RowId |-> 0]
    /\ reversed = [m \in RowId |-> 0]

Create(p) ==
    \E w \in Warehouse, q \in Quantity :
        \/ \E k \in Kind : InsertInbound(p, k, w, q) \/ CreateAtomically(p, k, w, q)
        \/ ValidateOutbound(p, w, q)
        \/ \E w2 \in Warehouse : InsertTransfer(p, w, w2, q)

Change(p) ==
    \/ \E m \in RowId : ReadForCancel(p, m) \/ ReadForDelete(p, m) \/ ReadForPatch(p, m)
    \/ \E q \in Quantity : WritePatch(p, q)
    \/ \E t \in TransferId : CancelTransfer(p, t)

Continue(p) ==
    \/ InsertOutbound(p) \/ Post(p) \/ PostFails(p)
    \/ CommitReversal(p) \/ ReversalFails(p) \/ MarkCancelled(p) \/ Delete(p)
    \/ PostTransfer(p) \/ TransferFails(p)
    \/ Crash(p)

Next == \E p \in Session : Create(p) \/ Change(p) \/ Continue(p)

Spec == Init /\ [][Next]_vars

-----------------------------------------------------------------------------
(* Properties. *)

\* Every table row and every session is of its type; in particular the
\* CHECK constraints on current_stock, WarehouseStock and StockLot hold.
TypeOK ==
    /\ stock \in Nat
    /\ ws \in [Warehouse -> Nat]
    /\ row \in [RowId -> Movement]
    /\ lot \in [RowId -> Lot]
    /\ transfer \in [TransferId -> Transfer]
    /\ session \in [Session -> Work]
    /\ posted \in [RowId -> Nat]
    /\ reversed \in [RowId -> Nat]

\* The warehouses together never hold less than Product.current_stock: the
\* clamp in _update_warehouse_stock can leave them too much, never too little.
WarehousesCoverStock == SumTo(ws, Warehouses) >= stock

\* No LOT ever holds more than it received, although a cancelled issue gives
\* its quantity back to LOTs it did not consume.
LotWithinReceipt == \A m \in RowId : lot[m].remaining <= lot[m].initial

\* A movement leaves the active set only after its reversal has committed: a
\* crash can make the ledger reverse a row twice, never forget to.
CancelledWasReversed ==
    \A m \in RowId : row[m].status \in {"cancelled", "deleted"} => reversed[m] > 0

\* The effect of a row is committed at most once, and by no session but the
\* one that inserted it.
PostedOnce == \A m \in RowId : posted[m] <= 1

\* Product.current_stock is the sum of the active inbound movements less the
\* sum of the active outbound ones, whenever no request is half way.
Signed(r) == IF r.kind \in Inbound THEN r.qty ELSE 0 - r.qty
ActiveTotal == SumTo([m \in RowId |-> IF row[m].status = "active"
                                      THEN Signed(row[m]) ELSE 0], Rows)
AllIdle == \A p \in Session : At(p, "idle")
LedgerExact == AllIdle => stock = ActiveTotal

\* WarehouseStock is the breakdown of Product.current_stock by warehouse.
WarehousesAddUp == SumTo(ws, Warehouses) = stock

\* A transfer changes neither the product's stock nor the warehouses' total.
TransferKeepsTotals ==
    [][(\E p \in Session : PostTransfer(p))
         => /\ stock' = stock
            /\ SumTo(ws', Warehouses) = SumTo(ws, Warehouses)]_vars

\* A transfer document that is active, and that no request is still working
\* on, has its movements: a refused transfer leaves nothing behind.
TransferAllOrNothing ==
    \A t \in TransferId :
        transfer[t].status = "active" =>
            \/ \E p \in Session : At(p, "transferring") /\ session[p].ref = t
            \/ \E m \in RowId : row[m].transfer = t

\* The ledger of a product implements a perpetual inventory: an entry is
\* booked when its effect commits and voided when its reversal does.
Perpetual == INSTANCE PerpetualLedger WITH
    Entries <- Rows,
    balance <- stock,
    state <- [m \in RowId |-> IF reversed[m] > 0 THEN "voided"
                              ELSE IF posted[m] > 0 THEN "booked" ELSE "open"],
    amount <- [m \in RowId |-> IF posted[m] > 0 THEN Signed(row[m]) ELSE 0]
ImplementsPerpetual == Perpetual!Spec
=============================================================================
