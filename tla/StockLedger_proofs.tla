------------------------ MODULE StockLedger_proofs ------------------------
(***************************************************************************)
(* The ledger of a product, for any number of warehouses, rows, transfers   *)
(* and sessions, any quantities and any choice of entry points.  Then how   *)
(* far Product.current_stock can be trusted:                                *)
(*   - without the PATCH of a quantity, current_stock is what the handlers  *)
(*     posted less what they reversed, under every interleaving and crash;  *)
(*   - for one request at a time that does not die, every active row is     *)
(*     posted once and no other row counts, so that current_stock is the    *)
(*     total of the active rows, and the ledger implements                  *)
(*     PerpetualLedger.                                                     *)
(***************************************************************************)
EXTENDS StockLedger, Sums_proofs

-----------------------------------------------------------------------------
(* The operators on the derived tables. *)

\* A row's share is never more than the row holds.
LEMMA ShareBound ==
    ASSUME NEW size \in [RowId -> Nat], NEW amount \in Nat,
           NEW oldest \in BOOLEAN, NEW i \in RowId
    PROVE  Share(size, amount, oldest, i) \in 0..size[i]
<1> DEFINE before == IF oldest THEN SumTo(size, i-1)
                     ELSE SumTo(size, Rows) - SumTo(size, i)
<1>1. before \in Int
  <2>1. Rows \in Nat /\ i - 1 \in 0..Rows /\ i \in 0..Rows /\ Rows \in 0..Rows
    BY LedgerAssumption DEF RowId
  <2>2. \A n \in 0..Rows : SumTo(size, n) \in Nat
    BY <2>1, SumToNat DEF RowId
  <2> QED
    BY <2>1, <2>2
<1>2. Share(size, amount, oldest, i)
        = IF amount <= before THEN 0 ELSE Lesser(size[i], amount - before)
  BY DEF Share
<1> HIDE DEF before
<1>3. size[i] \in Nat
  OBVIOUS
<1> QED
  BY <1>1, <1>2, <1>3 DEF Lesser

\* Adding to a warehouse adds as much to the total.
LEMMA AddedTotal ==
    ASSUME ws \in [Warehouse -> Nat], NEW w \in Warehouse, NEW q \in Nat
    PROVE  /\ Added(w, q) \in [Warehouse -> Nat]
           /\ SumTo(Added(w, q), Warehouses) = SumTo(ws, Warehouses) + q
           /\ SumTo(ws, Warehouses) \in Nat
<1>1. Warehouses \in Nat /\ Warehouses \in 0..Warehouses
  BY LedgerAssumption
<1>2. ws[w] + q \in Int /\ ~(Warehouses < w) /\ ws \in [1..Warehouses -> Int]
  BY <1>1 DEF Warehouse
<1>3. SumTo([ws EXCEPT ![w] = ws[w] + q], Warehouses)
        = SumTo(ws, Warehouses) - ws[w] + (ws[w] + q)
  BY <1>1, <1>2, SumToUpdate DEF Warehouse
<1>4. SumTo(ws, Warehouses) \in Nat
  BY <1>1, SumToNat DEF Warehouse
<1> QED
  BY <1>3, <1>4 DEF Added

\* Subtracting from a warehouse takes at most as much from the total.
LEMMA SubtractedTotal ==
    ASSUME ws \in [Warehouse -> Nat], NEW w \in Warehouse, NEW q \in Nat
    PROVE  /\ Subtracted(w, q) \in [Warehouse -> Nat]
           /\ SumTo(Subtracted(w, q), Warehouses)
                = SumTo(ws, Warehouses) - Lesser(q, ws[w])
           /\ SumTo(ws, Warehouses) \in Nat
           /\ Lesser(q, ws[w]) \in 0..q
<1> DEFINE v == ws[w] - Lesser(q, ws[w])
<1>1. Warehouses \in Nat /\ Warehouses \in 0..Warehouses
  BY LedgerAssumption
<1>2. v \in Nat /\ v \in Int /\ Lesser(q, ws[w]) \in 0..q
  BY DEF Lesser
<1>3. ~(Warehouses < w) /\ ws \in [1..Warehouses -> Int]
  BY <1>1 DEF Warehouse
<1>4. SumTo(ws, Warehouses) \in Nat
  BY <1>1, SumToNat DEF Warehouse
<1>5. Subtracted(w, q) = [ws EXCEPT ![w] = v]
  BY DEF Subtracted
<1> HIDE DEF v
<1>6. SumTo([ws EXCEPT ![w] = v], Warehouses)
        = SumTo(ws, Warehouses) - ws[w] + v
  BY <1>1, <1>2, <1>3, SumToUpdate DEF Warehouse
<1>7. ws[w] \in Nat
  OBVIOUS
<1> QED
  BY <1>2, <1>4, <1>5, <1>6, <1>7 DEF v, Lesser

-----------------------------------------------------------------------------
(* The derived tables under the handlers. *)

\* The derived tables are typed, no LOT is overfull, the warehouses cover.
FiguresOK ==
    /\ stock \in Nat
    /\ ws \in [Warehouse -> Nat]
    /\ lot \in [RowId -> Lot]
    /\ LotWithinReceipt
    /\ WarehousesCoverStock

\* Consuming and restoring keep every LOT between empty and its receipt.
LEMMA LotsKept ==
    ASSUME FiguresOK, NEW w, NEW q \in Nat
    PROVE  /\ Consumed(w, q) \in [RowId -> Lot]
           /\ Restored(w, q) \in [RowId -> Lot]
           /\ \A m \in RowId : Consumed(w, q)[m].remaining <= Consumed(w, q)[m].initial
           /\ \A m \in RowId : Restored(w, q)[m].remaining <= Restored(w, q)[m].initial
<1> DEFINE held == [i \in RowId |-> IF lot[i].active /\ row[i].wh = w
                                    THEN lot[i].remaining ELSE 0]
           used == [i \in RowId |-> IF lot[i].active /\ row[i].wh = w
                                    THEN lot[i].initial - lot[i].remaining ELSE 0]
<1>1. \A i \in RowId : /\ lot[i] \in Lot
                       /\ lot[i].initial \in Nat /\ lot[i].remaining \in Nat
                       /\ lot[i].remaining <= lot[i].initial
  BY DEF FiguresOK, Lot, LotWithinReceipt
<1>2. held \in [RowId -> Nat] /\ used \in [RowId -> Nat]
  BY <1>1
<1>3. \A i \in RowId : held[i] <= lot[i].remaining
                       /\ used[i] <= lot[i].initial - lot[i].remaining
  BY <1>1
<1>4. Consumed(w, q) = [i \in RowId |-> Holding(lot[i],
            lot[i].remaining - Share(held, q, Method = "FIFO", i))]
  BY DEF Consumed
<1>5. Restored(w, q) = [i \in RowId |-> Holding(lot[i],
            lot[i].remaining + Share(used, q, Method # "FIFO", i))]
  BY DEF Restored
<1> HIDE DEF held, used
<1>6. \A i \in RowId : /\ Share(held, q, Method = "FIFO", i) \in 0..held[i]
                       /\ Share(used, q, Method # "FIFO", i) \in 0..used[i]
  BY <1>2, ShareBound
<1>7. ASSUME NEW i \in RowId, NEW a \in Nat, NEW b \in Nat,
             a <= lot[i].remaining, b <= lot[i].initial - lot[i].remaining
      PROVE  /\ Holding(lot[i], lot[i].remaining - a) \in Lot
             /\ Holding(lot[i], lot[i].remaining - a).remaining <= lot[i].initial
             /\ Holding(lot[i], lot[i].remaining - a).initial = lot[i].initial
             /\ Holding(lot[i], lot[i].remaining + b) \in Lot
             /\ Holding(lot[i], lot[i].remaining + b).remaining <= lot[i].initial
             /\ Holding(lot[i], lot[i].remaining + b).initial = lot[i].initial
  BY <1>1, <1>7 DEF Lot, Holding
<1>8. ASSUME NEW i \in RowId
      PROVE  /\ Share(held, q, Method = "FIFO", i) \in Nat
             /\ Share(held, q, Method = "FIFO", i) <= lot[i].remaining
             /\ Share(used, q, Method # "FIFO", i) \in Nat
             /\ Share(used, q, Method # "FIFO", i) <= lot[i].initial - lot[i].remaining
  <2>1. held[i] \in Nat /\ used[i] \in Nat
    BY <1>2
  <2> QED
    BY <1>1, <1>3, <1>6, <2>1
<1>9. ASSUME NEW i \in RowId
      PROVE  /\ Consumed(w, q)[i] \in Lot
             /\ Consumed(w, q)[i].remaining <= Consumed(w, q)[i].initial
             /\ Restored(w, q)[i] \in Lot
             /\ Restored(w, q)[i].remaining <= Restored(w, q)[i].initial
  BY <1>4, <1>5, <1>7, <1>8
<1> QED
  BY <1>4, <1>5, <1>9

\* Opening or closing the LOT of a receipt keeps them too.
LEMMA LotsOpened ==
    ASSUME FiguresOK, NEW m \in RowId, NEW q \in Nat
    PROVE  /\ Opened(m, q) \in [RowId -> Lot]
           /\ Closed(m) \in [RowId -> Lot]
           /\ \A i \in RowId : Opened(m, q)[i].remaining <= Opened(m, q)[i].initial
           /\ \A i \in RowId : Closed(m)[i].remaining <= Closed(m)[i].initial
  BY DEF FiguresOK, LotWithinReceipt, Opened, Closed, Lot, Shut

\* The handler of a new row keeps the derived tables in order.
LEMMA ApplyKeeps ==
    ASSUME FiguresOK, NEW m \in RowId, NEW r \in Movement, Apply(m, r)
    PROVE  FiguresOK'
<1>1. r.qty \in Nat /\ r.wh \in Warehouse
  BY DEF Movement
<1>2. /\ lot' \in [RowId -> Lot]
      /\ \A i \in RowId : lot'[i].remaining <= lot'[i].initial
  BY <1>1, LotsKept, LotsOpened DEF Apply, FiguresOK, LotWithinReceipt
<1>3. SumTo(ws, Warehouses) >= stock /\ stock \in Nat /\ ws \in [Warehouse -> Nat]
  BY DEF FiguresOK, WarehousesCoverStock
<1>4. CASE r.kind \in Inbound /\ stock' = stock + r.qty /\ ws' = Added(r.wh, r.qty)
  <2>1. /\ ws' \in [Warehouse -> Nat]
        /\ SumTo(ws', Warehouses) = SumTo(ws, Warehouses) + r.qty
        /\ SumTo(ws, Warehouses) \in Nat
    BY <1>1, <1>3, <1>4, AddedTotal
  <2> QED
    BY <1>1, <1>2, <1>3, <1>4, <2>1 DEF FiguresOK, LotWithinReceipt, WarehousesCoverStock
<1>5. CASE Covers(r.qty) /\ stock' = stock - r.qty /\ ws' = Subtracted(r.wh, r.qty)
  <2>1. /\ ws' \in [Warehouse -> Nat]
        /\ SumTo(ws', Warehouses)
             = SumTo(ws, Warehouses) - Lesser(r.qty, ws[r.wh])
        /\ SumTo(ws, Warehouses) \in Nat
        /\ Lesser(r.qty, ws[r.wh]) \in 0..r.qty
    BY <1>1, <1>3, <1>5, SubtractedTotal
  <2>2. stock' \in Nat
    BY <1>1, <1>3, <1>5 DEF Covers
  <2> QED
    BY <1>1, <1>2, <1>3, <1>5, <2>1, <2>2
    DEF FiguresOK, LotWithinReceipt, WarehousesCoverStock
<1> QED
  BY <1>4, <1>5 DEF Apply

\* And so does the reversal of a row.
LEMMA RevertKeeps ==
    ASSUME FiguresOK, NEW m \in RowId, NEW r \in Movement,
           NEW withLots \in BOOLEAN, Revert(m, r, withLots)
    PROVE  FiguresOK'
<1>1. r.qty \in Nat /\ r.wh \in Warehouse
  BY DEF Movement
<1>2. /\ lot' \in [RowId -> Lot]
      /\ \A i \in RowId : lot'[i].remaining <= lot'[i].initial
  BY <1>1, LotsKept, LotsOpened, SMTT(60) DEF Revert, FiguresOK, LotWithinReceipt
<1>3. SumTo(ws, Warehouses) >= stock /\ stock \in Nat /\ ws \in [Warehouse -> Nat]
  BY DEF FiguresOK, WarehousesCoverStock
<1>4. CASE stock' = stock + r.qty /\ ws' = Added(r.wh, r.qty)
  <2>1. /\ ws' \in [Warehouse -> Nat]
        /\ SumTo(ws', Warehouses) = SumTo(ws, Warehouses) + r.qty
        /\ SumTo(ws, Warehouses) \in Nat
    BY <1>1, <1>3, <1>4, AddedTotal
  <2> QED
    BY <1>1, <1>2, <1>3, <1>4, <2>1 DEF FiguresOK, LotWithinReceipt, WarehousesCoverStock
<1>5. CASE Covers(r.qty) /\ stock' = stock - r.qty /\ ws' = Subtracted(r.wh, r.qty)
  <2>1. /\ ws' \in [Warehouse -> Nat]
        /\ SumTo(ws', Warehouses)
             = SumTo(ws, Warehouses) - Lesser(r.qty, ws[r.wh])
        /\ SumTo(ws, Warehouses) \in Nat
        /\ Lesser(r.qty, ws[r.wh]) \in 0..r.qty
    BY <1>1, <1>3, <1>5, SubtractedTotal
  <2>2. stock' \in Nat
    BY <1>1, <1>3, <1>5 DEF Covers
  <2> QED
    BY <1>1, <1>2, <1>3, <1>5, <2>1, <2>2
    DEF FiguresOK, LotWithinReceipt, WarehousesCoverStock
<1> QED
  BY <1>4, <1>5 DEF Revert

-----------------------------------------------------------------------------
(* The inductive invariant. *)

RowStages == {"inserted", "cancelling", "reversed", "deleting", "patching"}

\* The tables and the sessions are typed; a session that works on a row or on
\* a transfer has its number, and one about to insert holds an active row.
Typed ==
    /\ row \in [RowId -> Movement]
    /\ transfer \in [TransferId -> Transfer]
    /\ session \in [Session -> Work]
    /\ posted \in [RowId -> Nat]
    /\ reversed \in [RowId -> Nat]
    /\ \A p \in Session :
         /\ session[p].stage \in RowStages => session[p].ref \in RowId
         /\ session[p].stage = "transferring" => session[p].ref \in TransferId
         /\ session[p].stage = "validated" => session[p].copy.status = "active"

\* A row is in the hands of one inserting session at most, and its effect is
\* not committed before that session commits it.
Pending ==
    /\ PostedOnce
    /\ \A m \in RowId : row[m].status = "absent" => posted[m] = 0
    /\ \A p \in Session : session[p].stage = "inserted" =>
         /\ row[session[p].ref].status # "absent"
         /\ posted[session[p].ref] = 0
         /\ \A o \in Session : session[o].stage = "inserted"
                                 /\ session[o].ref = session[p].ref => o = p

\* A row leaves the active set after its reversal.
Accounted ==
    /\ CancelledWasReversed
    /\ \A p \in Session : session[p].stage = "reversed" => reversed[session[p].ref] > 0

LedgerInv == FiguresOK /\ Typed /\ Pending /\ Accounted

\* The empty tables satisfy it.
LEMMA InitInv == Init => LedgerInv
<1> SUFFICES ASSUME Init PROVE LedgerInv
  OBVIOUS
<1> USE LedgerAssumption DEF Init
<1>1. 1 \in Warehouse /\ Warehouses \in 0..Warehouses
  BY DEF Warehouse
<1>2. NoMovement \in Movement /\ NoTransfer \in Transfer /\ NoLot \in Lot
  BY <1>1 DEF NoMovement, NoTransfer, NoLot, Movement, Transfer, Lot, Status,
     Kind, Inbound, Outbound
<1>3. Idle \in Work /\ Idle.stage = "idle"
  BY <1>2 DEF Idle, Work, Stage
<1>4. Typed
  BY <1>2, <1>3 DEF Typed, RowStages
<1>5. SumTo(ws, Warehouses) \in Nat
  BY <1>1, SumToNat DEF Warehouse
<1>6. FiguresOK
  BY <1>2, <1>5 DEF FiguresOK, LotWithinReceipt, WarehousesCoverStock, NoLot
<1>7. Pending
  BY <1>3 DEF Pending, PostedOnce
<1>8. Accounted
  BY <1>3 DEF Accounted, CancelledWasReversed, NoMovement
<1> QED
  BY <1>4, <1>6, <1>7, <1>8 DEF LedgerInv

\* What a session moves to is typed.
LEMMA GotoTyped ==
    ASSUME session \in [Session -> Work], NEW p \in Session,
           NEW stage \in Stage, NEW ref \in Nat, NEW copy \in Movement,
           Goto(p, stage, ref, copy)
    PROVE  /\ session' \in [Session -> Work]
           /\ session'[p].stage = stage /\ session'[p].ref = ref
           /\ session'[p].copy = copy
           /\ \A o \in Session \ {p} : session'[o] = session[o]
  BY DEF Goto, Work

\* An ended session is idle again.
LEMMA DoneTyped ==
    ASSUME session \in [Session -> Work], NEW p \in Session, Done(p)
    PROVE  /\ session' \in [Session -> Work]
           /\ session'[p].stage = "idle"
           /\ \A o \in Session \ {p} : session'[o] = session[o]
<1>1. NoMovement \in Movement
  BY LedgerAssumption DEF NoMovement, Movement, Status, Kind, Inbound, Outbound, Warehouse
<1> QED
  BY <1>1, GotoTyped DEF Done, Stage

\* A new row and a marked row are rows.
LEMMA MovementTyped ==
    ASSUME NEW k \in Kind, NEW w \in Warehouse, NEW q \in Nat, NEW t \in 0..Transfers
    PROVE  /\ NewMovement(k, w, q, t) \in Movement
           /\ NewMovement(k, w, q, t).status = "active"
  BY DEF NewMovement, Movement, Status

\* A row marked with a status is a row that has it.
LEMMA MarkedTyped ==
    ASSUME NEW r \in Movement, NEW s \in Status
    PROVE  Marked(r, s) \in Movement /\ Marked(r, s).status = s
  BY DEF Marked, Movement

-----------------------------------------------------------------------------
(* Every action preserves the invariant. *)

\* The derived tables are in order again when nothing about them changed.
LEMMA FiguresUnchanged ==
    ASSUME FiguresOK, UNCHANGED <<stock, ws, lot>> PROVE FiguresOK'
  BY DEF FiguresOK, LotWithinReceipt, WarehousesCoverStock

\* Inserting a row and keeping it in hand.
LEMMA InsertKeeps ==
    ASSUME LedgerInv, NEW p \in Session, NEW m \in RowId, NEW r \in Movement,
           NextRow(m), r.status = "active", Insert(m, r),
           Goto(p, "inserted", m, r),
           UNCHANGED <<stock, ws, lot, transfer, posted, reversed>>
    PROVE  LedgerInv'
<1> USE DEF LedgerInv
<1>1. row[m].status = "absent" /\ DOMAIN row = RowId
  BY DEF NextRow, Taken, Typed
<1>2. /\ session' \in [Session -> Work]
      /\ session'[p].stage = "inserted" /\ session'[p].ref = m
      /\ \A o \in Session \ {p} : session'[o] = session[o]
  BY GotoTyped DEF Typed, Stage, RowId
<1>3. /\ row' \in [RowId -> Movement] /\ row'[m].status = "active"
      /\ \A i \in RowId \ {m} : row'[i] = row[i]
  BY DEF Insert, Typed
<1>4. FiguresOK'
  BY FiguresUnchanged
<1>5. Typed'
  BY <1>2, <1>3 DEF Typed, RowStages
<1>6. Pending'
  BY <1>1, <1>2, <1>3 DEF Pending, PostedOnce, Typed, RowStages
<1>7. Accounted'
  BY <1>2, <1>3 DEF Accounted, CancelledWasReversed
<1> QED
  BY <1>4, <1>5, <1>6, <1>7

\* A session that only reads, or ends, leaves the invariant alone.
LEMMA MoveKeeps ==
    ASSUME LedgerInv, NEW p \in Session, UNCHANGED <<tables, posted, reversed>>,
           session' \in [Session -> Work],
           session'[p].stage # "inserted", session'[p].stage # "reversed",
           session'[p].stage \in RowStages => session'[p].ref \in RowId,
           session'[p].stage = "transferring" => session'[p].ref \in TransferId,
           session'[p].stage = "validated" => session'[p].copy.status = "active",
           \A o \in Session \ {p} : session'[o] = session[o]
    PROVE  LedgerInv'
<1> USE DEF LedgerInv, tables
<1>1. FiguresOK'
  BY FiguresUnchanged
<1>2. Typed'
  BY DEF Typed
<1>3. Pending'
  BY DEF Pending, PostedOnce
<1>4. Accounted'
  BY DEF Accounted, CancelledWasReversed
<1> QED
  BY <1>1, <1>2, <1>3, <1>4

\* The four ways to start on a new row or document.
LEMMA CreateKeeps ==
    ASSUME LedgerInv, NEW p \in Session, Create(p)
    PROVE  LedgerInv'
<1> USE LedgerAssumption
<1>1. PICK w \in Warehouse, q \in Quantity :
        \/ \E k \in Kind : InsertInbound(p, k, w, q) \/ CreateAtomically(p, k, w, q)
        \/ ValidateOutbound(p, w, q)
        \/ \E w2 \in Warehouse : InsertTransfer(p, w, w2, q)
  BY DEF Create
<1>2. q \in Nat /\ 0 \in 0..Transfers /\ session \in [Session -> Work]
  <2>1. q \in Nat /\ 0 \in 0..Transfers
    OBVIOUS
  <2>2. session \in [Session -> Work]
    BY DEF LedgerInv, Typed
  <2> QED
    BY <2>1, <2>2
<1>3. ASSUME NEW k \in Kind, InsertInbound(p, k, w, q) PROVE LedgerInv'
  <2>1. /\ NewMovement(k, w, q, 0) \in Movement
        /\ NewMovement(k, w, q, 0).status = "active"
    BY <1>2, MovementTyped
  <2> QED
    BY <1>3, <2>1, InsertKeeps DEF InsertInbound
<1>4. ASSUME NEW k \in Kind, CreateAtomically(p, k, w, q) PROVE LedgerInv'
  <2> DEFINE r == NewMovement(k, w, q, 0)
  <2>1. r \in Movement /\ r.status = "active"
    BY <1>2, MovementTyped
  <2> HIDE DEF r
  <2>2. PICK m \in RowId : /\ NextRow(m) /\ Insert(m, r) /\ Apply(m, r)
                           /\ posted' = [posted EXCEPT ![m] = @ + 1]
    BY <1>4 DEF CreateAtomically, r
  <2>3. UNCHANGED <<transfer, session, reversed>>
    BY <1>4 DEF CreateAtomically
  <2>4. row[m].status = "absent"
    BY <2>2 DEF NextRow, Taken, LedgerInv, Typed
  <2>5. /\ row' \in [RowId -> Movement] /\ row'[m].status = "active"
        /\ \A i \in RowId \ {m} : row'[i] = row[i]
    BY <2>1, <2>2 DEF Insert, LedgerInv, Typed
  <2>6. /\ posted' \in [RowId -> Nat] /\ posted[m] = 0 /\ posted'[m] = 1
        /\ \A i \in RowId \ {m} : posted'[i] = posted[i]
    BY <2>2, <2>4 DEF LedgerInv, Typed, Pending
  <2>7. FiguresOK'
    BY <2>1, <2>2, ApplyKeeps DEF LedgerInv
  <2>8. Typed'
    BY <2>3, <2>5, <2>6 DEF LedgerInv, Typed
  <2>9. Pending'
    BY <2>3, <2>4, <2>5, <2>6 DEF LedgerInv, Pending, PostedOnce, Typed, RowStages
  <2>10. Accounted'
    BY <2>3, <2>5 DEF LedgerInv, Accounted, CancelledWasReversed
  <2> QED
    BY <2>7, <2>8, <2>9, <2>10 DEF LedgerInv
<1>5. ASSUME ValidateOutbound(p, w, q) PROVE LedgerInv'
  <2>1. /\ NewMovement("OUT", w, q, 0) \in Movement
        /\ NewMovement("OUT", w, q, 0).status = "active"
    BY <1>2, MovementTyped DEF Kind, Outbound
  <2>2. Goto(p, "validated", 0, NewMovement("OUT", w, q, 0))
        /\ UNCHANGED <<tables, posted, reversed>>
    BY <1>5 DEF ValidateOutbound
  <2>3. /\ session' \in [Session -> Work] /\ session'[p].stage = "validated"
        /\ session'[p].copy.status = "active"
        /\ \A o \in Session \ {p} : session'[o] = session[o]
    BY <1>2, <2>1, <2>2, GotoTyped, ZenonT(60) DEF Stage
  <2> QED
    BY <2>2, <2>3, MoveKeeps DEF RowStages
<1>6. ASSUME NEW w2 \in Warehouse, InsertTransfer(p, w, w2, q) PROVE LedgerInv'
  <2>1. PICK t \in TransferId :
          /\ transfer' = [transfer EXCEPT
               ![t] = [status |-> "active", from |-> w, to |-> w2, qty |-> q]]
          /\ Goto(p, "transferring", t, NoMovement)
    BY <1>6 DEF InsertTransfer
  <2>2. UNCHANGED <<stock, ws, row, lot, posted, reversed>>
    BY <1>6 DEF InsertTransfer
  <2>3. transfer' \in [TransferId -> Transfer]
    BY <1>2, <2>1 DEF LedgerInv, Typed, Transfer, Status
  <2>4. NoMovement \in Movement /\ t \in Nat
    BY DEF NoMovement, Movement, Status, Kind, Inbound, Outbound, Warehouse, TransferId
  <2>5. /\ session' \in [Session -> Work]
        /\ session'[p].stage = "transferring" /\ session'[p].ref = t
        /\ \A o \in Session \ {p} : session'[o] = session[o]
    BY <1>2, <2>1, <2>4, GotoTyped DEF Stage
  <2>6. FiguresOK'
    BY <2>2, FiguresUnchanged DEF LedgerInv
  <2>7. Typed'
    BY <2>2, <2>3, <2>5 DEF LedgerInv, Typed, RowStages
  <2>8. Pending' /\ Accounted'
    BY <2>2, <2>5 DEF LedgerInv, Pending, PostedOnce, Accounted, CancelledWasReversed
  <2> QED
    BY <2>6, <2>7, <2>8 DEF LedgerInv
<1> QED
  BY <1>1, <1>3, <1>4, <1>5, <1>6

\* Reading a row to cancel, delete or edit it.
LEMMA FetchKeeps ==
    ASSUME LedgerInv, NEW p \in Session, NEW m \in RowId,
           NEW stage \in {"cancelling", "deleting", "patching"}, Fetch(p, m, stage)
    PROVE  LedgerInv'
<1>1. row[m] \in Movement /\ m \in Nat /\ session \in [Session -> Work]
  BY DEF LedgerInv, Typed, RowId
<1>2. Goto(p, stage, m, row[m]) /\ UNCHANGED <<tables, posted, reversed>>
  BY DEF Fetch
<1>3. /\ session' \in [Session -> Work]
      /\ session'[p].stage = stage /\ session'[p].ref = m
      /\ \A o \in Session \ {p} : session'[o] = session[o]
  BY <1>1, <1>2, GotoTyped DEF Stage
<1> QED
  BY <1>2, <1>3, MoveKeeps DEF RowStages

\* Changing one row that is there already to another that is there.
LEMMA RowsKept ==
    ASSUME LedgerInv, NEW p \in Session, FiguresOK', Done(p),
           UNCHANGED <<transfer, posted>>,
           row' \in [RowId -> Movement],
           reversed' \in [RowId -> Nat],
           \A i \in RowId : row'[i].status = "absent" => row[i].status = "absent",
           \A i \in RowId : reversed'[i] >= reversed[i],
           \A i \in RowId : row'[i].status \in {"cancelled", "deleted"} =>
               row[i].status \in {"cancelled", "deleted"} \/ reversed'[i] > 0
    PROVE  LedgerInv'
<1> USE DEF LedgerInv
<1>1. /\ session' \in [Session -> Work] /\ session'[p].stage = "idle"
      /\ \A o \in Session \ {p} : session'[o] = session[o]
  BY DoneTyped DEF Typed
<1>2. Typed'
  BY <1>1 DEF Typed, RowStages
<1>3. Pending'
  BY <1>1 DEF Pending, PostedOnce, Typed, RowStages
<1>4. Accounted'
  <2>1. \A i \in RowId : reversed[i] > 0 => reversed'[i] > 0
    BY DEF Typed
  <2> QED
    BY <1>1, <2>1 DEF Accounted, CancelledWasReversed, Typed, RowStages
<1> QED
  BY <1>2, <1>3, <1>4

\* Cancelling a transfer reverses and marks its movements together.
LEMMA CancelTransferKeeps ==
    ASSUME LedgerInv, NEW p \in Session, NEW t \in TransferId, CancelTransfer(p, t)
    PROVE  LedgerInv'
<1> DEFINE d == transfer[t]
           Live(k) == {m \in RowId : row[m].transfer = t /\ row[m].status = "active"
                                                         /\ row[m].kind = k}
           Total(k) == SumTo([m \in RowId |-> IF m \in Live(k) THEN row[m].qty ELSE 0], Rows)
           out == Total("OUT")
           in == Total("IN")
           both == Live("IN") \cup Live("OUT")
<1> USE LedgerAssumption
<1>1. d \in Transfer /\ d.from \in Warehouse /\ d.to \in Warehouse /\ FiguresOK
  BY DEF LedgerInv, Typed, Transfer
<1>2. out \in Nat /\ in \in Nat
  <2>1. ASSUME NEW k PROVE Total(k) \in Nat
    <3> DEFINE f == [m \in RowId |-> IF m \in Live(k) THEN row[m].qty ELSE 0]
    <3>1. f \in [1..Rows -> Nat]
      BY DEF LedgerInv, Typed, Movement, RowId
    <3>2. Rows \in 0..Rows
      OBVIOUS
    <3> QED
      BY <3>1, <3>2, SumToNat
  <2> QED
    BY <2>1
<1>3. /\ stock + out >= in
      /\ stock' = stock + out - in
      /\ ws' = [Added(d.from, out) EXCEPT ![d.to] = @ - Lesser(in, @)]
      /\ lot' = [i \in RowId |-> IF i \in Live("IN") THEN Closed(i)[i]
                                 ELSE Restored(d.from, out)[i]]
      /\ row' = [i \in RowId |-> IF i \in both THEN Marked(row[i], "cancelled") ELSE row[i]]
      /\ reversed' = [i \in RowId |-> IF i \in both THEN reversed[i] + 1 ELSE reversed[i]]
      /\ transfer' = [transfer EXCEPT ![t] =
              [status |-> "cancelled", from |-> d.from, to |-> d.to, qty |-> d.qty]]
      /\ UNCHANGED <<session, posted>>
  BY DEF CancelTransfer
<1>4. \A i \in RowId : i \in both => row[i].status = "active"
  OBVIOUS
<1> HIDE DEF d, out, in, both
<1>5. /\ \A i \in RowId : lot'[i] \in Lot /\ lot'[i].remaining <= lot'[i].initial
      /\ lot' \in [RowId -> Lot]
  <2> HIDE DEF Live
  <2>1. \A i \in RowId : /\ Closed(i)[i] \in Lot
                         /\ Closed(i)[i].remaining <= Closed(i)[i].initial
    <3>1. 0 \in Nat
      OBVIOUS
    <3> QED
      BY <1>1, <3>1, LotsOpened
  <2>2. \A i \in RowId : /\ Restored(d.from, out)[i] \in Lot
                         /\ Restored(d.from, out)[i].remaining <= Restored(d.from, out)[i].initial
    BY <1>1, <1>2, LotsKept
  <2>3. \A i \in RowId : lot'[i] = Closed(i)[i] \/ lot'[i] = Restored(d.from, out)[i]
    BY <1>3
  <2>4. lot' = [i \in RowId |-> lot'[i]]
    BY <1>3
  <2>5. \A i \in RowId : lot'[i] \in Lot /\ lot'[i].remaining <= lot'[i].initial
    BY <2>1, <2>2, <2>3
  <2> QED
    BY <2>4, <2>5
<1>6. ws' \in [Warehouse -> Nat] /\ SumTo(ws', Warehouses) >= stock'
  <2> DEFINE mid == Added(d.from, out)
             v == mid[d.to] - Lesser(in, mid[d.to])
  <2>1. /\ mid \in [Warehouse -> Nat]
        /\ SumTo(mid, Warehouses) = SumTo(ws, Warehouses) + out
        /\ SumTo(ws, Warehouses) \in Nat
    BY <1>1, <1>2, AddedTotal DEF FiguresOK
  <2>2. ws' = [mid EXCEPT ![d.to] = v]
    BY <1>3
  <2> HIDE DEF mid
  <2>3. mid[d.to] \in Nat
    BY <1>1, <2>1
  <2>4. v \in Nat /\ v \in Int /\ v >= mid[d.to] - in
    BY <1>2, <2>3 DEF Lesser
  <2> HIDE DEF v
  <2>5. ws' \in [Warehouse -> Nat]
    BY <2>1, <2>2, <2>4
  <2>6. Warehouses \in 0..Warehouses /\ ~(Warehouses < d.to) /\ mid \in [1..Warehouses -> Int]
        /\ d.to \in 1..Warehouses /\ Warehouses \in Nat
    BY <1>1, <2>1 DEF Warehouse
  <2>7. SumTo([mid EXCEPT ![d.to] = v], Warehouses) = SumTo(mid, Warehouses) - mid[d.to] + v
    BY <2>4, <2>6, SumToUpdate, ZenonT(60)
  <2>8. SumTo(ws, Warehouses) >= stock /\ stock \in Nat
    BY <1>1 DEF FiguresOK, WarehousesCoverStock
  <2>9. SumTo(ws', Warehouses) = SumTo(mid, Warehouses) - mid[d.to] + v
    BY <2>2, <2>7
  <2>10. stock' = stock + out - in
    BY <1>3
  <2>11. ASSUME NEW a \in Nat, NEW b, NEW c, b = a + out, c = b - mid[d.to] + v,
                a >= stock
         PROVE  c >= stock + out - in
    BY <1>2, <2>3, <2>4, <2>8, <2>11
  <2> QED
    BY <2>1, <2>5, <2>8, <2>9, <2>10, <2>11
<1>7. stock' \in Nat
  BY <1>1, <1>2, <1>3 DEF FiguresOK
<1>8. FiguresOK'
  BY <1>5, <1>6, <1>7 DEF FiguresOK, LotWithinReceipt, WarehousesCoverStock
<1>9. /\ row' \in [RowId -> Movement]
      /\ \A i \in RowId : i \in both => row'[i].status = "cancelled"
      /\ \A i \in RowId : i \notin both => row'[i] = row[i]
  <2>1. \A i \in RowId : Marked(row[i], "cancelled") \in Movement
                         /\ Marked(row[i], "cancelled").status = "cancelled"
    BY MarkedTyped DEF LedgerInv, Typed, Status
  <2> QED
    BY <1>3, <2>1 DEF LedgerInv, Typed
<1>10. /\ reversed' \in [RowId -> Nat]
       /\ \A i \in RowId : i \in both => reversed'[i] > 0
       /\ \A i \in RowId : reversed'[i] >= reversed[i]
       /\ \A i \in RowId : i \notin both => reversed'[i] = reversed[i]
  BY <1>3 DEF LedgerInv, Typed
<1>11. transfer' \in [TransferId -> Transfer]
  BY <1>1, <1>3 DEF LedgerInv, Typed, Transfer, Status
<1>12. Typed'
  BY <1>3, <1>9, <1>10, <1>11 DEF LedgerInv, Typed
<1>13. Pending'
  BY <1>3, <1>4, <1>9 DEF LedgerInv, Pending, PostedOnce, Typed, RowStages
<1>14. Accounted'
  <2>1. \A i \in RowId : reversed[i] > 0 => reversed'[i] > 0
    BY <1>10 DEF LedgerInv, Typed
  <2> QED
    BY <1>3, <1>9, <1>10, <2>1 DEF LedgerInv, Accounted, CancelledWasReversed, Typed, RowStages
<1> QED
  BY <1>8, <1>12, <1>13, <1>14 DEF LedgerInv

\* The ways to start on a row that exists, and the edit of one.
LEMMA ChangeKeeps ==
    ASSUME LedgerInv, NEW p \in Session, Change(p)
    PROVE  LedgerInv'
<1>1. CASE \E m \in RowId : ReadForCancel(p, m) \/ ReadForDelete(p, m) \/ ReadForPatch(p, m)
  BY <1>1, FetchKeeps DEF ReadForCancel, ReadForDelete, ReadForPatch
<1>2. ASSUME NEW q \in Quantity, WritePatch(p, q) PROVE LedgerInv'
  <2> DEFINE i == session[p].ref
             r == session[p].copy
             n == NewMovement(r.kind, r.wh, q, r.transfer)
  <2>1. i \in RowId /\ r \in Movement /\ q \in Nat
    BY <1>2, LedgerAssumption DEF WritePatch, At, LedgerInv, Typed, RowStages, Work
  <2>2. n \in Movement /\ n.status = "active"
    <3>1. r.kind \in Kind /\ r.wh \in Warehouse /\ r.transfer \in 0..Transfers
      BY <2>1 DEF Movement
    <3> QED
      BY <2>1, <3>1, MovementTyped
  <2> HIDE DEF n, r
  <2>3. /\ row' = [row EXCEPT ![i] = n] /\ Done(p)
        /\ UNCHANGED <<stock, ws, lot, transfer, posted, reversed>>
    BY <1>2 DEF WritePatch, Insert, n, r
  <2> HIDE DEF i
  <2>4. /\ row' \in [RowId -> Movement] /\ row'[i].status = "active"
        /\ \A j \in RowId \ {i} : row'[j] = row[j]
    BY <2>1, <2>2, <2>3 DEF LedgerInv, Typed
  <2>5. FiguresOK'
    BY <2>3, FiguresUnchanged DEF LedgerInv
  <2>6. reversed' \in [RowId -> Nat] /\ \A j \in RowId : reversed'[j] >= reversed[j]
    BY <2>3 DEF LedgerInv, Typed
  <2>7. /\ \A j \in RowId : row'[j].status = "absent" => row[j].status = "absent"
        /\ \A j \in RowId : row'[j].status \in {"cancelled", "deleted"} =>
             row[j].status \in {"cancelled", "deleted"} \/ reversed'[j] > 0
    BY <2>4
  <2> QED
    BY <2>3, <2>4, <2>5, <2>6, <2>7, RowsKept
<1>3. CASE \E t \in TransferId : CancelTransfer(p, t)
  BY <1>3, CancelTransferKeeps
<1> QED
  BY <1>1, <1>2, <1>3 DEF Change

\* The commit of a row's effect by the session that inserted it.
LEMMA PostKeeps ==
    ASSUME LedgerInv, NEW p \in Session, Post(p)
    PROVE  LedgerInv'
<1> DEFINE i == session[p].ref
<1>1. /\ i \in RowId /\ session[p].copy \in Movement /\ posted[i] = 0
      /\ row[i].status # "absent" /\ session[p].stage = "inserted"
      /\ \A o \in Session : session[o].stage = "inserted" /\ session[o].ref = i => o = p
  BY DEF Post, At, LedgerInv, Typed, Pending, RowStages, Work
<1>2. /\ posted' = [posted EXCEPT ![i] = @ + 1] /\ Apply(i, session[p].copy)
      /\ Done(p) /\ UNCHANGED <<row, transfer, reversed>>
  BY DEF Post
<1> HIDE DEF i
<1>3. FiguresOK'
  BY <1>1, <1>2, ApplyKeeps DEF LedgerInv
<1>4. /\ session' \in [Session -> Work] /\ session'[p].stage = "idle"
      /\ \A o \in Session \ {p} : session'[o] = session[o]
  BY <1>2, DoneTyped DEF LedgerInv, Typed
<1>5. /\ posted' \in [RowId -> Nat] /\ posted'[i] = 1
      /\ \A j \in RowId \ {i} : posted'[j] = posted[j]
  BY <1>1, <1>2 DEF LedgerInv, Typed
<1>6. Typed'
  BY <1>2, <1>4, <1>5 DEF LedgerInv, Typed, RowStages
<1>7. Pending'
  BY <1>1, <1>2, <1>4, <1>5 DEF LedgerInv, Pending, PostedOnce, Typed, RowStages
<1>8. Accounted'
  BY <1>2, <1>4 DEF LedgerInv, Accounted, CancelledWasReversed
<1> QED
  BY <1>3, <1>6, <1>7, <1>8 DEF LedgerInv

\* The commit of a reversal, before the row is marked.
LEMMA CommitReversalKeeps ==
    ASSUME LedgerInv, NEW p \in Session, CommitReversal(p)
    PROVE  LedgerInv'
<1> DEFINE i == session[p].ref
<1>1. i \in RowId /\ i \in Nat /\ session[p].copy \in Movement
  BY DEF CommitReversal, At, LedgerInv, Typed, RowStages, Work, RowId
<1>2. /\ reversed' = [reversed EXCEPT ![i] = @ + 1]
      /\ Revert(i, session[p].copy, TRUE)
      /\ Goto(p, "reversed", i, session[p].copy)
      /\ UNCHANGED <<row, transfer, posted>>
  BY DEF CommitReversal
<1> HIDE DEF i
<1>3. FiguresOK'
  BY <1>1, <1>2, RevertKeeps DEF LedgerInv
<1>4. /\ session' \in [Session -> Work]
      /\ session'[p].stage = "reversed" /\ session'[p].ref = i
      /\ \A o \in Session \ {p} : session'[o] = session[o]
  BY <1>1, <1>2, GotoTyped DEF LedgerInv, Typed, Stage
<1>5. /\ reversed' \in [RowId -> Nat] /\ reversed'[i] > 0
      /\ \A j \in RowId : reversed[j] > 0 => reversed'[j] > 0
  BY <1>1, <1>2 DEF LedgerInv, Typed
<1>6. Typed'
  BY <1>1, <1>2, <1>4, <1>5 DEF LedgerInv, Typed, RowStages
<1>7. Pending'
  BY <1>2, <1>4 DEF LedgerInv, Pending, PostedOnce, Typed, RowStages
<1>8. Accounted'
  BY <1>2, <1>4, <1>5 DEF LedgerInv, Accounted, CancelledWasReversed, Typed, RowStages
<1> QED
  BY <1>3, <1>6, <1>7, <1>8 DEF LedgerInv

\* Marking a reversed row, and deleting a row, come after its reversal.
LEMMA MarkKeeps ==
    ASSUME LedgerInv, NEW p \in Session, MarkCancelled(p) \/ Delete(p)
    PROVE  LedgerInv'
<1> DEFINE i == session[p].ref
<1>1. i \in RowId /\ session[p].copy \in Movement /\ row[i] \in Movement
  BY DEF MarkCancelled, Delete, At, LedgerInv, Typed, RowStages, Work
<1>2. ASSUME NEW s \in {"cancelled", "deleted"}
      PROVE  Marked(row[i], s) \in Movement /\ Marked(row[i], s).status = s
  BY <1>1, MarkedTyped DEF Status
<1>3. CASE MarkCancelled(p)
  <2>1. reversed[i] > 0
    BY <1>3 DEF MarkCancelled, At, LedgerInv, Accounted
  <2>2. /\ row' = IF row[i].status = "active"
                  THEN [row EXCEPT ![i] = Marked(@, "cancelled")] ELSE row
        /\ Done(p) /\ UNCHANGED <<stock, ws, lot, transfer, posted, reversed>>
    BY <1>3 DEF MarkCancelled
  <2> HIDE DEF i
  <2>3. /\ row' \in [RowId -> Movement]
        /\ \A j \in RowId : row'[j].status = "absent" => row[j].status = "absent"
        /\ \A j \in RowId : row'[j].status \in {"cancelled", "deleted"} =>
             row[j].status \in {"cancelled", "deleted"} \/ j = i
    BY <1>1, <1>2, <2>2 DEF LedgerInv, Typed
  <2>4. FiguresOK' /\ reversed' \in [RowId -> Nat]
        /\ \A j \in RowId : reversed'[j] >= reversed[j]
    BY <2>2, FiguresUnchanged DEF LedgerInv, Typed
  <2> QED
    BY <2>1, <2>2, <2>3, <2>4, RowsKept
<1>4. CASE Delete(p)
  <2>1. /\ row' = [row EXCEPT ![i] = Marked(@, "deleted")]
        /\ reversed' = [reversed EXCEPT ![i] = @ + 1]
        /\ Revert(i, session[p].copy, FALSE)
        /\ Done(p) /\ UNCHANGED <<transfer, posted>>
    BY <1>4 DEF Delete
  <2> HIDE DEF i
  <2>2. FiguresOK'
    BY <1>1, <2>1, RevertKeeps DEF LedgerInv
  <2>3. /\ row' \in [RowId -> Movement]
        /\ \A j \in RowId : row'[j].status = "absent" => row[j].status = "absent"
        /\ \A j \in RowId : row'[j].status \in {"cancelled", "deleted"} =>
             row[j].status \in {"cancelled", "deleted"} \/ j = i
    BY <1>1, <1>2, <2>1 DEF LedgerInv, Typed
  <2>4. /\ reversed' \in [RowId -> Nat] /\ reversed'[i] > 0
        /\ \A j \in RowId : reversed'[j] >= reversed[j]
    BY <1>1, <2>1 DEF LedgerInv, Typed
  <2> QED
    BY <2>1, <2>2, <2>3, <2>4, RowsKept
<1> QED
  BY <1>3, <1>4

\* A transfer moves its whole quantity: the source was checked, no clamp.
LEMMA TransferTotals ==
    ASSUME LedgerInv, NEW p \in Session, PostTransfer(p)
    PROVE  ws' \in [Warehouse -> Nat] /\ SumTo(ws', Warehouses) = SumTo(ws, Warehouses)
<1> DEFINE d == transfer[session[p].ref]
<1> USE LedgerAssumption
<1>1. d.from \in Warehouse /\ d.to \in Warehouse /\ d.qty \in Nat
  BY DEF PostTransfer, At, LedgerInv, Typed, Transfer, TransferId
<1>2. /\ ws' = [Subtracted(d.from, d.qty) EXCEPT ![d.to] = @ + d.qty]
      /\ ws[d.from] >= d.qty
  BY DEF PostTransfer, SourceHolds
<1>3. ws \in [Warehouse -> Nat]
  BY DEF LedgerInv, FiguresOK
<1> HIDE DEF d
<1> DEFINE mid == Subtracted(d.from, d.qty)
           v == mid[d.to] + d.qty
<1>4. /\ mid \in [Warehouse -> Nat]
      /\ SumTo(mid, Warehouses) = SumTo(ws, Warehouses) - Lesser(d.qty, ws[d.from])
      /\ SumTo(ws, Warehouses) \in Nat
  BY <1>1, <1>3, SubtractedTotal
<1>5. Lesser(d.qty, ws[d.from]) = d.qty
  BY <1>1, <1>2, <1>3 DEF Lesser
<1>6. ws' = [mid EXCEPT ![d.to] = v]
  BY <1>2
<1> HIDE DEF mid
<1>7. mid[d.to] \in Nat /\ v \in Nat /\ v \in Int /\ v = mid[d.to] + d.qty
  BY <1>1, <1>4
<1> HIDE DEF v
<1>8. ws' \in [Warehouse -> Nat]
  BY <1>4, <1>6, <1>7
<1>9. Warehouses \in 0..Warehouses /\ ~(Warehouses < d.to) /\ mid \in [1..Warehouses -> Int]
      /\ d.to \in 1..Warehouses /\ Warehouses \in Nat
  BY <1>1, <1>4 DEF Warehouse
<1>10. SumTo([mid EXCEPT ![d.to] = v], Warehouses) = SumTo(mid, Warehouses) - mid[d.to] + v
  BY <1>7, <1>9, SumToUpdate
<1>11. SumTo(ws', Warehouses) = SumTo(mid, Warehouses) - mid[d.to] + v
  BY <1>6, <1>10
<1>12. ASSUME NEW a \in Nat, NEW b, NEW c, b = a - d.qty, c = b - mid[d.to] + v
      PROVE  c = a
  BY <1>1, <1>7, <1>12
<1>13. SumTo(mid, Warehouses) = SumTo(ws, Warehouses) - d.qty
  BY <1>4, <1>5
<1> QED
  BY <1>4, <1>8, <1>11, <1>12, <1>13

\* Both movements of a transfer, posted in one transaction.
LEMMA PostTransferKeeps ==
    ASSUME LedgerInv, NEW p \in Session, PostTransfer(p)
    PROVE  LedgerInv'
<1> DEFINE t == session[p].ref
           d == transfer[t]
           both(m) == [row EXCEPT ![m] = NewMovement("OUT", d.from, d.qty, t),
                                  ![m+1] = NewMovement("IN", d.to, d.qty, t)]
<1> USE LedgerAssumption
<1>1. /\ t \in TransferId /\ t \in 0..Transfers /\ d \in Transfer
      /\ d.from \in Warehouse /\ d.to \in Warehouse /\ d.qty \in Nat
  BY DEF PostTransfer, At, LedgerInv, Typed, Transfer, TransferId
<1> HIDE DEF t
<1>2. PICK m \in RowId :
        /\ NextRow(m) /\ m + 1 \in RowId \ Taken(row)
        /\ row' = both(m)
        /\ ws' = [Subtracted(d.from, d.qty) EXCEPT ![d.to] = @ + d.qty]
        /\ lot' = [Consumed(d.from, d.qty) EXCEPT
                     ![m+1] = [initial |-> d.qty, remaining |-> d.qty, active |-> TRUE]]
        /\ posted' = [posted EXCEPT ![m] = @ + 1, ![m+1] = @ + 1]
  BY DEF PostTransfer, t
<1>3. /\ ws[d.from] >= d.qty /\ Done(p) /\ UNCHANGED <<stock, transfer, reversed>>
  BY DEF PostTransfer, SourceHolds, t
<1>4. /\ session' \in [Session -> Work] /\ session'[p].stage = "idle"
      /\ \A o \in Session \ {p} : session'[o] = session[o]
  BY <1>3, DoneTyped DEF LedgerInv, Typed
<1>5. /\ NewMovement("OUT", d.from, d.qty, t) \in Movement
      /\ NewMovement("OUT", d.from, d.qty, t).status = "active"
      /\ NewMovement("IN", d.to, d.qty, t) \in Movement
      /\ NewMovement("IN", d.to, d.qty, t).status = "active"
  BY <1>1, MovementTyped DEF Kind, Inbound, Outbound
<1> HIDE DEF d
<1>6. /\ m + 1 \in RowId /\ m + 1 # m /\ m \in RowId
      /\ row[m].status = "absent" /\ row[m+1].status = "absent"
  BY <1>2 DEF NextRow, Taken, RowId, LedgerInv, Typed
<1>7. /\ row' \in [RowId -> Movement]
      /\ row'[m].status = "active" /\ row'[m+1].status = "active"
      /\ \A i \in RowId \ {m, m+1} : row'[i] = row[i]
  BY <1>2, <1>5, <1>6 DEF LedgerInv, Typed
<1>8. /\ posted' \in [RowId -> Nat] /\ posted'[m] = 1 /\ posted'[m+1] = 1
      /\ posted[m] = 0 /\ posted[m+1] = 0
      /\ \A i \in RowId \ {m, m+1} : posted'[i] = posted[i]
  BY <1>2, <1>6 DEF LedgerInv, Typed, Pending
<1>9. SumTo(ws, Warehouses) >= stock /\ stock \in Nat /\ ws \in [Warehouse -> Nat]
      /\ FiguresOK
  BY DEF LedgerInv, FiguresOK, WarehousesCoverStock
<1>10. ws' \in [Warehouse -> Nat] /\ SumTo(ws', Warehouses) = SumTo(ws, Warehouses)
  BY TransferTotals
<1>11. /\ lot' \in [RowId -> Lot]
       /\ \A i \in RowId : lot'[i].remaining <= lot'[i].initial
  <2> DEFINE new == [initial |-> d.qty, remaining |-> d.qty, active |-> TRUE]
  <2>1. new \in Lot /\ new.remaining <= new.initial
    BY <1>1 DEF Lot
  <2>2. /\ Consumed(d.from, d.qty) \in [RowId -> Lot]
        /\ \A i \in RowId : Consumed(d.from, d.qty)[i].remaining
                              <= Consumed(d.from, d.qty)[i].initial
    BY <1>1, <1>9, LotsKept
  <2>3. lot' = [Consumed(d.from, d.qty) EXCEPT ![m+1] = new]
    BY <1>2
  <2> HIDE DEF new
  <2> QED
    BY <1>6, <2>1, <2>2, <2>3
<1>12. FiguresOK'
  BY <1>3, <1>9, <1>10, <1>11 DEF FiguresOK, LotWithinReceipt, WarehousesCoverStock
<1>13. Typed'
  BY <1>3, <1>4, <1>7, <1>8 DEF LedgerInv, Typed, RowStages
<1>14. Pending'
  <2>1. \A o \in Session : session'[o].stage = "inserted" =>
          o # p /\ session'[o] = session[o] /\ session'[o].ref \notin {m, m+1}
          /\ session'[o].ref \in RowId
    BY <1>4, <1>6 DEF LedgerInv, Pending, Typed, RowStages
  <2>2. PostedOnce'
    BY <1>8 DEF LedgerInv, Pending, PostedOnce
  <2>3. \A i \in RowId : row'[i].status = "absent" => posted'[i] = 0
    BY <1>7, <1>8 DEF LedgerInv, Pending
  <2>4. ASSUME NEW o \in Session, session'[o].stage = "inserted"
        PROVE  /\ row'[session'[o].ref].status # "absent"
               /\ posted'[session'[o].ref] = 0
               /\ \A x \in Session : session'[x].stage = "inserted"
                     /\ session'[x].ref = session'[o].ref => x = o
    BY <1>7, <1>8, <2>1, <2>4 DEF LedgerInv, Pending
  <2> QED
    BY <2>2, <2>3, <2>4 DEF Pending
<1>15. Accounted'
  BY <1>3, <1>4, <1>7 DEF LedgerInv, Accounted, CancelledWasReversed
<1> QED
  BY <1>12, <1>13, <1>14, <1>15 DEF LedgerInv

\* The later transactions of a request, and its end.
LEMMA ContinueKeeps ==
    ASSUME LedgerInv, NEW p \in Session, Continue(p)
    PROVE  LedgerInv'
<1>1. CASE InsertOutbound(p)
  <2>1. session[p].copy \in Movement
    BY DEF LedgerInv, Typed, Work
  <2>2. session[p].copy.status = "active"
    BY <1>1 DEF InsertOutbound, At, LedgerInv, Typed
  <2> QED
    BY <1>1, <2>1, <2>2, InsertKeeps DEF InsertOutbound
<1>2. CASE PostFails(p) \/ ReversalFails(p) \/ TransferFails(p) \/ Crash(p)
  <2>1. Done(p) /\ UNCHANGED <<tables, posted, reversed>>
    BY <1>2 DEF PostFails, ReversalFails, TransferFails, Crash
  <2>2. /\ session' \in [Session -> Work] /\ session'[p].stage = "idle"
        /\ \A o \in Session \ {p} : session'[o] = session[o]
    BY <2>1, DoneTyped DEF LedgerInv, Typed
  <2> QED
    BY <2>1, <2>2, MoveKeeps DEF RowStages
<1> QED
  BY <1>1, <1>2, PostKeeps, CommitReversalKeeps, MarkKeeps, PostTransferKeeps DEF Continue

-----------------------------------------------------------------------------
(* The theorems. *)

\* The inductive invariant holds in every behaviour.
THEOREM LedgerInvariant == Spec => []LedgerInv
<1>1. Init => LedgerInv
  BY InitInv
<1>2. LedgerInv /\ [Next]_vars => LedgerInv'
  <2> SUFFICES ASSUME LedgerInv, [Next]_vars PROVE LedgerInv'
    OBVIOUS
  <2>1. CASE Next
    BY <2>1, CreateKeeps, ChangeKeeps, ContinueKeeps DEF Next
  <2>2. CASE UNCHANGED vars
    BY <2>2 DEF vars, LedgerInv, FiguresOK, LotWithinReceipt, WarehousesCoverStock,
       Typed, Pending, PostedOnce, Accounted, CancelledWasReversed
  <2> QED
    BY <2>1, <2>2
<1> QED
  BY <1>1, <1>2, PTL DEF Spec

\* The tables and the sessions keep their types: no figure the handlers
\* compute ever goes below zero, under any interleaving.
THEOREM LedgerTypeCorrect == Spec => []TypeOK
<1>1. LedgerInv => TypeOK
  BY DEF LedgerInv, FiguresOK, Typed, TypeOK
<1> QED
  BY <1>1, LedgerInvariant, PTL

\* The clamp of _update_warehouse_stock never leaves the warehouses less than
\* current_stock.
THEOREM WarehousesAlwaysCover == Spec => []WarehousesCoverStock
<1>1. LedgerInv => WarehousesCoverStock
  BY DEF LedgerInv, FiguresOK
<1> QED
  BY <1>1, LedgerInvariant, PTL

\* FIFO or LIFO, consuming and restoring never overfill a LOT.
THEOREM LotsNeverOverfilled == Spec => []LotWithinReceipt
<1>1. LedgerInv => LotWithinReceipt
  BY DEF LedgerInv, FiguresOK
<1> QED
  BY <1>1, LedgerInvariant, PTL

\* No crash and no race makes a movement leave the ledger unreversed.
THEOREM CancelledAlwaysReversed == Spec => []CancelledWasReversed
<1>1. LedgerInv => CancelledWasReversed
  BY DEF LedgerInv, Accounted
<1> QED
  BY <1>1, LedgerInvariant, PTL

\* No interleaving commits the effect of a row twice.
THEOREM PostedAtMostOnce == Spec => []PostedOnce
<1>1. LedgerInv => PostedOnce
  BY DEF LedgerInv, Pending
<1> QED
  BY <1>1, LedgerInvariant, PTL

\* A transfer between warehouses changes no total, whatever else is going on.
THEOREM TransfersKeepTotals == Spec => TransferKeepsTotals
<1>1. LedgerInv /\ [Next]_vars =>
        [(\E p \in Session : PostTransfer(p))
           => /\ stock' = stock
              /\ SumTo(ws', Warehouses) = SumTo(ws, Warehouses)]_vars
  BY TransferTotals DEF PostTransfer
<1> QED
  BY <1>1, LedgerInvariant, PTL DEF Spec, TransferKeepsTotals

-----------------------------------------------------------------------------
(* What the handlers committed. *)

\* No request edits a quantity.
NoPatch == "patch" \notin Entry

\* What the handlers have done to current_stock for one row.
Effect(m) == (posted[m] - reversed[m]) * Signed(row[m])
Effects == [m \in RowId |-> Effect(m)]
Balanced == stock = SumTo(Effects, Rows)

HandStages == {"inserted", "cancelling", "deleting", "reversed"}

\* A session's copy of a row has the row's kind and quantity.
Faithful(p) ==
    session[p].stage \in HandStages =>
        /\ row[session[p].ref].status # "absent"
        /\ session[p].copy.kind = row[session[p].ref].kind
        /\ session[p].copy.qty = row[session[p].ref].qty
InHand == \A p \in Session : session[p].stage # "patching" /\ Faithful(p)

Untouched == \A m \in RowId : row[m].status = "absent" => reversed[m] = 0

BalanceInv == LedgerInv /\ InHand /\ Untouched /\ Balanced

\* A row that is there stays, with its kind and quantity.
RowsStay ==
    \A i \in RowId : row[i].status # "absent" =>
        /\ row'[i].status # "absent"
        /\ row'[i].kind = row[i].kind
        /\ row'[i].qty = row[i].qty

-----------------------------------------------------------------------------
(* The effect of a row. *)

\* Posting once more adds the row's amount, reversing once more takes it off.
LEMMA Counting ==
    ASSUME NEW a \in Int, NEW b \in Int, NEW s \in Int
    PROVE  /\ (a - b) * s \in Int
           /\ (a + 1 - b) * s = (a - b) * s + s
           /\ (a - (b + 1)) * s = (a - b) * s - s
           /\ (0 - 0) * s = 0
           /\ (1 - 0) * s = s
           /\ (1 - 1) * s = 0
  OBVIOUS

\* Amounts and effects are integers.
LEMMA EffectTyped ==
    ASSUME Typed
    PROVE  /\ \A m \in RowId : Signed(row[m]) \in Int /\ Effect(m) \in Int
           /\ Effects \in [1..Rows -> Int] /\ Rows \in Nat /\ Rows \in 0..Rows
<1>1. ASSUME NEW m \in RowId PROVE Signed(row[m]) \in Int
  BY DEF Typed, Movement, Signed
<1>2. ASSUME NEW m \in RowId PROVE Effect(m) \in Int
  <2>1. posted[m] \in Int /\ reversed[m] \in Int
    BY DEF Typed
  <2> QED
    BY <1>1, <2>1, Counting DEF Effect
<1>3. Effects \in [1..Rows -> Int]
  BY <1>2 DEF Effects, RowId
<1> QED
  BY <1>1, <1>2, <1>3, LedgerAssumption

\* When the effect of one row changes, the total changes by as much.
LEMMA OneEffect ==
    ASSUME Typed, Typed', NEW m \in RowId, NEW d \in Int,
           Effect(m)' = Effect(m) + d,
           \A i \in RowId \ {m} : Effect(i)' = Effect(i)
    PROVE  SumTo(Effects', Rows) = SumTo(Effects, Rows) + d
<1> DEFINE v == Effect(m) + d
<1>1. /\ Effects \in [1..Rows -> Int] /\ Rows \in Nat /\ Rows \in 0..Rows
      /\ Effect(m) \in Int /\ v \in Int /\ m \in 1..Rows /\ ~(Rows < m)
  BY EffectTyped, LedgerAssumption DEF RowId
<1>2. Effects' = [Effects EXCEPT ![m] = v]
  BY DEF Effects
<1>3. Effects[m] = Effect(m)
  BY DEF Effects
<1>4. SumTo(Effects, Rows) \in Int
  BY <1>1, SumToStep
<1> HIDE DEF v
<1>5. SumTo([Effects EXCEPT ![m] = v], Rows) = SumTo(Effects, Rows) - Effects[m] + v
  BY <1>1, SumToUpdate
<1> QED
  BY <1>1, <1>2, <1>3, <1>4, <1>5 DEF v

\* The effect of a row that keeps its counts does not change: a new row has
\* none, and the others keep their amounts.
LEMMA EffectKept ==
    ASSUME BalanceInv, Typed', RowsStay, NEW m \in RowId,
           posted'[m] = posted[m], reversed'[m] = reversed[m]
    PROVE  Effect(m)' = Effect(m)
<1>1. CASE row[m].status = "absent"
  <2>1. posted[m] = 0 /\ reversed[m] = 0
    BY <1>1 DEF BalanceInv, LedgerInv, Pending, Untouched
  <2>2. Signed(row[m]) \in Int /\ Signed(row[m])' \in Int
    BY EffectTyped DEF BalanceInv, LedgerInv, Typed, Movement, Signed
  <2> QED
    BY <2>1, <2>2, Counting DEF Effect
<1>2. CASE row[m].status # "absent"
  BY <1>2 DEF RowsStay, Effect, Signed
<1> QED
  BY <1>1, <1>2

\* With all counts kept, so is the total.
LEMMA EffectsKept ==
    ASSUME BalanceInv, Typed', RowsStay, UNCHANGED <<stock, posted, reversed>>
    PROVE  Balanced'
<1>1. \A m \in RowId : Effect(m)' = Effect(m)
  BY EffectKept
<1>2. Effects' = Effects
  BY <1>1 DEF Effects
<1> QED
  BY <1>2 DEF BalanceInv, Balanced

\* One row posted once more.
LEMMA BookedOnce ==
    ASSUME BalanceInv, Typed', RowsStay, NEW m \in RowId,
           row[m].status # "absent",
           posted' = [posted EXCEPT ![m] = @ + 1], reversed' = reversed,
           stock' = stock + Signed(row[m])
    PROVE  Balanced'
<1>1. Typed /\ posted[m] \in Int /\ reversed[m] \in Int /\ Signed(row[m]) \in Int
  BY EffectTyped DEF BalanceInv, LedgerInv, Typed
<1>2. posted'[m] = posted[m] + 1 /\ \A i \in RowId \ {m} : posted'[i] = posted[i]
  BY <1>1 DEF Typed
<1>3. Signed(row[m])' = Signed(row[m])
  BY DEF RowsStay, Signed
<1>4. Effect(m)' = Effect(m) + Signed(row[m])
  BY <1>1, <1>2, <1>3, Counting DEF Effect
<1>5. \A i \in RowId \ {m} : Effect(i)' = Effect(i)
  BY <1>2, EffectKept
<1>6. SumTo(Effects', Rows) = SumTo(Effects, Rows) + Signed(row[m])
  BY <1>1, <1>4, <1>5, OneEffect
<1> QED
  BY <1>6 DEF BalanceInv, Balanced

\* One row reversed once more.
LEMMA VoidedOnce ==
    ASSUME BalanceInv, Typed', RowsStay, NEW m \in RowId,
           row[m].status # "absent",
           reversed' = [reversed EXCEPT ![m] = @ + 1], posted' = posted,
           stock' = stock - Signed(row[m])
    PROVE  Balanced'
<1>1. Typed /\ posted[m] \in Int /\ reversed[m] \in Int /\ Signed(row[m]) \in Int
  BY EffectTyped DEF BalanceInv, LedgerInv, Typed
<1>2. reversed'[m] = reversed[m] + 1 /\ \A i \in RowId \ {m} : reversed'[i] = reversed[i]
  BY <1>1 DEF Typed
<1>3. Signed(row[m])' = Signed(row[m])
  BY DEF RowsStay, Signed
<1>4. Effect(m)' = Effect(m) + (0 - Signed(row[m]))
  <2>1. Effect(m)' = (posted[m] - (reversed[m] + 1)) * Signed(row[m])
    BY <1>2, <1>3 DEF Effect
  <2>2. (posted[m] - (reversed[m] + 1)) * Signed(row[m])
          = (posted[m] - reversed[m]) * Signed(row[m]) - Signed(row[m])
    BY <1>1, Counting
  <2>3. Effect(m) = (posted[m] - reversed[m]) * Signed(row[m]) /\ Effect(m) \in Int
    BY <1>1, EffectTyped DEF Effect
  <2>4. Effect(m)' = Effect(m) - Signed(row[m])
    BY <2>1, <2>2, <2>3
  <2> QED
    BY <1>1, <2>3, <2>4
<1>5. \A i \in RowId \ {m} : Effect(i)' = Effect(i)
  BY <1>2, EffectKept
<1>6. SumTo(Effects', Rows) = SumTo(Effects, Rows) + (0 - Signed(row[m]))
  <2>1. 0 - Signed(row[m]) \in Int
    BY <1>1
  <2> QED
    BY <1>1, <1>4, <1>5, <2>1, OneEffect
<1>7. SumTo(Effects, Rows) \in Int
  BY <1>1, EffectTyped, SumToStep
<1> QED
  BY <1>1, <1>6, <1>7 DEF BalanceInv, Balanced

\* The handler of a new row adds its signed amount, that of a cancelled or a
\* deleted row takes it off.
LEMMA HandlerAmounts ==
    ASSUME stock \in Nat, NEW m, NEW r \in Movement, NEW b
    PROVE  /\ Apply(m, r) => stock' = stock + Signed(r)
           /\ Revert(m, r, b) => stock' = stock - Signed(r)
<1>1. r.qty \in Nat
  BY DEF Movement
<1>2. r.kind \in Inbound => Signed(r) = r.qty
  BY DEF Signed
<1>3. r.kind \in Outbound => Signed(r) = 0 - r.qty
  BY DEF Signed, Inbound, Outbound
<1>4. CASE Apply(m, r)
  <2>1. \/ r.kind \in Inbound /\ stock' = stock + r.qty
        \/ r.kind \in Outbound /\ stock' = stock - r.qty
    BY <1>4 DEF Apply
  <2>2. stock' = stock + Signed(r)
    BY <1>1, <1>2, <1>3, <2>1
  <2>3. Revert(m, r, b) => stock' = stock - Signed(r)
    <3>1. Revert(m, r, b) => \/ r.kind \in Inbound /\ stock' = stock - r.qty
                             \/ r.kind \in Outbound /\ stock' = stock + r.qty
      BY DEF Revert
    <3> QED
      BY <1>1, <1>2, <1>3, <3>1
  <2> QED
    BY <2>2, <2>3
<1>5. CASE ~Apply(m, r)
  <2>1. Revert(m, r, b) => \/ r.kind \in Inbound /\ stock' = stock - r.qty
                           \/ r.kind \in Outbound /\ stock' = stock + r.qty
    BY DEF Revert
  <2> QED
    BY <1>1, <1>2, <1>3, <1>5, <2>1
<1> QED
  BY <1>4, <1>5

-----------------------------------------------------------------------------
(* Every action keeps the balance. *)

\* A session that does not move keeps a faithful copy.
LEMMA FaithfulKept ==
    ASSUME Typed, RowsStay, NEW o \in Session, Faithful(o), session'[o] = session[o]
    PROVE  Faithful(o)'
  BY DEF Typed, RowsStay, Faithful, HandStages, RowStages

\* What an action has to show.
LEMMA BalanceStep ==
    ASSUME BalanceInv, LedgerInv', RowsStay, Balanced', NEW p \in Session,
           \A o \in Session \ {p} : session'[o] = session[o],
           session'[p].stage # "patching", Faithful(p)',
           \A m \in RowId : row'[m].status = "absent" =>
               row[m].status = "absent" /\ reversed'[m] = reversed[m]
    PROVE  BalanceInv'
<1>1. \A o \in Session : session'[o].stage # "patching" /\ Faithful(o)'
  BY FaithfulKept DEF BalanceInv, LedgerInv, InHand
<1>2. InHand'
  BY <1>1 DEF InHand
<1>3. Untouched'
  BY DEF BalanceInv, Untouched
<1> QED
  BY <1>2, <1>3 DEF BalanceInv

\* A new row is put in hand: no effect yet.
LEMMA InsertBalance ==
    ASSUME BalanceInv, LedgerInv', NEW p \in Session, NEW m \in RowId,
           NEW r \in Movement, NextRow(m), Insert(m, r), r.status = "active",
           Goto(p, "inserted", m, r), UNCHANGED <<stock, posted, reversed>>
    PROVE  BalanceInv'
<1>1. /\ row' \in [RowId -> Movement] /\ row'[m] = r /\ row[m].status = "absent"
      /\ \A i \in RowId \ {m} : row'[i] = row[i]
  BY DEF Insert, BalanceInv, LedgerInv, Typed, NextRow, Taken
<1>2. RowsStay
  BY <1>1 DEF RowsStay
<1>3. /\ session'[p].stage = "inserted" /\ session'[p].ref = m /\ session'[p].copy = r
      /\ \A o \in Session \ {p} : session'[o] = session[o]
  BY GotoTyped DEF BalanceInv, LedgerInv, Typed, Stage, RowId
<1>4. Faithful(p)'
  BY <1>1, <1>3 DEF Faithful
<1>5. Balanced'
  BY <1>2, EffectsKept DEF LedgerInv
<1> QED
  BY <1>1, <1>2, <1>3, <1>4, <1>5, BalanceStep

\* A session that only reads a row, or ends, leaves the balance alone.
LEMMA MoveBalance ==
    ASSUME BalanceInv, LedgerInv', NEW p \in Session,
           UNCHANGED <<stock, row, posted, reversed>>,
           \A o \in Session \ {p} : session'[o] = session[o],
           session'[p].stage # "patching", Faithful(p)'
    PROVE  BalanceInv'
<1>1. RowsStay
  BY DEF RowsStay
<1>2. Balanced'
  BY <1>1, EffectsKept DEF LedgerInv
<1> QED
  BY <1>1, <1>2, BalanceStep

\* A row inserted and posted in one transaction.
LEMMA CreateAtomicallyBalance ==
    ASSUME BalanceInv, LedgerInv', NEW p \in Session, NEW k \in Kind,
           NEW w \in Warehouse, NEW q \in Nat, CreateAtomically(p, k, w, q)
    PROVE  BalanceInv'
<1> DEFINE r == NewMovement(k, w, q, 0)
<1> USE DEF BalanceInv, LedgerInv
<1>1. r \in Movement /\ r.status = "active" /\ stock \in Nat
  BY LedgerAssumption, MovementTyped DEF FiguresOK
<1> HIDE DEF r
<1>2. PICK m \in RowId : /\ NextRow(m) /\ Insert(m, r) /\ Apply(m, r)
                         /\ posted' = [posted EXCEPT ![m] = @ + 1]
  BY DEF CreateAtomically, r
<1>3. UNCHANGED <<transfer, session, reversed>>
  BY DEF CreateAtomically
<1>4. /\ row'[m] = r /\ row[m].status = "absent"
      /\ \A i \in RowId \ {m} : row'[i] = row[i]
  BY <1>1, <1>2 DEF Insert, Typed, NextRow, Taken
<1>5. RowsStay
  BY <1>4 DEF RowsStay
<1>6. stock' = stock + Signed(r) /\ Signed(r) \in Int
  BY <1>1, <1>2, HandlerAmounts DEF Signed, Movement
<1>7. /\ posted[m] = 0 /\ posted'[m] = 1 /\ reversed[m] = 0
      /\ \A i \in RowId \ {m} : posted'[i] = posted[i]
  BY <1>2, <1>4 DEF Typed, Pending, Untouched
<1>8. Effect(m)' = Effect(m) + Signed(r)
  <2>1. Effect(m)' = (1 - 0) * Signed(r)
    BY <1>3, <1>4, <1>7 DEF Effect
  <2>2. Effect(m) = (0 - 0) * Signed(row[m]) /\ Signed(row[m]) \in Int
    BY <1>7, EffectTyped DEF Effect
  <2>3. Effect(m)' = Signed(r) /\ Effect(m) = 0
    BY <1>6, <2>1, <2>2, Counting
  <2> QED
    BY <1>6, <2>3
<1>9. \A i \in RowId \ {m} : Effect(i)' = Effect(i)
  BY <1>3, <1>5, <1>7, EffectKept
<1>10. Balanced'
  <2>1. SumTo(Effects', Rows) = SumTo(Effects, Rows) + Signed(r)
    BY <1>6, <1>8, <1>9, OneEffect
  <2> QED
    BY <1>6, <2>1 DEF Balanced
<1>11. \A i \in RowId : row'[i].status = "absent" =>
         row[i].status = "absent" /\ reversed'[i] = reversed[i]
  BY <1>1, <1>3, <1>4
<1>12. Faithful(p)' /\ session'[p].stage # "patching"
  BY <1>3, <1>5, FaithfulKept DEF InHand
<1> QED
  BY <1>3, <1>5, <1>10, <1>11, <1>12, BalanceStep

\* The effect of a row is committed by the session that holds it.
LEMMA PostBalance ==
    ASSUME BalanceInv, LedgerInv', NEW p \in Session, Post(p)
    PROVE  BalanceInv'
<1> DEFINE m == session[p].ref
           r == session[p].copy
<1> USE DEF BalanceInv, LedgerInv
<1>1. /\ m \in RowId /\ r \in Movement /\ stock \in Nat
      /\ row[m].status # "absent" /\ r.kind = row[m].kind /\ r.qty = row[m].qty
  BY DEF Post, At, Typed, RowStages, Work, FiguresOK, InHand, Faithful, HandStages
<1>2. /\ Apply(m, r) /\ posted' = [posted EXCEPT ![m] = @ + 1]
      /\ Done(p) /\ UNCHANGED <<row, transfer, reversed>>
  BY DEF Post
<1> HIDE DEF m, r
<1>3. RowsStay
  BY <1>2 DEF RowsStay
<1>4. stock' = stock + Signed(r) /\ Signed(r) = Signed(row[m])
  BY <1>1, <1>2, HandlerAmounts DEF Signed
<1>5. Balanced'
  BY <1>1, <1>2, <1>3, <1>4, BookedOnce
<1>6. session'[p].stage = "idle" /\ \A o \in Session \ {p} : session'[o] = session[o]
  BY <1>2, DoneTyped DEF Typed
<1>7. Faithful(p)'
  BY <1>6 DEF Faithful, HandStages
<1> QED
  BY <1>2, <1>3, <1>5, <1>6, <1>7, BalanceStep

\* A reversal commits, and the row is marked in the same transaction or later.
LEMMA ReverseBalance ==
    ASSUME BalanceInv, LedgerInv', NEW p \in Session,
           CommitReversal(p) \/ Delete(p)
    PROVE  BalanceInv'
<1> DEFINE m == session[p].ref
           r == session[p].copy
<1> USE DEF BalanceInv, LedgerInv
<1>1. /\ m \in RowId /\ m \in Nat /\ r \in Movement /\ stock \in Nat /\ row[m] \in Movement
      /\ row[m].status # "absent" /\ r.kind = row[m].kind /\ r.qty = row[m].qty
  BY DEF CommitReversal, Delete, At, Typed, RowStages, Work, FiguresOK, InHand,
     Faithful, HandStages, RowId
<1>2. /\ Revert(m, r, TRUE) \/ Revert(m, r, FALSE)
      /\ reversed' = [reversed EXCEPT ![m] = @ + 1]
      /\ row' = row \/ row' = [row EXCEPT ![m] = Marked(@, "deleted")]
      /\ UNCHANGED <<transfer, posted>>
  BY DEF CommitReversal, Delete
<1>3. \/ Goto(p, "reversed", m, r) /\ row' = row
      \/ Done(p)
  BY DEF CommitReversal, Delete
<1> HIDE DEF m, r
<1>4. \/ row' = row
      \/ row' = [row EXCEPT ![m] = Marked(row[m], "deleted")]
  BY <1>2
<1>5. /\ Marked(row[m], "deleted").status = "deleted"
      /\ Marked(row[m], "deleted").kind = row[m].kind
      /\ Marked(row[m], "deleted").qty = row[m].qty
  BY DEF Marked
<1>6. /\ \A i \in RowId \ {m} : row'[i] = row[i]
      /\ row'[m] = row[m] \/ row'[m] = Marked(row[m], "deleted")
  BY <1>1, <1>4 DEF Typed
<1>7. RowsStay
  BY <1>5, <1>6 DEF RowsStay
<1>8. stock' = stock - Signed(r) /\ Signed(r) = Signed(row[m])
  BY <1>1, <1>2, HandlerAmounts DEF Signed
<1>9. Balanced'
  BY <1>1, <1>2, <1>7, <1>8, VoidedOnce
<1>10. /\ session'[p].stage # "patching" /\ Faithful(p)'
       /\ \A o \in Session \ {p} : session'[o] = session[o]
  <2>1. CASE Goto(p, "reversed", m, r) /\ row' = row
    <3>1. /\ session'[p].stage = "reversed" /\ session'[p].ref = m
          /\ session'[p].copy = r
          /\ \A o \in Session \ {p} : session'[o] = session[o]
      BY <1>1, <2>1, GotoTyped DEF Typed, Stage
    <3> QED
      BY <1>1, <2>1, <3>1 DEF Faithful
  <2>2. CASE Done(p)
    <3>1. session'[p].stage = "idle" /\ \A o \in Session \ {p} : session'[o] = session[o]
      BY <2>2, DoneTyped DEF Typed
    <3> QED
      BY <3>1 DEF Faithful, HandStages
  <2> QED
    BY <1>3, <2>1, <2>2
<1>11. \A i \in RowId : row'[i].status = "absent" =>
         row[i].status = "absent" /\ reversed'[i] = reversed[i]
  BY <1>1, <1>2, <1>5, <1>6 DEF Typed
<1> QED
  BY <1>7, <1>9, <1>10, <1>11, BalanceStep

\* Marking a row changes no count and no amount.
LEMMA MarkBalance ==
    ASSUME BalanceInv, LedgerInv', NEW p \in Session, MarkCancelled(p)
    PROVE  BalanceInv'
<1> DEFINE m == session[p].ref
<1> USE DEF BalanceInv, LedgerInv
<1>1. m \in RowId /\ row[m].status # "absent"
  BY DEF MarkCancelled, At, Typed, RowStages, InHand, Faithful, HandStages
<1>2. /\ row' = IF row[m].status = "active"
                THEN [row EXCEPT ![m] = Marked(@, "cancelled")] ELSE row
      /\ Done(p) /\ UNCHANGED <<stock, ws, lot, transfer, posted, reversed>>
  BY DEF MarkCancelled
<1> HIDE DEF m
<1>3. /\ Marked(row[m], "cancelled").status = "cancelled"
      /\ Marked(row[m], "cancelled").kind = row[m].kind
      /\ Marked(row[m], "cancelled").qty = row[m].qty
  BY DEF Marked
<1>4. /\ \A i \in RowId \ {m} : row'[i] = row[i]
      /\ row'[m] = row[m] \/ row'[m] = Marked(row[m], "cancelled")
  BY <1>1, <1>2 DEF Typed
<1>5. RowsStay
  BY <1>3, <1>4 DEF RowsStay
<1>6. Balanced'
  BY <1>2, <1>5, EffectsKept
<1>7. session'[p].stage = "idle" /\ \A o \in Session \ {p} : session'[o] = session[o]
  BY <1>2, DoneTyped DEF Typed
<1>8. Faithful(p)'
  BY <1>7 DEF Faithful, HandStages
<1>9. \A i \in RowId : row'[i].status = "absent" => row[i].status = "absent"
  BY <1>3, <1>4
<1> QED
  BY <1>2, <1>5, <1>6, <1>7, <1>8, <1>9, BalanceStep

\* The two movements of a transfer balance each other.
LEMMA PostTransferBalance ==
    ASSUME BalanceInv, LedgerInv', NEW p \in Session, PostTransfer(p)
    PROVE  BalanceInv'
<1> DEFINE t == session[p].ref
           d == transfer[t]
           sent == NewMovement("OUT", d.from, d.qty, t)
           got == NewMovement("IN", d.to, d.qty, t)
           q == d.qty
<1> USE DEF BalanceInv, LedgerInv
<1>1. q \in Nat
  BY DEF PostTransfer, At, Typed, Transfer
<1>2. PICK m \in RowId :
        /\ NextRow(m) /\ m + 1 \in RowId \ Taken(row)
        /\ row' = [row EXCEPT ![m] = sent, ![m+1] = got]
        /\ posted' = [posted EXCEPT ![m] = @ + 1, ![m+1] = @ + 1]
  BY DEF PostTransfer
<1>3. Done(p) /\ UNCHANGED <<stock, transfer, reversed>>
  BY DEF PostTransfer
<1>4. /\ Signed(sent) = 0 - q /\ sent.status = "active"
      /\ Signed(got) = q /\ got.status = "active"
  BY DEF Signed, NewMovement, Inbound
<1> HIDE DEF t, d, sent, got, q
<1>5. /\ m \in RowId /\ m + 1 \in RowId /\ m + 1 # m
      /\ row[m].status = "absent" /\ row[m+1].status = "absent"
  BY <1>2 DEF NextRow, Taken, RowId, Typed
<1>6. /\ row'[m] = sent /\ row'[m+1] = got
      /\ \A i \in RowId \ {m, m+1} : row'[i] = row[i]
  BY <1>2, <1>5 DEF Typed
<1>7. RowsStay
  BY <1>5, <1>6 DEF RowsStay
<1>8. /\ posted[m] = 0 /\ posted[m+1] = 0 /\ reversed[m] = 0 /\ reversed[m+1] = 0
      /\ posted'[m] = 1 /\ posted'[m+1] = 1
      /\ \A i \in RowId \ {m, m+1} : posted'[i] = posted[i]
  BY <1>2, <1>5 DEF Typed, Pending, Untouched
<1>9. Effect(m)' = 0 - q /\ Effect(m+1)' = q
  <2>1. /\ Effect(m)' = (1 - 0) * Signed(sent)
        /\ Effect(m+1)' = (1 - 0) * Signed(got)
    BY <1>3, <1>5, <1>6, <1>8 DEF Effect
  <2>2. q \in Int /\ 0 - q \in Int
    BY <1>1
  <2> QED
    BY <1>4, <2>1, <2>2, Counting
<1>10. Effect(m) = 0 /\ Effect(m+1) = 0
  <2>1. /\ Effect(m) = (0 - 0) * Signed(row[m]) /\ Signed(row[m]) \in Int
        /\ Effect(m+1) = (0 - 0) * Signed(row[m+1]) /\ Signed(row[m+1]) \in Int
    BY <1>5, <1>8, EffectTyped DEF Effect
  <2> QED
    BY <2>1, Counting
<1>11. Balanced'
  <2> DEFINE a == 0 - q
             mid == [Effects EXCEPT ![m] = a]
  <2>1. /\ Effects \in [1..Rows -> Int] /\ Rows \in Nat /\ Rows \in 0..Rows
        /\ a \in Int /\ q \in Int /\ m \in 1..Rows /\ m + 1 \in 1..Rows
        /\ ~(Rows < m) /\ ~(Rows < m + 1)
        /\ Effects[m] = 0 /\ Effects[m+1] = 0 /\ a + q = 0
    BY <1>1, <1>5, <1>10, EffectTyped DEF RowId, Effects
  <2>2. \A i \in RowId \ {m, m+1} : Effect(i)' = Effect(i)
    BY <1>3, <1>7, <1>8, EffectKept
  <2>3. Effect(m)' = a
    BY <1>9
  <2> HIDE DEF a
  <2>4. Effects' = [mid EXCEPT ![m+1] = q]
    BY <1>5, <1>9, <2>2, <2>3 DEF Effects
  <2>5. mid \in [1..Rows -> Int] /\ mid[m+1] = 0
    BY <1>5, <2>1
  <2>6. SumTo(mid, Rows) = SumTo(Effects, Rows) - Effects[m] + a
    BY <2>1, SumToUpdate
  <2>7. SumTo(Effects, Rows) \in Int
    BY <2>1, SumToStep
  <2> HIDE DEF mid
  <2>8. SumTo([mid EXCEPT ![m+1] = q], Rows) = SumTo(mid, Rows) - mid[m+1] + q
    BY <2>1, <2>5, SumToUpdate
  <2>9. SumTo(Effects', Rows) = SumTo(Effects, Rows)
    BY <2>1, <2>4, <2>5, <2>6, <2>7, <2>8
  <2> QED
    BY <1>3, <2>9 DEF Balanced
<1>12. session'[p].stage = "idle" /\ \A o \in Session \ {p} : session'[o] = session[o]
  BY <1>3, DoneTyped DEF Typed
<1>13. Faithful(p)'
  BY <1>12 DEF Faithful, HandStages
<1>14. \A i \in RowId : row'[i].status = "absent" =>
         row[i].status = "absent" /\ reversed'[i] = reversed[i]
  BY <1>3, <1>4, <1>6
<1> QED
  BY <1>7, <1>11, <1>12, <1>13, <1>14, BalanceStep

\* The rows of transfer t that are active, of one kind, and their quantities.
Live(t, k) == {m \in RowId : row[m].transfer = t /\ row[m].status = "active"
                                                /\ row[m].kind = k}
LiveQty(t, k) == [m \in RowId |-> IF m \in Live(t, k) THEN row[m].qty ELSE 0]

\* The total CancelTransfer takes off the stock is that of the amounts of the
\* rows it reverses.
LEMMA CancelledAmounts ==
    ASSUME Typed, NEW t
    PROVE  /\ LiveQty(t, "IN") \in [1..Rows -> Int]
           /\ LiveQty(t, "OUT") \in [1..Rows -> Int]
           /\ SumTo(LiveQty(t, "IN"), Rows) \in Int
           /\ SumTo(LiveQty(t, "OUT"), Rows) \in Int
           /\ \A m \in RowId : LiveQty(t, "IN")[m] - LiveQty(t, "OUT")[m]
                 = IF m \in Live(t, "IN") \cup Live(t, "OUT") THEN Signed(row[m]) ELSE 0
<1>1. /\ LiveQty(t, "IN") \in [1..Rows -> Int]
      /\ LiveQty(t, "OUT") \in [1..Rows -> Int]
  BY DEF LiveQty, Typed, Movement, RowId
<1>2. Rows \in Nat /\ Rows \in 0..Rows
  BY LedgerAssumption
<1>3. SumTo(LiveQty(t, "IN"), Rows) \in Int /\ SumTo(LiveQty(t, "OUT"), Rows) \in Int
  BY <1>1, <1>2, SumToStep
<1>4. ASSUME NEW m \in RowId
      PROVE  LiveQty(t, "IN")[m] - LiveQty(t, "OUT")[m]
               = IF m \in Live(t, "IN") \cup Live(t, "OUT") THEN Signed(row[m]) ELSE 0
  <2>1. row[m].qty \in Nat
    BY DEF Typed, Movement
  <2>2. CASE m \in Live(t, "IN")
    BY <2>1, <2>2 DEF LiveQty, Live, Signed, Inbound
  <2>3. CASE m \in Live(t, "OUT")
    BY <2>1, <2>3 DEF LiveQty, Live, Signed, Inbound
  <2>4. CASE m \notin Live(t, "IN") /\ m \notin Live(t, "OUT")
    BY <2>4 DEF LiveQty
  <2> QED
    BY <2>2, <2>3, <2>4
<1> QED
  BY <1>1, <1>3, <1>4

\* CancelTransfer in these terms.
LEMMA CancelTransferMeans ==
    ASSUME NEW p \in Session, NEW t \in TransferId, CancelTransfer(p, t)
    PROVE  /\ stock' = stock + SumTo(LiveQty(t, "OUT"), Rows) - SumTo(LiveQty(t, "IN"), Rows)
           /\ row' = [i \in RowId |-> IF i \in Live(t, "IN") \cup Live(t, "OUT")
                                      THEN Marked(row[i], "cancelled") ELSE row[i]]
           /\ reversed' = [i \in RowId |-> IF i \in Live(t, "IN") \cup Live(t, "OUT")
                                           THEN reversed[i] + 1 ELSE reversed[i]]
           /\ UNCHANGED <<session, posted>>
           /\ At(p, "idle")
  BY DEF CancelTransfer, Live, LiveQty

\* Cancelling a transfer takes off what its active rows had added.
LEMMA CancelTransferBalance ==
    ASSUME BalanceInv, LedgerInv', NEW p \in Session, NEW t \in TransferId,
           CancelTransfer(p, t)
    PROVE  BalanceInv'
<1> DEFINE ins == LiveQty(t, "IN")
           outs == LiveQty(t, "OUT")
           both == Live(t, "IN") \cup Live(t, "OUT")
<1> USE DEF BalanceInv, LedgerInv
<1>1. /\ stock' = stock + SumTo(outs, Rows) - SumTo(ins, Rows)
      /\ row' = [i \in RowId |-> IF i \in both THEN Marked(row[i], "cancelled") ELSE row[i]]
      /\ reversed' = [i \in RowId |-> IF i \in both THEN reversed[i] + 1 ELSE reversed[i]]
      /\ UNCHANGED <<session, posted>>
  BY CancelTransferMeans
<1>2. /\ ins \in [1..Rows -> Int] /\ outs \in [1..Rows -> Int]
      /\ SumTo(ins, Rows) \in Int /\ SumTo(outs, Rows) \in Int
      /\ \A m \in RowId : ins[m] - outs[m] = IF m \in both THEN Signed(row[m]) ELSE 0
  BY CancelledAmounts
<1>3. \A i \in RowId : i \in both => row[i].status = "active"
  BY DEF Live
<1> HIDE DEF ins, outs, both
<1>4. \A i \in RowId : /\ Marked(row[i], "cancelled").status = "cancelled"
                       /\ Marked(row[i], "cancelled").kind = row[i].kind
                       /\ Marked(row[i], "cancelled").qty = row[i].qty
  BY DEF Marked
<1>5. RowsStay
  BY <1>1, <1>4 DEF RowsStay
<1>6. ASSUME NEW m \in RowId
      PROVE  Effect(m)' = Effect(m) + outs[m] - ins[m]
  <2>1. /\ ins[m] \in Int /\ outs[m] \in Int /\ Effect(m) \in Int
        /\ Signed(row[m]) \in Int /\ posted[m] \in Int /\ reversed[m] \in Int
        /\ posted'[m] = posted[m]
    BY <1>1, <1>2, EffectTyped DEF Typed, RowId
  <2>2. CASE m \in both
    <3>1. Signed(row[m])' = Signed(row[m])
      BY <1>3, <1>5, <2>2 DEF RowsStay, Signed
    <3>2. reversed'[m] = reversed[m] + 1
      BY <1>1, <2>2
    <3>3. Effect(m)' = (posted[m] - (reversed[m] + 1)) * Signed(row[m])
      BY <2>1, <3>1, <3>2 DEF Effect
    <3>4. (posted[m] - (reversed[m] + 1)) * Signed(row[m])
            = (posted[m] - reversed[m]) * Signed(row[m]) - Signed(row[m])
      BY <2>1, Counting
    <3>5. Effect(m) = (posted[m] - reversed[m]) * Signed(row[m])
      BY DEF Effect
    <3>6. Effect(m)' = Effect(m) - Signed(row[m])
      BY <3>3, <3>4, <3>5
    <3>7. ins[m] - outs[m] = Signed(row[m])
      BY <1>2, <2>2
    <3> QED
      BY <2>1, <3>6, <3>7
  <2>3. CASE m \notin both
    <3>1. Effect(m)' = Effect(m)
      BY <1>1, <1>5, <2>1, <2>3, EffectKept
    <3>2. ins[m] - outs[m] = 0
      BY <1>2, <2>3
    <3>3. ins[m] \in Int /\ outs[m] \in Int /\ Effect(m) \in Int
      BY <2>1
    <3>4. Effect(m) + outs[m] - ins[m] = Effect(m)
      BY <3>2, <3>3
    <3> QED
      BY <3>1, <3>4
  <2> QED
    BY <2>2, <2>3
<1>7. Balanced'
  <2>1. /\ Effects \in [1..Rows -> Int] /\ Rows \in Nat /\ Rows \in 0..Rows
        /\ ins \in [1..Rows -> Int] /\ outs \in [1..Rows -> Int]
    BY <1>2, EffectTyped
  <2>2. \A i \in 1..Rows : (Effects')[i] = Effects[i] + outs[i] - ins[i]
    BY <1>6 DEF Effects, RowId
  <2>3. SumTo(Effects', Rows) = SumTo(Effects, Rows) + SumTo(outs, Rows) - SumTo(ins, Rows)
    <3> DEFINE now == Effects'
    <3>1. now \in [1..Rows -> Int] /\ \A i \in 1..Rows : now[i] = Effects[i] + outs[i] - ins[i]
      <4>1. \A i \in 1..Rows : Effects[i] + outs[i] - ins[i] \in Int
        BY <2>1
      <4>2. now = [i \in 1..Rows |-> now[i]]
        BY DEF Effects, RowId
      <4> QED
        BY <2>2, <4>1, <4>2
    <3> HIDE DEF now
    <3>2. Combined(Rows, Effects, outs, ins, now)
      BY <2>1, <3>1 DEF Combined
    <3>3. SumTo(now, Rows) = SumTo(Effects, Rows) + SumTo(outs, Rows) - SumTo(ins, Rows)
      BY <2>1, <3>2, SumToCombine
    <3> QED
      BY <3>3 DEF now
  <2> QED
    BY <1>1, <2>3 DEF Balanced
<1>8. session'[p].stage # "patching" /\ Faithful(p)'
  BY <1>1, <1>5, FaithfulKept DEF InHand
<1>9. \A i \in RowId : row'[i].status = "absent" =>
        row[i].status = "absent" /\ reversed'[i] = reversed[i]
  BY <1>1, <1>3, <1>4
<1> QED
  BY <1>1, <1>5, <1>7, <1>8, <1>9, BalanceStep

\* The empty tables balance.
LEMMA InitBalance == Init => BalanceInv
<1> SUFFICES ASSUME Init PROVE BalanceInv
  OBVIOUS
<1>1. LedgerInv
  BY InitInv
<1>2. InHand /\ Untouched
  BY DEF Init, InHand, Untouched, Faithful, HandStages, Idle
<1>3. \A m \in RowId : Effect(m) = 0
  <2>1. ASSUME NEW m \in RowId PROVE Effect(m) = 0
    <3>1. Effect(m) = (0 - 0) * Signed(row[m]) /\ Signed(row[m]) \in Int
      BY <1>1, EffectTyped DEF Init, Effect, LedgerInv
    <3> QED
      BY <3>1, Counting
  <2> QED
    BY <2>1
<1>4. Effects \in [1..Rows -> Int] /\ Rows \in Nat /\ Rows \in 0..Rows
  BY <1>1, EffectTyped DEF LedgerInv
<1>5. \A i \in 1..Rows : Effects[i] = 0
  BY <1>3 DEF Effects, RowId
<1>6. SumTo(Effects, Rows) = 0
  BY <1>4, <1>5, SumToZero
<1> QED
  BY <1>1, <1>2, <1>6 DEF BalanceInv, Balanced, Init

\* Every step keeps the balance, as long as no request edits a quantity.
LEMMA NextBalance ==
    ASSUME NoPatch, BalanceInv, LedgerInv', NEW p \in Session,
           Create(p) \/ Change(p) \/ Continue(p)
    PROVE  BalanceInv'
<1>1. /\ Typed /\ session \in [Session -> Work]
      /\ \A m \in RowId : row[m] \in Movement /\ m \in Nat
      /\ session[p].stage = "validated" => session[p].copy.status = "active"
      /\ session[p].copy \in Movement
  <2>1. Typed /\ session \in [Session -> Work] /\ row \in [RowId -> Movement]
    BY DEF BalanceInv, LedgerInv, Typed
  <2>2. session[p].stage = "validated" => session[p].copy.status = "active"
    BY <2>1 DEF Typed
  <2>3. session[p].copy \in Movement
    BY <2>1 DEF Work
  <2> QED
    BY <2>1, <2>2, <2>3 DEF RowId
<1>2. CASE Create(p)
  <2>1. PICK w \in Warehouse, q \in Quantity :
          \/ \E k \in Kind : InsertInbound(p, k, w, q) \/ CreateAtomically(p, k, w, q)
          \/ ValidateOutbound(p, w, q)
          \/ \E w2 \in Warehouse : InsertTransfer(p, w, w2, q)
    BY <1>2 DEF Create
  <2>2. q \in Nat /\ 0 \in 0..Transfers
    BY LedgerAssumption
  <2>3. ASSUME NEW k \in Kind, InsertInbound(p, k, w, q) PROVE BalanceInv'
    <3>1. NewMovement(k, w, q, 0) \in Movement /\ NewMovement(k, w, q, 0).status = "active"
      BY <2>2, MovementTyped
    <3> QED
      BY <2>3, <3>1, InsertBalance DEF InsertInbound
  <2>4. ASSUME NEW k \in Kind, CreateAtomically(p, k, w, q) PROVE BalanceInv'
    BY <2>2, <2>4, CreateAtomicallyBalance
  <2>5. CASE ValidateOutbound(p, w, q)
    <3>1. NewMovement("OUT", w, q, 0) \in Movement
      BY <2>2, MovementTyped DEF Kind, Outbound
    <3>2. /\ session'[p].stage = "validated"
          /\ \A o \in Session \ {p} : session'[o] = session[o]
      BY <1>1, <2>5, <3>1, GotoTyped DEF ValidateOutbound, Stage
    <3> QED
      BY <2>5, <3>2, MoveBalance DEF ValidateOutbound, tables, Faithful, HandStages
  <2>6. CASE \E w2 \in Warehouse : InsertTransfer(p, w, w2, q)
    <3>1. PICK t \in TransferId : Goto(p, "transferring", t, NoMovement)
      BY <2>6 DEF InsertTransfer
    <3>2. NoMovement \in Movement /\ t \in Nat
      BY LedgerAssumption DEF NoMovement, Movement, Status, Kind, Inbound, Outbound,
         Warehouse, TransferId
    <3>3. /\ session'[p].stage = "transferring"
          /\ \A o \in Session \ {p} : session'[o] = session[o]
      BY <1>1, <3>1, <3>2, GotoTyped DEF Stage
    <3> QED
      BY <2>6, <3>3, MoveBalance DEF InsertTransfer, Faithful, HandStages
  <2> QED
    BY <2>1, <2>3, <2>4, <2>5, <2>6
<1>3. CASE Change(p)
  <2>1. ASSUME NEW m \in RowId, ReadForCancel(p, m) \/ ReadForDelete(p, m)
        PROVE  BalanceInv'
    <3>1. PICK stage \in {"cancelling", "deleting"} : Fetch(p, m, stage)
      BY <2>1 DEF ReadForCancel, ReadForDelete
    <3>2. /\ session'[p].stage = stage /\ session'[p].ref = m /\ session'[p].copy = row[m]
          /\ \A o \in Session \ {p} : session'[o] = session[o]
      BY <1>1, <3>1, GotoTyped DEF Fetch, Stage
    <3>3. UNCHANGED <<stock, row, posted, reversed>> /\ row[m].status # "absent"
      BY <3>1 DEF Fetch, tables
    <3>4. Faithful(p)'
      BY <3>2, <3>3 DEF Faithful
    <3> QED
      BY <3>2, <3>3, <3>4, MoveBalance
  <2>2. ~ \E m \in RowId : ReadForPatch(p, m)
    BY DEF NoPatch, ReadForPatch
  <2>3. ~ \E q \in Quantity : WritePatch(p, q)
    BY DEF WritePatch, At, BalanceInv, InHand
  <2> QED
    BY <1>3, <2>1, <2>2, <2>3, CancelTransferBalance DEF Change
<1>4. CASE Continue(p)
  <2>1. ASSUME InsertOutbound(p) PROVE BalanceInv'
    BY <1>1, <2>1, InsertBalance DEF InsertOutbound, At
  <2>2. ASSUME PostFails(p) \/ ReversalFails(p) \/ TransferFails(p) \/ Crash(p)
        PROVE  BalanceInv'
    <3>1. Done(p) /\ UNCHANGED <<tables, posted, reversed>>
      BY <2>2 DEF PostFails, ReversalFails, TransferFails, Crash
    <3>2. session'[p].stage = "idle" /\ \A o \in Session \ {p} : session'[o] = session[o]
      BY <1>1, <3>1, DoneTyped
    <3> QED
      BY <3>1, <3>2, MoveBalance DEF tables, Faithful, HandStages
  <2> QED
    BY <1>4, <2>1, <2>2, PostBalance, ReverseBalance, MarkBalance, PostTransferBalance
    DEF Continue
<1> QED
  BY <1>2, <1>3, <1>4

\* Under every interleaving of requests, and whichever of them die,
\* current_stock is the sum of what the handlers posted less the sum of what
\* they reversed: no handler overwrites another's update.
THEOREM StockIsPostedLessReversed == NoPatch => (Spec => []Balanced)
<1> SUFFICES ASSUME NoPatch PROVE Spec => []Balanced
  OBVIOUS
<1>1. Init => BalanceInv
  BY InitBalance
<1>2. BalanceInv /\ LedgerInv' /\ [Next]_vars => BalanceInv'
  <2> SUFFICES ASSUME BalanceInv, LedgerInv', [Next]_vars PROVE BalanceInv'
    OBVIOUS
  <2>1. CASE Next
    BY <2>1, NextBalance DEF Next
  <2>2. CASE UNCHANGED vars
    BY <2>2 DEF vars, BalanceInv, InHand, Faithful, Untouched, Balanced, Effects,
       Effect, Signed
  <2> QED
    BY <2>1, <2>2
<1>3. BalanceInv => Balanced
  BY DEF BalanceInv
<1> QED
  BY <1>1, <1>2, <1>3, LedgerInvariant, PTL DEF Spec

-----------------------------------------------------------------------------
(* One request at a time. *)

\* Requests come one after the other, none edits a quantity and none dies.
OneRequest ==
    /\ \A p, q \in Session : p = q
    /\ "patch" \notin Entry /\ "crash" \notin Entry

\* A session has inserted the row and not posted it, or reversed it and not
\* marked it.
Held(m) == \E p \in Session :
    session[p].stage \in {"inserted", "reversed"} /\ session[p].ref = m

\* The handlers ran once for an active row, and once each way for another.
Counted ==
    \A m \in RowId :
        /\ row[m].status = "active" /\ ~Held(m) => posted[m] = 1 /\ reversed[m] = 0
        /\ row[m].status \in {"cancelled", "deleted"} => posted[m] = 1 /\ reversed[m] = 1

\* What a request has seen is still so: the goods it validated are there, the
\* row it works on is active, posted, and not reversed by anyone else.
Current(p) ==
    /\ session[p].stage = "validated" =>
         session[p].copy.kind = "OUT" /\ stock >= session[p].copy.qty
    /\ session[p].stage = "inserted" =>
         /\ row[session[p].ref].status = "active"
         /\ reversed[session[p].ref] = 0
         /\ session[p].copy.kind = "OUT" => stock >= session[p].copy.qty
    /\ session[p].stage \in {"cancelling", "deleting"} =>
         /\ row[session[p].ref].status = "active"
         /\ posted[session[p].ref] = 1 /\ reversed[session[p].ref] = 0
    /\ session[p].stage = "reversed" =>
         /\ row[session[p].ref].status = "active"
         /\ posted[session[p].ref] = 1 /\ reversed[session[p].ref] = 1

SerialInv == BalanceInv /\ Counted /\ \A p \in Session : Current(p)

\* A request that ends leaves nothing half way.
LEMMA EndedSerial ==
    ASSUME OneRequest, BalanceInv', NEW p \in Session,
           session'[p].stage \in {"idle", "transferring"},
           \A m \in RowId :
             /\ row'[m].status = "active" => posted'[m] = 1 /\ reversed'[m] = 0
             /\ row'[m].status \in {"cancelled", "deleted"} =>
                  posted'[m] = 1 /\ reversed'[m] = 1
    PROVE  SerialInv'
<1>1. \A o \in Session : o = p
  BY DEF OneRequest
<1>2. Counted'
  BY DEF Counted
<1>3. \A o \in Session : Current(o)'
  BY <1>1 DEF Current
<1> QED
  BY <1>2, <1>3 DEF SerialInv

\* Between requests every row is counted.
LEMMA IdleCounted ==
    ASSUME OneRequest, SerialInv, NEW p \in Session,
           session[p].stage \notin {"inserted", "reversed"}
    PROVE  \A m \in RowId :
             /\ row[m].status = "active" => posted[m] = 1 /\ reversed[m] = 0
             /\ row[m].status \in {"cancelled", "deleted"} => posted[m] = 1 /\ reversed[m] = 1
<1>1. \A o \in Session : o = p
  BY DEF OneRequest
<1>2. \A m \in RowId : ~Held(m)
  BY <1>1 DEF Held
<1> QED
  BY <1>2 DEF SerialInv, Counted

\* A request in the middle of its work holds its own row and no other.
LEMMA OthersCounted ==
    ASSUME OneRequest, SerialInv, NEW p \in Session
    PROVE  \A m \in RowId \ {session[p].ref} :
             /\ row[m].status = "active" => posted[m] = 1 /\ reversed[m] = 0
             /\ row[m].status \in {"cancelled", "deleted"} => posted[m] = 1 /\ reversed[m] = 1
<1>1. \A o \in Session : o = p
  BY DEF OneRequest
<1>2. \A m \in RowId \ {session[p].ref} : ~Held(m)
  BY <1>1 DEF Held
<1> QED
  BY <1>2 DEF SerialInv, Counted

\* A request that goes on holds its row.
LEMMA MovedSerial ==
    ASSUME OneRequest, BalanceInv', NEW p \in Session, Current(p)',
           \A m \in RowId :
             \/ session'[p].stage \in {"inserted", "reversed"} /\ m = session'[p].ref
                                                              /\ row'[m].status = "active"
             \/ /\ row'[m].status = "active" => posted'[m] = 1 /\ reversed'[m] = 0
                /\ row'[m].status \in {"cancelled", "deleted"} =>
                     posted'[m] = 1 /\ reversed'[m] = 1
    PROVE  SerialInv'
<1>1. \A o \in Session : o = p
  BY DEF OneRequest
<1>2. Counted'
  BY DEF Counted, Held
<1>3. \A o \in Session : Current(o)'
  BY <1>1
<1> QED
  BY <1>2, <1>3 DEF SerialInv

\* Starting a request.
LEMMA CreateSerial ==
    ASSUME OneRequest, SerialInv, BalanceInv', NEW p \in Session, Create(p)
    PROVE  SerialInv'
<1> USE DEF SerialInv, BalanceInv, LedgerInv
<1>1. PICK w \in Warehouse, q \in Quantity :
        \/ \E k \in Kind : InsertInbound(p, k, w, q) \/ CreateAtomically(p, k, w, q)
        \/ ValidateOutbound(p, w, q)
        \/ \E w2 \in Warehouse : InsertTransfer(p, w, w2, q)
  BY DEF Create
<1>2. q \in Nat /\ 0 \in 0..Transfers /\ session \in [Session -> Work] /\ row \in [RowId -> Movement]
  BY LedgerAssumption DEF Typed
<1>3. session[p].stage = "idle"
  BY <1>1 DEF InsertInbound, CreateAtomically, ValidateOutbound, InsertTransfer, At
<1>4. \A m \in RowId :
        /\ row[m].status = "active" => posted[m] = 1 /\ reversed[m] = 0
        /\ row[m].status \in {"cancelled", "deleted"} => posted[m] = 1 /\ reversed[m] = 1
  BY <1>3, IdleCounted
<1>5. ASSUME NEW k \in Kind, InsertInbound(p, k, w, q) PROVE SerialInv'
  <2> DEFINE r == NewMovement(k, w, q, 0)
  <2>1. r \in Movement /\ r.status = "active" /\ r.kind # "OUT"
    BY <1>2, <1>5, MovementTyped DEF InsertInbound, Inbound, NewMovement
  <2> HIDE DEF r
  <2>2. PICK m \in RowId : NextRow(m) /\ Insert(m, r) /\ Goto(p, "inserted", m, r)
    BY <1>5 DEF InsertInbound, r
  <2>3. UNCHANGED <<stock, ws, lot, transfer, posted, reversed>>
    BY <1>5 DEF InsertInbound
  <2>4. /\ row'[m] = r /\ row[m].status = "absent" /\ reversed[m] = 0
        /\ \A i \in RowId \ {m} : row'[i] = row[i]
    BY <1>2, <2>1, <2>2 DEF Insert, NextRow, Taken, Untouched
  <2>5. /\ session'[p].stage = "inserted" /\ session'[p].ref = m /\ session'[p].copy = r
        /\ \A o \in Session \ {p} : session'[o] = session[o]
    BY <1>2, <2>1, <2>2, GotoTyped DEF Stage, RowId
  <2>6. Current(p)'
    BY <2>1, <2>3, <2>4, <2>5 DEF Current
  <2> QED
    BY <1>4, <2>1, <2>3, <2>4, <2>5, <2>6, MovedSerial
<1>6. ASSUME NEW k \in Kind, CreateAtomically(p, k, w, q) PROVE SerialInv'
  <2> DEFINE r == NewMovement(k, w, q, 0)
  <2>1. r.status = "active"
    BY DEF NewMovement
  <2> HIDE DEF r
  <2>2. PICK m \in RowId : NextRow(m) /\ Insert(m, r) /\ posted' = [posted EXCEPT ![m] = @ + 1]
    BY <1>6 DEF CreateAtomically, r
  <2>3. UNCHANGED <<transfer, session, reversed>>
    BY <1>6 DEF CreateAtomically
  <2>4. /\ row'[m] = r /\ row[m].status = "absent" /\ reversed[m] = 0 /\ posted'[m] = 1
        /\ \A i \in RowId \ {m} : row'[i] = row[i] /\ posted'[i] = posted[i]
    BY <1>2, <2>1, <2>2 DEF Insert, NextRow, Taken, Untouched, Pending, Typed
  <2> QED
    BY <1>3, <1>4, <2>1, <2>3, <2>4, EndedSerial
<1>7. CASE ValidateOutbound(p, w, q)
  <2> DEFINE r == NewMovement("OUT", w, q, 0)
  <2>1. r \in Movement /\ r.kind = "OUT" /\ r.qty = q
    BY <1>2, MovementTyped DEF Kind, Outbound, NewMovement
  <2> HIDE DEF r
  <2>2. Goto(p, "validated", 0, r) /\ UNCHANGED <<tables, posted, reversed>> /\ stock >= q
    BY <1>7 DEF ValidateOutbound, r
  <2>3. /\ session'[p].stage = "validated" /\ session'[p].copy = r
        /\ \A o \in Session \ {p} : session'[o] = session[o]
    BY <1>2, <2>1, <2>2, GotoTyped DEF Stage
  <2>4. Current(p)'
    BY <2>1, <2>2, <2>3 DEF Current, tables
  <2> QED
    BY <1>4, <2>2, <2>3, <2>4, MovedSerial DEF tables
<1>8. ASSUME NEW w2 \in Warehouse, InsertTransfer(p, w, w2, q) PROVE SerialInv'
  <2>1. PICK t \in TransferId : Goto(p, "transferring", t, NoMovement)
    BY <1>8 DEF InsertTransfer
  <2>2. session'[p].stage = "transferring"
    BY <1>2, <2>1 DEF Goto
  <2>3. UNCHANGED <<stock, ws, row, lot, posted, reversed>>
    BY <1>8 DEF InsertTransfer
  <2> QED
    BY <1>4, <2>2, <2>3, EndedSerial
<1> QED
  BY <1>1, <1>5, <1>6, <1>7, <1>8

\* Reading a row, and cancelling a transfer.
LEMMA ChangeSerial ==
    ASSUME OneRequest, SerialInv, BalanceInv', NEW p \in Session, Change(p)
    PROVE  SerialInv'
<1> USE DEF SerialInv, BalanceInv, LedgerInv
<1>1. session \in [Session -> Work] /\ row \in [RowId -> Movement] /\ \A m \in RowId : m \in Nat
  BY DEF Typed, RowId
<1>2. ASSUME NEW m \in RowId, ReadForCancel(p, m) \/ ReadForDelete(p, m)
      PROVE  SerialInv'
  <2>1. PICK stage \in {"cancelling", "deleting"} : Fetch(p, m, stage)
    BY <1>2 DEF ReadForCancel, ReadForDelete
  <2>2. /\ session[p].stage = "idle" /\ row[m].status = "active"
        /\ UNCHANGED <<tables, posted, reversed>> /\ Goto(p, stage, m, row[m])
    BY <2>1 DEF Fetch, At
  <2>3. /\ session'[p].stage = stage /\ session'[p].ref = m
        /\ \A o \in Session \ {p} : session'[o] = session[o]
    BY <1>1, <2>2, GotoTyped DEF Stage
  <2>4. \A i \in RowId :
          /\ row[i].status = "active" => posted[i] = 1 /\ reversed[i] = 0
          /\ row[i].status \in {"cancelled", "deleted"} => posted[i] = 1 /\ reversed[i] = 1
    BY <2>2, IdleCounted
  <2>5. Current(p)'
    BY <2>2, <2>3, <2>4 DEF Current, tables
  <2> QED
    BY <2>2, <2>3, <2>4, <2>5, MovedSerial DEF tables
<1>3. ~ \E m \in RowId : ReadForPatch(p, m)
  BY DEF OneRequest, ReadForPatch
<1>4. ~ \E q \in Quantity : WritePatch(p, q)
  BY DEF WritePatch, At, InHand
<1>5. ASSUME NEW t \in TransferId, CancelTransfer(p, t) PROVE SerialInv'
  <2> DEFINE both == Live(t, "IN") \cup Live(t, "OUT")
  <2>1. /\ row' = [i \in RowId |-> IF i \in both THEN Marked(row[i], "cancelled") ELSE row[i]]
        /\ reversed' = [i \in RowId |-> IF i \in both THEN reversed[i] + 1 ELSE reversed[i]]
        /\ UNCHANGED <<session, posted>> /\ session[p].stage = "idle"
    BY <1>5, CancelTransferMeans DEF At
  <2>2. \A i \in both : row[i].status = "active"
    BY DEF Live
  <2> HIDE DEF both
  <2>3. \A i \in RowId :
          /\ row[i].status = "active" => posted[i] = 1 /\ reversed[i] = 0
          /\ row[i].status \in {"cancelled", "deleted"} => posted[i] = 1 /\ reversed[i] = 1
    BY <2>1, IdleCounted
  <2>4. \A i \in RowId : Marked(row[i], "cancelled").status = "cancelled"
    BY DEF Marked
  <2>5. ASSUME NEW i \in RowId
        PROVE  /\ row'[i].status = "active" => posted'[i] = 1 /\ reversed'[i] = 0
               /\ row'[i].status \in {"cancelled", "deleted"} => posted'[i] = 1 /\ reversed'[i] = 1
    <3>1. CASE i \in both
      BY <2>1, <2>2, <2>3, <2>4, <3>1
    <3>2. CASE i \notin both
      BY <2>1, <2>3, <3>2
    <3> QED
      BY <3>1, <3>2
  <2> QED
    BY <2>1, <2>5, EndedSerial
<1> QED
  BY <1>2, <1>3, <1>4, <1>5 DEF Change

\* The request's later transactions, and its end.
LEMMA ContinueSerial ==
    ASSUME OneRequest, SerialInv, BalanceInv', NEW p \in Session, Continue(p)
    PROVE  SerialInv'
<1> DEFINE m == session[p].ref
           r == session[p].copy
           Settled(i) == /\ row[i].status = "active" => posted[i] = 1 /\ reversed[i] = 0
                         /\ row[i].status \in {"cancelled", "deleted"} =>
                              posted[i] = 1 /\ reversed[i] = 1
<1> USE DEF SerialInv, BalanceInv, LedgerInv
<1>1. /\ session \in [Session -> Work] /\ row \in [RowId -> Movement]
      /\ posted \in [RowId -> Nat] /\ reversed \in [RowId -> Nat]
  BY DEF Typed
<1>2. r \in Movement
  BY <1>1 DEF Work
<1>3. m \in RowId => m \in Nat
  BY DEF RowId
<1>4. session[p].stage \in HandStages => m \in RowId /\ r.kind = row[m].kind /\ r.qty = row[m].qty
  BY DEF Typed, RowStages, HandStages, InHand, Faithful
<1>5. Current(p)
  OBVIOUS
<1>6. \A i \in RowId \ {m} : Settled(i)
  BY OthersCounted
<1>7. session[p].stage \notin {"inserted", "reversed"} => \A i \in RowId : Settled(i)
  BY IdleCounted
<1>8. ASSUME InsertOutbound(p) PROVE SerialInv'
  <2>1. /\ session[p].stage = "validated" /\ r.kind = "OUT" /\ stock >= r.qty
        /\ r.status = "active"
    BY <1>5, <1>8 DEF InsertOutbound, At, Current, Typed
  <2>2. PICK n \in RowId : NextRow(n) /\ Insert(n, r) /\ Goto(p, "inserted", n, r)
    BY <1>8 DEF InsertOutbound
  <2>3. UNCHANGED <<stock, ws, lot, transfer, posted, reversed>>
    BY <1>8 DEF InsertOutbound
  <2>4. \A i \in RowId : Settled(i)
    BY <1>7, <2>1
  <2> HIDE DEF r, m
  <2>5. /\ row'[n] = r /\ row[n].status = "absent" /\ reversed[n] = 0
        /\ \A i \in RowId \ {n} : row'[i] = row[i]
    BY <1>1, <2>2 DEF Insert, NextRow, Taken, Untouched
  <2>6. /\ session'[p].stage = "inserted" /\ session'[p].ref = n /\ session'[p].copy = r
        /\ \A o \in Session \ {p} : session'[o] = session[o]
    BY <1>1, <1>2, <2>2, GotoTyped DEF Stage, RowId
  <2>7. Current(p)'
    BY <2>1, <2>3, <2>5, <2>6 DEF Current
  <2> QED
    BY <2>1, <2>3, <2>4, <2>5, <2>6, <2>7, MovedSerial
<1>9. ASSUME Post(p) PROVE SerialInv'
  <2>1. /\ session[p].stage = "inserted" /\ m \in RowId
        /\ row[m].status = "active" /\ reversed[m] = 0 /\ posted[m] = 0
    BY <1>4, <1>5, <1>9 DEF Post, At, Current, HandStages, Pending
  <2>2. /\ posted' = [posted EXCEPT ![m] = @ + 1] /\ Done(p)
        /\ UNCHANGED <<row, transfer, reversed>>
    BY <1>9 DEF Post
  <2> HIDE DEF m, r
  <2>3. posted'[m] = 1 /\ \A i \in RowId \ {m} : posted'[i] = posted[i]
    BY <1>1, <2>1, <2>2
  <2>4. session'[p].stage = "idle"
    BY <1>1, <2>2, DoneTyped
  <2> QED
    BY <1>6, <2>1, <2>2, <2>3, <2>4, EndedSerial
<1>10. ~ PostFails(p)
  BY <1>2, <1>5 DEF PostFails, At, Current, Covers, Outbound
<1>11. ~ Crash(p)
  BY DEF OneRequest, Crash
<1>12. ASSUME ReversalFails(p) \/ TransferFails(p) PROVE SerialInv'
  <2>1. /\ session[p].stage \in {"cancelling", "deleting", "transferring"}
        /\ Done(p) /\ UNCHANGED <<tables, posted, reversed>>
    BY <1>12 DEF ReversalFails, TransferFails, At
  <2>2. session'[p].stage = "idle"
    BY <1>1, <2>1, DoneTyped
  <2> HIDE DEF m, r
  <2> QED
    BY <1>7, <2>1, <2>2, EndedSerial DEF tables
<1>13. ASSUME CommitReversal(p) PROVE SerialInv'
  <2>1. /\ session[p].stage = "cancelling" /\ m \in RowId /\ m \in Nat
        /\ row[m].status = "active" /\ posted[m] = 1 /\ reversed[m] = 0
    BY <1>3, <1>4, <1>5, <1>13 DEF CommitReversal, At, Current, HandStages
  <2>2. /\ reversed' = [reversed EXCEPT ![m] = @ + 1]
        /\ Goto(p, "reversed", m, r) /\ UNCHANGED <<row, transfer, posted>>
    BY <1>13 DEF CommitReversal
  <2> HIDE DEF m, r
  <2>3. reversed'[m] = 1 /\ \A i \in RowId \ {m} : reversed'[i] = reversed[i]
    BY <1>1, <2>1, <2>2
  <2>4. /\ session'[p].stage = "reversed" /\ session'[p].ref = m
        /\ \A o \in Session \ {p} : session'[o] = session[o]
    BY <1>1, <1>2, <2>1, <2>2, GotoTyped DEF Stage
  <2>5. Current(p)'
    BY <2>1, <2>2, <2>3, <2>4 DEF Current
  <2> QED
    BY <1>6, <2>1, <2>2, <2>3, <2>4, <2>5, MovedSerial
<1>14. ASSUME MarkCancelled(p) PROVE SerialInv'
  <2>1. /\ session[p].stage = "reversed" /\ m \in RowId
        /\ row[m].status = "active" /\ posted[m] = 1 /\ reversed[m] = 1
    BY <1>4, <1>5, <1>14 DEF MarkCancelled, At, Current, HandStages
  <2>2. /\ row' = [row EXCEPT ![m] = Marked(row[m], "cancelled")]
        /\ Done(p) /\ UNCHANGED <<stock, ws, lot, transfer, posted, reversed>>
    BY <1>14, <2>1 DEF MarkCancelled
  <2> HIDE DEF m, r
  <2>3. row'[m].status = "cancelled" /\ \A i \in RowId \ {m} : row'[i] = row[i]
    BY <1>1, <2>1, <2>2 DEF Marked
  <2>4. session'[p].stage = "idle"
    BY <1>1, <2>2, DoneTyped
  <2> QED
    BY <1>6, <2>1, <2>2, <2>3, <2>4, EndedSerial
<1>15. ASSUME Delete(p) PROVE SerialInv'
  <2>1. /\ session[p].stage = "deleting" /\ m \in RowId
        /\ row[m].status = "active" /\ posted[m] = 1 /\ reversed[m] = 0
    BY <1>4, <1>5, <1>15 DEF Delete, At, Current, HandStages
  <2>2. /\ row' = [row EXCEPT ![m] = Marked(row[m], "deleted")]
        /\ reversed' = [reversed EXCEPT ![m] = @ + 1]
        /\ Done(p) /\ UNCHANGED <<transfer, posted>>
    BY <1>15 DEF Delete
  <2> HIDE DEF m, r
  <2>3. /\ row'[m].status = "deleted" /\ reversed'[m] = 1
        /\ \A i \in RowId \ {m} : row'[i] = row[i] /\ reversed'[i] = reversed[i]
    BY <1>1, <2>1, <2>2 DEF Marked
  <2>4. session'[p].stage = "idle"
    BY <1>1, <2>2, DoneTyped
  <2> QED
    BY <1>6, <2>1, <2>2, <2>3, <2>4, EndedSerial
<1>16. ASSUME PostTransfer(p) PROVE SerialInv'
  <2> DEFINE d == transfer[m]
             sent == NewMovement("OUT", d.from, d.qty, m)
             got == NewMovement("IN", d.to, d.qty, m)
  <2>1. PICK n \in RowId :
          /\ NextRow(n) /\ n + 1 \in RowId \ Taken(row)
          /\ row' = [row EXCEPT ![n] = sent, ![n+1] = got]
          /\ posted' = [posted EXCEPT ![n] = @ + 1, ![n+1] = @ + 1]
    BY <1>16 DEF PostTransfer
  <2>2. /\ session[p].stage = "transferring" /\ Done(p)
        /\ UNCHANGED <<stock, transfer, reversed>>
    BY <1>16 DEF PostTransfer, At
  <2>3. sent.status = "active" /\ got.status = "active"
    BY DEF NewMovement
  <2>4. \A i \in RowId : Settled(i)
    BY <1>7, <2>2
  <2> HIDE DEF m, r, d, sent, got
  <2>5. /\ n + 1 \in RowId /\ n + 1 # n /\ row[n].status = "absent" /\ row[n+1].status = "absent"
    BY <1>1, <2>1 DEF NextRow, Taken, RowId
  <2>6. /\ posted[n] = 0 /\ posted[n+1] = 0 /\ reversed[n] = 0 /\ reversed[n+1] = 0
    BY <2>5 DEF Pending, Untouched
  <2>7. /\ row'[n].status = "active" /\ row'[n+1].status = "active"
        /\ posted'[n] = 1 /\ posted'[n+1] = 1
        /\ \A i \in RowId \ {n, n+1} : row'[i] = row[i] /\ posted'[i] = posted[i]
    BY <1>1, <2>1, <2>3, <2>5, <2>6
  <2>8. session'[p].stage = "idle"
    BY <1>1, <2>2, DoneTyped
  <2>9. \A i \in RowId :
          /\ row'[i].status = "active" => posted'[i] = 1 /\ reversed'[i] = 0
          /\ row'[i].status \in {"cancelled", "deleted"} => posted'[i] = 1 /\ reversed'[i] = 1
    BY <2>2, <2>4, <2>5, <2>6, <2>7
  <2> QED
    BY <2>8, <2>9, EndedSerial
<1> QED
  BY <1>8, <1>9, <1>10, <1>11, <1>12, <1>13, <1>14, <1>15, <1>16 DEF Continue

\* One request at a time, the counts stay right.
LEMMA SerialInvariant == OneRequest => (Spec => []SerialInv)
<1> SUFFICES ASSUME OneRequest PROVE Spec => []SerialInv
  OBVIOUS
<1>1. Init => SerialInv
  BY InitBalance DEF Init, SerialInv, Counted, Current, Idle, NoMovement
<1>2. SerialInv /\ LedgerInv' /\ [Next]_vars => SerialInv'
  <2> SUFFICES ASSUME SerialInv, LedgerInv', [Next]_vars PROVE SerialInv'
    OBVIOUS
  <2>1. CASE Next
    <3>1. PICK p \in Session : Create(p) \/ Change(p) \/ Continue(p)
      BY <2>1 DEF Next
    <3>2. BalanceInv'
      BY <3>1, NextBalance DEF SerialInv, OneRequest, NoPatch
    <3> QED
      BY <3>1, <3>2, CreateSerial, ChangeSerial, ContinueSerial
  <2>2. CASE UNCHANGED vars
    <3>1. BalanceInv'
      BY <2>2 DEF vars, SerialInv, BalanceInv, InHand, Faithful, Untouched, Balanced,
         Effects, Effect, Signed
    <3>2. Counted' /\ \A p \in Session : Current(p)'
      BY <2>2 DEF vars, SerialInv, Counted, Held, Current
    <3> QED
      BY <3>1, <3>2 DEF SerialInv
  <2> QED
    BY <2>1, <2>2
<1> QED
  BY <1>1, <1>2, LedgerInvariant, PTL DEF Spec

\* One request at a time, current_stock is the total of the active movements
\* whenever none is half way: create, cancel, delete, transfer, cancel of a
\* transfer and every refusal by the CHECK constraint leave it exact.
THEOREM LedgerExactForOne == OneRequest => (Spec => []LedgerExact)
<1> SUFFICES ASSUME OneRequest PROVE Spec => []LedgerExact
  OBVIOUS
<1>1. SerialInv => LedgerExact
  <2> SUFFICES ASSUME SerialInv, AllIdle PROVE stock = ActiveTotal
    BY DEF LedgerExact
  <2>1. \A m \in RowId : ~Held(m)
    BY DEF AllIdle, At, Held
  <2>2. ASSUME NEW m \in RowId
        PROVE  Effect(m) = IF row[m].status = "active" THEN Signed(row[m]) ELSE 0
    <3>1. Signed(row[m]) \in Int /\ row[m].status \in Status
      BY EffectTyped DEF SerialInv, BalanceInv, LedgerInv, Typed, Movement
    <3>2. CASE row[m].status = "active"
      <4>1. Effect(m) = (1 - 0) * Signed(row[m])
        BY <2>1, <3>2 DEF SerialInv, Counted, Effect
      <4> QED
        BY <3>1, <3>2, <4>1, Counting
    <3>3. CASE row[m].status \in {"cancelled", "deleted"}
      <4>1. Effect(m) = (1 - 1) * Signed(row[m])
        BY <3>3 DEF SerialInv, Counted, Effect
      <4> QED
        BY <3>1, <3>3, <4>1, Counting
    <3>4. CASE row[m].status = "absent"
      <4>1. Effect(m) = (0 - 0) * Signed(row[m])
        BY <3>4 DEF SerialInv, BalanceInv, LedgerInv, Untouched, Pending, Effect
      <4> QED
        BY <3>1, <3>4, <4>1, Counting
    <3> QED
      BY <3>1, <3>2, <3>3, <3>4 DEF Status
  <2>3. Effects = [m \in RowId |-> IF row[m].status = "active" THEN Signed(row[m]) ELSE 0]
    BY <2>2 DEF Effects
  <2> QED
    BY <2>3 DEF SerialInv, BalanceInv, Balanced, ActiveTotal
<1> QED
  BY <1>1, SerialInvariant, PTL

-----------------------------------------------------------------------------
(* The refinement. *)

\* What the mapping makes of a row.
BookState == [m \in RowId |-> IF reversed[m] > 0 THEN "voided"
                             ELSE IF posted[m] > 0 THEN "booked" ELSE "open"]
BookAmount == [m \in RowId |-> IF posted[m] > 0 THEN Signed(row[m]) ELSE 0]
Part(S) == [m \in RowId |-> IF m \in S THEN Signed(row[m]) ELSE 0]

\* The two modules add up alike.
LEMMA SameTotal == \A f, n : Perpetual!SumTo(f, n) = SumTo(f, n)
  BY DEF Perpetual!SumTo, SumTo

\* Rows S are posted in this step, and nothing else changes for the mapping.
LEMMA BookMeans ==
    ASSUME NEW S \in SUBSET RowId,
           stock' = stock + SumTo(Part(S)', Rows), stock' \in Nat,
           \A m \in S : posted[m] = 0 /\ reversed[m] = 0 /\ posted'[m] = 1 /\ reversed'[m] = 0,
           \A m \in RowId \ S : posted'[m] = posted[m] /\ reversed'[m] = reversed[m],
           \A m \in RowId \ S : posted[m] > 0 => Signed(row[m])' = Signed(row[m])
    PROVE  Perpetual!Next
<1>1. /\ \A m \in S : BookState[m] = "open"
      /\ BookState' = [m \in RowId |-> IF m \in S THEN "booked" ELSE BookState[m]]
  BY DEF BookState
<1>2. \A m \in RowId \ S : (BookAmount')[m] = BookAmount[m]
  BY DEF BookAmount
<1>3. [m \in RowId |-> IF m \in S THEN (BookAmount')[m] ELSE 0] = Part(S)'
  BY DEF BookAmount, Part
<1>4. Perpetual!Amounts(S, BookAmount') = SumTo(Part(S)', Rows)
  BY <1>3, SameTotal DEF Perpetual!Amounts, Perpetual!EntryId, RowId
<1>5. Perpetual!Book(S)
  BY <1>1, <1>2, <1>4 DEF Perpetual!Book, Perpetual!Move, Perpetual!EntryId, BookState,
     BookAmount, RowId
<1> QED
  BY <1>5 DEF Perpetual!Next, Perpetual!EntryId, RowId

\* Rows S are reversed in this step, and nothing else changes for the mapping.
LEMMA VoidMeans ==
    ASSUME NEW S \in SUBSET RowId,
           stock' = stock - SumTo(Part(S), Rows), stock' \in Nat, posted' = posted,
           \A m \in S : posted[m] = 1 /\ reversed[m] = 0 /\ reversed'[m] = 1,
           \A m \in RowId \ S : reversed'[m] = reversed[m],
           \A m \in RowId : posted[m] > 0 => Signed(row[m])' = Signed(row[m])
    PROVE  Perpetual!Next
<1>1. /\ \A m \in S : BookState[m] = "booked"
      /\ BookState' = [m \in RowId |-> IF m \in S THEN "voided" ELSE BookState[m]]
  BY DEF BookState
<1>2. BookAmount' = BookAmount
  BY DEF BookAmount
<1>3. [m \in RowId |-> IF m \in S THEN BookAmount[m] ELSE 0] = Part(S)
  BY DEF BookAmount, Part
<1>4. Perpetual!Amounts(S, BookAmount) = SumTo(Part(S), Rows)
  BY <1>3, SameTotal DEF Perpetual!Amounts, Perpetual!EntryId, RowId
<1>5. Perpetual!Void(S)
  BY <1>1, <1>2, <1>4 DEF Perpetual!Void, Perpetual!Move, Perpetual!EntryId, BookState,
     BookAmount, RowId
<1> QED
  BY <1>5 DEF Perpetual!Next, Perpetual!EntryId, RowId

\* A step that commits no effect is not seen by the mapping.
LEMMA StutterMeans ==
    ASSUME UNCHANGED <<stock, posted, reversed>>,
           \A m \in RowId : posted[m] > 0 => Signed(row[m])' = Signed(row[m])
    PROVE  UNCHANGED Perpetual!vars
<1>1. BookState' = BookState /\ BookAmount' = BookAmount
  BY DEF BookState, BookAmount
<1> QED
  BY <1>1 DEF Perpetual!vars, BookState, BookAmount

\* The total of one row.
LEMMA PartOne ==
    ASSUME NEW m \in RowId, NEW f \in [RowId -> Int], \A i \in RowId \ {m} : f[i] = 0
    PROVE  SumTo(f, Rows) = f[m]
<1>1. Rows \in Nat
  BY LedgerAssumption
<1> QED
  BY <1>1, SumToSingle DEF RowId

\* An action that posts one row books it, one that reverses one row voids it.
LEMMA OneRowMeans ==
    ASSUME SerialInv, LedgerInv', NEW m \in RowId,
           \A i \in RowId \ {m} : posted'[i] = posted[i] /\ reversed'[i] = reversed[i],
           \A i \in RowId : posted[i] > 0 => Signed(row[i])' = Signed(row[i])
    PROVE  /\ posted[m] = 0 /\ reversed[m] = 0 /\ posted'[m] = 1 /\ reversed'[m] = 0
                /\ stock' = stock + Signed(row[m])' => Perpetual!Next
           /\ posted' = posted /\ posted[m] = 1 /\ reversed[m] = 0 /\ reversed'[m] = 1
                /\ stock' = stock - Signed(row[m]) => Perpetual!Next
<1>1. stock' \in Nat
  BY DEF LedgerInv, FiguresOK
<1>2. \A i \in RowId : Signed(row[i]) \in Int /\ Signed(row[i])' \in Int
  BY DEF SerialInv, BalanceInv, LedgerInv, Typed, Signed, Movement
<1>3. SumTo(Part({m}), Rows) = Signed(row[m])
  <2>1. /\ Part({m}) \in [RowId -> Int] /\ Part({m})[m] = Signed(row[m])
        /\ \A i \in RowId \ {m} : Part({m})[i] = 0
    BY <1>2 DEF Part
  <2> QED
    BY <2>1, PartOne
<1>4. SumTo(Part({m})', Rows) = Signed(row[m])'
  <2> DEFINE f == Part({m})'
  <2>1. f \in [RowId -> Int] /\ f[m] = Signed(row[m])' /\ \A i \in RowId \ {m} : f[i] = 0
    BY <1>2 DEF Part
  <2> HIDE DEF f
  <2>2. SumTo(f, Rows) = Signed(row[m])'
    BY <2>1, PartOne
  <2> QED
    BY <2>2 DEF f
<1>5. {m} \in SUBSET RowId
  OBVIOUS
<1>6. ASSUME posted[m] = 0, reversed[m] = 0, posted'[m] = 1, reversed'[m] = 0,
             stock' = stock + Signed(row[m])'
      PROVE  Perpetual!Next
  BY <1>1, <1>4, <1>5, <1>6, BookMeans
<1>7. ASSUME posted' = posted, posted[m] = 1, reversed[m] = 0, reversed'[m] = 1,
             stock' = stock - Signed(row[m])
      PROVE  Perpetual!Next
  BY <1>1, <1>3, <1>5, <1>7, VoidMeans
<1> QED
  BY <1>6, <1>7

\* Inserting a row shows nothing: it was absent, hence never posted.
LEMMA InsertStutters ==
    ASSUME SerialInv, NEW m \in RowId, NEW r, NextRow(m), Insert(m, r),
           UNCHANGED <<stock, posted, reversed>>
    PROVE  UNCHANGED Perpetual!vars
<1> USE DEF SerialInv, BalanceInv, LedgerInv
<1>1. posted[m] = 0 /\ \A i \in RowId \ {m} : row'[i] = row[i]
  BY DEF Insert, NextRow, Taken, Typed, Pending
<1>2. \A i \in RowId : posted[i] > 0 => Signed(row[i])' = Signed(row[i])
  BY <1>1 DEF Signed
<1> QED
  BY <1>2, StutterMeans

\* Creating a row and posting it at once books it.
LEMMA CreateMeans ==
    ASSUME OneRequest, SerialInv, LedgerInv', NEW p \in Session, Create(p)
    PROVE  Perpetual!Next \/ UNCHANGED Perpetual!vars
<1> USE DEF SerialInv, BalanceInv, LedgerInv
<1>1. PICK w \in Warehouse, q \in Quantity :
        \/ \E k \in Kind : InsertInbound(p, k, w, q) \/ CreateAtomically(p, k, w, q)
        \/ ValidateOutbound(p, w, q)
        \/ \E w2 \in Warehouse : InsertTransfer(p, w, w2, q)
  BY DEF Create
<1>2. ASSUME NEW k \in Kind, InsertInbound(p, k, w, q)
      PROVE  UNCHANGED Perpetual!vars
  BY <1>2, InsertStutters DEF InsertInbound
<1>3. ASSUME NEW k \in Kind, CreateAtomically(p, k, w, q) PROVE Perpetual!Next
  <2> DEFINE r == NewMovement(k, w, q, 0)
  <2>1. r \in Movement /\ stock \in Nat
    BY LedgerAssumption, MovementTyped DEF FiguresOK
  <2> HIDE DEF r
  <2>2. PICK m \in RowId : /\ NextRow(m) /\ Insert(m, r) /\ Apply(m, r)
                           /\ posted' = [posted EXCEPT ![m] = @ + 1]
    BY <1>3 DEF CreateAtomically, r
  <2>3. UNCHANGED <<transfer, session, reversed>>
    BY <1>3 DEF CreateAtomically
  <2>4. /\ row'[m] = r /\ posted[m] = 0 /\ reversed[m] = 0 /\ posted'[m] = 1
        /\ \A i \in RowId \ {m} : row'[i] = row[i] /\ posted'[i] = posted[i]
    BY <2>1, <2>2 DEF Insert, NextRow, Taken, Untouched, Pending, Typed
  <2>5. stock' = stock + Signed(row[m])'
    BY <2>1, <2>2, <2>4, HandlerAmounts DEF Signed
  <2>6. \A i \in RowId : posted[i] > 0 => Signed(row[i])' = Signed(row[i])
    BY <2>4 DEF Signed
  <2> QED
    BY <2>3, <2>4, <2>5, <2>6, OneRowMeans
<1>4. ASSUME ValidateOutbound(p, w, q) \/ \E w2 \in Warehouse : InsertTransfer(p, w, w2, q)
      PROVE  UNCHANGED Perpetual!vars
  <2>1. UNCHANGED <<stock, row, posted, reversed>>
    BY <1>4 DEF ValidateOutbound, InsertTransfer, tables
  <2> QED
    BY <2>1, StutterMeans DEF Signed
<1> QED
  BY <1>1, <1>2, <1>3, <1>4

\* Cancelling a transfer voids its active rows together.
LEMMA CancelTransferVoids ==
    ASSUME OneRequest, SerialInv, LedgerInv', NEW p \in Session, NEW t \in TransferId,
           CancelTransfer(p, t)
    PROVE  Perpetual!Next
<1> DEFINE ins == LiveQty(t, "IN")
           outs == LiveQty(t, "OUT")
           both == Live(t, "IN") \cup Live(t, "OUT")
           part == Part(both)
           zero == [m \in 1..Rows |-> 0]
<1> USE DEF SerialInv, BalanceInv, LedgerInv
<1>1. /\ stock' = stock + SumTo(outs, Rows) - SumTo(ins, Rows)
      /\ row' = [i \in RowId |-> IF i \in both THEN Marked(row[i], "cancelled") ELSE row[i]]
      /\ reversed' = [i \in RowId |-> IF i \in both THEN reversed[i] + 1 ELSE reversed[i]]
      /\ posted' = posted /\ session[p].stage = "idle"
  BY CancelTransferMeans DEF At
<1>2. /\ ins \in [1..Rows -> Int] /\ outs \in [1..Rows -> Int]
      /\ SumTo(ins, Rows) \in Int /\ SumTo(outs, Rows) \in Int
      /\ \A m \in RowId : ins[m] - outs[m] = IF m \in both THEN Signed(row[m]) ELSE 0
  BY CancelledAmounts
<1>3. both \in SUBSET RowId /\ \A i \in both : row[i].status = "active"
  BY DEF Live
<1>4. \A i \in RowId : row[i].status = "active" => posted[i] = 1 /\ reversed[i] = 0
  BY <1>1, IdleCounted
<1>5. Rows \in Nat /\ Rows \in 0..Rows /\ stock \in Nat /\ stock' \in Nat
  BY LedgerAssumption DEF FiguresOK
<1>6. \A i \in RowId : Signed(row[i]) \in Int
  BY EffectTyped
<1>7. part \in [1..Rows -> Int] /\ \A i \in 1..Rows : part[i] = zero[i] + ins[i] - outs[i]
  <2>1. ASSUME NEW i \in RowId PROVE part[i] = ins[i] - outs[i] /\ part[i] \in Int
    BY <1>2, <1>6 DEF Part
  <2>2. ASSUME NEW i \in 1..Rows PROVE ins[i] - outs[i] = zero[i] + ins[i] - outs[i]
    <3>1. ins[i] \in Int /\ outs[i] \in Int /\ zero[i] = 0
      BY <1>2
    <3> HIDE DEF ins, outs, zero
    <3> QED
      BY <3>1
  <2>3. part \in [1..Rows -> Int]
    BY <2>1 DEF Part, RowId
  <2> QED
    BY <2>1, <2>2, <2>3 DEF RowId
<1>8. zero \in [1..Rows -> Int] /\ SumTo(zero, Rows) = 0
  <2>1. zero \in [1..Rows -> Int] /\ \A i \in 1..Rows : zero[i] = 0
    OBVIOUS
  <2> HIDE DEF zero
  <2> QED
    BY <1>5, <2>1, SumToZero
<1> HIDE DEF ins, outs, both, part, zero
<1>9. SumTo(part, Rows) = SumTo(ins, Rows) - SumTo(outs, Rows)
  <2>1. Combined(Rows, zero, ins, outs, part)
    BY <1>2, <1>7, <1>8 DEF Combined
  <2>2. SumTo(part, Rows) = SumTo(zero, Rows) + SumTo(ins, Rows) - SumTo(outs, Rows)
    BY <1>5, <2>1, SumToCombine
  <2> QED
    BY <1>2, <1>8, <2>2
<1>10. stock' = stock - SumTo(Part(both), Rows)
  BY <1>1, <1>2, <1>5, <1>9 DEF part
<1>11. /\ \A i \in both : posted[i] = 1 /\ reversed[i] = 0 /\ reversed'[i] = 1
       /\ \A i \in RowId \ both : reversed'[i] = reversed[i]
  BY <1>1, <1>3, <1>4
<1>12. \A i \in RowId : Signed(row[i])' = Signed(row[i])
  BY <1>1 DEF Signed, Marked
<1> QED
  BY <1>1, <1>3, <1>5, <1>10, <1>11, <1>12, VoidMeans

\* Reading a row shows nothing.
LEMMA ChangeMeans ==
    ASSUME OneRequest, SerialInv, LedgerInv', NEW p \in Session, Change(p)
    PROVE  Perpetual!Next \/ UNCHANGED Perpetual!vars
<1>1. ASSUME NEW m \in RowId, ReadForCancel(p, m) \/ ReadForDelete(p, m)
      PROVE  UNCHANGED Perpetual!vars
  <2>1. UNCHANGED <<stock, row, posted, reversed>>
    BY <1>1 DEF ReadForCancel, ReadForDelete, Fetch, tables
  <2> QED
    BY <2>1, StutterMeans DEF Signed
<1>2. ~ \E m \in RowId : ReadForPatch(p, m)
  BY DEF OneRequest, ReadForPatch
<1>3. ~ \E q \in Quantity : WritePatch(p, q)
  BY DEF WritePatch, At, SerialInv, BalanceInv, InHand
<1> QED
  BY <1>1, <1>2, <1>3, CancelTransferVoids DEF Change

\* Both movements of a transfer are booked, and their amounts cancel.
LEMMA PostTransferBooks ==
    ASSUME OneRequest, SerialInv, LedgerInv', NEW p \in Session, PostTransfer(p)
    PROVE  Perpetual!Next
<1> DEFINE t == session[p].ref
           d == transfer[t]
           sent == NewMovement("OUT", d.from, d.qty, t)
           got == NewMovement("IN", d.to, d.qty, t)
           q == d.qty
<1> USE DEF SerialInv, BalanceInv, LedgerInv
<1>1. q \in Nat
  BY DEF PostTransfer, At, Typed, Transfer
<1>2. PICK m \in RowId :
        /\ NextRow(m) /\ m + 1 \in RowId \ Taken(row)
        /\ row' = [row EXCEPT ![m] = sent, ![m+1] = got]
        /\ posted' = [posted EXCEPT ![m] = @ + 1, ![m+1] = @ + 1]
  BY DEF PostTransfer
<1>3. UNCHANGED <<stock, transfer, reversed>>
  BY DEF PostTransfer
<1>4. Signed(sent) = 0 - q /\ Signed(got) = q
  BY DEF Signed, NewMovement, Inbound
<1> HIDE DEF t, d, sent, got, q
<1>5. /\ m \in RowId /\ m + 1 \in RowId /\ m + 1 # m
      /\ row[m].status = "absent" /\ row[m+1].status = "absent"
  BY <1>2 DEF NextRow, Taken, RowId, Typed
<1>6. /\ row'[m] = sent /\ row'[m+1] = got
      /\ \A i \in RowId \ {m, m+1} : row'[i] = row[i]
  BY <1>2, <1>5 DEF Typed
<1>7. /\ posted[m] = 0 /\ posted[m+1] = 0 /\ reversed[m] = 0 /\ reversed[m+1] = 0
      /\ posted'[m] = 1 /\ posted'[m+1] = 1
      /\ \A i \in RowId \ {m, m+1} : posted'[i] = posted[i]
  BY <1>2, <1>5 DEF Typed, Pending, Untouched
<1> DEFINE S == {m, m+1}
           f == Part(S)'
           a == 0 - q
           zero == [i \in 1..Rows |-> 0]
           mid == [zero EXCEPT ![m] = a]
<1>8. /\ f = [i \in RowId |-> IF i = m THEN 0 - q ELSE IF i = m + 1 THEN q ELSE 0]
      /\ S \in SUBSET RowId /\ stock \in Nat
  BY <1>4, <1>5, <1>6 DEF Part, Signed, FiguresOK
<1>9. f = [mid EXCEPT ![m+1] = q]
  BY <1>5, <1>8 DEF RowId
<1>10. /\ Rows \in Nat /\ Rows \in 0..Rows /\ a \in Int /\ q \in Int /\ a + q = 0
       /\ m \in 1..Rows /\ m + 1 \in 1..Rows /\ ~(Rows < m) /\ ~(Rows < m + 1)
       /\ zero \in [1..Rows -> Int] /\ zero[m] = 0 /\ \A i \in 1..Rows : zero[i] = 0
  BY <1>1, <1>5, LedgerAssumption DEF RowId
<1>11. SumTo(f, Rows) = 0
  <2> HIDE DEF a, zero, S, f
  <2>1. mid \in [1..Rows -> Int] /\ mid[m+1] = 0
    BY <1>5, <1>10
  <2>2. SumTo(zero, Rows) = 0
    BY <1>10, SumToZero
  <2>3. SumTo(mid, Rows) = SumTo(zero, Rows) - zero[m] + a
    BY <1>10, SumToUpdate
  <2> HIDE DEF mid
  <2>4. SumTo([mid EXCEPT ![m+1] = q], Rows) = SumTo(mid, Rows) - mid[m+1] + q
    BY <1>10, <2>1, SumToUpdate
  <2> QED
    BY <1>9, <1>10, <2>1, <2>2, <2>3, <2>4
<1>12. stock' = stock + SumTo(Part(S)', Rows) /\ stock' \in Nat
  BY <1>3, <1>8, <1>11
<1> HIDE DEF f, a, zero, mid
<1>13. /\ \A i \in S : posted[i] = 0 /\ reversed[i] = 0 /\ posted'[i] = 1 /\ reversed'[i] = 0
       /\ \A i \in RowId \ S : posted'[i] = posted[i] /\ reversed'[i] = reversed[i]
       /\ \A i \in RowId \ S : posted[i] > 0 => Signed(row[i])' = Signed(row[i])
  BY <1>3, <1>6, <1>7 DEF Signed
<1> HIDE DEF S
<1> QED
  BY <1>8, <1>12, <1>13, BookMeans

\* A row is booked when its handler commits and voided when its reversal does.
LEMMA ContinueMeans ==
    ASSUME OneRequest, SerialInv, LedgerInv', NEW p \in Session, Continue(p)
    PROVE  Perpetual!Next \/ UNCHANGED Perpetual!vars
<1> DEFINE m == session[p].ref
           r == session[p].copy
<1> USE DEF SerialInv, BalanceInv, LedgerInv
<1>1. /\ row \in [RowId -> Movement] /\ posted \in [RowId -> Nat]
      /\ reversed \in [RowId -> Nat] /\ session \in [Session -> Work] /\ stock \in Nat
  BY DEF Typed, FiguresOK
<1>2. r \in Movement /\ Current(p)
  BY <1>1 DEF Work
<1>3. session[p].stage \in HandStages => m \in RowId /\ Signed(r) = Signed(row[m])
  BY DEF Typed, RowStages, HandStages, InHand, Faithful, Signed
<1>4. ASSUME InsertOutbound(p) PROVE UNCHANGED Perpetual!vars
  BY <1>4, InsertStutters DEF InsertOutbound
<1>5. ASSUME Post(p) PROVE Perpetual!Next
  <2>1. m \in RowId /\ posted[m] = 0 /\ reversed[m] = 0 /\ Signed(r) = Signed(row[m])
    BY <1>2, <1>3, <1>5 DEF Post, At, Current, HandStages, Pending
  <2>2. /\ posted' = [posted EXCEPT ![m] = @ + 1] /\ Apply(m, r)
        /\ UNCHANGED <<row, transfer, reversed>>
    BY <1>5 DEF Post
  <2> HIDE DEF m, r
  <2>3. posted'[m] = 1 /\ \A i \in RowId \ {m} : posted'[i] = posted[i]
    BY <1>1, <2>1, <2>2
  <2>4. stock' = stock + Signed(r)
    BY <1>1, <1>2, <2>2, HandlerAmounts DEF r
  <2>5. \A i \in RowId : Signed(row[i])' = Signed(row[i])
    BY <2>2 DEF Signed
  <2> QED
    BY <2>1, <2>2, <2>3, <2>4, <2>5, OneRowMeans
<1>6. ASSUME CommitReversal(p) \/ Delete(p) PROVE Perpetual!Next
  <2>1. m \in RowId /\ posted[m] = 1 /\ reversed[m] = 0 /\ Signed(r) = Signed(row[m])
    BY <1>2, <1>3, <1>6 DEF CommitReversal, Delete, At, Current, HandStages
  <2>2. /\ reversed' = [reversed EXCEPT ![m] = @ + 1] /\ posted' = posted
        /\ Revert(m, r, TRUE) \/ Revert(m, r, FALSE)
        /\ row' = row \/ row' = [row EXCEPT ![m] = Marked(row[m], "deleted")]
    BY <1>6 DEF CommitReversal, Delete
  <2> HIDE DEF m, r
  <2>3. reversed'[m] = 1 /\ \A i \in RowId \ {m} : reversed'[i] = reversed[i]
    BY <1>1, <2>1, <2>2
  <2>4. stock' = stock - Signed(r)
    BY <1>1, <1>2, <2>2, HandlerAmounts DEF r
  <2>5. \A i \in RowId : Signed(row[i])' = Signed(row[i])
    BY <1>1, <2>1, <2>2 DEF Signed, Marked
  <2> QED
    BY <2>1, <2>2, <2>3, <2>4, <2>5, OneRowMeans
<1>7. ASSUME MarkCancelled(p) PROVE UNCHANGED Perpetual!vars
  <2>1. /\ row' = row \/ row' = [row EXCEPT ![m] = Marked(row[m], "cancelled")]
        /\ m \in RowId /\ UNCHANGED <<stock, posted, reversed>>
    BY <1>3, <1>7 DEF MarkCancelled, At, HandStages
  <2> HIDE DEF m, r
  <2>2. \A i \in RowId : Signed(row[i])' = Signed(row[i])
    BY <1>1, <2>1 DEF Signed, Marked
  <2> QED
    BY <2>1, <2>2, StutterMeans
<1>8. ASSUME PostFails(p) \/ ReversalFails(p) \/ TransferFails(p) \/ Crash(p)
      PROVE  UNCHANGED Perpetual!vars
  <2>1. UNCHANGED <<stock, row, posted, reversed>>
    BY <1>8 DEF PostFails, ReversalFails, TransferFails, Crash, tables
  <2> QED
    BY <2>1, StutterMeans DEF Signed
<1> QED
  BY <1>4, <1>5, <1>6, <1>7, <1>8, PostTransferBooks DEF Continue

\* One request at a time, the movement table, the signal handlers and the
\* tables they derive implement a perpetual inventory: each step books or voids
\* whole entries with their exact amount, once each, or shows nothing.
THEOREM LedgerImplementsPerpetual == OneRequest => (Spec => ImplementsPerpetual)
<1> SUFFICES ASSUME OneRequest PROVE Spec => ImplementsPerpetual
  OBVIOUS
<1>1. Init => Perpetual!Init
  BY DEF Init, Perpetual!Init, Perpetual!EntryId, RowId
<1>2. SerialInv /\ LedgerInv' /\ [Next]_vars => [Perpetual!Next]_(Perpetual!vars)
  <2> SUFFICES ASSUME SerialInv, LedgerInv', [Next]_vars
               PROVE  Perpetual!Next \/ UNCHANGED Perpetual!vars
    OBVIOUS
  <2>1. CASE Next
    BY <2>1, CreateMeans, ChangeMeans, ContinueMeans DEF Next
  <2>2. CASE UNCHANGED vars
    BY <2>2, StutterMeans DEF vars, Signed
  <2> QED
    BY <2>1, <2>2
<1> QED
  BY <1>1, <1>2, SerialInvariant, LedgerInvariant, PTL
  DEF Spec, ImplementsPerpetual, Perpetual!Spec
=============================================================================
