---------------------- MODULE OrderFulfilment_proofs ----------------------
(***************************************************************************)
(* The orders of a product, for any number of orders, shipments and         *)
(* sessions, any quantities and any choice of entry points: every row keeps *)
(* its type and no goods are lost or made up.  Then what orders, their      *)
(* movements and the reservation say of each other.  With any number of     *)
(* requests at once, orders shipped whole are issued once.  One request     *)
(* after the other, what a request holds is never out of date (Current); so *)
(* statuses follow their map (MapInv), shipped_quantity is what the         *)
(* movements hold and a cancelled order holds nothing (ExactInv), and       *)
(* reserved_stock is what is confirmed and not shipped (ReservedInv).       *)
(***************************************************************************)
EXTENDS OrderFulfilment, Sums_proofs

-----------------------------------------------------------------------------
(* What the orders' movements hold, as functions of the two tables. *)

PartsOf(sh, o) == [s \in ShipmentId |-> IF sh[s].order = o
                                        THEN Taking(sh[s].item) ELSE 0]
HeldBy(f, sh, o) == Taking(f[o]) + SumTo(PartsOf(sh, o), Shipments)
Total(f, sh) == SumTo([o \in OrderId |-> HeldBy(f, sh, o)], Orders)

Tables(f, sh) == f \in [OrderId -> Movement] /\ sh \in [ShipmentId -> ShipmentRow]

\* The bounds, in the form the facts about SumTo take them.
LEMMA Bounds ==
    /\ Orders \in Nat /\ Orders \in 0..Orders /\ OrderId = 1..Orders /\ 1 \in OrderId
    /\ Shipments \in Nat /\ Shipments \in 0..Shipments /\ ShipmentId = 1..Shipments
    /\ Opening \in Nat
    /\ \A q \in Quantity : q \in Nat
BY FulfilmentAssumption DEF OrderId, ShipmentId

\* A movement takes a natural number.
LEMMA TakingTyped ==
    ASSUME NEW m \in Movement
    PROVE  /\ Taking(m) \in Nat
           /\ Undone(m) \in Movement
           /\ Taking(Undone(m)) = 0
           /\ m.state = "none" => Taking(m) = 0 /\ Undone(m).state = "none"
BY DEF Movement, Taking, Undone

\* What the shipments of an order hold, and what the order holds, are naturals.
LEMMA HeldTyped ==
    ASSUME NEW f, NEW sh, Tables(f, sh), NEW o \in OrderId
    PROVE  /\ PartsOf(sh, o) \in [1..Shipments -> Nat]
           /\ SumTo(PartsOf(sh, o), Shipments) \in Nat
           /\ Taking(f[o]) \in Nat
           /\ HeldBy(f, sh, o) \in Nat
<1>1. \A s \in ShipmentId : sh[s].item \in Movement
  BY DEF Tables, ShipmentRow
<1>2. PartsOf(sh, o) \in [1..Shipments -> Nat]
  <2>1. \A s \in ShipmentId : Taking(sh[s].item) \in Nat
    BY <1>1, TakingTyped
  <2> QED
    BY <2>1, Bounds DEF PartsOf
<1>3. SumTo(PartsOf(sh, o), Shipments) \in Nat
  BY <1>2, Bounds, SumToNat
<1>4. Taking(f[o]) \in Nat
  BY TakingTyped DEF Tables
<1> QED
  BY <1>2, <1>3, <1>4 DEF HeldBy

\* What all of them hold is a natural.
LEMMA TotalTyped ==
    ASSUME NEW f, NEW sh, Tables(f, sh)
    PROVE  Total(f, sh) \in Nat
<1> DEFINE F == [o \in OrderId |-> HeldBy(f, sh, o)]
<1>1. F \in [1..Orders -> Nat]
  BY HeldTyped, Bounds
<1>2. \A n \in 0..Orders : SumTo(F, n) \in Nat
  <2> HIDE DEF F
  <2> QED
    BY <1>1, Bounds, SumToNat
<1> QED
  BY <1>2, Bounds DEF Total

\* If one order's holding changes, the total changes as much.
LEMMA OneOrderChanges ==
    ASSUME NEW f, NEW sh, NEW g, NEW th, Tables(f, sh), Tables(g, th),
           NEW o \in OrderId,
           \A x \in OrderId \ {o} : HeldBy(g, th, x) = HeldBy(f, sh, x)
    PROVE  Total(g, th) = Total(f, sh) - HeldBy(f, sh, o) + HeldBy(g, th, o)
<1> DEFINE F == [x \in OrderId |-> HeldBy(f, sh, x)]
           G == [x \in OrderId |-> HeldBy(g, th, x)]
           v == HeldBy(g, th, o)
<1>1. F \in [1..Orders -> Int] /\ v \in Int /\ F[o] = HeldBy(f, sh, o)
  BY HeldTyped, Bounds
<1>2. G = [F EXCEPT ![o] = v]
  OBVIOUS
<1>3. SumTo([F EXCEPT ![o] = v], Orders) = SumTo(F, Orders) - F[o] + v
  <2> HIDE DEF F, v
  <2>1. \A n \in 0..Orders : SumTo([F EXCEPT ![o] = v], n)
            = IF n < o THEN SumTo(F, n) ELSE SumTo(F, n) - F[o] + v
    BY <1>1, Bounds, SumToUpdate
  <2>2. Orders \in 0..Orders /\ ~(Orders < o)
    BY Bounds
  <2> QED
    BY <2>1, <2>2
<1> QED
  BY <1>1, <1>2, <1>3 DEF Total

\* What each order holds once the full movement of one of them is replaced.
LEMMA HeldAfterFull ==
    ASSUME NEW f, NEW sh, Tables(f, sh), NEW o \in OrderId, NEW m \in Movement,
           NEW g, g[o] = m, \A x \in OrderId \ {o} : g[x] = f[x]
    PROVE  /\ HeldBy(g, sh, o) = HeldBy(f, sh, o) - Taking(f[o]) + Taking(m)
           /\ \A x \in OrderId \ {o} : HeldBy(g, sh, x) = HeldBy(f, sh, x)
<1>2. \A x \in OrderId \ {o} : HeldBy(g, sh, x) = HeldBy(f, sh, x)
  BY DEF HeldBy
<1>3. /\ HeldBy(f, sh, o) = Taking(f[o]) + SumTo(PartsOf(sh, o), Shipments)
      /\ HeldBy(g, sh, o) = Taking(m) + SumTo(PartsOf(sh, o), Shipments)
  BY DEF HeldBy
<1>4. Taking(m) \in Nat /\ Taking(f[o]) \in Nat
      /\ SumTo(PartsOf(sh, o), Shipments) \in Nat
  BY HeldTyped, TakingTyped
<1>5. HeldBy(g, sh, o) = HeldBy(f, sh, o) - Taking(f[o]) + Taking(m)
  BY <1>3, <1>4
<1> QED
  BY <1>2, <1>5

\* Replacing the full movement of an order.
LEMMA FullChanges ==
    ASSUME NEW f, NEW sh, Tables(f, sh), NEW o \in OrderId, NEW m \in Movement
    PROVE  /\ Tables([f EXCEPT ![o] = m], sh)
           /\ Total([f EXCEPT ![o] = m], sh) = Total(f, sh) - Taking(f[o]) + Taking(m)
<1> DEFINE g == [f EXCEPT ![o] = m]
<1>0. Tables(g, sh) /\ g[o] = m /\ \A x \in OrderId \ {o} : g[x] = f[x]
  BY DEF Tables
<1> HIDE DEF g
<1>1. /\ Tables(g, sh)
      /\ \A x \in OrderId \ {o} : HeldBy(g, sh, x) = HeldBy(f, sh, x)
      /\ HeldBy(g, sh, o) = HeldBy(f, sh, o) - Taking(f[o]) + Taking(m)
  BY <1>0, HeldAfterFull
<1>2. Total(g, sh) = Total(f, sh) - HeldBy(f, sh, o) + HeldBy(g, sh, o)
  BY <1>1, OneOrderChanges
<1>3. Total(f, sh) \in Int /\ HeldBy(f, sh, o) \in Int
  BY TotalTyped, HeldTyped
<1>4. Taking(m) \in Nat /\ Taking(f[o]) \in Nat
  BY HeldTyped, TakingTyped
<1> QED
  BY <1>1, <1>2, <1>3, <1>4 DEF g

\* What each order holds once a shipment is replaced, by one of the same order
\* unless it held nothing.
LEMMA HeldAfterShipment ==
    ASSUME NEW f, NEW sh, Tables(f, sh), NEW s \in ShipmentId, NEW r \in ShipmentRow,
           sh[s].order = r.order \/ Taking(sh[s].item) = 0,
           NEW th, Tables(f, th), th[s] = r, \A t \in ShipmentId \ {s} : th[t] = sh[t]
    PROVE  /\ r.order \in OrderId
           /\ HeldBy(f, th, r.order)
                = HeldBy(f, sh, r.order) - Taking(sh[s].item) + Taking(r.item)
           /\ \A x \in OrderId \ {r.order} : HeldBy(f, th, x) = HeldBy(f, sh, x)
<1> DEFINE o == r.order
<1>1. /\ Tables(f, th) /\ o \in OrderId
      /\ th[s] = r /\ \A t \in ShipmentId \ {s} : th[t] = sh[t]
  BY DEF ShipmentRow
<1>2. \A t \in ShipmentId : sh[t].item \in Movement /\ Taking(sh[t].item) \in Nat
  BY TakingTyped DEF Tables, ShipmentRow
<1>3. r.item \in Movement /\ Taking(r.item) \in Nat
  BY TakingTyped DEF ShipmentRow
<1>4. ASSUME NEW x \in OrderId \ {o} PROVE HeldBy(f, th, x) = HeldBy(f, sh, x)
  <2>1. PartsOf(th, x) = PartsOf(sh, x)
    BY <1>1 DEF PartsOf
  <2> QED
    BY <2>1 DEF HeldBy
<1>5. PartsOf(th, o) = [PartsOf(sh, o) EXCEPT ![s] = Taking(r.item)]
  BY <1>1 DEF PartsOf
<1>6. PartsOf(sh, o)[s] = Taking(sh[s].item)
  BY DEF PartsOf
<1>7. PartsOf(sh, o) \in [1..Shipments -> Int]
  BY <1>1, HeldTyped
<1>8. SumTo(PartsOf(th, o), Shipments)
        = SumTo(PartsOf(sh, o), Shipments) - Taking(sh[s].item) + Taking(r.item)
  <2> DEFINE F == PartsOf(sh, o)
             v == Taking(r.item)
  <2>1. F \in [1..Shipments -> Int] /\ v \in Int /\ s \in 1..Shipments
    BY <1>3, <1>7, Bounds
  <2>2. F[s] = Taking(sh[s].item) /\ PartsOf(th, o) = [F EXCEPT ![s] = v]
    BY <1>5, <1>6
  <2>3. Shipments \in 0..Shipments /\ ~(Shipments < s)
    BY Bounds
  <2> HIDE DEF F, v
  <2>4. \A n \in 0..Shipments : SumTo([F EXCEPT ![s] = v], n)
            = IF n < s THEN SumTo(F, n) ELSE SumTo(F, n) - F[s] + v
    BY <2>1, Bounds, SumToUpdate
  <2>5. SumTo([F EXCEPT ![s] = v], Shipments) = SumTo(F, Shipments) - F[s] + v
    BY <2>3, <2>4
  <2> QED
    BY <2>2, <2>5 DEF F, v
<1>9. SumTo(PartsOf(sh, o), Shipments) \in Nat /\ Taking(f[o]) \in Nat
  BY <1>1, HeldTyped
<1>10. HeldBy(f, th, o) = HeldBy(f, sh, o) - Taking(sh[s].item) + Taking(r.item)
  BY <1>1, <1>2, <1>3, <1>8, <1>9 DEF HeldBy
<1> QED
  BY <1>1, <1>4, <1>10

\* Replacing a shipment, of the same order unless it held nothing.
LEMMA ShipmentChanges ==
    ASSUME NEW f, NEW sh, Tables(f, sh), NEW s \in ShipmentId, NEW r \in ShipmentRow,
           sh[s].order = r.order \/ Taking(sh[s].item) = 0
    PROVE  /\ Tables(f, [sh EXCEPT ![s] = r])
           /\ Total(f, [sh EXCEPT ![s] = r])
                = Total(f, sh) - Taking(sh[s].item) + Taking(r.item)
<1> DEFINE th == [sh EXCEPT ![s] = r]
           o == r.order
<1>0. Tables(f, th) /\ th[s] = r /\ \A t \in ShipmentId \ {s} : th[t] = sh[t]
  BY DEF Tables
<1> HIDE DEF th
<1>1. /\ Tables(f, th) /\ o \in OrderId
      /\ \A x \in OrderId \ {o} : HeldBy(f, th, x) = HeldBy(f, sh, x)
      /\ HeldBy(f, th, o) = HeldBy(f, sh, o) - Taking(sh[s].item) + Taking(r.item)
  BY <1>0, HeldAfterShipment
<1>2. Total(f, th) = Total(f, sh) - HeldBy(f, sh, o) + HeldBy(f, th, o)
  BY <1>1, OneOrderChanges
<1>3. Total(f, sh) \in Int /\ HeldBy(f, sh, o) \in Int
  BY <1>1, TotalTyped, HeldTyped
<1>4. Taking(sh[s].item) \in Nat /\ Taking(r.item) \in Nat
  BY TakingTyped DEF Tables, ShipmentRow
<1> QED
  BY <1>1, <1>2, <1>3, <1>4 DEF th

\* Changes that touch no movement change no holding, and no total.
LEMMA SameMovements ==
    ASSUME NEW f, NEW sh, NEW th,
           \A s \in ShipmentId : th[s].order = sh[s].order /\ th[s].item = sh[s].item
    PROVE  /\ \A x : HeldBy(f, th, x) = HeldBy(f, sh, x)
           /\ Total(f, th) = Total(f, sh)
<1>1. \A x : PartsOf(th, x) = PartsOf(sh, x)
  BY DEF PartsOf
<1>2. \A x : HeldBy(f, th, x) = HeldBy(f, sh, x)
  BY <1>1 DEF HeldBy
<1> QED
  BY <1>2 DEF Total

\* Once every movement of an order is reversed it holds nothing.
LEMMA HeldAfterUndone ==
    ASSUME NEW f, NEW sh, NEW th, Tables(f, sh), NEW o \in OrderId,
           NEW g, Tables(g, th), g[o] = Undone(f[o]),
           \A x \in OrderId \ {o} : g[x] = f[x],
           \A s \in ShipmentId :
               /\ th[s].order = sh[s].order
               /\ th[s].item = IF sh[s].order = o THEN Undone(sh[s].item) ELSE sh[s].item
    PROVE  /\ HeldBy(g, th, o) = 0
           /\ \A x \in OrderId \ {o} : HeldBy(g, th, x) = HeldBy(f, sh, x)
<1>1. Tables(g, th) /\ g[o] = Undone(f[o]) /\ \A x \in OrderId \ {o} : g[x] = f[x]
  OBVIOUS
<1>2. ASSUME NEW x \in OrderId \ {o} PROVE HeldBy(g, th, x) = HeldBy(f, sh, x)
  <2>1. PartsOf(th, x) = PartsOf(sh, x)
    BY DEF PartsOf
  <2> QED
    BY <1>1, <2>1 DEF HeldBy
<1>3. \A s \in ShipmentId : PartsOf(th, o)[s] = 0
  <2>1. \A s \in ShipmentId : Taking(Undone(sh[s].item)) = 0
    BY TakingTyped DEF Tables, ShipmentRow
  <2> QED
    BY <2>1 DEF PartsOf
<1>4. PartsOf(th, o) \in [1..Shipments -> Int]
  BY <1>1, HeldTyped
<1>5. SumTo(PartsOf(th, o), Shipments) = 0
  BY <1>3, <1>4, Bounds, SumToZero
<1>6. Taking(g[o]) = 0
  BY <1>1, TakingTyped DEF Tables
<1>7. HeldBy(g, th, o) = 0
  BY <1>5, <1>6 DEF HeldBy
<1> QED
  BY <1>2, <1>7

\* Reversing every movement of an order takes its holding out of the total.
LEMMA AllUndone ==
    ASSUME NEW f, NEW sh, NEW th, Tables(f, sh), NEW o \in OrderId,
           Tables([f EXCEPT ![o] = Undone(f[o])], th),
           \A s \in ShipmentId :
               /\ th[s].order = sh[s].order
               /\ th[s].item = IF sh[s].order = o THEN Undone(sh[s].item) ELSE sh[s].item
    PROVE  Total([f EXCEPT ![o] = Undone(f[o])], th) = Total(f, sh) - HeldBy(f, sh, o)
<1> DEFINE g == [f EXCEPT ![o] = Undone(f[o])]
<1>0. Tables(g, th) /\ g[o] = Undone(f[o]) /\ \A x \in OrderId \ {o} : g[x] = f[x]
  BY DEF Tables
<1> HIDE DEF g
<1>1. /\ Tables(g, th) /\ HeldBy(g, th, o) = 0
      /\ \A x \in OrderId \ {o} : HeldBy(g, th, x) = HeldBy(f, sh, x)
  BY <1>0, HeldAfterUndone
<1>2. Total(g, th) = Total(f, sh) - HeldBy(f, sh, o) + HeldBy(g, th, o)
  BY <1>1, OneOrderChanges
<1>3. Total(f, sh) \in Int /\ HeldBy(f, sh, o) \in Int
  BY TotalTyped, HeldTyped
<1> QED
  BY <1>1, <1>2, <1>3 DEF g

-----------------------------------------------------------------------------
(* The rows and the requests. *)

\* The updates of a row keep its type.
LEMMA RowsTyped ==
    /\ \A r \in OrderRow, s \in Status, n \in Nat, a \in {"active", "retired", "erased"} :
         /\ WithStatus(r, s) \in OrderRow
         /\ WithShipped(r, s, n) \in OrderRow
         /\ WithRow(r, a) \in OrderRow
    /\ \A r \in OrderRow :
         /\ r.status \in Status /\ r.qty \in Nat /\ r.shipped \in Nat
         /\ r.row \in {"active", "retired", "erased"} /\ r.paid \in BOOLEAN
    /\ \A r \in ShipmentRow, s \in ShipmentStatus :
         /\ Sent(r, s) \in ShipmentRow /\ Sent(r, s).row = r.row
         /\ Sent(r, s).order = r.order /\ Sent(r, s).item = r.item
    /\ \A r \in ShipmentRow, a \in {"active", "retired", "erased"} :
         /\ Dropped(r, a) \in ShipmentRow /\ Dropped(r, a).row = a
         /\ Dropped(r, a).order = r.order /\ Dropped(r, a).item = r.item
    /\ \A r \in ShipmentRow :
         /\ r.order \in OrderId /\ r.item \in Movement /\ r.status \in ShipmentStatus
         /\ r.item.qty \in Nat
    /\ BlankOrder \in OrderRow
BY DEF OrderRow, ShipmentRow, Movement, WithStatus, WithShipped, WithRow, Sent, Dropped,
       BlankOrder, Status

\* The updates of what a request holds keep its type.
LEMMA WorkTyped ==
    /\ \A stage \in Stage, o \in 0..Orders, new \in Status, copy \in OrderRow, n \in Nat :
         Holds(stage, o, new, copy, n) \in Work
    /\ \A w \in Work, stage \in Stage, old \in Status, n \in Nat :
         Then(w, stage, old, n) \in Work
    /\ \A w \in Work, n \in Nat : WithEdit(w, n) \in Work
    /\ \A w \in Work, s \in ShipmentId, status \in ShipmentStatus :
         WithShipment(w, s, status) \in Work
    /\ \A w \in Work : /\ w.order \in 0..Orders /\ w.new \in Status /\ w.old \in Status
                       /\ w.copy \in OrderRow /\ w.amount \in Nat /\ w.edit \in Nat
                       /\ w.sent \in ShipmentStatus
    /\ Idle \in Work
<1>1. ASSUME NEW stage \in Stage, NEW o \in 0..Orders, NEW new \in Status,
             NEW copy \in OrderRow, NEW n \in Nat
      PROVE  Holds(stage, o, new, copy, n) \in Work
  <2>1. copy.status \in Status /\ 0 \in 0..Shipments /\ "PREPARING" \in ShipmentStatus
    BY Bounds, RowsTyped DEF ShipmentStatus
  <2> QED
    BY <2>1 DEF Holds, Work
<1>2. ASSUME NEW w \in Work, NEW stage \in Stage, NEW old \in Status, NEW n \in Nat
      PROVE  Then(w, stage, old, n) \in Work
  BY DEF Then, Work
<1>3. ASSUME NEW w \in Work, NEW n \in Nat PROVE WithEdit(w, n) \in Work
  BY DEF WithEdit, Work
<1>4. ASSUME NEW w \in Work, NEW s \in ShipmentId, NEW status \in ShipmentStatus
      PROVE  WithShipment(w, s, status) \in Work
  BY Bounds DEF WithShipment, Work
<1>5. Idle \in Work
  <2>1. "idle" \in Stage /\ 0 \in 0..Orders /\ "DRAFT" \in Status
    BY Bounds DEF Stage, Status
  <2> QED
    BY <1>1, <2>1, RowsTyped DEF Idle
<1> QED
  BY <1>1, <1>2, <1>3, <1>4, <1>5 DEF Work

-----------------------------------------------------------------------------
(* The invariant. *)

\* The movements of all orders account for the stock that is gone, and a
\* shipment not yet created holds nothing: without that, creating one could
\* wipe out a movement.
Accounted == stock + Total(full, shipment) = Opening
AbsentEmpty == \A s \in ShipmentId :
                   shipment[s].row = "absent" => shipment[s].item.state = "none"

FulfilmentInv == TypeOK /\ Accounted /\ AbsentEmpty

\* The two ways of writing what the orders hold are one.
LEMMA AccountedIsConserved == Accounted <=> StockConserved
BY DEF Accounted, StockConserved, Total, HeldBy, PartsOf, Issued, IssuedInParts

LEMMA InitKeeps == Init => FulfilmentInv
<1> SUFFICES ASSUME Init PROVE FulfilmentInv
  OBVIOUS
<1>1. TypeOK
  <2>1. order \in [OrderId -> OrderRow]
    <3>1. PICK q \in [OrderId -> Quantity], row \in [OrderId -> {"active", "erased"}] :
            order = [o \in OrderId |-> [row |-> row[o], status |-> "DRAFT", qty |-> q[o],
                                        shipped |-> 0, paid |-> FALSE]]
      BY DEF Init
    <3>2. \A o \in OrderId : q[o] \in Nat /\ row[o] \in {"active", "retired", "erased"}
      BY Bounds
    <3> QED
      BY <3>1, <3>2 DEF OrderRow, Status
  <2>2. NoMovement \in Movement
    BY DEF NoMovement, Movement
  <2>3. NoShipment \in ShipmentRow
    BY <2>2, Bounds DEF NoShipment, ShipmentRow, ShipmentStatus
  <2>4. Dropped(NoShipment, "erased") \in ShipmentRow
    BY <2>3, RowsTyped
  <2>5. shipment \in [ShipmentId -> ShipmentRow]
    <3>1. PICK n \in 0..Shipments :
            shipment = [s \in ShipmentId |-> IF s <= n THEN Dropped(NoShipment, "erased")
                                             ELSE NoShipment]
      BY DEF Init
    <3> QED
      BY <3>1, <2>3, <2>4
  <2>6. full \in [OrderId -> Movement]
    BY <2>2 DEF Init
  <2> QED
    BY <2>1, <2>5, <2>6, Bounds, WorkTyped DEF Init, TypeOK
<1>2. \A o \in OrderId : full[o] = NoMovement
  BY DEF Init
<1>3. \A s \in ShipmentId : shipment[s].item = NoMovement
  BY DEF Init, NoShipment, Dropped
<1>4. Taking(NoMovement) = 0 /\ NoMovement.state = "none"
  BY DEF Taking, NoMovement
<1>5. Tables(full, shipment)
  BY <1>1 DEF TypeOK, Tables
<1>6. ASSUME NEW o \in OrderId PROVE HeldBy(full, shipment, o) = 0
  <2>1. PartsOf(shipment, o) \in [1..Shipments -> Int]
    BY <1>5, HeldTyped
  <2>2. \A s \in 1..Shipments : PartsOf(shipment, o)[s] = 0
    BY <1>3, <1>4, Bounds DEF PartsOf
  <2>3. SumTo(PartsOf(shipment, o), Shipments) = 0
    BY <2>1, <2>2, Bounds, SumToZero
  <2> QED
    BY <2>3, <1>2, <1>4 DEF HeldBy
<1>7. Total(full, shipment) = 0
  <2> DEFINE F == [o \in OrderId |-> HeldBy(full, shipment, o)]
  <2>1. F \in [1..Orders -> Int] /\ \A o \in 1..Orders : F[o] = 0
    BY <1>6, Bounds
  <2>2. SumTo(F, Orders) = 0
    <3> HIDE DEF F
    <3> QED
      BY <2>1, Bounds, SumToZero
  <2> QED
    BY <2>2 DEF Total
<1>8. stock = Opening
  BY DEF Init
<1>9. Accounted
  BY <1>7, <1>8, Bounds DEF Accounted
<1>10. AbsentEmpty
  BY <1>3, <1>4 DEF AbsentEmpty
<1> QED
  BY <1>1, <1>9, <1>10 DEF FulfilmentInv

-----------------------------------------------------------------------------
(* Steps. *)

\* A request goes on with what it is given.
LEMMA GotoTyped ==
    ASSUME session \in [Session -> Work], NEW p \in Session
    PROVE  /\ \A w \in Work : Goto(p, w) => session' \in [Session -> Work]
           /\ Done(p) => session' \in [Session -> Work]
           /\ \A stage \in Stage : Continue(p, stage) => session' \in [Session -> Work]
           /\ session[p] \in Work
<1>1. \A w \in Work : Goto(p, w) => session' \in [Session -> Work]
  BY DEF Goto
<1>2. Idle \in Work /\ session[p] \in Work /\ session[p].old \in Status
      /\ session[p].amount \in Nat
  BY WorkTyped
<1>3. \A stage \in Stage :
        Then(session[p], stage, session[p].old, session[p].amount) \in Work
  BY <1>2, WorkTyped
<1> QED
  BY <1>1, <1>2, <1>3 DEF Done, Continue

\* The row a request works on.
LEMMA PresentTyped ==
    ASSUME TypeOK, NEW p \in Session, Present(p)
    PROVE  /\ Of(p) \in OrderId /\ Of(p) \in 0..Orders
           /\ Row(p) \in OrderRow /\ full[Of(p)] \in Movement
BY Bounds, WorkTyped DEF TypeOK, Present, Of, Row

\* Writing a row keeps the table's type.
LEMMA UpdateTyped ==
    ASSUME TypeOK, NEW o \in OrderId, NEW r \in OrderRow, Update(o, r)
    PROVE  order' \in [OrderId -> OrderRow]
BY DEF TypeOK, Update

\* Reserving and releasing leave a natural number.
LEMMA ReservedTyped ==
    ASSUME TypeOK, NEW q \in Nat
    PROVE  /\ ReserveTo(q) => reserved' \in Nat
           /\ GiveBack(q) => reserved' \in Nat
           /\ reserved - Lesser(q, reserved) \in Nat
BY DEF TypeOK, ReserveTo, GiveBack, Lesser

\* A step that moves no goods.
LEMMA NoGoodsMoved ==
    ASSUME FulfilmentInv, UNCHANGED <<stock, full, shipment, scene>>, reserved' \in Nat,
           order' \in [OrderId -> OrderRow], session' \in [Session -> Work]
    PROVE  FulfilmentInv'
BY DEF FulfilmentInv, TypeOK, Accounted, AbsentEmpty

\* A step that only moves a request on.
LEMMA OnlySession ==
    ASSUME FulfilmentInv, UNCHANGED <<stock, reserved, order, full, shipment, scene>>,
           session' \in [Session -> Work]
    PROVE  FulfilmentInv'
BY NoGoodsMoved DEF FulfilmentInv, TypeOK

\* The requests' first reads, their failures, and the handler's comparisons.
LEMMA RequestsKeep ==
    ASSUME FulfilmentInv, UNCHANGED scene, NEW p \in Session, NEW o \in OrderId
    PROVE  /\ \A new \in Status : AskStatus(p, o, new) => FulfilmentInv'
           /\ AskPay(p, o) => FulfilmentInv'
           /\ \A q \in Quantity : AskPartial(p, o, q) \/ AskModify(p, o, q)
                                  \/ AskEdit(p, o, q) => FulfilmentInv'
<1>1. /\ TypeOK /\ session \in [Session -> Work] /\ order[o] \in OrderRow
      /\ order[o].status \in Status /\ o \in 0..Orders /\ 0 \in Nat
      /\ \A q \in Quantity : q \in Nat
  <2>1. TypeOK /\ session \in [Session -> Work] /\ order[o] \in OrderRow
    BY DEF FulfilmentInv, TypeOK
  <2>2. o \in 0..Orders
    BY Bounds
  <2> QED
    BY <2>1, <2>2, Bounds, RowsTyped
<1>2. ASSUME NEW new \in Status, AskStatus(p, o, new) PROVE FulfilmentInv'
  <2>1. Holds("asked", o, new, order[o], 0) \in Work
    BY <1>1, WorkTyped DEF Stage
  <2> QED
    BY <1>1, <1>2, <2>1, GotoTyped, OnlySession DEF AskStatus
<1>3. ASSUME NEW q \in Quantity, AskPartial(p, o, q) PROVE FulfilmentInv'
  <2>1. Lesser(q, Remaining(order[o])) \in Nat
    BY <1>1, <1>3, RowsTyped DEF AskPartial, Lesser, Remaining
  <2>2. Holds("picking", o, order[o].status, order[o],
              Lesser(q, Remaining(order[o]))) \in Work
    BY <1>1, <2>1, WorkTyped DEF Stage
  <2> QED
    BY <1>1, <1>3, <2>2, GotoTyped, OnlySession DEF AskPartial
<1>4. ASSUME AskPay(p, o) PROVE FulfilmentInv'
  <2>1. Holds("paying", o, "CLOSED", order[o], 0) \in Work
    BY <1>1, WorkTyped DEF Stage, Status
  <2> QED
    BY <1>1, <1>4, <2>1, GotoTyped, OnlySession DEF AskPay
<1>5. ASSUME NEW q \in Quantity, AskModify(p, o, q) PROVE FulfilmentInv'
  <2>1. WithEdit(Holds("modifying", o, "CONFIRMED", order[o], 0), q) \in Work
    BY <1>1, WorkTyped DEF Stage, Status
  <2> QED
    BY <1>1, <1>5, <2>1, GotoTyped, OnlySession DEF AskModify
<1>6. ASSUME NEW q \in Quantity, AskEdit(p, o, q) PROVE FulfilmentInv'
  <2>1. WithEdit(Holds("asked", o, order[o].status, order[o], 0), q) \in Work
    BY <1>1, WorkTyped DEF Stage
  <2> QED
    BY <1>1, <1>6, <2>1, GotoTyped, OnlySession DEF AskEdit
<1> QED
  BY <1>2, <1>3, <1>4, <1>5, <1>6

\* The steps within a request that write nothing.
LEMMA ReadsKeep ==
    ASSUME FulfilmentInv, UNCHANGED scene, NEW p \in Session
    PROVE  /\ Begin(p) => FulfilmentInv'
           /\ PickFull(p) => FulfilmentInv'
           /\ IssueFullFails(p) => FulfilmentInv'
           /\ PartialFails(p) => FulfilmentInv'
           /\ SyncOrder(p) => FulfilmentInv'
           /\ RowGone(p) => FulfilmentInv'
           /\ Crash(p) => FulfilmentInv'
           /\ \A s \in ShipmentId, status \in ShipmentStatus :
                AskShipment(p, s, status) => FulfilmentInv'
<1>1. TypeOK /\ session \in [Session -> Work] /\ session[p] \in Work /\ 0 \in Nat
      /\ session[p].old \in Status
  BY WorkTyped DEF FulfilmentInv, TypeOK
<1>2. ASSUME Begin(p) PROVE FulfilmentInv'
  <2>1. Row(p).status \in Status
    BY <1>1, <1>2, PresentTyped, RowsTyped DEF Begin
  <2>2. Consequence(Row(p).status, session[p].new) \in Stage
    BY DEF Consequence, Stage
  <2>3. Then(session[p], Consequence(Row(p).status, session[p].new),
             Row(p).status, 0) \in Work
    BY <1>1, <2>1, <2>2, WorkTyped
  <2> QED
    BY <1>1, <1>2, <2>3, GotoTyped, OnlySession DEF Begin
<1>3. ASSUME PickFull(p) PROVE FulfilmentInv'
  <2>1. AfterShipping(p) \in Stage /\ "issuing" \in Stage
    BY DEF AfterShipping, Stage
  <2>2. Row(p) \in OrderRow /\ Row(p).qty \in Nat /\ Row(p).shipped \in Nat
    BY <1>1, <1>3, PresentTyped, RowsTyped DEF PickFull
  <2>3. CASE Continue(p, AfterShipping(p))
    BY <1>1, <1>3, <2>1, <2>3, GotoTyped, OnlySession DEF PickFull
  <2>4. CASE Done(p)
    BY <1>1, <1>3, <2>4, GotoTyped, OnlySession DEF PickFull
  <2>5. CASE /\ Remaining(Row(p)) > 0
             /\ Goto(p, Then(session[p], "issuing", session[p].old, Remaining(Row(p))))
    <3>1. Remaining(Row(p)) \in Nat
      BY <2>2, <2>5 DEF Remaining
    <3>2. Then(session[p], "issuing", session[p].old, Remaining(Row(p))) \in Work
      BY <1>1, <2>1, <3>1, WorkTyped
    <3> QED
      BY <1>1, <1>3, <2>5, <3>2, GotoTyped, OnlySession DEF PickFull
  <2> QED
    BY <1>3, <2>3, <2>4, <2>5 DEF PickFull
<1>4. IssueFullFails(p) \/ PartialFails(p) \/ RowGone(p) \/ Crash(p) => FulfilmentInv'
  BY <1>1, GotoTyped, OnlySession DEF IssueFullFails, PartialFails, RowGone, Crash
<1>5. ASSUME SyncOrder(p) PROVE FulfilmentInv'
  <2>1. "asked" \in Stage /\ "sending" \in Stage
    BY DEF Stage
  <2> QED
    BY <1>1, <1>5, <2>1, GotoTyped, OnlySession DEF SyncOrder
<1>6. ASSUME NEW s \in ShipmentId, NEW status \in ShipmentStatus,
             AskShipment(p, s, status)
      PROVE  FulfilmentInv'
  <2> DEFINE o == shipment[s].order
  <2>1. o \in OrderId /\ order[o] \in OrderRow /\ o \in 0..Orders
    BY <1>1, Bounds, RowsTyped DEF TypeOK
  <2>2. Holds("updating", o, "DELIVERED", order[o], 0) \in Work
    BY <1>1, <2>1, WorkTyped DEF Stage, Status
  <2>3. WithShipment(Holds("updating", o, "DELIVERED", order[o], 0), s, status) \in Work
    BY <2>2, WorkTyped
  <2> QED
    BY <1>1, <1>6, <2>3, GotoTyped, OnlySession DEF AskShipment
<1> QED
  BY <1>2, <1>3, <1>4, <1>5, <1>6

\* What writes order rows and the reservation, and moves no goods.
LEMMA WritesKeep ==
    ASSUME FulfilmentInv, UNCHANGED scene, NEW p \in Session
    PROVE  /\ Reserve(p) => FulfilmentInv'
           /\ Release(p) => FulfilmentInv'
           /\ CloseIfPaid(p) => FulfilmentInv'
           /\ WriteOrder(p) => FulfilmentInv'
           /\ CommitPay(p) => FulfilmentInv'
           /\ ClosePaid(p) => FulfilmentInv'
           /\ CommitModify(p) => FulfilmentInv'
           /\ EditItem(p) => FulfilmentInv'
           /\ \A o \in OrderId : RetireOrder(p, o) => FulfilmentInv'
<1>1. /\ TypeOK /\ session \in [Session -> Work] /\ session[p] \in Work
      /\ order \in [OrderId -> OrderRow] /\ reserved \in Nat /\ 0 \in Nat
  BY DEF FulfilmentInv, TypeOK
<1>2. /\ session[p].copy \in OrderRow /\ session[p].edit \in Nat
      /\ session[p].new \in Status /\ session[p].old \in Status
      /\ "writing" \in Stage /\ "sending" \in Stage /\ "editing" \in Stage
      /\ "closing" \in Stage /\ "asked" \in Stage /\ "CLOSED" \in Status
  BY <1>1, WorkTyped DEF Stage, Status
<1>3. ASSUME Present(p)
      PROVE  /\ Of(p) \in OrderId /\ Row(p) \in OrderRow
             /\ Row(p).qty \in Nat /\ Row(p).shipped \in Nat
             /\ Row(p).status \in Status
             /\ \A s \in Status : WithStatus(Row(p), s) \in OrderRow
             /\ \A r \in OrderRow : Update(Of(p), r) => order' \in [OrderId -> OrderRow]
  <2>1. Of(p) \in OrderId /\ Row(p) \in OrderRow
    BY <1>1, <1>3, PresentTyped
  <2>2. /\ Row(p).qty \in Nat /\ Row(p).shipped \in Nat
        /\ Row(p).status \in Status
    BY <2>1, RowsTyped
  <2>3. \A s \in Status : WithStatus(Row(p), s) \in OrderRow
    BY <1>1, <2>1, RowsTyped, "active" \in {"active", "retired", "erased"}
  <2> QED
    BY <1>1, <2>1, <2>2, <2>3, UpdateTyped
<1>4. ASSUME Reserve(p) PROVE FulfilmentInv'
  <2>1. reserved + Row(p).qty \in Nat
    BY <1>1, <1>3, <1>4 DEF Reserve
  <2> QED
    BY <1>1, <1>2, <1>4, <2>1, ReservedTyped, GotoTyped, NoGoodsMoved DEF Reserve
<1>5. ASSUME Release(p) PROVE FulfilmentInv'
  BY <1>1, <1>2, <1>3, <1>5, ReservedTyped, GotoTyped, NoGoodsMoved DEF Release
<1>6. ASSUME CloseIfPaid(p) PROVE FulfilmentInv'
  <2>1. order' \in [OrderId -> OrderRow]
    BY <1>1, <1>2, <1>3, <1>6 DEF CloseIfPaid
  <2> QED
    BY <1>1, <1>2, <1>6, <2>1, GotoTyped, NoGoodsMoved DEF CloseIfPaid
<1>7. ASSUME WriteOrder(p) PROVE FulfilmentInv'
  <2> DEFINE w == session[p]
             whole == [row |-> w.copy.row, status |-> w.copy.status, qty |-> Row(p).qty,
                       shipped |-> Row(p).shipped, paid |-> w.copy.paid]
  <2>1. Present(p)
    BY <1>7 DEF WriteOrder
  <2>2. whole \in OrderRow
    BY <1>2, <1>3, <2>1 DEF OrderRow
  <2>3. order' \in [OrderId -> OrderRow]
    BY <1>2, <1>3, <1>7, <2>1, <2>2 DEF WriteOrder, Of
  <2>4. session' \in [Session -> Work]
    BY <1>1, <1>2, <1>7, GotoTyped DEF WriteOrder
  <2> QED
    BY <1>1, <1>7, <2>3, <2>4, NoGoodsMoved DEF WriteOrder
<1>8. ASSUME CommitPay(p) PROVE FulfilmentInv'
  <2> DEFINE r == Row(p)
             settled == [row |-> r.row, status |-> r.status, qty |-> r.qty,
                         shipped |-> r.shipped, paid |-> TRUE]
  <2>1. settled \in OrderRow
    BY <1>3, <1>8 DEF CommitPay, OrderRow
  <2>2. order' \in [OrderId -> OrderRow]
    BY <1>3, <1>8, <2>1 DEF CommitPay
  <2> QED
    BY <1>1, <1>2, <1>8, <2>2, GotoTyped, NoGoodsMoved DEF CommitPay
<1>9. ASSUME ClosePaid(p) PROVE FulfilmentInv'
  <2>1. order' \in [OrderId -> OrderRow]
    BY <1>1, <1>2, <1>3, <1>9 DEF ClosePaid
  <2> QED
    BY <1>1, <1>2, <1>9, <2>1, GotoTyped, NoGoodsMoved DEF ClosePaid
<1>10. ASSUME CommitModify(p) PROVE FulfilmentInv'
  <2> DEFINE w == session[p]
             form == [row |-> w.copy.row, status |-> w.copy.status, qty |-> w.edit,
                      shipped |-> w.copy.shipped, paid |-> w.copy.paid]
             n == reserved - Lesser(Row(p).qty, reserved)
                    + (IF Row(p).status # "CONFIRMED" THEN Row(p).qty ELSE 0) + w.edit
  <2>1. Present(p)
    BY <1>10 DEF CommitModify
  <2>2. form \in OrderRow
    BY <1>2 DEF OrderRow
  <2>3. n \in Nat
    BY <1>1, <1>2, <1>3, <2>1, ReservedTyped
  <2>4. order' \in [OrderId -> OrderRow]
    BY <1>3, <1>10, <2>1, <2>2 DEF CommitModify, Of
  <2>5. ReserveTo(n)
    BY <1>10 DEF CommitModify
  <2> QED
    BY <1>1, <1>10, <2>3, <2>4, <2>5, ReservedTyped, GotoTyped, NoGoodsMoved
    DEF CommitModify
<1>11. ASSUME EditItem(p) PROVE FulfilmentInv'
  <2> DEFINE w == session[p]
             item == [row |-> Row(p).row, status |-> Row(p).status, qty |-> w.edit,
                      shipped |-> w.copy.shipped, paid |-> Row(p).paid]
  <2>1. Present(p)
    BY <1>11 DEF EditItem
  <2>2. item \in OrderRow
    BY <1>2, <1>3, <2>1 DEF OrderRow
  <2>3. order' \in [OrderId -> OrderRow]
    BY <1>3, <1>11, <2>1, <2>2 DEF EditItem, Of
  <2>4. WithEdit(Then(w, "asked", w.old, 0), 0) \in Work
    BY <1>1, <1>2, WorkTyped
  <2> QED
    BY <1>1, <1>11, <2>3, <2>4, GotoTyped, NoGoodsMoved DEF EditItem
<1>12. ASSUME NEW o \in OrderId, RetireOrder(p, o) PROVE FulfilmentInv'
  <2>1. WithRow(order[o], "retired") \in OrderRow
    BY <1>1, RowsTyped, "retired" \in {"active", "retired", "erased"}
    DEF Status
  <2> QED
    BY <1>1, <1>12, <2>1, UpdateTyped, NoGoodsMoved DEF RetireOrder
<1> QED
  BY <1>4, <1>5, <1>6, <1>7, <1>8, <1>9, <1>10, <1>11, <1>12

\* A shipment's row changes, its movement does not.
LEMMA NoMovementChanged ==
    ASSUME FulfilmentInv, UNCHANGED <<stock, full, scene>>, reserved' \in Nat,
           order' \in [OrderId -> OrderRow], session' \in [Session -> Work],
           shipment' \in [ShipmentId -> ShipmentRow],
           \A s \in ShipmentId : /\ shipment'[s].order = shipment[s].order
                                 /\ shipment'[s].item = shipment[s].item
                                 /\ shipment'[s].row = "absent"
                                      => shipment[s].row = "absent"
    PROVE  FulfilmentInv'
<1>1. Total(full, shipment') = Total(full, shipment)
  BY SameMovements DEF FulfilmentInv, TypeOK, Tables
<1>2. TypeOK'
  BY DEF FulfilmentInv, TypeOK
<1>3. Accounted'
  BY <1>1 DEF FulfilmentInv, Accounted
<1>4. AbsentEmpty'
  BY DEF FulfilmentInv, AbsentEmpty
<1> QED
  BY <1>2, <1>3, <1>4 DEF FulfilmentInv

\* What creates, updates and deletes shipments, and moves no goods.
LEMMA ShipmentRowsKeep ==
    ASSUME FulfilmentInv, UNCHANGED scene, NEW p \in Session
    PROVE  /\ \A s \in ShipmentId : DeliverShipment(p, s) => FulfilmentInv'
           /\ \A s \in ShipmentId : EraseShipment(p, s) => FulfilmentInv'
           /\ \A o \in OrderId : CreateShipment(p, o) => FulfilmentInv'
           /\ \A o \in OrderId : EraseOrder(p, o) => FulfilmentInv'
           /\ WriteShipment(p) => FulfilmentInv'
<1> DEFINE Rows == {"active", "retired", "erased"}
<1>1. /\ TypeOK /\ session \in [Session -> Work] /\ session[p] \in Work
      /\ order \in [OrderId -> OrderRow] /\ reserved \in Nat
      /\ shipment \in [ShipmentId -> ShipmentRow]
      /\ "active" \in Rows /\ "erased" \in Rows /\ "DELIVERED" \in ShipmentStatus
      /\ "PREPARING" \in ShipmentStatus
  BY DEF FulfilmentInv, TypeOK, ShipmentStatus
<1>2. ASSUME NEW s, NEW r \in ShipmentRow,
             s \in ShipmentId => /\ r.order = shipment[s].order
                                 /\ r.item = shipment[s].item
                                 /\ r.row = "absent" => shipment[s].row = "absent",
             shipment' = [shipment EXCEPT ![s] = r]
      PROVE  /\ shipment' \in [ShipmentId -> ShipmentRow]
             /\ \A t \in ShipmentId : /\ shipment'[t].order = shipment[t].order
                                      /\ shipment'[t].item = shipment[t].item
                                      /\ shipment'[t].row = "absent"
                                           => shipment[t].row = "absent"
  BY <1>1, <1>2
<1>3. ASSUME NEW s \in ShipmentId, DeliverShipment(p, s) PROVE FulfilmentInv'
  <2>1. /\ Sent(shipment[s], "DELIVERED") \in ShipmentRow
        /\ Sent(shipment[s], "DELIVERED").order = shipment[s].order
        /\ Sent(shipment[s], "DELIVERED").item = shipment[s].item
        /\ Sent(shipment[s], "DELIVERED").row = shipment[s].row
    BY <1>1, RowsTyped
  <2>2. shipment' = [shipment EXCEPT ![s] = Sent(shipment[s], "DELIVERED")]
    BY <1>3 DEF DeliverShipment
  <2> QED
    BY <1>1, <1>2, <1>3, <2>1, <2>2, NoMovementChanged DEF DeliverShipment
<1>4. ASSUME NEW s \in ShipmentId, EraseShipment(p, s) PROVE FulfilmentInv'
  <2>1. /\ Dropped(shipment[s], "erased") \in ShipmentRow
        /\ Dropped(shipment[s], "erased").order = shipment[s].order
        /\ Dropped(shipment[s], "erased").item = shipment[s].item
        /\ Dropped(shipment[s], "erased").row = "erased"
    BY <1>1, RowsTyped
  <2>2. shipment' = [shipment EXCEPT ![s] = Dropped(shipment[s], "erased")]
    BY <1>4 DEF EraseShipment
  <2> QED
    BY <1>1, <1>2, <1>4, <2>1, <2>2, NoMovementChanged DEF EraseShipment
<1>5. ASSUME NEW o \in OrderId, CreateShipment(p, o) PROVE FulfilmentInv'
  <2> DEFINE r == [row |-> "active", order |-> o, status |-> "PREPARING",
                   item |-> NoMovement]
  <2>1. PICK s \in ShipmentId : NextShipment(s) /\ shipment' = [shipment EXCEPT ![s] = r]
    BY <1>5 DEF CreateShipment
  <2>2. /\ r \in ShipmentRow /\ r.item = NoMovement
        /\ Taking(NoMovement) = 0
    BY <1>1 DEF ShipmentRow, NoMovement, Movement, Taking
  <2>3. Taking(shipment[s].item) = 0
    BY <2>1 DEF NextShipment, FulfilmentInv, AbsentEmpty, Taking
  <2>4. Tables(full, shipment)
    BY <1>1 DEF TypeOK, Tables
  <2> HIDE DEF r
  <2>5. /\ Tables(full, shipment')
        /\ Total(full, shipment')
             = Total(full, shipment) - Taking(shipment[s].item) + Taking(r.item)
    <3>1. /\ Tables(full, [shipment EXCEPT ![s] = r])
          /\ Total(full, [shipment EXCEPT ![s] = r])
               = Total(full, shipment) - Taking(shipment[s].item) + Taking(r.item)
      BY <2>2, <2>3, <2>4, ShipmentChanges
    <3> QED
      BY <2>1, <3>1
  <2>6. Total(full, shipment') = Total(full, shipment)
    BY <2>2, <2>3, <2>4, <2>5, TotalTyped
  <2>7. UNCHANGED <<stock, reserved, order, full, session>>
    BY <1>5 DEF CreateShipment
  <2>8. TypeOK'
    BY <1>1, <2>5, <2>7 DEF TypeOK, Tables
  <2>9. Accounted'
    BY <2>6, <2>7 DEF FulfilmentInv, Accounted
  <2>10. AbsentEmpty'
    BY <1>1, <2>1 DEF FulfilmentInv, AbsentEmpty, r
  <2> QED
    BY <2>8, <2>9, <2>10 DEF FulfilmentInv
<1>6. ASSUME NEW o \in OrderId, EraseOrder(p, o) PROVE FulfilmentInv'
  <2>1. \A s \in ShipmentId : /\ Dropped(shipment[s], "erased") \in ShipmentRow
                              /\ Dropped(shipment[s], "erased").order = shipment[s].order
                              /\ Dropped(shipment[s], "erased").item = shipment[s].item
                              /\ Dropped(shipment[s], "erased").row = "erased"
    BY <1>1, RowsTyped
  <2>2. \A s \in ShipmentId : \/ shipment'[s] = shipment[s]
                              \/ shipment'[s] = Dropped(shipment[s], "erased")
    BY <1>6 DEF EraseOrder
  <2>3. shipment' \in [ShipmentId -> ShipmentRow]
    BY <1>1, <1>6, <2>1 DEF EraseOrder
  <2>4. WithRow(order[o], "erased") \in OrderRow
    BY <1>1, RowsTyped DEF Status
  <2>5. order' \in [OrderId -> OrderRow]
    BY <1>1, <1>6, <2>4, UpdateTyped DEF EraseOrder
  <2> QED
    BY <1>1, <1>6, <2>1, <2>2, <2>3, <2>5, NoMovementChanged DEF EraseOrder
<1>7. ASSUME WriteShipment(p) PROVE FulfilmentInv'
  <2> DEFINE s == session[p].shipment
             r == Sent(Dropped(shipment[s], "active"), session[p].sent)
  <2>1. shipment' = [shipment EXCEPT ![s] = r]
    BY <1>7 DEF WriteShipment
  <2>2. ASSUME s \in ShipmentId
        PROVE  r \in ShipmentRow /\ r.order = shipment[s].order
               /\ r.item = shipment[s].item /\ r.row = "active"
    <3> DEFINE d == Dropped(shipment[s], "active")
    <3>1. /\ d \in ShipmentRow /\ d.row = "active" /\ d.order = shipment[s].order
          /\ d.item = shipment[s].item /\ session[p].sent \in ShipmentStatus
      BY <1>1, <2>2, RowsTyped, WorkTyped
    <3> HIDE DEF d
    <3>2. Sent(d, session[p].sent) \in ShipmentRow
          /\ Sent(d, session[p].sent).row = d.row
          /\ Sent(d, session[p].sent).order = d.order
          /\ Sent(d, session[p].sent).item = d.item
      BY <3>1, RowsTyped
    <3> QED
      BY <3>1, <3>2 DEF d
  <2> HIDE DEF r
  <2>3. session' \in [Session -> Work]
    BY <1>1, <1>7, GotoTyped DEF WriteShipment
  <2>4. CASE s \in ShipmentId
    BY <1>1, <1>2, <1>7, <2>1, <2>2, <2>3, <2>4, NoMovementChanged DEF WriteShipment
  <2>5. CASE s \notin ShipmentId
    <3>1. shipment' = shipment
      BY <1>1, <2>1, <2>5
    <3> QED
      BY <1>1, <1>7, <2>3, <3>1, NoGoodsMoved DEF WriteShipment
  <2> QED
    BY <2>4, <2>5
<1> QED
  BY <1>3, <1>4, <1>5, <1>6, <1>7

\* The full shipment: what leaves the stock is what its movement takes, and no
\* earlier movement is overwritten.
LEMMA IssueFullKeeps ==
    ASSUME FulfilmentInv, UNCHANGED scene, NEW p \in Session, IssueFull(p)
    PROVE  FulfilmentInv'
<1> DEFINE o == Of(p)
           q == session[p].amount
           m == [state |-> "active", qty |-> q]
<1>1. /\ TypeOK /\ stock \in Nat /\ session \in [Session -> Work] /\ session[p] \in Work
      /\ Present(p) /\ Tables(full, shipment)
  BY DEF FulfilmentInv, TypeOK, IssueFull, Tables
<1>2. o \in OrderId /\ Row(p) \in OrderRow /\ full[o] \in Movement /\ q \in Nat
  BY <1>1, PresentTyped, WorkTyped
<1>3. m \in Movement /\ Taking(m) = q
  BY <1>2 DEF Movement, Taking
<1>4. full' = [full EXCEPT ![o] = m] /\ stock' = stock - q /\ stock >= q
      /\ full[o].state = "none"
  BY DEF IssueFull
<1>5. Taking(full[o]) = 0
  BY <1>4 DEF Taking
<1> HIDE DEF m
<1>6. Tables(full', shipment)
      /\ Total(full', shipment) = Total(full, shipment) - Taking(full[o]) + Taking(m)
  BY <1>1, <1>2, <1>3, <1>4, FullChanges
<1>7. Accounted'
  BY <1>1, <1>2, <1>3, <1>4, <1>5, <1>6, TotalTyped
  DEF FulfilmentInv, Accounted, IssueFull
<1>8. TypeOK'
  <2>1. WithShipped(Row(p), Row(p).status, Row(p).qty) \in OrderRow
    BY <1>2, RowsTyped
  <2>2. order' \in [OrderId -> OrderRow]
    BY <1>1, <1>2, <2>1, UpdateTyped DEF IssueFull
  <2>3. AfterShipping(p) \in Stage
    BY DEF AfterShipping, Stage
  <2>4. session' \in [Session -> Work]
    BY <1>1, <2>3, GotoTyped DEF IssueFull
  <2>5. stock' \in Nat
    BY <1>1, <1>2, <1>4
  <2> QED
    BY <1>1, <1>6, <2>2, <2>4, <2>5 DEF TypeOK, Tables, IssueFull
<1> QED
  BY <1>7, <1>8 DEF FulfilmentInv, AbsentEmpty, IssueFull

\* The cancellation: what comes back is what the order's movements held.
LEMMA CancelKeeps ==
    ASSUME FulfilmentInv, UNCHANGED scene, NEW p \in Session, CancelOrder(p)
    PROVE  FulfilmentInv'
<1> DEFINE o == Of(p)
           r == Row(p)
           left == IF session[p].old \in {"CONFIRMED", "PARTIAL_SHIPPED"}
                      /\ Remaining(r) > 0 THEN Remaining(r) ELSE 0
<1>1. /\ TypeOK /\ stock \in Nat /\ session \in [Session -> Work] /\ session[p] \in Work
      /\ Present(p) /\ Tables(full, shipment)
  BY DEF FulfilmentInv, TypeOK, CancelOrder, Tables
<1>2. o \in OrderId /\ r \in OrderRow /\ full[o] \in Movement
      /\ r.qty \in Nat /\ r.shipped \in Nat /\ r.status \in Status
  BY <1>1, PresentTyped, RowsTyped
<1>3. reserved' \in Nat
  <2>1. left \in Nat
    BY <1>2 DEF Remaining
  <2>2. GiveBack(left)
    BY DEF CancelOrder
  <2> QED
    BY <1>1, <2>1, <2>2, ReservedTyped
<1>4. session' \in [Session -> Work]
  BY <1>1, GotoTyped DEF CancelOrder, Stage
<1>5. CASE ~HasShipped(session[p].old)
  BY <1>1, <1>3, <1>4, <1>5, NoGoodsMoved DEF CancelOrder, TypeOK
<1>6. CASE HasShipped(session[p].old)
  <2>1. /\ stock' = stock + Issued(o)
        /\ full' = [full EXCEPT ![o] = Undone(full[o])]
        /\ shipment' = [s \in ShipmentId |->
             IF shipment[s].order = o
             THEN [row |-> shipment[s].row, order |-> o,
                   status |-> shipment[s].status, item |-> Undone(shipment[s].item)]
             ELSE shipment[s]]
        /\ Update(o, WithShipped(r, r.status, 0))
    BY <1>6 DEF CancelOrder
  <2>2. Issued(o) = HeldBy(full, shipment, o)
    BY DEF Issued, IssuedInParts, HeldBy, PartsOf
  <2>3. \A s \in ShipmentId :
          /\ shipment'[s].order = shipment[s].order
          /\ shipment'[s].row = shipment[s].row
          /\ shipment'[s].item = IF shipment[s].order = o
                                 THEN Undone(shipment[s].item) ELSE shipment[s].item
    BY <2>1
  <2>4. shipment' \in [ShipmentId -> ShipmentRow]
    <3>1. \A s \in ShipmentId : shipment[s] \in ShipmentRow
                                /\ Undone(shipment[s].item) \in Movement
      BY <1>1, RowsTyped, TakingTyped DEF Tables
    <3> QED
      BY <1>2, <2>1, <3>1 DEF ShipmentRow
  <2>5. full' \in [OrderId -> Movement]
    BY <1>1, <1>2, <2>1, TakingTyped DEF Tables
  <2>6. Tables([full EXCEPT ![o] = Undone(full[o])], shipment')
    BY <2>1, <2>4, <2>5 DEF Tables
  <2>7. Total(full', shipment') = Total(full, shipment) - HeldBy(full, shipment, o)
    BY <1>1, <1>2, <2>1, <2>3, <2>6, AllUndone
  <2>8. HeldBy(full, shipment, o) \in Nat /\ Total(full, shipment) \in Nat
    BY <1>1, <1>2, HeldTyped, TotalTyped
  <2>9. Accounted'
    BY <1>1, <2>1, <2>2, <2>7, <2>8 DEF FulfilmentInv, Accounted
  <2>10. order' \in [OrderId -> OrderRow]
    <3>1. WithShipped(r, r.status, 0) \in OrderRow
      BY <1>2, RowsTyped
    <3> QED
      BY <1>1, <1>2, <2>1, <3>1, UpdateTyped
  <2>11. TypeOK'
    BY <1>1, <1>3, <1>4, <2>1, <2>2, <2>4, <2>5, <2>8, <2>10 DEF TypeOK
  <2>12. AbsentEmpty'
    <3>1. \A s \in ShipmentId : shipment[s].item \in Movement
      BY <1>1, RowsTyped DEF Tables
    <3> QED
      BY <2>3, <3>1, TakingTyped DEF FulfilmentInv, AbsentEmpty
  <2> QED
    BY <2>9, <2>11, <2>12 DEF FulfilmentInv
<1> QED
  BY <1>5, <1>6

\* The partial shipment: a new row's movement takes what leaves the stock.
LEMMA CommitPartialKeeps ==
    ASSUME FulfilmentInv, UNCHANGED scene, NEW p \in Session, CommitPartial(p)
    PROVE  FulfilmentInv'
<1> DEFINE o == Of(p)
           q == session[p].amount
           new == [row |-> "active", order |-> o, status |-> "SHIPPED",
                   item |-> [state |-> "active", qty |-> q]]
           r == WithShipped(Row(p), Row(p).status, Row(p).shipped + q)
<1>1. /\ TypeOK /\ stock \in Nat /\ session \in [Session -> Work] /\ session[p] \in Work
      /\ Present(p) /\ Tables(full, shipment)
  BY DEF FulfilmentInv, TypeOK, CommitPartial, Tables
<1>2. o \in OrderId /\ Row(p) \in OrderRow /\ q \in Nat
  BY <1>1, PresentTyped, WorkTyped
<1>3. PICK s \in ShipmentId : NextShipment(s) /\ shipment' = [shipment EXCEPT ![s] = new]
  BY DEF CommitPartial
<1>4. new \in ShipmentRow /\ Taking(new.item) = q /\ new.row = "active"
  BY <1>2 DEF ShipmentRow, ShipmentStatus, Movement, Taking
<1>5. Taking(shipment[s].item) = 0
  BY <1>3 DEF NextShipment, FulfilmentInv, AbsentEmpty, Taking
<1>6. UNCHANGED full /\ stock' = stock - q /\ stock >= q
  BY DEF CommitPartial
<1> HIDE DEF new
<1>7. /\ Tables(full, [shipment EXCEPT ![s] = new])
      /\ Total(full, [shipment EXCEPT ![s] = new])
           = Total(full, shipment) - Taking(shipment[s].item) + Taking(new.item)
  BY <1>1, <1>4, <1>5, ShipmentChanges
<1>8. Accounted'
  BY <1>1, <1>2, <1>3, <1>4, <1>5, <1>6, <1>7, TotalTyped DEF FulfilmentInv, Accounted
<1>9. TypeOK'
  <2>1. r \in OrderRow
    <3>1. Row(p).status \in Status /\ Row(p).shipped + q \in Nat
      BY <1>2, RowsTyped
    <3> QED
      BY <1>2, <3>1, RowsTyped, "active" \in {"active", "retired", "erased"}
  <2>2. StatusAfter(r, session[p].copy.status) \in Status
    BY <2>1, RowsTyped DEF StatusAfter, Status
  <2>3. WithStatus(r, StatusAfter(r, session[p].copy.status)) \in OrderRow
    BY <2>1, <2>2, <1>2, RowsTyped, "active" \in {"active", "retired", "erased"}
  <2>4. order' \in [OrderId -> OrderRow]
    BY <1>1, <1>2, <2>3, UpdateTyped DEF CommitPartial
  <2>5. session' \in [Session -> Work]
    BY <1>1, GotoTyped DEF CommitPartial
  <2>6. stock' \in Nat /\ reserved' \in Nat
    BY <1>1, <1>2, <1>6, ReservedTyped DEF CommitPartial
  <2> QED
    BY <1>1, <1>3, <1>6, <1>7, <2>4, <2>5, <2>6 DEF TypeOK, Tables
<1>10. AbsentEmpty'
  BY <1>1, <1>3, <1>4 DEF FulfilmentInv, AbsentEmpty, Tables
<1> QED
  BY <1>8, <1>9, <1>10 DEF FulfilmentInv

\* Undoing a shipment gives back what its movement still takes, once.
LEMMA UndoKeeps ==
    ASSUME FulfilmentInv, UNCHANGED scene, NEW p \in Session, NEW s \in ShipmentId, UndoShipment(p, s)
    PROVE  FulfilmentInv'
<1> DEFINE o == shipment[s].order
           q == shipment[s].item.qty
           new == [row |-> "retired", order |-> o, status |-> shipment[s].status,
                   item |-> Undone(shipment[s].item)]
<1>1. /\ TypeOK /\ stock \in Nat /\ reserved \in Nat /\ session \in [Session -> Work]
      /\ order \in [OrderId -> OrderRow] /\ shipment[s] \in ShipmentRow
      /\ Tables(full, shipment)
  BY DEF FulfilmentInv, TypeOK, Tables
<1>2. /\ o \in OrderId /\ order[o] \in OrderRow /\ q \in Nat
      /\ shipment[s].item \in Movement
      /\ shipment[s].status \in ShipmentStatus
  BY <1>1, RowsTyped
<1>3. order[o].shipped \in Nat /\ order[o].status \in Status
  BY <1>2, RowsTyped
<1>4. /\ Taking(shipment[s].item) \in Nat /\ Undone(shipment[s].item) \in Movement
      /\ Taking(Undone(shipment[s].item)) = 0
  BY <1>2, TakingTyped
<1>5. new \in ShipmentRow /\ new.order = o /\ Taking(new.item) = 0 /\ new.row = "retired"
  BY <1>2, <1>4 DEF ShipmentRow
<1>6. /\ stock' = stock + Taking(shipment[s].item) /\ ReserveTo(reserved + q + q)
      /\ shipment' = [shipment EXCEPT ![s] = new] /\ order[o].shipped >= q
      /\ UNCHANGED <<full, session>>
  BY DEF UndoShipment
<1> HIDE DEF new
<1>7. /\ Tables(full, [shipment EXCEPT ![s] = new])
      /\ Total(full, [shipment EXCEPT ![s] = new])
           = Total(full, shipment) - Taking(shipment[s].item) + Taking(new.item)
  BY <1>1, <1>5, ShipmentChanges
<1>8. Accounted'
  BY <1>1, <1>4, <1>5, <1>6, <1>7, TotalTyped DEF FulfilmentInv, Accounted
<1>9. TypeOK'
  <2>1. order[o].shipped - q \in Nat
    BY <1>2, <1>3, <1>6
  <2>2. WithShipped(order[o], order[o].status, order[o].shipped - q) \in OrderRow
    BY <1>2, <1>3, <2>1, RowsTyped, "active" \in {"active", "retired", "erased"}
  <2>3. order' \in [OrderId -> OrderRow]
    BY <1>1, <1>2, <2>2, UpdateTyped DEF UndoShipment
  <2>4. stock' \in Nat /\ reserved' \in Nat
    BY <1>1, <1>2, <1>4, <1>6, ReservedTyped
  <2> QED
    BY <1>1, <1>6, <1>7, <2>3, <2>4 DEF TypeOK, Tables
<1>10. AbsentEmpty'
  BY <1>1, <1>5, <1>6 DEF FulfilmentInv, AbsentEmpty, Tables
<1> QED
  BY <1>8, <1>9, <1>10 DEF FulfilmentInv

-----------------------------------------------------------------------------
(* Theorems. *)

\* Every step keeps the invariant, whatever the other requests are doing.
LEMMA StepKeeps == FulfilmentInv /\ [Next]_vars => FulfilmentInv'
<1> SUFFICES ASSUME FulfilmentInv, [Next]_vars PROVE FulfilmentInv'
  OBVIOUS
<1>1. CASE UNCHANGED vars
  BY <1>1 DEF vars, FulfilmentInv, TypeOK, Accounted, AbsentEmpty
<1>2. ASSUME UNCHANGED scene, NEW p \in Session, Ask(p) PROVE FulfilmentInv'
  <2>1. PICK o \in OrderId :
          \/ \E new \in Status : AskStatus(p, o, new)
          \/ \E q \in Quantity : AskPartial(p, o, q) \/ AskModify(p, o, q)
                                 \/ AskEdit(p, o, q)
          \/ CreateShipment(p, o) \/ AskPay(p, o) \/ EraseOrder(p, o)
          \/ RetireOrder(p, o)
    BY <1>2 DEF Ask
  <2>2. CASE \E q \in Quantity : AskPartial(p, o, q) \/ AskModify(p, o, q)
                                 \/ AskEdit(p, o, q)
    BY <1>2, <2>2, RequestsKeep
  <2>3. CASE CreateShipment(p, o) \/ EraseOrder(p, o)
    BY <1>2, <2>3, ShipmentRowsKeep
  <2>4. CASE RetireOrder(p, o)
    BY <1>2, <2>4, WritesKeep
  <2>5. CASE (\E new \in Status : AskStatus(p, o, new)) \/ AskPay(p, o)
    BY <1>2, <2>5, RequestsKeep
  <2> QED
    BY <2>1, <2>2, <2>3, <2>4, <2>5
<1>3. ASSUME UNCHANGED scene, NEW p \in Session, Handle(p) PROVE FulfilmentInv'
  BY <1>3, ReadsKeep, ShipmentRowsKeep, UndoKeeps DEF Handle
<1>4. ASSUME UNCHANGED scene, NEW p \in Session, Proceed(p) PROVE FulfilmentInv'
  BY <1>4, ReadsKeep, WritesKeep, ShipmentRowsKeep, IssueFullKeeps, CancelKeeps,
     CommitPartialKeeps DEF Proceed
<1> QED
  BY <1>1, <1>2, <1>3, <1>4 DEF Next

\* Types, the account of the goods, and empty shipments that do not exist yet.
THEOREM FulfilmentInvariant == Spec => []FulfilmentInv
BY InitKeeps, StepKeeps, PTL DEF Spec

\* No request, however interleaved or cut short, drives current_stock or
\* reserved_stock below zero, or a row out of its type.
THEOREM FulfilmentTypeCorrect == Spec => []TypeOK
<1>1. FulfilmentInv => TypeOK
  BY DEF FulfilmentInv
<1> QED
  BY <1>1, FulfilmentInvariant, PTL

\* Whatever is confirmed, shipped, cancelled, edited, deleted or undone, at
\* once or in turn, what is in stock and what the orders' movements hold add
\* up to what there was.
THEOREM GoodsConserved == Spec => []StockConserved
<1>1. FulfilmentInv => StockConserved
  BY AccountedIsConserved DEF FulfilmentInv
<1> QED
  BY <1>1, FulfilmentInvariant, PTL

-----------------------------------------------------------------------------
(* What a step does to the goods the orders hold. *)

\* What an order holds, in the form of the facts about tables.
LEMMA IssuedIsHeld == \A o : Issued(o) = HeldBy(full, shipment, o)
BY DEF Issued, IssuedInParts, HeldBy, PartsOf

\* The tables of the movements, before and after a step.
LEMMA MovementTables ==
    FulfilmentInv => /\ Tables(full, shipment)
                     /\ \A o \in OrderId : HeldBy(full, shipment, o) \in Nat
<1> SUFFICES ASSUME FulfilmentInv
             PROVE  /\ Tables(full, shipment)
                    /\ \A o \in OrderId : HeldBy(full, shipment, o) \in Nat
  OBVIOUS
<1>1. Tables(full, shipment)
  BY DEF FulfilmentInv, TypeOK, Tables
<1> QED
  BY <1>1, HeldTyped

\* All steps but four leave what every order holds.
SameHeld == \A x \in OrderId : HeldBy(full', shipment', x) = HeldBy(full, shipment, x)

\* Nobody's goods move where no movement is written.
LEMMA UntouchedHeld ==
    ASSUME UNCHANGED full,
           \A s \in ShipmentId : /\ shipment'[s].order = shipment[s].order
                                 /\ shipment'[s].item = shipment[s].item
    PROVE  SameHeld
<1> DEFINE th == shipment'
<1>1. \A s \in ShipmentId : th[s].order = shipment[s].order /\ th[s].item = shipment[s].item
  OBVIOUS
<1> HIDE DEF th
<1>2. \A x : HeldBy(full, th, x) = HeldBy(full, shipment, x)
  BY <1>1, SameMovements
<1> QED
  BY <1>2 DEF SameHeld, th

\* Deleting, delivering and creating shipments moves no goods.
LEMMA ShipmentRowsHeld ==
    ASSUME FulfilmentInv, NEW p \in Session
    PROVE  /\ \A s \in ShipmentId : DeliverShipment(p, s) => SameHeld
           /\ \A s \in ShipmentId : EraseShipment(p, s) => SameHeld
           /\ \A o \in OrderId : EraseOrder(p, o) => SameHeld
           /\ \A o \in OrderId : CreateShipment(p, o) => SameHeld
           /\ WriteShipment(p) => SameHeld
<1>1. shipment \in [ShipmentId -> ShipmentRow]
  BY DEF FulfilmentInv, TypeOK
<1>2. ASSUME NEW s \in ShipmentId, DeliverShipment(p, s) PROVE SameHeld
  BY <1>1, <1>2, UntouchedHeld DEF DeliverShipment, Sent
<1>3. ASSUME NEW s \in ShipmentId, EraseShipment(p, s) PROVE SameHeld
  BY <1>1, <1>3, UntouchedHeld DEF EraseShipment, Dropped
<1>4. ASSUME NEW o \in OrderId, EraseOrder(p, o) PROVE SameHeld
  BY <1>1, <1>4, UntouchedHeld DEF EraseOrder, Dropped
<1>5. ASSUME WriteShipment(p) PROVE SameHeld
  BY <1>1, <1>5, UntouchedHeld DEF WriteShipment, Sent, Dropped
<1>6. ASSUME NEW o \in OrderId, CreateShipment(p, o) PROVE SameHeld
  <2> DEFINE r == [row |-> "active", order |-> o, status |-> "PREPARING",
                   item |-> NoMovement]
             th == shipment'
  <2>1. PICK s \in ShipmentId : NextShipment(s) /\ th = [shipment EXCEPT ![s] = r]
    BY <1>6 DEF CreateShipment
  <2>2. r \in ShipmentRow /\ r.item = NoMovement /\ Taking(NoMovement) = 0 /\ r.order = o
    BY DEF ShipmentRow, ShipmentStatus, NoMovement, Movement, Taking
  <2>3. Taking(shipment[s].item) = 0
    BY <2>1 DEF NextShipment, FulfilmentInv, AbsentEmpty, Taking
  <2>4. Tables(full, shipment)
    BY MovementTables
  <2> HIDE DEF r
  <2>5. /\ Tables(full, th) /\ th[s] = r
        /\ \A t \in ShipmentId \ {s} : th[t] = shipment[t]
    BY <2>1, <2>2, <2>4 DEF Tables
  <2>6. full' = full
    BY <1>6 DEF CreateShipment
  <2> HIDE DEF th
  <2>7. /\ HeldBy(full, th, o) = HeldBy(full, shipment, o) - Taking(shipment[s].item)
                                   + Taking(r.item)
        /\ \A x \in OrderId \ {o} : HeldBy(full, th, x) = HeldBy(full, shipment, x)
    BY <2>2, <2>3, <2>4, <2>5, HeldAfterShipment
  <2>8. HeldBy(full, shipment, o) \in Nat
    BY MovementTables
  <2>9. \A x \in OrderId : HeldBy(full, th, x) = HeldBy(full, shipment, x)
    BY <2>2, <2>3, <2>7, <2>8
  <2> QED
    BY <2>6, <2>9 DEF SameHeld, th
<1> QED
  BY <1>2, <1>3, <1>4, <1>5, <1>6

\* The four that move goods, each of one order.
OthersHeld(o) == \A x \in OrderId \ {o} :
                     HeldBy(full', shipment', x) = HeldBy(full, shipment, x)

\* A full shipment gives its order what it takes, and no other order.
LEMMA IssueFullHeld ==
    ASSUME FulfilmentInv, NEW p \in Session, IssueFull(p)
    PROVE  /\ OthersHeld(Of(p))
           /\ HeldBy(full', shipment', Of(p))
                = HeldBy(full, shipment, Of(p)) + session[p].amount
<1> DEFINE o == Of(p)
           m == [state |-> "active", qty |-> session[p].amount]
           g == full'
<1>1. o \in OrderId /\ session[p].amount \in Nat
  BY PresentTyped, WorkTyped DEF FulfilmentInv, TypeOK, IssueFull
<1>2. m \in Movement /\ Taking(m) = session[p].amount
  BY <1>1 DEF Movement, Taking
<1>3. Taking(full[o]) = 0 /\ g = [full EXCEPT ![o] = m] /\ shipment' = shipment
  BY DEF IssueFull, Taking
<1>4. Tables(full, shipment) /\ HeldBy(full, shipment, o) \in Nat
  BY <1>1, MovementTables
<1> HIDE DEF m
<1>5. g[o] = m /\ \A x \in OrderId \ {o} : g[x] = full[x]
  BY <1>1, <1>3, <1>4 DEF Tables
<1> HIDE DEF g
<1>6. /\ HeldBy(g, shipment, o) = HeldBy(full, shipment, o) - Taking(full[o]) + Taking(m)
      /\ \A x \in OrderId \ {o} : HeldBy(g, shipment, x) = HeldBy(full, shipment, x)
  BY <1>1, <1>2, <1>4, <1>5, HeldAfterFull
<1>7. HeldBy(g, shipment, o) = HeldBy(full, shipment, o) + session[p].amount
  BY <1>1, <1>2, <1>3, <1>4, <1>6
<1> QED
  BY <1>3, <1>6, <1>7 DEF g, OthersHeld

\* A cancellation takes everything from its order, and from no other.
LEMMA CancelHeld ==
    ASSUME FulfilmentInv, NEW p \in Session, CancelOrder(p)
    PROVE  IF HasShipped(session[p].old)
           THEN OthersHeld(Of(p)) /\ HeldBy(full', shipment', Of(p)) = 0
           ELSE SameHeld
<1> DEFINE o == Of(p)
           g == full'
           th == shipment'
<1>1. o \in OrderId /\ Tables(full, shipment) /\ FulfilmentInv
  BY PresentTyped, MovementTables DEF FulfilmentInv, CancelOrder
<1>2. CASE ~HasShipped(session[p].old)
  BY <1>2 DEF CancelOrder, SameHeld
<1>3. CASE HasShipped(session[p].old)
  <2>1. /\ g = [full EXCEPT ![o] = Undone(full[o])]
        /\ th = [s \in ShipmentId |->
             IF shipment[s].order = o
             THEN [row |-> shipment[s].row, order |-> o,
                   status |-> shipment[s].status, item |-> Undone(shipment[s].item)]
             ELSE shipment[s]]
    BY <1>3 DEF CancelOrder
  <2>2. \A s \in ShipmentId :
          /\ th[s].order = shipment[s].order
          /\ th[s].item = IF shipment[s].order = o
                          THEN Undone(shipment[s].item) ELSE shipment[s].item
    BY <2>1
  <2>3. th \in [ShipmentId -> ShipmentRow]
    <3>1. \A s \in ShipmentId : shipment[s] \in ShipmentRow
                                /\ Undone(shipment[s].item) \in Movement
      BY <1>1, RowsTyped, TakingTyped DEF Tables
    <3> QED
      BY <1>1, <2>1, <3>1 DEF ShipmentRow
  <2>4. g \in [OrderId -> Movement] /\ g[o] = Undone(full[o])
        /\ \A x \in OrderId \ {o} : g[x] = full[x]
    BY <1>1, <2>1, TakingTyped DEF Tables
  <2>5. Tables(g, th)
    BY <2>3, <2>4 DEF Tables
  <2> HIDE DEF g, th
  <2>6. HeldBy(g, th, o) = 0
        /\ \A x \in OrderId \ {o} : HeldBy(g, th, x) = HeldBy(full, shipment, x)
    BY <1>1, <2>2, <2>4, <2>5, HeldAfterUndone
  <2> QED
    BY <1>3, <2>6 DEF g, th, OthersHeld
<1> QED
  BY <1>2, <1>3

\* A partial shipment adds its quantity to its order alone.
LEMMA CommitPartialHeld ==
    ASSUME FulfilmentInv, NEW p \in Session, CommitPartial(p)
    PROVE  /\ OthersHeld(Of(p))
           /\ HeldBy(full', shipment', Of(p))
                = HeldBy(full, shipment, Of(p)) + session[p].amount
<1> DEFINE o == Of(p)
           q == session[p].amount
           r == [row |-> "active", order |-> o, status |-> "SHIPPED",
                 item |-> [state |-> "active", qty |-> q]]
           th == shipment'
<1>1. /\ o \in OrderId /\ q \in Nat /\ Tables(full, shipment)
      /\ HeldBy(full, shipment, o) \in Nat
  BY PresentTyped, WorkTyped, MovementTables DEF FulfilmentInv, TypeOK, CommitPartial
<1>2. PICK s \in ShipmentId : NextShipment(s) /\ th = [shipment EXCEPT ![s] = r]
  BY DEF CommitPartial
<1>3. r \in ShipmentRow /\ Taking(r.item) = q /\ r.order = o
  BY <1>1 DEF ShipmentRow, ShipmentStatus, Movement, Taking
<1>4. Taking(shipment[s].item) = 0 /\ full' = full
  BY <1>2 DEF NextShipment, FulfilmentInv, AbsentEmpty, Taking, CommitPartial
<1> HIDE DEF r
<1>5. /\ Tables(full, th) /\ th[s] = r
      /\ \A t \in ShipmentId \ {s} : th[t] = shipment[t]
  BY <1>1, <1>2, <1>3 DEF Tables
<1> HIDE DEF th
<1>6. /\ HeldBy(full, th, o) = HeldBy(full, shipment, o) - Taking(shipment[s].item)
                                 + Taking(r.item)
      /\ \A x \in OrderId \ {o} : HeldBy(full, th, x) = HeldBy(full, shipment, x)
  BY <1>1, <1>3, <1>4, <1>5, HeldAfterShipment
<1>7. HeldBy(full, th, o) = HeldBy(full, shipment, o) + q
  BY <1>1, <1>3, <1>4, <1>6
<1> QED
  BY <1>4, <1>6, <1>7 DEF th, OthersHeld

\* Undoing a shipment takes its quantity from its order alone.
LEMMA UndoHeld ==
    ASSUME FulfilmentInv, NEW p \in Session, NEW s \in ShipmentId, UndoShipment(p, s)
    PROVE  /\ OthersHeld(shipment[s].order)
           /\ HeldBy(full', shipment', shipment[s].order)
                = HeldBy(full, shipment, shipment[s].order) - Taking(shipment[s].item)
<1> DEFINE o == shipment[s].order
           r == [row |-> "retired", order |-> o, status |-> shipment[s].status,
                 item |-> Undone(shipment[s].item)]
           th == shipment'
<1>1. Tables(full, shipment) /\ shipment[s] \in ShipmentRow
  BY MovementTables DEF Tables
<1>2. /\ o \in OrderId /\ shipment[s].item \in Movement
      /\ shipment[s].status \in ShipmentStatus /\ HeldBy(full, shipment, o) \in Nat
  BY <1>1, RowsTyped, MovementTables
<1>3. /\ Taking(shipment[s].item) \in Nat /\ Undone(shipment[s].item) \in Movement
      /\ Taking(Undone(shipment[s].item)) = 0
  BY <1>2, TakingTyped
<1>4. r \in ShipmentRow /\ r.order = o /\ Taking(r.item) = 0
  BY <1>2, <1>3 DEF ShipmentRow
<1>5. th = [shipment EXCEPT ![s] = r] /\ full' = full
  BY DEF UndoShipment
<1> HIDE DEF r
<1>6. /\ Tables(full, th) /\ th[s] = r
      /\ \A t \in ShipmentId \ {s} : th[t] = shipment[t]
  BY <1>1, <1>4, <1>5 DEF Tables
<1> HIDE DEF th
<1>7. /\ HeldBy(full, th, o) = HeldBy(full, shipment, o) - Taking(shipment[s].item)
                                 + Taking(r.item)
      /\ \A x \in OrderId \ {o} : HeldBy(full, th, x) = HeldBy(full, shipment, x)
  BY <1>1, <1>4, <1>6, HeldAfterShipment
<1>8. HeldBy(full, th, o) = HeldBy(full, shipment, o) - Taking(shipment[s].item)
  BY <1>2, <1>3, <1>4, <1>7
<1> QED
  BY <1>5, <1>7, <1>8 DEF th, OthersHeld

-----------------------------------------------------------------------------
(* Orders shipped whole, by any number of requests. *)

WholesOnly == Without({"partial", "modify", "edit", "undo"})

\* The full movement m of an order takes what its row r asks for and says.
RowMatches(m, r) == IF m.state = "active" THEN r.shipped = r.qty /\ m.qty = r.qty
                    ELSE r.shipped = 0
NoParts == \A s \in ShipmentId : shipment[s].item.state = "none"

\* A request that only changes statuses: what it is about to issue is the whole
\* quantity.
Plain(w) == /\ ~w.whole /\ w.edit = 0
            /\ w.stage \notin {"picking", "modifying", "editing"}
PlainRequest(w, table) ==
    /\ Plain(w)
    /\ w.stage = "issuing" /\ w.order # 0 => w.amount = table[w.order].qty

Wholes == WholesOnly =>
    /\ NoParts
    /\ \A o \in OrderId : RowMatches(full[o], order[o])
    /\ \A p \in Session : PlainRequest(session[p], order)

WholeInv == FulfilmentInv /\ Wholes

\* Nothing but a movement or a request that is not allowed here breaks it.
LEMMA WholesKept ==
    ASSUME WholeInv, NEW p \in Session, UNCHANGED scene,
           \A q \in Session \ {p} : session'[q] = session[q],
           \A o \in OrderId : order'[o].qty = order[o].qty,
           WholesOnly => /\ NoParts'
                         /\ \A o \in OrderId : RowMatches(full'[o], order'[o])
                         /\ PlainRequest(session'[p], order')
    PROVE  Wholes'
<1>1. ASSUME WholesOnly, NEW q \in Session \ {p} PROVE PlainRequest(session'[q], order')
  <2>1. PlainRequest(session[q], order) /\ session[q].order \in 0..Orders
    BY <1>1, WorkTyped DEF WholeInv, FulfilmentInv, TypeOK, Wholes
  <2>2. session[q].order # 0 => session[q].order \in OrderId
    BY <2>1, Bounds
  <2> QED
    BY <2>1, <2>2 DEF PlainRequest
<1>2. WholesOnly' <=> WholesOnly
  BY DEF WholesOnly, Without
<1> QED
  BY <1>1, <1>2 DEF Wholes

\* Most steps touch no movement, no quantity and no shipped_quantity.
SameGoods ==
    /\ UNCHANGED full
    /\ \A o \in OrderId : order'[o].qty = order[o].qty /\ order'[o].shipped = order[o].shipped
    /\ \A s \in ShipmentId : shipment'[s].item = shipment[s].item
                             \/ shipment'[s].item = NoMovement

\* A step that changes no row and no goods keeps the facts of whole shipments.
LEMMA WholesSame ==
    ASSUME WholeInv, NEW p \in Session, UNCHANGED scene, SameGoods,
           \A q \in Session \ {p} : session'[q] = session[q],
           WholesOnly => PlainRequest(session'[p], order')
    PROVE  Wholes'
<1>1. ASSUME WholesOnly
      PROVE  NoParts' /\ \A o \in OrderId : RowMatches(full'[o], order'[o])
  <2>1. NoParts'
    BY <1>1 DEF WholeInv, Wholes, NoParts, SameGoods, NoMovement
  <2>2. \A o \in OrderId : RowMatches(full[o], order[o])
    BY <1>1 DEF WholeInv, Wholes
  <2> QED
    BY <2>1, <2>2 DEF SameGoods, RowMatches
<1>2. \A o \in OrderId : order'[o].qty = order[o].qty
  BY DEF SameGoods
<1> QED
  BY <1>1, <1>2, WholesKept

\* The request goes on with w, or does not.
LEMMA WholesGo ==
    ASSUME WholeInv, NEW p \in Session, UNCHANGED scene, SameGoods, NEW w, Goto(p, w),
           WholesOnly => Plain(w) /\ w.stage # "issuing"
    PROVE  Wholes'
<1>1. session'[p] = w /\ \A q \in Session \ {p} : session'[q] = session[q]
  BY DEF Goto, WholeInv, FulfilmentInv, TypeOK
<1> QED
  BY <1>1, WholesSame DEF PlainRequest

\* The same where no request moves on.
LEMMA WholesStay ==
    ASSUME WholeInv, NEW p \in Session, UNCHANGED <<scene, session>>, SameGoods
    PROVE  Wholes'
<1>1. ASSUME WholesOnly PROVE PlainRequest(session'[p], order')
  <2>1. PlainRequest(session[p], order) /\ session[p].order \in 0..Orders
    BY <1>1, WorkTyped DEF WholeInv, FulfilmentInv, TypeOK, Wholes
  <2>2. session[p].order # 0 => session[p].order \in OrderId
    BY <2>1, Bounds
  <2> QED
    BY <2>1, <2>2 DEF PlainRequest, SameGoods
<1> QED
  BY <1>1, WholesSame

\* Requests begin and end plain, and go on plain.
LEMMA PlainWork ==
    /\ \A stage, o, new, copy, n :
         stage \notin {"picking", "modifying", "editing"} => Plain(Holds(stage, o, new, copy, n))
    /\ \A w, stage, old, n :
         Plain(w) /\ stage \notin {"picking", "modifying", "editing"}
           => Plain(Then(w, stage, old, n))
    /\ \A w, s, status : Plain(w) => Plain(WithShipment(w, s, status))
    /\ Plain(Idle) /\ Idle.stage # "issuing"
    /\ \A w, stage, old, n : Then(w, stage, old, n).stage = stage
    /\ \A stage, o, new, copy, n : Holds(stage, o, new, copy, n).stage = stage
    /\ \A w, s, status : WithShipment(w, s, status).stage = w.stage
BY DEF Plain, Holds, Then, WithShipment, Idle

\* The first reads and the steps that write nothing.
LEMMA ReadsWhole ==
    ASSUME WholeInv, NEW p \in Session, UNCHANGED scene
    PROVE  /\ \A o \in OrderId : AskPay(p, o) => Wholes'
           /\ \A o \in OrderId, new \in Status : AskStatus(p, o, new) => Wholes'
           /\ \A s \in ShipmentId, status \in ShipmentStatus :
                AskShipment(p, s, status) => Wholes'
           /\ \A o \in OrderId, q \in Quantity :
                AskPartial(p, o, q) \/ AskModify(p, o, q) \/ AskEdit(p, o, q) => Wholes'
           /\ Begin(p) => Wholes'
           /\ SyncOrder(p) => Wholes'
           /\ IssueFullFails(p) \/ PartialFails(p) \/ RowGone(p) \/ Crash(p) => Wholes'
<1>1. WholesOnly => Plain(session[p])
  BY DEF WholeInv, Wholes, PlainRequest
<1>2. UNCHANGED <<order, full, shipment>> => SameGoods
  BY DEF SameGoods
<1>3. ASSUME NEW o \in OrderId, AskPay(p, o) PROVE Wholes'
  <2> DEFINE w == Holds("paying", o, "CLOSED", order[o], 0)
  <2>1. Plain(w) /\ w.stage # "issuing"
    BY PlainWork
  <2> HIDE DEF w
  <2> QED
    BY <1>2, <1>3, <2>1, WholesGo DEF AskPay, w
<1>4. ASSUME NEW o \in OrderId, NEW new \in Status, AskStatus(p, o, new) PROVE Wholes'
  <2> DEFINE w == Holds("asked", o, new, order[o], 0)
  <2>1. Plain(w) /\ w.stage # "issuing"
    BY PlainWork
  <2> HIDE DEF w
  <2> QED
    BY <1>2, <1>4, <2>1, WholesGo DEF AskStatus, w
<1>5. ASSUME NEW s \in ShipmentId, NEW status \in ShipmentStatus,
             AskShipment(p, s, status)
      PROVE  Wholes'
  <2> DEFINE h == Holds("updating", shipment[s].order, "DELIVERED",
                        order[shipment[s].order], 0)
             w == WithShipment(h, s, status)
  <2>1. Plain(h) /\ h.stage # "issuing"
    BY PlainWork
  <2> HIDE DEF h
  <2>2. Plain(w) /\ w.stage # "issuing"
    BY <2>1, PlainWork
  <2>3. Goto(p, w) /\ UNCHANGED <<order, full, shipment>>
    BY <1>5 DEF AskShipment, h
  <2> HIDE DEF w
  <2> QED
    BY <1>2, <2>2, <2>3, WholesGo
<1>6. ASSUME NEW o \in OrderId, NEW q \in Quantity,
             AskPartial(p, o, q) \/ AskModify(p, o, q) \/ AskEdit(p, o, q)
      PROVE  Wholes'
  <2>1. ~WholesOnly
    BY <1>6 DEF AskPartial, AskModify, AskEdit, WholesOnly, Without
  <2> QED
    BY <2>1 DEF Wholes, WholesOnly, Without
<1>7. ASSUME Begin(p) PROVE Wholes'
  <2> DEFINE c == Consequence(Row(p).status, session[p].new)
             w == Then(session[p], c, Row(p).status, 0)
  <2>1. c \notin {"picking", "modifying", "editing", "issuing"}
    BY DEF Consequence
  <2>2. Goto(p, w) /\ UNCHANGED <<order, full, shipment>>
    BY <1>7 DEF Begin
  <2> HIDE DEF c
  <2>3. WholesOnly => Plain(w) /\ w.stage # "issuing"
    BY <1>1, <2>1, PlainWork
  <2> HIDE DEF w
  <2> QED
    BY <1>2, <2>2, <2>3, WholesGo
<1>8. ASSUME SyncOrder(p) PROVE Wholes'
  <2>1. PICK stage \in {"asked", "sending"} : Continue(p, stage)
    BY <1>8 DEF SyncOrder
  <2> DEFINE w == Then(session[p], stage, session[p].old, session[p].amount)
  <2>2. WholesOnly => Plain(w) /\ w.stage # "issuing"
    BY <1>1, PlainWork
  <2>3. Goto(p, w) /\ UNCHANGED <<order, full, shipment>>
    BY <1>8, <2>1 DEF SyncOrder, Continue
  <2> HIDE DEF w
  <2> QED
    BY <1>2, <2>2, <2>3, WholesGo
<1>9. ASSUME IssueFullFails(p) \/ PartialFails(p) \/ RowGone(p) \/ Crash(p) PROVE Wholes'
  <2>1. Goto(p, Idle) /\ UNCHANGED <<order, full, shipment>>
    BY <1>9 DEF IssueFullFails, PartialFails, RowGone, Crash, Done
  <2> QED
    BY <1>2, <2>1, PlainWork, WholesGo
<1> QED
  BY <1>3, <1>4, <1>5, <1>6, <1>7, <1>8, <1>9

\* The steps that write rows but move no goods.
LEMMA WritesWhole ==
    ASSUME WholeInv, NEW p \in Session, UNCHANGED scene
    PROVE  /\ Reserve(p) => Wholes'
           /\ Release(p) => Wholes'
           /\ CloseIfPaid(p) => Wholes'
           /\ WriteOrder(p) => Wholes'
           /\ CommitPay(p) => Wholes'
           /\ ClosePaid(p) => Wholes'
           /\ CommitModify(p) \/ EditItem(p) \/ CommitPartial(p) => Wholes'
           /\ \A o \in OrderId : RetireOrder(p, o) => Wholes'
<1>1. WholesOnly => Plain(session[p])
  BY DEF WholeInv, Wholes, PlainRequest
<1>2. TypeOK /\ order \in [OrderId -> OrderRow]
  BY DEF WholeInv, FulfilmentInv, TypeOK
<1>3. ASSUME NEW o \in OrderId, NEW r, Update(o, r),
             r.qty = order[o].qty, r.shipped = order[o].shipped, UNCHANGED <<full, shipment>>
      PROVE  SameGoods
  BY <1>2, <1>3 DEF Update, SameGoods
<1>4. \A s, r : /\ WithStatus(r, s).qty = r.qty /\ WithStatus(r, s).shipped = r.shipped
                /\ WithRow(r, s).qty = r.qty /\ WithRow(r, s).shipped = r.shipped
  BY DEF WithStatus, WithRow
<1>5. Present(p) => Of(p) \in OrderId /\ Row(p) = order[Of(p)]
  BY <1>2, PresentTyped DEF Row
<1>6. ASSUME NEW stage \in {"writing", "closing", "sending"}, SameGoods, Continue(p, stage)
      PROVE  Wholes'
  <2> DEFINE w == Then(session[p], stage, session[p].old, session[p].amount)
  <2>1. (WholesOnly => Plain(w) /\ w.stage # "issuing") /\ Goto(p, w)
    BY <1>1, <1>6, PlainWork DEF Continue
  <2> HIDE DEF w
  <2> QED
    BY <1>6, <2>1, WholesGo
<1>7. ASSUME SameGoods, Done(p) PROVE Wholes'
  BY <1>7, PlainWork, WholesGo DEF Done
<1>8. ASSUME Reserve(p) \/ Release(p) PROVE Wholes'
  <2>1. SameGoods
    BY <1>8 DEF Reserve, Release, SameGoods
  <2> QED
    BY <1>6, <1>8, <2>1 DEF Reserve, Release
<1>9. ASSUME CloseIfPaid(p) PROVE Wholes'
  <2>1. SameGoods
    <3>1. CASE UNCHANGED order
      BY <1>9, <3>1 DEF CloseIfPaid, SameGoods
    <3>2. CASE Update(Of(p), WithStatus(Row(p), "CLOSED"))
      BY <1>3, <1>4, <1>5, <1>9, <3>2 DEF CloseIfPaid
    <3> QED
      BY <1>9, <3>1, <3>2 DEF CloseIfPaid
  <2> QED
    BY <1>6, <1>9, <2>1 DEF CloseIfPaid
<1>10. ASSUME ClosePaid(p) PROVE Wholes'
  <2>1. SameGoods
    <3>1. CASE UNCHANGED order
      BY <1>10, <3>1 DEF ClosePaid, SameGoods
    <3>2. CASE Update(Of(p), WithStatus(Row(p), "CLOSED"))
      BY <1>3, <1>4, <1>5, <1>10, <3>2 DEF ClosePaid
    <3> QED
      BY <1>10, <3>1, <3>2 DEF ClosePaid
  <2> QED
    BY <1>7, <1>10, <2>1 DEF ClosePaid
<1>11. ASSUME CommitPay(p) PROVE Wholes'
  <2>1. SameGoods
    <3> DEFINE r == Row(p)
               paid == [row |-> r.row, status |-> r.status, qty |-> r.qty,
                        shipped |-> r.shipped, paid |-> TRUE]
    <3>1. Update(Of(p), paid) /\ paid.qty = r.qty /\ paid.shipped = r.shipped
      BY <1>11 DEF CommitPay
    <3> HIDE DEF paid
    <3> QED
      BY <1>3, <1>5, <1>11, <3>1 DEF CommitPay
  <2> QED
    BY <1>6, <1>7, <1>11, <2>1 DEF CommitPay
<1>12. ASSUME WriteOrder(p) PROVE Wholes'
  <2> DEFINE w == session[p]
             form == [row |-> w.copy.row, status |-> w.copy.status, qty |-> Row(p).qty,
                      shipped |-> Row(p).shipped, paid |-> w.copy.paid]
  <2>1. SameGoods
    <3>1. Present(p) /\ Of(p) = w.order /\ UNCHANGED <<full, shipment>>
      BY <1>12 DEF WriteOrder, Of
    <3>2. form.qty = Row(p).qty /\ form.shipped = Row(p).shipped
      OBVIOUS
    <3>3. Update(Of(p), form) \/ Update(Of(p), WithStatus(Row(p), w.new))
      BY <1>12 DEF WriteOrder, Of
    <3> HIDE DEF form
    <3> QED
      BY <1>3, <1>4, <1>5, <3>1, <3>2, <3>3
  <2>2. WholesOnly => w.edit = 0
    BY <1>1 DEF Plain
  <2>3. CASE WholesOnly
    BY <1>6, <1>7, <1>12, <2>1, <2>2, <2>3 DEF WriteOrder
  <2>4. CASE ~WholesOnly
    BY <2>4 DEF Wholes, WholesOnly, Without
  <2> QED
    BY <2>3, <2>4
<1>13. ASSUME CommitModify(p) \/ EditItem(p) \/ CommitPartial(p) PROVE Wholes'
  <2>1. ~WholesOnly
    BY <1>1, <1>13 DEF CommitModify, EditItem, CommitPartial, At, Plain
  <2> QED
    BY <2>1 DEF Wholes, WholesOnly, Without
<1>14. ASSUME NEW o \in OrderId, RetireOrder(p, o) PROVE Wholes'
  <2>1. SameGoods /\ UNCHANGED session
    BY <1>3, <1>4, <1>14 DEF RetireOrder
  <2> QED
    BY <2>1, WholesStay
<1> QED
  BY <1>8, <1>9, <1>10, <1>11, <1>12, <1>13, <1>14

\* The steps on shipments.
LEMMA ShipmentsWhole ==
    ASSUME WholeInv, NEW p \in Session, UNCHANGED scene
    PROVE  /\ \A s \in ShipmentId : DeliverShipment(p, s) => Wholes'
           /\ \A s \in ShipmentId : EraseShipment(p, s) => Wholes'
           /\ \A s \in ShipmentId : UndoShipment(p, s) => Wholes'
           /\ \A o \in OrderId : CreateShipment(p, o) => Wholes'
           /\ \A o \in OrderId : EraseOrder(p, o) => Wholes'
           /\ WriteShipment(p) => Wholes'
<1>1. order \in [OrderId -> OrderRow] /\ shipment \in [ShipmentId -> ShipmentRow]
  BY DEF WholeInv, FulfilmentInv, TypeOK
<1>2. ASSUME NEW s \in ShipmentId, DeliverShipment(p, s) PROVE Wholes'
  <2>1. SameGoods
    BY <1>1, <1>2 DEF DeliverShipment, Sent, SameGoods
  <2> QED
    BY <1>2, <2>1, WholesStay DEF DeliverShipment
<1>3. ASSUME NEW s \in ShipmentId, EraseShipment(p, s) PROVE Wholes'
  <2>1. SameGoods
    BY <1>1, <1>3 DEF EraseShipment, Dropped, SameGoods
  <2> QED
    BY <1>3, <2>1, WholesStay DEF EraseShipment
<1>4. ASSUME NEW s \in ShipmentId, UndoShipment(p, s) PROVE Wholes'
  <2>1. ~WholesOnly
    BY <1>4 DEF UndoShipment, WholesOnly, Without
  <2> QED
    BY <2>1 DEF Wholes, WholesOnly, Without
<1>5. ASSUME NEW o \in OrderId, CreateShipment(p, o) PROVE Wholes'
  <2>1. SameGoods
    BY <1>1, <1>5 DEF CreateShipment, SameGoods
  <2> QED
    BY <1>5, <2>1, WholesStay DEF CreateShipment
<1>6. ASSUME NEW o \in OrderId, EraseOrder(p, o) PROVE Wholes'
  <2>1. \A s \in ShipmentId : shipment'[s].item = shipment[s].item
    BY <1>1, <1>6 DEF EraseOrder, Dropped
  <2>2. \A x \in OrderId : order'[x].qty = order[x].qty /\ order'[x].shipped = order[x].shipped
    BY <1>1, <1>6 DEF EraseOrder, Update, WithRow
  <2>3. SameGoods
    BY <1>6, <2>1, <2>2 DEF EraseOrder, SameGoods
  <2> QED
    BY <1>6, <2>3, WholesStay DEF EraseOrder
<1>7. ASSUME WriteShipment(p) PROVE Wholes'
  <2>1. SameGoods
    BY <1>1, <1>7 DEF WriteShipment, Sent, Dropped, SameGoods
  <2> QED
    BY <1>7, <2>1, PlainWork, WholesGo DEF WriteShipment, Done
<1> QED
  BY <1>2, <1>3, <1>4, <1>5, <1>6, <1>7

\* The decision to issue: what remains is the whole quantity, unless a full
\* movement is there already.
LEMMA PickFullWhole ==
    ASSUME WholeInv, NEW p \in Session, UNCHANGED scene, PickFull(p)
    PROVE  Wholes'
<1>1. SameGoods /\ UNCHANGED order
  BY DEF PickFull, SameGoods
<1>2. WholesOnly => Plain(session[p])
  BY DEF WholeInv, Wholes, PlainRequest
<1>3. CASE Continue(p, AfterShipping(p))
  <2> DEFINE w == Then(session[p], AfterShipping(p), session[p].old, session[p].amount)
  <2>1. AfterShipping(p) \in {"writing", "releasing"}
    BY DEF AfterShipping
  <2>2. (WholesOnly => Plain(w) /\ w.stage # "issuing") /\ Goto(p, w)
    BY <1>2, <1>3, <2>1, PlainWork DEF Continue
  <2> HIDE DEF w
  <2> QED
    BY <1>1, <2>2, WholesGo
<1>4. CASE Done(p)
  BY <1>1, <1>4, PlainWork, WholesGo DEF Done
<1>5. CASE /\ full[Of(p)].state # "active"
           /\ Goto(p, Then(session[p], "issuing", session[p].old, Remaining(Row(p))))
  <2> DEFINE w == Then(session[p], "issuing", session[p].old, Remaining(Row(p)))
  <2>1. Of(p) \in OrderId /\ Row(p) \in OrderRow
    BY PresentTyped DEF WholeInv, FulfilmentInv, PickFull
  <2>2. ASSUME WholesOnly PROVE Remaining(Row(p)) = Row(p).qty
    <3>1. RowMatches(full[Of(p)], Row(p))
      BY <2>1, <2>2 DEF WholeInv, Wholes, Row
    <3> QED
      BY <1>5, <2>1, <3>1, RowsTyped DEF RowMatches, Remaining
  <2>3. WholesOnly => Plain(w)
    BY <1>2, PlainWork
  <2>4. w.order = Of(p) /\ w.amount = Remaining(Row(p))
    BY DEF Then, Of
  <2>5. session'[p] = w /\ \A q \in Session \ {p} : session'[q] = session[q]
    BY <1>5 DEF Goto, WholeInv, FulfilmentInv, TypeOK
  <2> HIDE DEF w
  <2>6. WholesOnly => PlainRequest(session'[p], order')
    BY <1>1, <2>2, <2>3, <2>4, <2>5 DEF PlainRequest, Row
  <2> QED
    BY <1>1, <2>5, <2>6, WholesSame
<1> QED
  BY <1>3, <1>4, <1>5 DEF PickFull

\* The full shipment: it takes the whole quantity, once.
LEMMA IssueFullWhole ==
    ASSUME WholeInv, NEW p \in Session, UNCHANGED scene, IssueFull(p)
    PROVE  Wholes'
<1> DEFINE o == Of(p)
           m == [state |-> "active", qty |-> session[p].amount]
           r == WithShipped(Row(p), Row(p).status, Row(p).qty)
           w == Then(session[p], AfterShipping(p), session[p].old, session[p].amount)
<1>1. /\ o \in OrderId /\ order \in [OrderId -> OrderRow] /\ full \in [OrderId -> Movement]
      /\ session \in [Session -> Work]
  BY PresentTyped DEF WholeInv, FulfilmentInv, TypeOK, IssueFull
<1>2. /\ full' = [full EXCEPT ![o] = m] /\ order' = [order EXCEPT ![o] = r]
      /\ session' = [session EXCEPT ![p] = w] /\ shipment' = shipment
      /\ session[p].stage = "issuing"
  BY DEF IssueFull, Update, Continue, Goto, At
<1>3. r.qty = order[o].qty /\ r.shipped = order[o].qty
  BY DEF WithShipped, Row
<1>4. m.state = "active" /\ m.qty = session[p].amount
  OBVIOUS
<1>5. AfterShipping(p) \in {"writing", "releasing"}
  BY DEF AfterShipping
<1>6. ASSUME WholesOnly
      PROVE  /\ NoParts'
             /\ \A x \in OrderId : RowMatches(full'[x], order'[x])
             /\ PlainRequest(session'[p], order')
  <2>1. PlainRequest(session[p], order) /\ \A x \in OrderId : RowMatches(full[x], order[x])
    BY <1>6 DEF WholeInv, Wholes
  <2>2. session[p].amount = order[o].qty
    BY <1>1, <1>2, <2>1, Bounds DEF PlainRequest, Of
  <2>3. Plain(w) /\ w.stage # "issuing"
    BY <1>5, <2>1, PlainWork DEF PlainRequest
  <2> HIDE DEF m, r, w
  <2>4. RowMatches(m, r)
    BY <1>3, <1>4, <2>2 DEF RowMatches
  <2>5. \A x \in OrderId : RowMatches(full'[x], order'[x])
    BY <1>1, <1>2, <2>1, <2>4
  <2>6. NoParts'
    BY <1>2, <1>6 DEF WholeInv, Wholes, NoParts
  <2> QED
    BY <1>1, <1>2, <2>3, <2>5, <2>6 DEF PlainRequest
<1> HIDE DEF m, r, w
<1>7. \A x \in OrderId : order'[x].qty = order[x].qty
  BY <1>1, <1>2, <1>3
<1>8. \A q \in Session \ {p} : session'[q] = session[q]
  BY <1>1, <1>2
<1> QED
  BY <1>6, <1>7, <1>8, WholesKept

\* The cancellation: it gives the whole quantity back, and says so.
LEMMA CancelWhole ==
    ASSUME WholeInv, NEW p \in Session, UNCHANGED scene, CancelOrder(p)
    PROVE  Wholes'
<1> DEFINE o == Of(p)
           r == WithShipped(Row(p), Row(p).status, 0)
           w == Then(session[p], "writing", session[p].old, session[p].amount)
<1>1. /\ o \in OrderId /\ order \in [OrderId -> OrderRow] /\ full \in [OrderId -> Movement]
      /\ session \in [Session -> Work]
  BY PresentTyped DEF WholeInv, FulfilmentInv, TypeOK, CancelOrder
<1>2. session' = [session EXCEPT ![p] = w]
  BY DEF CancelOrder, Continue, Goto
<1>3. WholesOnly => Plain(w) /\ w.stage # "issuing"
  BY PlainWork DEF WholeInv, Wholes, PlainRequest
<1>4. CASE ~HasShipped(session[p].old)
  <2>1. SameGoods
    BY <1>4 DEF CancelOrder, SameGoods
  <2> HIDE DEF w
  <2> QED
    BY <1>2, <1>3, <2>1, WholesGo DEF Goto
<1>5. CASE HasShipped(session[p].old)
  <2>1. /\ full' = [full EXCEPT ![o] = Undone(full[o])]
        /\ order' = [order EXCEPT ![o] = r]
        /\ \A s \in ShipmentId : shipment'[s].item = shipment[s].item
                                 \/ shipment'[s].item = Undone(shipment[s].item)
    BY <1>5 DEF CancelOrder, Update
  <2>2. r.qty = order[o].qty /\ r.shipped = 0
    BY DEF WithShipped, Row
  <2>3. Undone(full[o]).state # "active"
    BY DEF Undone
  <2> HIDE DEF r, w
  <2>4. ASSUME WholesOnly
        PROVE  /\ NoParts'
               /\ \A x \in OrderId : RowMatches(full'[x], order'[x])
               /\ PlainRequest(session'[p], order')
    <3>0. \A m : m.state = "none" => Undone(m).state = "none"
      BY DEF Undone
    <3>1. NoParts'
      <4>1. \A s \in ShipmentId : shipment[s].item.state = "none"
        BY <2>4 DEF WholeInv, Wholes, NoParts
      <4>2. \A s \in ShipmentId : shipment'[s].item.state = "none"
        BY <2>1, <3>0, <4>1
      <4> QED
        BY <4>2 DEF NoParts
    <3>2. \A x \in OrderId : RowMatches(full'[x], order'[x])
      BY <1>1, <2>1, <2>2, <2>3, <2>4 DEF WholeInv, Wholes, RowMatches
    <3> QED
      BY <1>1, <1>2, <1>3, <2>4, <3>1, <3>2 DEF PlainRequest
  <2>5. \A x \in OrderId : order'[x].qty = order[x].qty
    BY <1>1, <2>1, <2>2
  <2>6. \A q \in Session \ {p} : session'[q] = session[q]
    BY <1>1, <1>2
  <2> QED
    BY <2>4, <2>5, <2>6, WholesKept
<1> QED
  BY <1>4, <1>5

\* Every step keeps the invariant of whole shipments.
LEMMA WholeStep == WholeInv /\ [Next]_vars => WholeInv'
<1> SUFFICES ASSUME WholeInv, [Next]_vars PROVE Wholes'
  BY StepKeeps DEF WholeInv
<1>1. CASE UNCHANGED vars
  BY <1>1 DEF vars, WholeInv, Wholes, WholesOnly, Without, NoParts, PlainRequest
<1>2. ASSUME UNCHANGED scene, NEW p \in Session, Ask(p) PROVE Wholes'
  <2>1. PICK o \in OrderId :
          \/ \E new \in Status : AskStatus(p, o, new)
          \/ \E q \in Quantity : AskPartial(p, o, q) \/ AskModify(p, o, q)
                                 \/ AskEdit(p, o, q)
          \/ CreateShipment(p, o) \/ AskPay(p, o) \/ EraseOrder(p, o)
          \/ RetireOrder(p, o)
    BY <1>2 DEF Ask
  <2>2. CASE \/ \E new \in Status : AskStatus(p, o, new)
             \/ \E q \in Quantity : AskPartial(p, o, q) \/ AskModify(p, o, q)
                                    \/ AskEdit(p, o, q)
             \/ AskPay(p, o)
    BY <1>2, <2>2, ReadsWhole
  <2>3. CASE CreateShipment(p, o) \/ EraseOrder(p, o) \/ RetireOrder(p, o)
    BY <1>2, <2>3, ShipmentsWhole, WritesWhole
  <2> QED
    BY <2>1, <2>2, <2>3
<1>3. ASSUME UNCHANGED scene, NEW p \in Session, Handle(p) PROVE Wholes'
  BY <1>3, ReadsWhole, ShipmentsWhole DEF Handle
<1>4. ASSUME UNCHANGED scene, NEW p \in Session, Proceed(p) PROVE Wholes'
  BY <1>4, ReadsWhole, WritesWhole, ShipmentsWhole, PickFullWhole, IssueFullWhole,
     CancelWhole DEF Proceed
<1> QED
  BY <1>1, <1>2, <1>3, <1>4 DEF Next

\* What the invariant says of the movements of an order is what IssuedOnce asks.
LEMMA WholeIssued == WholeInv => IssuedOnce
<1> SUFFICES ASSUME WholeInv, WholesOnly, NEW o \in OrderId
             PROVE  Issued(o) <= order[o].qty /\ order[o].shipped = Issued(o)
  BY DEF IssuedOnce, WholesOnly, NeverOverShipped, ShippedIsIssued
<1>1. /\ order[o] \in OrderRow /\ Tables(full, shipment)
      /\ RowMatches(full[o], order[o]) /\ NoParts
  BY MovementTables DEF WholeInv, Wholes, FulfilmentInv, TypeOK
<1>2. PartsOf(shipment, o) \in [1..Shipments -> Int]
  BY <1>1, HeldTyped
<1>3. \A s \in 1..Shipments : PartsOf(shipment, o)[s] = 0
  BY <1>1, Bounds DEF PartsOf, NoParts, Taking
<1>4. SumTo(PartsOf(shipment, o), Shipments) = 0
  BY <1>2, <1>3, Bounds, SumToZero
<1>5. Taking(full[o]) \in Nat
  BY <1>1, HeldTyped
<1>6. Issued(o) = Taking(full[o])
  BY <1>4, <1>5, IssuedIsHeld DEF HeldBy
<1>7. order[o].qty \in Nat /\ order[o].shipped \in Nat
  BY <1>1, RowsTyped
<1> QED
  BY <1>1, <1>6, <1>7 DEF RowMatches, Taking

\* No order is shipped at the start.
LEMMA InitWhole == Init => WholeInv
<1> SUFFICES ASSUME Init PROVE WholeInv
  OBVIOUS
<1>1. NoParts
  BY DEF Init, NoParts, NoShipment, NoMovement, Dropped
<1>2. \A o \in OrderId : RowMatches(full[o], order[o])
  BY DEF Init, RowMatches, NoMovement
<1>3. \A p \in Session : PlainRequest(session[p], order)
  BY DEF Init, PlainRequest, Plain, Idle, Holds
<1> QED
  BY <1>1, <1>2, <1>3, InitKeeps DEF WholeInv, Wholes

\* Any number of requests confirm, ship, cancel and pay orders, move their
\* shipments and delete either, and may die anywhere: no order is issued more
\* than it asked for, and shipped_quantity is what it was issued, although the
\* status that decides what to do is read without a lock.
THEOREM NeverIssuedTwice == Spec => []IssuedOnce
BY InitWhole, WholeStep, WholeIssued, PTL DEF Spec

-----------------------------------------------------------------------------
(* One request at a time: what it holds is never out of date. *)

\* No other session has an entry point, and such a session never starts.
Only(p) == \A q \in Session \ {p} : scene[q] = {}
Bystanders == \A q \in Session : scene[q] = {} => session[q] = Idle

\* A request turns status s into w.new: as the map allows, or as the handler of
\* the last delivered shipment does.
Turns(w, s) ==
    \/ w.new \in Allowed[s]
    \/ w.new = "DELIVERED" /\ s = "PARTIAL_SHIPPED" /\ w.shipment # 0

\* The stages that are the consequence of a status, and which.
Consequences == {"reserving", "shipping", "issuing", "releasing", "delivering", "cancelling"}
Target(stage) ==
    CASE stage = "reserving" -> "CONFIRMED"
      [] stage \in {"shipping", "issuing", "releasing"} -> "SHIPPED"
      [] stage = "delivering" -> "DELIVERED"
      [] OTHER -> "CANCELLED"

\* A request w in progress, and the row r of its order.
Fits(w, r) ==
    /\ r.row # "erased"
    /\ w.whole => /\ w.stage \in {"asked", "writing", "editing", "modifying"}
                  /\ w.copy.row = r.row /\ w.copy.status = r.status
                  /\ w.copy.shipped = r.shipped /\ w.copy.paid = r.paid
                  /\ w.new = r.status /\ w.shipment = 0
    /\ w.edit # 0 \/ w.stage \in {"editing", "modifying"} => w.whole
    /\ w.stage = "modifying" => r.status = "CONFIRMED" /\ r.shipped = 0
    /\ w.stage \in {"paying", "closing", "picking"} => w.copy.status = r.status
    /\ w.stage = "picking" => /\ r.status \in {"CONFIRMED", "PARTIAL_SHIPPED"}
                              /\ r.shipped + w.amount <= r.qty
    /\ w.stage = "updating" => w.shipment # 0 /\ w.new = "DELIVERED"
    /\ w.stage = "asked" /\ ~w.whole => Turns(w, r.status)
    /\ w.stage \in Consequences => /\ w.old = r.status /\ w.new = Target(w.stage)
                                   /\ Turns(w, r.status)
    /\ w.stage = "issuing" => w.amount = r.qty - r.shipped
    /\ w.stage = "writing" /\ ~w.whole =>
         \/ Turns(w, r.status)
         \/ w.new = "DELIVERED" /\ r.status = "CLOSED" /\ r.paid

UpToDate(w, table) == IF w.stage = "idle" THEN w = Idle
                      ELSE w.order \in OrderId /\ Fits(w, table[w.order])

Current == \A p \in Session : Only(p) => UpToDate(session[p], order)
CurrentInv == FulfilmentInv /\ Bystanders /\ Current

\* What the first reads hold fits.
LEMMA FirstReadsFit ==
    ASSUME NEW r \in OrderRow, NEW o, r.row = "active"
    PROVE  /\ \A new \in Allowed[r.status] : Fits(Holds("asked", o, new, r, 0), r)
           /\ \A q \in Nat : r.status \in {"CONFIRMED", "PARTIAL_SHIPPED"} /\ Remaining(r) >= 0
                => Fits(Holds("picking", o, r.status, r, Lesser(q, Remaining(r))), r)
           /\ Fits(Holds("paying", o, "CLOSED", r, 0), r)
           /\ \A q \in Nat : r.status = "CONFIRMED" /\ r.shipped = 0
                => Fits(WithEdit(Holds("modifying", o, "CONFIRMED", r, 0), q), r)
           /\ \A q \in Nat : Fits(WithEdit(Holds("asked", o, r.status, r, 0), q), r)
<1>1. \A new \in Allowed[r.status] : Fits(Holds("asked", o, new, r, 0), r)
  BY DEF Fits, Holds, Turns, Consequences
<1>2. ASSUME NEW q \in Nat, r.status \in {"CONFIRMED", "PARTIAL_SHIPPED"},
             Remaining(r) >= 0
      PROVE  Fits(Holds("picking", o, r.status, r, Lesser(q, Remaining(r))), r)
  <2>1. r.shipped + Lesser(q, Remaining(r)) <= r.qty
    BY <1>2, RowsTyped DEF Lesser, Remaining
  <2> QED
    BY <1>2, <2>1 DEF Fits, Holds, Consequences
<1>3. Fits(Holds("paying", o, "CLOSED", r, 0), r)
  BY DEF Fits, Holds, Consequences
<1>4. ASSUME NEW q \in Nat, r.status = "CONFIRMED", r.shipped = 0
      PROVE  Fits(WithEdit(Holds("modifying", o, "CONFIRMED", r, 0), q), r)
  BY <1>4 DEF Fits, Holds, WithEdit, Consequences
<1>5. \A q \in Nat : Fits(WithEdit(Holds("asked", o, r.status, r, 0), q), r)
  BY DEF Fits, Holds, WithEdit, Consequences
<1> QED
  BY <1>1, <1>2, <1>3, <1>4, <1>5

\* What the form of a shipment reads fits the order as it is.
LEMMA ShipmentReadFits ==
    ASSUME NEW r \in OrderRow, NEW o, r.row # "erased", NEW s \in ShipmentId, NEW status
    PROVE  Fits(WithShipment(Holds("updating", o, "DELIVERED", r, 0), s, status), r)
BY Bounds DEF Fits, Holds, WithShipment, Consequences

\* A request that goes on within its order still fits.
LEMMA BeginFits ==
    ASSUME NEW w \in Work, NEW r \in OrderRow, Fits(w, r), w.stage = "asked"
    PROVE  Fits(Then(w, Consequence(r.status, w.new), r.status, 0), r)
<1> DEFINE c == Consequence(r.status, w.new)
           v == Then(w, c, r.status, 0)
<1>1. /\ v.stage = c /\ v.old = r.status /\ v.new = w.new /\ v.whole = w.whole
      /\ v.edit = w.edit /\ v.copy = w.copy /\ v.shipment = w.shipment
  BY DEF Then
<1>2. w.whole => c = "writing"
  BY DEF Fits, Consequence
<1>3. /\ c \in (Consequences \ {"issuing"}) \cup {"writing"}
      /\ c \in Consequences => w.new = Target(c)
  BY DEF Consequence, Consequences, Target
<1>4. ~w.whole => Turns(w, r.status)
  BY DEF Fits
<1>5. Turns(v, r.status) <=> Turns(w, r.status)
  BY <1>1 DEF Turns
<1> HIDE DEF c, v
<1>6. Fits(v, r)
  BY <1>1, <1>2, <1>3, <1>4, <1>5 DEF Fits, Consequences
<1> QED
  BY <1>6 DEF c, v

\* A request whose consequence is committed still fits when it turns to writing.
LEMMA WritingFits ==
    ASSUME NEW w \in Work, NEW r \in OrderRow, Fits(w, r), w.stage \in Consequences,
           NEW t, t.row # "erased",
           \/ t.status = r.status
           \/ w.stage = "delivering" /\ t.status = "CLOSED" /\ t.paid
    PROVE  Fits(Then(w, "writing", w.old, w.amount), t)
<1> DEFINE v == Then(w, "writing", w.old, w.amount)
<1>1. /\ v.stage = "writing" /\ v.new = w.new /\ v.whole = w.whole
      /\ v.edit = w.edit /\ v.shipment = w.shipment
  BY DEF Then
<1>2. Turns(w, r.status) /\ ~w.whole /\ w.edit = 0 /\ w.new = Target(w.stage)
  BY DEF Fits, Consequences
<1>3. Turns(v, r.status)
  BY <1>1, <1>2 DEF Turns
<1>4. w.stage = "delivering" => v.new = "DELIVERED"
  BY <1>1, <1>2 DEF Target
<1> HIDE DEF v
<1>5. Fits(v, t)
  BY <1>1, <1>2, <1>3, <1>4 DEF Fits, Consequences
<1> QED
  BY <1>5 DEF v

\* It fits when it turns to the release of a reservation.
LEMMA ReleasingFits ==
    ASSUME NEW w \in Work, NEW r \in OrderRow, Fits(w, r), w.stage \in {"shipping", "issuing"},
           NEW t, t.row # "erased", t.status = r.status
    PROVE  Fits(Then(w, "releasing", w.old, w.amount), t)
<1> DEFINE v == Then(w, "releasing", w.old, w.amount)
<1>1. /\ v.stage = "releasing" /\ v.new = w.new /\ v.whole = w.whole /\ v.old = w.old
      /\ v.edit = w.edit /\ v.shipment = w.shipment
  BY DEF Then
<1>2. /\ Turns(w, r.status) /\ ~w.whole /\ w.edit = 0 /\ w.new = "SHIPPED"
      /\ w.old = r.status
  BY DEF Fits, Consequences, Target
<1>3. Turns(v, t.status)
  BY <1>1, <1>2 DEF Turns
<1> HIDE DEF v
<1>4. Fits(v, t)
  BY <1>1, <1>2, <1>3 DEF Fits, Consequences, Target
<1> QED
  BY <1>4 DEF v

\* It fits when it has picked what to issue.
LEMMA IssuingFits ==
    ASSUME NEW w \in Work, NEW r \in OrderRow, Fits(w, r), w.stage = "shipping"
    PROVE  Fits(Then(w, "issuing", w.old, Remaining(r)), r)
<1> DEFINE v == Then(w, "issuing", w.old, Remaining(r))
<1>1. /\ v.stage = "issuing" /\ v.new = w.new /\ v.whole = w.whole /\ v.old = w.old
      /\ v.edit = w.edit /\ v.shipment = w.shipment /\ v.amount = r.qty - r.shipped
  BY DEF Then, Remaining
<1>2. /\ Turns(w, r.status) /\ ~w.whole /\ w.edit = 0 /\ w.new = "SHIPPED"
      /\ w.old = r.status /\ r.row # "erased"
  BY DEF Fits, Consequences, Target
<1>3. Turns(v, r.status)
  BY <1>1, <1>2 DEF Turns
<1> HIDE DEF v
<1>4. Fits(v, r)
  BY <1>1, <1>2, <1>3 DEF Fits, Consequences, Target
<1> QED
  BY <1>4 DEF v

\* It fits when the delivery of a shipment turns to the order, or does not.
LEMMA SyncFits ==
    ASSUME NEW w \in Work, NEW r \in OrderRow, Fits(w, r), w.stage = "updating",
           NEW v, NEW stage \in {"asked", "sending"}, v = Then(w, stage, w.old, w.amount),
           stage = "asked" => r.status \in {"SHIPPED", "PARTIAL_SHIPPED"} /\ w.new = "DELIVERED"
    PROVE  Fits(v, r)
<1>1. /\ v.stage = stage /\ v.new = w.new /\ v.whole = w.whole
      /\ v.edit = w.edit /\ v.shipment = w.shipment
  BY DEF Then
<1>2. ~w.whole /\ w.edit = 0 /\ w.shipment # 0 /\ r.row # "erased"
  BY DEF Fits, Consequences
<1>3. stage = "asked" => Turns(v, r.status)
  BY <1>1, <1>2 DEF Turns, Allowed, Status
<1> QED
  BY <1>1, <1>2, <1>3 DEF Fits, Consequences

\* It fits after the status is written, for the forms still to save.
LEMMA WrittenFits ==
    ASSUME NEW w \in Work, NEW r \in OrderRow, Fits(w, r), w.stage = "writing",
           NEW t \in OrderRow, t.shipped = r.shipped, t.qty = r.qty,
           IF w.whole THEN t.row = w.copy.row /\ t.status = w.copy.status /\ t.paid = w.copy.paid
           ELSE t.row = r.row /\ t.paid = r.paid
    PROVE  /\ w.shipment = 0 /\ w.edit # 0 => Fits(Then(w, "editing", w.old, w.amount), t)
           /\ w.shipment # 0 => Fits(Then(w, "sending", w.old, w.amount), t)
<1>1. ASSUME w.edit # 0 PROVE Fits(Then(w, "editing", w.old, w.amount), t)
  BY <1>1 DEF Fits, Then, Consequences
<1>2. ASSUME w.shipment # 0 PROVE Fits(Then(w, "sending", w.old, w.amount), t)
  BY <1>2 DEF Fits, Then, Consequences
<1> QED
  BY <1>1, <1>2

\* It fits after a form has written its quantity.
LEMMA EditedFits ==
    ASSUME NEW w \in Work, NEW r \in OrderRow, Fits(w, r), w.stage = "editing",
           NEW t, t.row = r.row, t.status = r.status, t.paid = r.paid,
           t.shipped = w.copy.shipped
    PROVE  Fits(WithEdit(Then(w, "asked", w.old, 0), 0), t)
BY DEF Fits, Then, WithEdit, Consequences

\* It fits after a payment.
LEMMA PaidFits ==
    ASSUME NEW w \in Work, NEW r \in OrderRow, Fits(w, r), w.stage = "paying",
           NEW t, t.row = r.row, t.status = r.status
    PROVE  Fits(Then(w, "closing", w.old, w.amount), t)
BY DEF Fits, Then, Consequences

\* The session that takes a step is one that has an entry point, so it is the
\* one request there is; the others hold what they held.
LEMMA Mover ==
    ASSUME Bystanders, NEW p \in Session, ~At(p, "idle") \/ Of(p) # 0
    PROVE  scene[p] # {}
BY DEF Bystanders, At, Of, Idle, Holds

\* A step that moves request p on keeps the invariant if p is up to date after it.
LEMMA CurrentGo ==
    ASSUME CurrentInv, FulfilmentInv', UNCHANGED scene, NEW p \in Session, scene[p] # {},
           NEW w, Goto(p, w), Only(p) => UpToDate(w, order')
    PROVE  CurrentInv'
<1>1. session'[p] = w /\ \A q \in Session \ {p} : session'[q] = session[q]
  BY DEF Goto, CurrentInv, FulfilmentInv, TypeOK
<1>2. Bystanders'
  BY <1>1 DEF CurrentInv, Bystanders
<1>3. Current'
  <2> SUFFICES ASSUME NEW q \in Session, Only(q)' PROVE UpToDate(session'[q], order')
    BY DEF Current
  <2>1. Only(q) /\ q = p
    BY DEF Only
  <2> QED
    BY <1>1, <2>1
<1> QED
  BY <1>2, <1>3 DEF CurrentInv

\* So does a step of one request that changes no request in progress.
LEMMA CurrentStay ==
    ASSUME CurrentInv, FulfilmentInv', UNCHANGED <<scene, session>>,
           NEW p \in Session, scene[p] # {}, At(p, "idle") \/ UNCHANGED order
    PROVE  CurrentInv'
<1>1. Bystanders'
  BY DEF CurrentInv, Bystanders
<1>2. Current'
  <2> SUFFICES ASSUME NEW q \in Session, Only(q)' PROVE UpToDate(session'[q], order')
    BY DEF Current
  <2>1. Only(q) /\ q = p
    BY DEF Only
  <2>2. UpToDate(session[p], order)
    BY <2>1 DEF CurrentInv, Current
  <2> QED
    BY <2>1, <2>2 DEF UpToDate, At
<1> QED
  BY <1>1, <1>2 DEF CurrentInv

\* So does the end of a request.
LEMMA CurrentDone ==
    ASSUME CurrentInv, FulfilmentInv', UNCHANGED scene, NEW p \in Session, scene[p] # {},
           Done(p)
    PROVE  CurrentInv'
<1>1. UpToDate(Idle, order')
  BY DEF UpToDate, Idle, Holds
<1> QED
  BY <1>1, CurrentGo DEF Done

\* A request goes on with w, which fits the row its order has then.
LEMMA CurrentOn ==
    ASSUME CurrentInv, FulfilmentInv', UNCHANGED scene, NEW p \in Session, scene[p] # {},
           NEW w, Goto(p, w), w.stage # "idle", w.order \in OrderId,
           Only(p) => Fits(w, order'[w.order])
    PROVE  CurrentInv'
BY CurrentGo DEF UpToDate

\* What the request in progress holds.
LEMMA InProgress ==
    ASSUME CurrentInv, NEW p \in Session, ~At(p, "idle")
    PROVE  /\ scene[p] # {} /\ session[p] \in Work
           /\ Only(p) => Of(p) \in OrderId /\ Row(p) \in OrderRow /\ Fits(session[p], Row(p))
<1>1. scene[p] # {} /\ session[p] \in Work
  BY Mover DEF CurrentInv, FulfilmentInv, TypeOK
<1>2. ASSUME Only(p) PROVE Of(p) \in OrderId /\ Fits(session[p], Row(p))
  BY <1>2 DEF CurrentInv, Current, UpToDate, At, Of, Row
<1>3. Of(p) \in OrderId => Row(p) \in OrderRow
  BY DEF CurrentInv, FulfilmentInv, TypeOK, Row
<1> QED
  BY <1>1, <1>2, <1>3

\* The first read of a request is up to date.
LEMMA FirstReadsCurrent ==
    ASSUME CurrentInv, FulfilmentInv', UNCHANGED scene, NEW p \in Session, NEW o \in OrderId
    PROVE  /\ \A new \in Status : AskStatus(p, o, new) => CurrentInv'
           /\ \A q \in Quantity : AskPartial(p, o, q) \/ AskModify(p, o, q) \/ AskEdit(p, o, q)
                                    => CurrentInv'
           /\ AskPay(p, o) => CurrentInv'
           /\ CreateShipment(p, o) \/ EraseOrder(p, o) \/ RetireOrder(p, o) => CurrentInv'
<1>1. order[o] \in OrderRow
  BY DEF CurrentInv, FulfilmentInv, TypeOK
<1>2. \A stage, new, n : /\ Holds(stage, o, new, order[o], n).stage = stage
                         /\ Holds(stage, o, new, order[o], n).order = o
  BY DEF Holds
<1>3. \A w, q : WithEdit(w, q).stage = w.stage /\ WithEdit(w, q).order = w.order
  BY DEF WithEdit
<1>4. \A q \in Quantity : q \in Nat
  BY Bounds
<1>5. ASSUME NEW new \in Status, AskStatus(p, o, new) PROVE CurrentInv'
  <2> DEFINE w == Holds("asked", o, new, order[o], 0)
  <2>1. /\ Goto(p, w) /\ order' = order /\ scene[p] # {}
        /\ order[o].row = "active" /\ new \in Allowed[order[o].status]
    BY <1>5 DEF AskStatus, Live
  <2>2. Fits(w, order[o]) /\ w.stage # "idle" /\ w.order = o
    BY <1>1, <1>2, <2>1, FirstReadsFit
  <2> HIDE DEF w
  <2> QED
    BY <2>1, <2>2, CurrentOn
<1>6. ASSUME NEW q \in Quantity, AskPartial(p, o, q) PROVE CurrentInv'
  <2> DEFINE w == Holds("picking", o, order[o].status, order[o], Lesser(q, Remaining(order[o])))
  <2>1. /\ Goto(p, w) /\ order' = order /\ scene[p] # {}
        /\ order[o].row = "active" /\ Remaining(order[o]) >= 0
        /\ order[o].status \in {"CONFIRMED", "PARTIAL_SHIPPED"}
    BY <1>6 DEF AskPartial, Live
  <2>2. Fits(w, order[o]) /\ w.stage # "idle" /\ w.order = o
    BY <1>1, <1>2, <1>4, <2>1, FirstReadsFit
  <2> HIDE DEF w
  <2> QED
    BY <2>1, <2>2, CurrentOn
<1>7. ASSUME NEW q \in Quantity, AskModify(p, o, q) PROVE CurrentInv'
  <2> DEFINE w == WithEdit(Holds("modifying", o, "CONFIRMED", order[o], 0), q)
  <2>1. /\ Goto(p, w) /\ order' = order /\ scene[p] # {}
        /\ order[o].row = "active" /\ order[o].status = "CONFIRMED" /\ order[o].shipped = 0
    BY <1>7 DEF AskModify, Live
  <2>2. Fits(w, order[o]) /\ w.stage # "idle" /\ w.order = o
    BY <1>1, <1>2, <1>3, <1>4, <2>1, FirstReadsFit
  <2> HIDE DEF w
  <2> QED
    BY <2>1, <2>2, CurrentOn
<1>8. ASSUME NEW q \in Quantity, AskEdit(p, o, q) PROVE CurrentInv'
  <2> DEFINE w == WithEdit(Holds("asked", o, order[o].status, order[o], 0), q)
  <2>1. Goto(p, w) /\ order' = order /\ scene[p] # {} /\ order[o].row = "active"
    BY <1>8 DEF AskEdit, Live
  <2>2. Fits(w, order[o])
    BY <1>1, <1>4, <2>1, FirstReadsFit
  <2>3. w.stage # "idle" /\ w.order = o
    BY <1>2, <1>3
  <2> HIDE DEF w
  <2> QED
    BY <2>1, <2>2, <2>3, CurrentOn
<1>9. ASSUME AskPay(p, o) PROVE CurrentInv'
  <2> DEFINE w == Holds("paying", o, "CLOSED", order[o], 0)
  <2>1. Goto(p, w) /\ order' = order /\ scene[p] # {} /\ order[o].row = "active"
    BY <1>9 DEF AskPay, Live
  <2>2. Fits(w, order[o]) /\ w.stage # "idle" /\ w.order = o
    BY <1>1, <1>2, <2>1, FirstReadsFit
  <2> HIDE DEF w
  <2> QED
    BY <2>1, <2>2, CurrentOn
<1>10. ASSUME CreateShipment(p, o) \/ EraseOrder(p, o) \/ RetireOrder(p, o)
       PROVE  CurrentInv'
  BY <1>10, CurrentStay DEF CreateShipment, EraseOrder, RetireOrder
<1> QED
  BY <1>5, <1>6, <1>7, <1>8, <1>9, <1>10

\* So are the requests about shipments.
LEMMA ShipmentsCurrent ==
    ASSUME CurrentInv, FulfilmentInv', UNCHANGED scene, NEW p \in Session, NEW s \in ShipmentId
    PROVE  /\ \A status \in ShipmentStatus : AskShipment(p, s, status) => CurrentInv'
           /\ DeliverShipment(p, s) \/ EraseShipment(p, s) \/ UndoShipment(p, s) => CurrentInv'
<1>1. shipment[s].order \in OrderId /\ order[shipment[s].order] \in OrderRow
  BY RowsTyped DEF CurrentInv, FulfilmentInv, TypeOK
<1>2. ASSUME NEW status \in ShipmentStatus, AskShipment(p, s, status) PROVE CurrentInv'
  <2> DEFINE o == shipment[s].order
             w == WithShipment(Holds("updating", o, "DELIVERED", order[o], 0), s, status)
  <2>1. Goto(p, w) /\ order' = order /\ scene[p] # {} /\ order[o].row # "erased"
    BY <1>2 DEF AskShipment
  <2>2. Fits(w, order[o])
    BY <1>1, <2>1, ShipmentReadFits
  <2>3. w.stage # "idle" /\ w.order = o
    BY DEF WithShipment, Holds
  <2> HIDE DEF w
  <2> QED
    BY <1>1, <2>1, <2>2, <2>3, CurrentOn
<1>3. ASSUME DeliverShipment(p, s) PROVE CurrentInv'
  BY <1>3, InProgress, CurrentStay DEF DeliverShipment, At
<1>4. ASSUME EraseShipment(p, s) \/ UndoShipment(p, s) PROVE CurrentInv'
  BY <1>4, CurrentStay DEF EraseShipment, UndoShipment
<1> QED
  BY <1>2, <1>3, <1>4

\* A request goes on in its order.
LEMMA CurrentThen ==
    ASSUME CurrentInv, FulfilmentInv', UNCHANGED scene, NEW p \in Session, ~At(p, "idle"),
           Of(p) \in OrderId, NEW stage, stage # "idle", NEW old, NEW n,
           Goto(p, Then(session[p], stage, old, n)),
           Only(p) => Fits(Then(session[p], stage, old, n), order'[Of(p)])
    PROVE  CurrentInv'
<1> DEFINE w == Then(session[p], stage, old, n)
<1>1. w.stage = stage /\ w.order = Of(p)
  BY DEF Then, Of
<1>2. Goto(p, w) /\ (Only(p) => Fits(w, order'[Of(p)]))
  OBVIOUS
<1>3. scene[p] # {}
  BY InProgress
<1> HIDE DEF w
<1> QED
  BY <1>1, <1>2, <1>3, CurrentOn

\* It goes on to write the status.
LEMMA CurrentWriting ==
    ASSUME CurrentInv, FulfilmentInv', UNCHANGED scene, NEW p \in Session,
           session[p].stage \in Consequences, Of(p) \in OrderId, Continue(p, "writing"),
           order'[Of(p)].row # "erased",
           \/ order'[Of(p)].status = Row(p).status
           \/ At(p, "delivering") /\ order'[Of(p)].status = "CLOSED" /\ order'[Of(p)].paid
    PROVE  CurrentInv'
<1> DEFINE t == order'[Of(p)]
<1>1. ~At(p, "idle")
  BY DEF At, Consequences
<1>2. ASSUME Only(p)
      PROVE  Fits(Then(session[p], "writing", session[p].old, session[p].amount), t)
  <2>1. session[p] \in Work /\ Row(p) \in OrderRow /\ Fits(session[p], Row(p))
    BY <1>1, <1>2, InProgress
  <2>2. /\ t.row # "erased"
        /\ \/ t.status = Row(p).status
           \/ session[p].stage = "delivering" /\ t.status = "CLOSED" /\ t.paid
    BY DEF At
  <2> HIDE DEF t
  <2> QED
    BY <2>1, <2>2, WritingFits
<1> QED
  BY <1>1, <1>2, CurrentThen DEF Continue

\* A request turns to the release of a reservation.
LEMMA CurrentReleasing ==
    ASSUME CurrentInv, FulfilmentInv', UNCHANGED scene, NEW p \in Session,
           session[p].stage \in {"shipping", "issuing"}, Of(p) \in OrderId,
           Continue(p, "releasing"),
           order'[Of(p)].row # "erased", order'[Of(p)].status = Row(p).status
    PROVE  CurrentInv'
<1> DEFINE t == order'[Of(p)]
<1>1. ~At(p, "idle")
  BY DEF At
<1>2. ASSUME Only(p)
      PROVE  Fits(Then(session[p], "releasing", session[p].old, session[p].amount), t)
  <2>1. session[p] \in Work /\ Row(p) \in OrderRow /\ Fits(session[p], Row(p))
    BY <1>1, <1>2, InProgress
  <2>2. t.row # "erased" /\ t.status = Row(p).status
    OBVIOUS
  <2> HIDE DEF t
  <2> QED
    BY <2>1, <2>2, ReleasingFits
<1> QED
  BY <1>1, <1>2, CurrentThen DEF Continue

\* The row an update writes, and the others.
LEMMA Updated ==
    ASSUME FulfilmentInv, NEW o \in OrderId, NEW r, Update(o, r)
    PROVE  order'[o] = r /\ \A x \in OrderId \ {o} : order'[x] = order[x]
BY DEF FulfilmentInv, TypeOK, Update

\* The consequences of a status leave the request up to date.
LEMMA ConsequencesCurrent ==
    ASSUME CurrentInv, FulfilmentInv', UNCHANGED scene, NEW p \in Session
    PROVE  /\ Begin(p) => CurrentInv'
           /\ Reserve(p) \/ Release(p) => CurrentInv'
           /\ PickFull(p) => CurrentInv'
           /\ IssueFull(p) => CurrentInv'
           /\ CancelOrder(p) => CurrentInv'
           /\ CloseIfPaid(p) => CurrentInv'
<1>1. ASSUME Present(p)
      PROVE  Of(p) \in OrderId /\ Row(p).row # "erased" /\ Row(p) = order[Of(p)]
  BY <1>1, PresentTyped DEF CurrentInv, FulfilmentInv, Present, Row
<1>2. ASSUME Begin(p) PROVE CurrentInv'
  <2> DEFINE c == Consequence(Row(p).status, session[p].new)
  <2>1. /\ Goto(p, Then(session[p], c, Row(p).status, 0)) /\ order' = order
        /\ session[p].stage = "asked" /\ ~At(p, "idle") /\ Present(p)
    BY <1>2 DEF Begin, At
  <2>2. c # "idle"
    BY DEF Consequence
  <2>3. Only(p) => Fits(Then(session[p], c, Row(p).status, 0), Row(p))
    BY <2>1, InProgress, BeginFits
  <2> HIDE DEF c
  <2> QED
    BY <1>1, <2>1, <2>2, <2>3, CurrentThen
<1>3. ASSUME Reserve(p) \/ Release(p) PROVE CurrentInv'
  <2>1. /\ Continue(p, "writing") /\ order' = order /\ Present(p)
        /\ session[p].stage \in Consequences
    BY <1>3 DEF Reserve, Release, At, Consequences
  <2> QED
    BY <1>1, <2>1, CurrentWriting
<1>4. ASSUME PickFull(p) PROVE CurrentInv'
  <2>1. /\ session[p].stage = "shipping" /\ Present(p) /\ order' = order
        /\ session[p].stage \in Consequences /\ ~At(p, "idle")
    BY <1>4 DEF PickFull, At, Consequences
  <2>2. CASE Continue(p, AfterShipping(p))
    BY <1>1, <2>1, <2>2, CurrentWriting, CurrentReleasing DEF AfterShipping
  <2>3. CASE Goto(p, Then(session[p], "issuing", session[p].old, Remaining(Row(p))))
    <3>1. Only(p) => Fits(Then(session[p], "issuing", session[p].old, Remaining(Row(p))), Row(p))
      BY <2>1, InProgress, IssuingFits
    <3> QED
      BY <1>1, <2>1, <2>3, <3>1, CurrentThen
  <2>4. CASE Done(p)
    BY <2>1, <2>4, InProgress, CurrentDone
  <2> QED
    BY <1>4, <2>2, <2>3, <2>4 DEF PickFull
<1>5. ASSUME IssueFull(p) PROVE CurrentInv'
  <2> DEFINE r == WithShipped(Row(p), Row(p).status, Row(p).qty)
  <2>1. /\ session[p].stage = "issuing" /\ Present(p) /\ Update(Of(p), r)
        /\ session[p].stage \in Consequences /\ Continue(p, AfterShipping(p))
    BY <1>5 DEF IssueFull, At, Consequences
  <2>2. r.row = Row(p).row /\ r.status = Row(p).status
    BY DEF WithShipped
  <2>3. order'[Of(p)] = r
    BY <1>1, <2>1, Updated DEF CurrentInv
  <2> HIDE DEF r
  <2> QED
    BY <1>1, <2>1, <2>2, <2>3, CurrentWriting, CurrentReleasing DEF AfterShipping
<1>6. ASSUME CancelOrder(p) PROVE CurrentInv'
  <2> DEFINE r == WithShipped(Row(p), Row(p).status, 0)
  <2>1. /\ Present(p) /\ session[p].stage \in Consequences /\ Continue(p, "writing")
        /\ Update(Of(p), r) \/ order' = order
    BY <1>6 DEF CancelOrder, At, Consequences
  <2>2. r.row = Row(p).row /\ r.status = Row(p).status
    BY DEF WithShipped
  <2>3. Update(Of(p), r) => order'[Of(p)] = r
    BY <1>1, <2>1, Updated DEF CurrentInv
  <2> HIDE DEF r
  <2> QED
    BY <1>1, <2>1, <2>2, <2>3, CurrentWriting
<1>7. ASSUME CloseIfPaid(p) PROVE CurrentInv'
  <2> DEFINE r == WithStatus(Row(p), "CLOSED")
  <2>1. /\ Present(p) /\ session[p].stage \in Consequences /\ Continue(p, "writing")
        /\ At(p, "delivering")
        /\ (Update(Of(p), r) /\ Row(p).paid) \/ order' = order
    BY <1>7 DEF CloseIfPaid, At, Consequences
  <2>2. r.row = Row(p).row /\ r.status = "CLOSED" /\ r.paid = Row(p).paid
    BY DEF WithStatus
  <2>3. Update(Of(p), r) => order'[Of(p)] = r
    BY <1>1, <2>1, Updated DEF CurrentInv
  <2> HIDE DEF r
  <2> QED
    BY <1>1, <2>1, <2>2, <2>3, CurrentWriting
<1> QED
  BY <1>2, <1>3, <1>4, <1>5, <1>6, <1>7

\* So do the writes of an order.
LEMMA WritesCurrent ==
    ASSUME CurrentInv, FulfilmentInv', UNCHANGED scene, NEW p \in Session
    PROVE  /\ RowGone(p) \/ IssueFullFails(p) \/ CommitPartial(p) \/ PartialFails(p)
              \/ WriteShipment(p) \/ ClosePaid(p) \/ CommitModify(p) \/ Crash(p) => CurrentInv'
           /\ WriteOrder(p) => CurrentInv'
           /\ SyncOrder(p) => CurrentInv'
           /\ CommitPay(p) => CurrentInv'
           /\ EditItem(p) => CurrentInv'
<1>1. ASSUME Present(p)
      PROVE  Of(p) \in OrderId /\ Row(p).row # "erased" /\ Row(p) = order[Of(p)]
  BY <1>1, PresentTyped DEF CurrentInv, FulfilmentInv, Present, Row
<1>2. ASSUME RowGone(p) \/ IssueFullFails(p) \/ CommitPartial(p) \/ PartialFails(p)
             \/ WriteShipment(p) \/ ClosePaid(p) \/ CommitModify(p) \/ Crash(p)
      PROVE  CurrentInv'
  <2>1. Done(p) /\ (~At(p, "idle") \/ Of(p) # 0)
    BY <1>2 DEF RowGone, IssueFullFails, CommitPartial, PartialFails, WriteShipment,
       ClosePaid, CommitModify, Crash, At
  <2> QED
    BY <2>1, Mover, CurrentDone DEF CurrentInv
<1>3. ASSUME SyncOrder(p) PROVE CurrentInv'
  <2>1. PICK stage \in {"asked", "sending"} :
          /\ Continue(p, stage)
          /\ stage = "asked" => Row(p).status \in {"SHIPPED", "PARTIAL_SHIPPED"}
    BY <1>3 DEF SyncOrder
  <2>2. session[p].stage = "updating" /\ ~At(p, "idle") /\ Present(p) /\ order' = order
    BY <1>3 DEF SyncOrder, At
  <2>3. ASSUME Only(p)
        PROVE  Fits(Then(session[p], stage, session[p].old, session[p].amount), Row(p))
    <3>1. session[p] \in Work /\ Row(p) \in OrderRow /\ Fits(session[p], Row(p))
      BY <2>2, <2>3, InProgress
    <3>2. session[p].new = "DELIVERED"
      BY <2>2, <3>1 DEF Fits
    <3> QED
      BY <2>1, <2>2, <3>1, <3>2, SyncFits
  <2> QED
    BY <1>1, <2>1, <2>2, <2>3, CurrentThen DEF Continue
<1>4. ASSUME CommitPay(p) PROVE CurrentInv'
  <2> DEFINE r == [row |-> Row(p).row, status |-> Row(p).status, qty |-> Row(p).qty,
                   shipped |-> Row(p).shipped, paid |-> TRUE]
  <2>1. /\ session[p].stage = "paying" /\ ~At(p, "idle") /\ Present(p)
        /\ Update(Of(p), r) /\ (Done(p) \/ Continue(p, "closing"))
    BY <1>4 DEF CommitPay, At
  <2>2. r.row = Row(p).row /\ r.status = Row(p).status
    OBVIOUS
  <2> HIDE DEF r
  <2>3. order'[Of(p)] = r
    BY <1>1, <2>1, Updated DEF CurrentInv
  <2>4. Only(p) => Fits(Then(session[p], "closing", session[p].old, session[p].amount), r)
    BY <2>1, <2>2, InProgress, PaidFits
  <2>5. CASE Done(p)
    BY <2>1, <2>5, InProgress, CurrentDone
  <2>6. CASE Continue(p, "closing")
    BY <1>1, <2>1, <2>3, <2>4, <2>6, CurrentThen DEF Continue
  <2> QED
    BY <2>1, <2>5, <2>6
<1>5. ASSUME EditItem(p) PROVE CurrentInv'
  <2> DEFINE r == [row |-> Row(p).row, status |-> Row(p).status, qty |-> session[p].edit,
                   shipped |-> session[p].copy.shipped, paid |-> Row(p).paid]
             w == WithEdit(Then(session[p], "asked", session[p].old, 0), 0)
  <2>1. /\ session[p].stage = "editing" /\ ~At(p, "idle") /\ Present(p)
        /\ Update(Of(p), r) /\ Goto(p, w)
    BY <1>5 DEF EditItem, At, Of
  <2>2. /\ r.row = Row(p).row /\ r.status = Row(p).status /\ r.paid = Row(p).paid
        /\ r.shipped = session[p].copy.shipped
    OBVIOUS
  <2>3. w.stage # "idle" /\ w.order = Of(p)
    BY DEF WithEdit, Then, Of
  <2> HIDE DEF r
  <2>4. order'[Of(p)] = r
    BY <1>1, <2>1, Updated DEF CurrentInv
  <2>5. Only(p) => Fits(w, r)
    BY <2>1, <2>2, InProgress, EditedFits
  <2>6. scene[p] # {}
    BY <2>1, InProgress
  <2> HIDE DEF w
  <2> QED
    BY <1>1, <2>1, <2>3, <2>4, <2>5, <2>6, CurrentOn
<1>6. ASSUME WriteOrder(p) PROVE CurrentInv'
  <2> DEFINE w == session[p]
             r == IF w.whole
                  THEN [row |-> w.copy.row, status |-> w.copy.status, qty |-> Row(p).qty,
                        shipped |-> Row(p).shipped, paid |-> w.copy.paid]
                  ELSE WithStatus(Row(p), w.new)
  <2>1. /\ w.stage = "writing" /\ ~At(p, "idle") /\ Present(p)
        /\ Update(Of(p), r)
        /\ \/ w.shipment # 0 /\ Continue(p, "sending")
           \/ w.shipment = 0 /\ w.edit # 0 /\ Continue(p, "editing")
           \/ Done(p)
    BY <1>6 DEF WriteOrder, At, Of
  <2>2. w \in Work /\ Row(p) \in OrderRow
    BY <1>1, <2>1, InProgress, PresentTyped DEF CurrentInv, FulfilmentInv
  <2>3. /\ r.shipped = Row(p).shipped /\ r.qty = Row(p).qty
        /\ IF w.whole THEN r.row = w.copy.row /\ r.status = w.copy.status /\ r.paid = w.copy.paid
           ELSE r.row = Row(p).row /\ r.paid = Row(p).paid
        /\ r \in OrderRow
    BY <2>2, WorkTyped, RowsTyped DEF WithStatus, OrderRow
  <2>4. w.copy = session[p].copy /\ w.old = session[p].old /\ w.amount = session[p].amount
    OBVIOUS
  <2> HIDE DEF r
  <2>5. order'[Of(p)] = r
    BY <1>1, <2>1, Updated DEF CurrentInv
  <2>6. ASSUME Only(p)
        PROVE  /\ w.shipment = 0 /\ w.edit # 0 => Fits(Then(w, "editing", w.old, w.amount), r)
               /\ w.shipment # 0 => Fits(Then(w, "sending", w.old, w.amount), r)
    <3>1. Fits(w, Row(p))
      BY <2>1, <2>6, InProgress
    <3> HIDE DEF w
    <3> QED
      BY <2>1, <2>2, <2>3, <3>1, WrittenFits
  <2>7. CASE Done(p)
    BY <2>1, <2>7, InProgress, CurrentDone
  <2>8. CASE w.shipment # 0 /\ Continue(p, "sending")
    BY <1>1, <2>1, <2>5, <2>6, <2>8, CurrentThen DEF Continue
  <2>9. CASE w.shipment = 0 /\ w.edit # 0 /\ Continue(p, "editing")
    BY <1>1, <2>1, <2>5, <2>6, <2>9, CurrentThen DEF Continue
  <2> QED
    BY <2>1, <2>7, <2>8, <2>9
<1> QED
  BY <1>2, <1>3, <1>4, <1>5, <1>6

\* Every step keeps what one request at a time holds up to date.
LEMMA CurrentStep == CurrentInv /\ [Next]_vars => CurrentInv'
<1> SUFFICES ASSUME CurrentInv, [Next]_vars PROVE CurrentInv'
  OBVIOUS
<1>1. FulfilmentInv'
  BY StepKeeps DEF CurrentInv
<1>2. CASE UNCHANGED vars
  BY <1>1, <1>2 DEF vars, CurrentInv, Bystanders, Current, Only, UpToDate, Fits, Turns
<1>3. ASSUME UNCHANGED scene, NEW p \in Session, Ask(p) PROVE CurrentInv'
  BY <1>1, <1>3, FirstReadsCurrent DEF Ask
<1>4. ASSUME UNCHANGED scene, NEW p \in Session, Handle(p) PROVE CurrentInv'
  BY <1>1, <1>4, ShipmentsCurrent DEF Handle
<1>5. ASSUME UNCHANGED scene, NEW p \in Session, Proceed(p) PROVE CurrentInv'
  BY <1>1, <1>5, ConsequencesCurrent, WritesCurrent DEF Proceed
<1> QED
  BY <1>2, <1>3, <1>4, <1>5 DEF Next

\* Nothing is held at the start.
LEMMA InitCurrent == Init => CurrentInv
<1> SUFFICES ASSUME Init PROVE CurrentInv
  OBVIOUS
<1>1. \A p \in Session : session[p] = Idle
  BY DEF Init
<1>2. Idle.stage = "idle"
  BY DEF Idle, Holds
<1> QED
  BY <1>1, <1>2, InitKeeps DEF CurrentInv, Bystanders, Current, UpToDate

\* When one request follows the other, what a request holds of its order from an
\* earlier transaction is still true of it.
THEOREM NothingIsStale == Spec => []Current
<1>1. Spec => []CurrentInv
  BY InitCurrent, CurrentStep, PTL DEF Spec
<1>2. CurrentInv => Current
  BY DEF CurrentInv
<1> QED
  BY <1>1, <1>2, PTL

-----------------------------------------------------------------------------
(* One request at a time: the statuses an order goes through. *)

\* No payment has been made or is under way, and no form of a shipment is.
Unpaid == Without({"pay"}) =>
    /\ \A o \in OrderId : ~order[o].paid
    /\ \A p \in Session : ~session[p].copy.paid /\ session[p].stage # "paying"
NoForms == Without({"shipment"}) => \A p \in Session : session[p].shipment = 0

\* What the requests hold of payments and of shipments.
LEMMA WorkRead ==
    /\ \A stage, o, new, copy, n :
         LET w == Holds(stage, o, new, copy, n)
         IN  w.copy = copy /\ w.stage = stage /\ w.shipment = 0
    /\ \A w, stage, old, n :
         LET v == Then(w, stage, old, n)
         IN  v.copy = w.copy /\ v.stage = stage /\ v.shipment = w.shipment
    /\ \A w, q :
         LET v == WithEdit(w, q)
         IN  v.copy = w.copy /\ v.stage = w.stage /\ v.shipment = w.shipment
    /\ \A w, s, status :
         LET v == WithShipment(w, s, status)
         IN  v.copy = w.copy /\ v.stage = w.stage /\ v.shipment = s
    /\ ~Idle.copy.paid /\ Idle.stage = "idle" /\ Idle.shipment = 0
BY DEF Holds, Then, WithEdit, WithShipment, Idle, BlankOrder

\* A request that goes on with w writes rows paid as they were, or as it read them.
LEMMA UnpaidGo ==
    ASSUME FulfilmentInv, Unpaid, UNCHANGED scene, NEW p \in Session, NEW w, Goto(p, w),
           Without({"pay"}) /\ session[p].stage # "paying" /\ ~session[p].copy.paid
             /\ (\A o \in OrderId : ~order[o].paid)
             => ~w.copy.paid /\ w.stage # "paying" /\ \A o \in OrderId : ~order'[o].paid
    PROVE  Unpaid'
<1>1. session'[p] = w /\ \A q \in Session \ {p} : session'[q] = session[q]
  BY DEF Goto, FulfilmentInv, TypeOK
<1>2. Without({"pay"})' <=> Without({"pay"})
  BY DEF Without
<1> QED
  BY <1>1, <1>2 DEF Unpaid

\* A step that moves no request on and pays nothing.
LEMMA UnpaidStay ==
    ASSUME Unpaid, UNCHANGED <<scene, session>>,
           \A o \in OrderId : order'[o].paid = order[o].paid
    PROVE  Unpaid'
BY DEF Unpaid, Without

\* First reads pay nothing.
LEMMA AskUnpaid ==
    ASSUME FulfilmentInv, Unpaid, UNCHANGED scene, NEW p \in Session, NEW o \in OrderId
    PROVE  /\ \A new \in Status : AskStatus(p, o, new) => Unpaid'
           /\ \A q \in Quantity : AskPartial(p, o, q) \/ AskModify(p, o, q) \/ AskEdit(p, o, q)
                                    => Unpaid'
           /\ AskPay(p, o) => Unpaid'
           /\ CreateShipment(p, o) \/ EraseOrder(p, o) \/ RetireOrder(p, o) => Unpaid'
<1>1. \A new \in Status : AskStatus(p, o, new) => Unpaid'
  BY UnpaidGo, WorkRead DEF AskStatus
<1>2. \A q \in Quantity : AskPartial(p, o, q) \/ AskModify(p, o, q) \/ AskEdit(p, o, q)
                            => Unpaid'
  BY UnpaidGo, WorkRead DEF AskPartial, AskModify, AskEdit
<1>3. AskPay(p, o) => Unpaid'
  BY DEF AskPay, Unpaid, Without
<1>4. ASSUME CreateShipment(p, o) \/ EraseOrder(p, o) \/ RetireOrder(p, o) PROVE Unpaid'
  <2>1. \A x \in OrderId : order'[x].paid = order[x].paid
    BY <1>4, Updated DEF CreateShipment, EraseOrder, RetireOrder, WithRow
  <2> QED
    BY <1>4, <2>1, UnpaidStay DEF CreateShipment, EraseOrder, RetireOrder
<1> QED
  BY <1>1, <1>2, <1>3, <1>4

\* Nor do the requests about shipments.
LEMMA HandleUnpaid ==
    ASSUME FulfilmentInv, Unpaid, UNCHANGED scene, NEW p \in Session, NEW s \in ShipmentId
    PROVE  /\ \A status \in ShipmentStatus : AskShipment(p, s, status) => Unpaid'
           /\ DeliverShipment(p, s) \/ EraseShipment(p, s) \/ UndoShipment(p, s) => Unpaid'
<1>1. shipment[s].order \in OrderId
  BY RowsTyped DEF FulfilmentInv, TypeOK
<1>2. \A status \in ShipmentStatus : AskShipment(p, s, status) => Unpaid'
  BY <1>1, UnpaidGo, WorkRead DEF AskShipment
<1>3. ASSUME DeliverShipment(p, s) \/ EraseShipment(p, s) \/ UndoShipment(p, s) PROVE Unpaid'
  <2>1. \A x \in OrderId : order'[x].paid = order[x].paid
    BY <1>1, <1>3, Updated DEF DeliverShipment, EraseShipment, UndoShipment, WithShipped
  <2> QED
    BY <1>3, <2>1, UnpaidStay DEF DeliverShipment, EraseShipment, UndoShipment
<1> QED
  BY <1>2, <1>3

\* Nor does a request in progress, but for payments.
LEMMA ProceedUnpaid ==
    ASSUME FulfilmentInv, Unpaid, UNCHANGED scene, NEW p \in Session, Proceed(p)
    PROVE  Unpaid'
<1>1. Present(p) => Of(p) \in OrderId /\ Row(p) = order[Of(p)]
  BY PresentTyped DEF FulfilmentInv, Row
<1>2. \A o \in OrderId : \A r : Update(o, r) =>
        order'[o] = r /\ \A x \in OrderId \ {o} : order'[x] = order[x]
  BY Updated
<1>3. CASE CommitPay(p)
  BY <1>3 DEF CommitPay, At, Unpaid, Without
<1>4. CASE Begin(p)
  <2>1. Consequence(Row(p).status, session[p].new) # "paying"
    BY DEF Consequence
  <2> QED
    BY <1>4, <2>1, UnpaidGo, WorkRead DEF Begin
<1>5. CASE Reserve(p) \/ Release(p) \/ SyncOrder(p)
  BY <1>5, UnpaidGo, WorkRead DEF Reserve, Release, SyncOrder, Continue
<1>6. CASE RowGone(p) \/ IssueFullFails(p) \/ PartialFails(p) \/ WriteShipment(p) \/ Crash(p)
  BY <1>6, UnpaidGo, WorkRead DEF RowGone, IssueFullFails, PartialFails, WriteShipment, Crash,
     Done
<1>7. CASE PickFull(p)
  BY <1>7, UnpaidGo, WorkRead DEF PickFull, Continue, Done, AfterShipping
<1>8. CASE IssueFull(p)
  BY <1>1, <1>2, <1>8, UnpaidGo, WorkRead DEF IssueFull, Continue, AfterShipping, WithShipped
<1>9. CASE CancelOrder(p)
  BY <1>1, <1>2, <1>9, UnpaidGo, WorkRead DEF CancelOrder, Continue, WithShipped
<1>10. CASE CloseIfPaid(p)
  BY <1>1, <1>2, <1>10, UnpaidGo, WorkRead DEF CloseIfPaid, Continue, WithStatus
<1>11. CASE WriteOrder(p)
  BY <1>1, <1>2, <1>11, UnpaidGo, WorkRead DEF WriteOrder, Continue, Done, WithStatus, Of
<1>12. CASE CommitPartial(p)
  BY <1>1, <1>2, <1>12, UnpaidGo, WorkRead DEF CommitPartial, Done, WithStatus, WithShipped
<1>13. CASE ClosePaid(p)
  BY <1>1, <1>2, <1>13, UnpaidGo, WorkRead DEF ClosePaid, Done, WithStatus
<1>14. CASE CommitModify(p)
  BY <1>1, <1>2, <1>14, UnpaidGo, WorkRead DEF CommitModify, Done, Of
<1>15. CASE EditItem(p)
  BY <1>1, <1>2, <1>15, UnpaidGo, WorkRead DEF EditItem, Of
<1> QED
  BY <1>3, <1>4, <1>5, <1>6, <1>7, <1>8, <1>9, <1>10, <1>11, <1>12, <1>13, <1>14, <1>15
     DEF Proceed

\* Where no payment is made no order is ever paid.
LEMMA UnpaidStep == FulfilmentInv /\ Unpaid /\ [Next]_vars => Unpaid'
<1> SUFFICES ASSUME FulfilmentInv, Unpaid, [Next]_vars PROVE Unpaid'
  OBVIOUS
<1>1. CASE UNCHANGED vars
  BY <1>1 DEF vars, Unpaid, Without
<1>2. ASSUME UNCHANGED scene, NEW p \in Session, Ask(p) PROVE Unpaid'
  BY <1>2, AskUnpaid DEF Ask
<1>3. ASSUME UNCHANGED scene, NEW p \in Session, Handle(p) PROVE Unpaid'
  BY <1>3, HandleUnpaid DEF Handle
<1> QED
  BY <1>1, <1>2, <1>3, ProceedUnpaid DEF Next

\* A request that holds no shipment goes on without one.
LEMMA NoFormsGo ==
    ASSUME FulfilmentInv, NoForms, UNCHANGED scene, NEW p \in Session, NEW w, Goto(p, w),
           Without({"shipment"}) /\ session[p].shipment = 0 => w.shipment = 0
    PROVE  NoForms'
BY DEF Goto, FulfilmentInv, TypeOK, NoForms, Without

\* Where no form of a shipment is used no request holds one.
LEMMA NoFormsStep == FulfilmentInv /\ NoForms /\ [Next]_vars => NoForms'
<1> SUFFICES ASSUME FulfilmentInv, NoForms, [Next]_vars PROVE NoForms'
  OBVIOUS
<1>1. CASE UNCHANGED <<scene, session>>
  BY <1>1 DEF NoForms, Without
<1>2. ASSUME UNCHANGED scene, NEW p \in Session, Ask(p) PROVE NoForms'
  <2>1. \/ \E o, new : AskStatus(p, o, new)
        \/ \E o, q : AskPartial(p, o, q) \/ AskModify(p, o, q) \/ AskEdit(p, o, q)
        \/ \E o : AskPay(p, o)
        \/ UNCHANGED session
    BY <1>2 DEF Ask, CreateShipment, EraseOrder, RetireOrder
  <2> QED
    BY <1>1, <1>2, <2>1, NoFormsGo, WorkRead DEF AskStatus, AskPartial, AskModify, AskEdit, AskPay
<1>3. ASSUME UNCHANGED scene, NEW p \in Session, Handle(p) PROVE NoForms'
  <2>1. CASE \E s, status : AskShipment(p, s, status)
    BY <1>3, <2>1 DEF AskShipment, NoForms, Without
  <2>2. CASE UNCHANGED session
    BY <1>1, <1>3, <2>2
  <2> QED
    BY <1>3, <2>1, <2>2 DEF Handle, DeliverShipment, EraseShipment, UndoShipment
<1>4. ASSUME UNCHANGED scene, NEW p \in Session, Proceed(p) PROVE NoForms'
  <2>1. CASE Done(p)
    BY <1>4, <2>1, NoFormsGo, WorkRead DEF Done
  <2>2. CASE \E stage, old, n : Goto(p, Then(session[p], stage, old, n))
    BY <1>4, <2>2, NoFormsGo, WorkRead
  <2>3. CASE EditItem(p)
    BY <1>4, <2>3, NoFormsGo, WorkRead DEF EditItem
  <2>4. Done(p) \/ EditItem(p) \/ \E stage, old, n : Goto(p, Then(session[p], stage, old, n))
    BY <1>4 DEF Proceed, Begin, Reserve, PickFull, IssueFull, IssueFullFails, Release,
       CancelOrder, CloseIfPaid, WriteOrder, RowGone, CommitPartial, PartialFails, SyncOrder,
       WriteShipment, CommitPay, ClosePaid, CommitModify, Crash, Continue
  <2> QED
    BY <2>1, <2>2, <2>3, <2>4
<1> QED
  BY <1>1, <1>2, <1>3, <1>4 DEF Next, vars

MapInv == CurrentInv /\ Unpaid /\ NoForms

\* The statuses the handlers move between are on the map.
LEMMA AllowedFacts ==
    /\ \A s \in {"CONFIRMED", "PARTIAL_SHIPPED"} :
         {"PARTIAL_SHIPPED", "SHIPPED"} \ {s} \subseteq Allowed[s]
    /\ \A s \in Status : Allowed[s] \subseteq Status
    /\ \A s \in Status :
         /\ "DRAFT" \notin Allowed[s]
         /\ "CONFIRMED" \in Allowed[s] => s = "DRAFT"
         /\ "PARTIAL_SHIPPED" \in Allowed[s] => s \in {"CONFIRMED", "PARTIAL_SHIPPED"}
         /\ "SHIPPED" \in Allowed[s] => s \in {"CONFIRMED", "PARTIAL_SHIPPED"}
         /\ "DELIVERED" \in Allowed[s] => s = "SHIPPED"
         /\ "CLOSED" \in Allowed[s] => s = "DELIVERED"
         /\ "CANCELLED" \in Allowed[s] => s \in {"DRAFT", "CONFIRMED", "PARTIAL_SHIPPED"}
BY DEF Allowed, Status

\* A request that may write one row only.
LEMMA MapByRow ==
    ASSUME FulfilmentInv, NEW o \in OrderId, NEW r, Update(o, r),
           r.status = order[o].status \/ r.status \in Allowed[order[o].status]
    PROVE  FollowsMap
BY Updated DEF FollowsMap

\* Every step that changes a status follows the map.
LEMMA MapStep ==
    ASSUME MapInv, OneAtATime, Without({"pay", "shipment"}), UNCHANGED scene,
           NEW p \in Session, Ask(p) \/ Handle(p) \/ Proceed(p)
    PROVE  FollowsMap
<1>1. CASE UNCHANGED order
  BY <1>1 DEF FollowsMap
<1>2. CASE \E o \in OrderId : EraseOrder(p, o) \/ RetireOrder(p, o)
  <2>1. PICK o \in OrderId : \E a : Update(o, WithRow(order[o], a))
    BY <1>2 DEF EraseOrder, RetireOrder
  <2>2. \A a : WithRow(order[o], a).status = order[o].status
    BY DEF WithRow
  <2> QED
    BY <2>1, <2>2, MapByRow DEF MapInv, CurrentInv
<1>3. CASE \E s \in ShipmentId : UndoShipment(p, s)
  <2>1. PICK s \in ShipmentId : UndoShipment(p, s)
    BY <1>3
  <2> DEFINE o == shipment[s].order
             r == WithShipped(order[o], order[o].status, order[o].shipped - shipment[s].item.qty)
  <2>2. o \in OrderId /\ Update(o, r)
    BY <2>1, RowsTyped DEF MapInv, CurrentInv, FulfilmentInv, TypeOK, UndoShipment
  <2>3. r.status = order[o].status
    BY DEF WithShipped
  <2> HIDE DEF r
  <2> QED
    BY <2>2, <2>3, MapByRow DEF MapInv, CurrentInv
<1>4. ASSUME Present(p), ~At(p, "idle")
      PROVE  /\ Of(p) \in OrderId /\ Row(p) = order[Of(p)] /\ Row(p) \in OrderRow
             /\ session[p] \in Work /\ Fits(session[p], Row(p))
             /\ ~Row(p).paid /\ session[p].shipment = 0
  <2>1. Of(p) \in OrderId /\ Row(p) = order[Of(p)] /\ Row(p) \in OrderRow
    BY <1>4, PresentTyped DEF MapInv, CurrentInv, FulfilmentInv, Row
  <2>2. scene[p] # {}
    BY <1>4, InProgress DEF MapInv
  <2>3. Only(p)
    BY <2>2 DEF Only, OneAtATime
  <2>4. Without({"pay"}) /\ Without({"shipment"})
    BY DEF Without
  <2> QED
    BY <1>4, <2>1, <2>3, <2>4, InProgress DEF MapInv, Unpaid, NoForms
<1>5. CASE IssueFull(p)
  <2>1. Present(p) /\ ~At(p, "idle")
        /\ Update(Of(p), WithShipped(Row(p), Row(p).status, Row(p).qty))
    BY <1>5 DEF IssueFull, At
  <2>2. WithShipped(Row(p), Row(p).status, Row(p).qty).status = Row(p).status
    BY DEF WithShipped
  <2> QED
    BY <1>4, <2>1, <2>2, MapByRow DEF MapInv, CurrentInv
<1>6. CASE CancelOrder(p)
  <2>1. Present(p) /\ ~At(p, "idle")
        /\ (UNCHANGED order \/ Update(Of(p), WithShipped(Row(p), Row(p).status, 0)))
    BY <1>6 DEF CancelOrder, At
  <2>2. WithShipped(Row(p), Row(p).status, 0).status = Row(p).status
    BY DEF WithShipped
  <2> QED
    BY <1>1, <1>4, <2>1, <2>2, MapByRow DEF MapInv, CurrentInv
<1>7. CASE CloseIfPaid(p) \/ ClosePaid(p)
  <2>1. Present(p) /\ ~At(p, "idle") /\ (UNCHANGED order \/ Row(p).paid)
    BY <1>7 DEF CloseIfPaid, ClosePaid, At
  <2> QED
    BY <1>1, <1>4, <2>1
<1>8. CASE CommitPay(p)
  <2>1. /\ Present(p) /\ ~At(p, "idle")
        /\ Update(Of(p), [row |-> Row(p).row, status |-> Row(p).status, qty |-> Row(p).qty,
                          shipped |-> Row(p).shipped, paid |-> TRUE])
    BY <1>8 DEF CommitPay, At
  <2> QED
    BY <1>4, <2>1, MapByRow DEF MapInv, CurrentInv
<1>9. CASE WriteOrder(p)
  <2> DEFINE w == session[p]
             r == IF w.whole
                  THEN [row |-> w.copy.row, status |-> w.copy.status, qty |-> Row(p).qty,
                        shipped |-> Row(p).shipped, paid |-> w.copy.paid]
                  ELSE WithStatus(Row(p), w.new)
  <2>1. w.stage = "writing" /\ Present(p) /\ ~At(p, "idle") /\ Update(Of(p), r)
    BY <1>9 DEF WriteOrder, At, Of
  <2>2. r.status = IF w.whole THEN w.copy.status ELSE w.new
    BY DEF WithStatus
  <2>3. r.status = Row(p).status \/ r.status \in Allowed[Row(p).status]
    BY <1>4, <2>1, <2>2 DEF Fits, Turns
  <2> HIDE DEF r
  <2> QED
    BY <1>4, <2>1, <2>3, MapByRow DEF MapInv, CurrentInv
<1>10. CASE CommitModify(p)
  <2> DEFINE r == [row |-> session[p].copy.row, status |-> session[p].copy.status,
                   qty |-> session[p].edit, shipped |-> session[p].copy.shipped,
                   paid |-> session[p].copy.paid]
  <2>1. session[p].stage = "modifying" /\ Present(p) /\ ~At(p, "idle") /\ Update(Of(p), r)
    BY <1>10 DEF CommitModify, At, Of
  <2>2. r.status = Row(p).status
    BY <1>4, <2>1 DEF Fits
  <2> HIDE DEF r
  <2> QED
    BY <1>4, <2>1, <2>2, MapByRow DEF MapInv, CurrentInv
<1>11. CASE EditItem(p)
  <2>1. /\ Present(p) /\ ~At(p, "idle")
        /\ Update(Of(p), [row |-> Row(p).row, status |-> Row(p).status, qty |-> session[p].edit,
                          shipped |-> session[p].copy.shipped, paid |-> Row(p).paid])
    BY <1>11 DEF EditItem, At, Of
  <2> QED
    BY <1>4, <2>1, MapByRow DEF MapInv, CurrentInv
<1>12. CASE CommitPartial(p)
  <2> DEFINE n == Row(p).shipped + session[p].amount
             r == WithShipped(Row(p), Row(p).status, n)
             t == WithStatus(r, StatusAfter(r, session[p].copy.status))
  <2>1. session[p].stage = "picking" /\ Present(p) /\ ~At(p, "idle") /\ Update(Of(p), t)
    BY <1>12 DEF CommitPartial, At
  <2>2. r.status = Row(p).status /\ Row(p).status \in {"CONFIRMED", "PARTIAL_SHIPPED"}
    BY <1>4, <2>1 DEF WithShipped, Fits
  <2>3. t.status \in {r.status, "PARTIAL_SHIPPED", "SHIPPED"}
    BY DEF WithStatus, StatusAfter
  <2>4. t.status = Row(p).status \/ t.status \in Allowed[Row(p).status]
    BY <2>2, <2>3, AllowedFacts
  <2> HIDE DEF t
  <2> QED
    BY <1>4, <2>1, <2>4, MapByRow DEF MapInv, CurrentInv
<1>13. UNCHANGED order \/ (\E o \in OrderId : EraseOrder(p, o) \/ RetireOrder(p, o))
       \/ (\E s \in ShipmentId : UndoShipment(p, s)) \/ IssueFull(p) \/ CancelOrder(p)
       \/ CloseIfPaid(p) \/ ClosePaid(p) \/ CommitPay(p) \/ WriteOrder(p)
       \/ CommitModify(p) \/ EditItem(p) \/ CommitPartial(p)
  BY DEF Ask, Handle, Proceed, AskStatus, AskPartial, AskModify, AskEdit, AskPay,
     CreateShipment, AskShipment, DeliverShipment, EraseShipment, Begin, Reserve, PickFull,
     IssueFullFails, Release, RowGone, PartialFails, SyncOrder, WriteShipment, Crash
<1> QED
  BY <1>1, <1>2, <1>3, <1>5, <1>6, <1>7, <1>8, <1>9, <1>10, <1>11, <1>12, <1>13

\* The facts behind the map hold at the start.
LEMMA InitMap == Init => MapInv
<1> SUFFICES ASSUME Init PROVE MapInv
  OBVIOUS
<1>1. Unpaid
  BY WorkRead DEF Init, Unpaid
<1>2. NoForms
  BY WorkRead DEF Init, NoForms
<1> QED
  BY <1>1, <1>2, InitCurrent DEF MapInv

\* The statuses of an order are those of STATUS_TRANSITIONS, although forms
\* write back a status they loaded in an earlier transaction, and wherever
\* requests die: as long as one follows the other, and neither payments nor the
\* forms of shipments, which do leave the map, take part.
THEOREM StatusesFollowMap == Spec => StatusFollowsMap
<1> DEFINE M == OneAtATime /\ Without({"pay", "shipment"}) => FollowsMap
<1>1. MapInv /\ [Next]_vars => MapInv'
  BY CurrentStep, UnpaidStep, NoFormsStep DEF MapInv, CurrentInv
<1>2. MapInv /\ [Next]_vars => [M]_vars
  BY MapStep DEF Next
<1> QED
  BY InitMap, <1>1, <1>2, PTL DEF Spec, StatusFollowsMap

-----------------------------------------------------------------------------
(* One request at a time: shipped_quantity and what the movements hold. *)

\* Without the form that edits any order, no quantity of one is under way.
NoEdits == Without({"edit"}) => \A p \in Session :
    /\ session[p].stage # "editing"
    /\ session[p].edit # 0 => session[p].stage = "modifying"
\* A shipment without a movement takes nothing.
NoneTakesNone == \A s \in ShipmentId :
    shipment[s].item.state = "none" => shipment[s].item.qty = 0

\* What the updates of a request say of its edit and its whole row.
LEMMA EditRead ==
    /\ \A stage, o, new, copy, n : Holds(stage, o, new, copy, n).edit = 0
    /\ \A w, stage, old, n : Then(w, stage, old, n).edit = w.edit
    /\ \A w, q : WithEdit(w, q).edit = q
    /\ \A w, s, status : WithShipment(w, s, status).edit = w.edit
    /\ Idle.edit = 0
BY DEF Holds, Then, WithEdit, WithShipment, Idle

\* A request without an edit goes on without one.
LEMMA NoEditsGo ==
    ASSUME FulfilmentInv, NoEdits, UNCHANGED scene, NEW p \in Session, NEW w, Goto(p, w),
           Without({"edit"}) /\ session[p].stage # "editing"
             /\ (session[p].edit # 0 => session[p].stage = "modifying")
             => w.stage # "editing" /\ (w.edit # 0 => w.stage = "modifying")
    PROVE  NoEdits'
<1>1. session'[p] = w /\ \A q \in Session \ {p} : session'[q] = session[q]
  BY DEF Goto, FulfilmentInv, TypeOK
<1>2. Without({"edit"})' <=> Without({"edit"})
  BY DEF Without
<1> QED
  BY <1>1, <1>2 DEF NoEdits

\* Where no order is edited no request holds an edit.
LEMMA NoEditsStep == FulfilmentInv /\ NoEdits /\ [Next]_vars => NoEdits'
<1> SUFFICES ASSUME FulfilmentInv, NoEdits, [Next]_vars PROVE NoEdits'
  OBVIOUS
<1>1. CASE UNCHANGED <<scene, session>>
  BY <1>1 DEF NoEdits, Without
<1>2. ASSUME UNCHANGED scene, NEW p \in Session, Ask(p) PROVE NoEdits'
  <2>1. CASE \E o, new : AskStatus(p, o, new)
    BY <1>2, <2>1, NoEditsGo, WorkRead, EditRead DEF AskStatus
  <2>2. CASE \E o, q : AskPartial(p, o, q)
    BY <1>2, <2>2, NoEditsGo, WorkRead, EditRead DEF AskPartial
  <2>3. CASE \E o, q : AskModify(p, o, q)
    BY <1>2, <2>3, NoEditsGo, WorkRead, EditRead DEF AskModify
  <2>4. CASE \E o, q : AskEdit(p, o, q)
    BY <1>2, <2>4 DEF AskEdit, NoEdits, Without
  <2>5. CASE \E o : AskPay(p, o)
    BY <1>2, <2>5, NoEditsGo, WorkRead, EditRead DEF AskPay
  <2>6. CASE UNCHANGED session
    BY <1>1, <1>2, <2>6
  <2> QED
    BY <1>2, <2>1, <2>2, <2>3, <2>4, <2>5, <2>6
       DEF Ask, CreateShipment, EraseOrder, RetireOrder
<1>3. ASSUME UNCHANGED scene, NEW p \in Session, Handle(p) PROVE NoEdits'
  <2>1. CASE \E s, status : AskShipment(p, s, status)
    BY <1>3, <2>1, NoEditsGo, WorkRead, EditRead DEF AskShipment
  <2>2. CASE UNCHANGED session
    BY <1>1, <1>3, <2>2
  <2> QED
    BY <1>3, <2>1, <2>2 DEF Handle, DeliverShipment, EraseShipment, UndoShipment
<1>4. ASSUME UNCHANGED scene, NEW p \in Session, Proceed(p) PROVE NoEdits'
  <2>1. CASE Done(p)
    BY <1>4, <2>1, NoEditsGo, WorkRead, EditRead DEF Done
  <2>2. CASE EditItem(p)
    BY <1>4, <2>2, NoEditsGo, WorkRead, EditRead DEF EditItem
  <2>3. CASE /\ session[p].stage # "modifying"
             /\ \E stage, old, n : /\ Goto(p, Then(session[p], stage, old, n))
                                   /\ stage = "editing" => session[p].edit # 0
    BY <1>4, <2>3, NoEditsGo, WorkRead, EditRead
  <2>4. CASE Begin(p)
    <3>1. Consequence(Row(p).status, session[p].new) # "editing"
      BY DEF Consequence
    <3> QED
      BY <2>3, <2>4, <3>1 DEF Begin, At
  <2>5. CASE WriteOrder(p)
    BY <2>1, <2>3, <2>5 DEF WriteOrder, At, Continue
  <2>6. CASE Reserve(p) \/ PickFull(p) \/ IssueFull(p) \/ Release(p) \/ CancelOrder(p)
             \/ CloseIfPaid(p) \/ SyncOrder(p) \/ CommitPay(p)
    BY <2>1, <2>3, <2>6 DEF Reserve, PickFull, IssueFull, Release, CancelOrder, CloseIfPaid,
       SyncOrder, CommitPay, At, Continue, AfterShipping
  <2>7. CASE RowGone(p) \/ IssueFullFails(p) \/ CommitPartial(p) \/ PartialFails(p)
             \/ WriteShipment(p) \/ ClosePaid(p) \/ CommitModify(p) \/ Crash(p)
    BY <2>1, <2>7 DEF RowGone, IssueFullFails, CommitPartial, PartialFails, WriteShipment,
       ClosePaid, CommitModify, Crash
  <2> QED
    BY <1>4, <2>2, <2>4, <2>5, <2>6, <2>7 DEF Proceed
<1> QED
  BY <1>1, <1>2, <1>3, <1>4 DEF Next, vars

\* A shipment without a movement never has a quantity.
LEMMA NoneTakesStep == FulfilmentInv /\ NoneTakesNone /\ [Next]_vars => NoneTakesNone'
<1> SUFFICES ASSUME FulfilmentInv, NoneTakesNone, [Next]_vars PROVE NoneTakesNone'
  OBVIOUS
<1>1. ASSUME \A s \in ShipmentId : \/ shipment'[s].item = shipment[s].item
                                   \/ shipment'[s].item = Undone(shipment[s].item)
                                   \/ shipment'[s].item = NoMovement
                                   \/ shipment'[s].item.state = "active"
      PROVE  NoneTakesNone'
  <2>1. \A m : Undone(m).qty = m.qty /\ (Undone(m).state = "none" => m.state = "none")
    BY DEF Undone
  <2> QED
    BY <1>1, <2>1 DEF NoneTakesNone, NoMovement
<1>2. CASE UNCHANGED shipment
  BY <1>1, <1>2
<1>3. shipment \in [ShipmentId -> ShipmentRow]
  BY DEF FulfilmentInv, TypeOK
<1>4. ASSUME NEW p \in Session, Ask(p) PROVE NoneTakesNone'
  <2>1. CASE \E o \in OrderId : CreateShipment(p, o)
    BY <1>1, <1>3, <2>1 DEF CreateShipment
  <2>2. CASE \E o \in OrderId : EraseOrder(p, o)
    BY <1>1, <1>3, <2>2 DEF EraseOrder, Dropped
  <2> QED
    BY <1>2, <1>4, <2>1, <2>2 DEF Ask, AskStatus, AskPartial, AskModify, AskEdit, AskPay,
       RetireOrder
<1>5. ASSUME NEW p \in Session, Handle(p) PROVE NoneTakesNone'
  <2>1. CASE \E s \in ShipmentId : DeliverShipment(p, s)
    BY <1>1, <1>3, <2>1 DEF DeliverShipment, Sent
  <2>2. CASE \E s \in ShipmentId : EraseShipment(p, s)
    BY <1>1, <1>3, <2>2 DEF EraseShipment, Dropped
  <2>3. CASE \E s \in ShipmentId : UndoShipment(p, s)
    BY <1>1, <1>3, <2>3 DEF UndoShipment
  <2> QED
    BY <1>2, <1>5, <2>1, <2>2, <2>3 DEF Handle, AskShipment
<1>6. ASSUME NEW p \in Session, Proceed(p) PROVE NoneTakesNone'
  <2>1. CASE CancelOrder(p)
    BY <1>1, <1>3, <2>1 DEF CancelOrder
  <2>2. CASE CommitPartial(p)
    BY <1>1, <1>3, <2>2 DEF CommitPartial
  <2>3. CASE WriteShipment(p)
    BY <1>1, <1>3, <2>3 DEF WriteShipment, Sent, Dropped
  <2> QED
    BY <1>2, <1>6, <2>1, <2>2, <2>3 DEF Proceed, Begin, Reserve, PickFull, IssueFull,
       IssueFullFails, Release, CloseIfPaid, WriteOrder, RowGone, PartialFails, SyncOrder,
       CommitPay, ClosePaid, CommitModify, EditItem, Crash
<1> QED
  BY <1>2, <1>4, <1>5, <1>6 DEF Next, vars

\* What the table of orders says is what the movements hold.
Exacts(table, f, sh) == \A o \in OrderId :
    /\ table[o].shipped = HeldBy(f, sh, o)
    /\ Without({"edit"}) => table[o].shipped <= table[o].qty
Exact == OneAtATime /\ (Without({"crash"}) \/ Without({"undo"}))
            => Exacts(order, full, shipment)

\* A request that has issued a full shipment of order o, or given back what the
\* cancelled order held, and has the status still to write.
ShipsOut(w, o) == /\ w.order = o /\ w.stage \in {"releasing", "writing"}
                  /\ w.new = "SHIPPED" /\ ~w.whole
Cancels(w, o) == w.order = o /\ w.stage = "writing" /\ w.new = "CANCELLED" /\ ~w.whole

\* Where no request dies: a shipment a form works on is still there; an order
\* that is not shipped, or not any more, holds nothing; and a shipment that was
\* given back and is not deleted is one of a cancelled order.
Empties(w, table, f, sh) ==
    /\ w.shipment # 0 => sh[w.shipment].row = "active"
    /\ \A o \in OrderId :
         /\ table[o].status \in {"DRAFT", "CONFIRMED", "CANCELLED"}
              => HeldBy(f, sh, o) = 0 \/ ShipsOut(w, o)
         /\ Cancels(w, o) => HeldBy(f, sh, o) = 0
    /\ \A s \in ShipmentId : sh[s].row = "active" /\ sh[s].item.state = "reversed"
         => table[sh[s].order].status = "CANCELLED" \/ Cancels(w, sh[s].order)
Emptied == Without({"crash"}) => \A p \in Session :
               Only(p) => Empties(session[p], order, full, shipment)

ExactInv == CurrentInv /\ NoEdits /\ NoneTakesNone /\ Exact /\ Emptied

\* One request at a time, and p is it.
LEMMA Alone ==
    ASSUME ExactInv, NEW p \in Session, scene[p] # {}
    PROVE  /\ OneAtATime => Only(p)
           /\ Only(p) => OneAtATime
BY DEF OneAtATime, Only

\* A step is judged only where one request follows the other.
LEMMA ExactKept ==
    ASSUME ExactInv, UNCHANGED scene,
           OneAtATime /\ (Without({"crash"}) \/ Without({"undo"}))
             /\ Exacts(order, full, shipment) => Exacts(order', full', shipment')
    PROVE  Exact'
<1>1. \A E : Without(E)' <=> Without(E)
  BY DEF Without
<1>2. OneAtATime' <=> OneAtATime
  BY DEF OneAtATime
<1> QED
  BY <1>1, <1>2 DEF ExactInv, Exact, Exacts

\* And, for cancelled orders, where none dies.
LEMMA EmptiedKept ==
    ASSUME ExactInv, UNCHANGED scene, NEW p \in Session, scene[p] # {},
           Only(p) /\ Without({"crash"}) /\ Empties(session[p], order, full, shipment)
             => Empties(session'[p], order', full', shipment')
    PROVE  Emptied'
<1> SUFFICES ASSUME Without({"crash"})', NEW q \in Session, Only(q)'
             PROVE  Empties(session'[q], order', full', shipment')
  BY DEF Emptied
<1>1. Without({"crash"}) /\ Only(q) /\ q = p
  BY DEF Without, Only
<1>2. Empties(session[p], order, full, shipment)
  BY <1>1 DEF ExactInv, Emptied
<1> QED
  BY <1>1, <1>2

\* Most steps move no goods and write no other shipped_quantity.
LEMMA ExactSame ==
    ASSUME ExactInv, UNCHANGED scene, SameHeld,
           OneAtATime => \A o \in OrderId :
             /\ order'[o].shipped = order[o].shipped
             /\ Without({"edit"}) /\ order[o].shipped <= order[o].qty
                  => order[o].shipped <= order'[o].qty
    PROVE  Exact'
<1> SUFFICES ASSUME OneAtATime, Exacts(order, full, shipment)
             PROVE  Exacts(order', full', shipment')
  BY ExactKept
<1>1. ASSUME NEW o \in OrderId
      PROVE  /\ order'[o].shipped = HeldBy(full', shipment', o)
             /\ Without({"edit"}) => order'[o].shipped <= order'[o].qty
  BY DEF SameHeld, Exacts
<1> QED
  BY <1>1 DEF Exacts

\* Only these move goods.
LEMMA StepHeld ==
    ASSUME FulfilmentInv, NEW p \in Session, Ask(p) \/ Handle(p) \/ Proceed(p),
           ~IssueFull(p), ~CancelOrder(p), ~CommitPartial(p),
           \A s \in ShipmentId : ~UndoShipment(p, s)
    PROVE  SameHeld
<1>1. CASE UNCHANGED <<full, shipment>>
  BY <1>1, UntouchedHeld
<1>2. CASE \/ \E o \in OrderId : CreateShipment(p, o) \/ EraseOrder(p, o)
           \/ \E s \in ShipmentId : DeliverShipment(p, s) \/ EraseShipment(p, s)
           \/ WriteShipment(p)
  BY <1>2, ShipmentRowsHeld
<1>3. \/ UNCHANGED <<full, shipment>>
      \/ \E o \in OrderId : CreateShipment(p, o) \/ EraseOrder(p, o)
      \/ \E s \in ShipmentId : DeliverShipment(p, s) \/ EraseShipment(p, s)
      \/ WriteShipment(p)
  BY DEF Ask, Handle, Proceed, AskStatus, AskPartial, AskModify, AskEdit, AskPay, RetireOrder,
     AskShipment, Begin, Reserve, PickFull, IssueFullFails, Release, CloseIfPaid, WriteOrder,
     RowGone, PartialFails, SyncOrder, CommitPay, ClosePaid, CommitModify, EditItem, Crash
<1> QED
  BY <1>1, <1>2, <1>3

\* A step of the one request, on its order.
LEMMA SerialRow ==
    ASSUME CurrentInv, NEW p \in Session, OneAtATime, Present(p), ~At(p, "idle")
    PROVE  /\ Of(p) \in OrderId /\ Row(p) = order[Of(p)] /\ Row(p) \in OrderRow
           /\ session[p] \in Work /\ Fits(session[p], Row(p)) /\ Only(p)
<1>1. Of(p) \in OrderId /\ Row(p) = order[Of(p)] /\ Row(p) \in OrderRow
  BY PresentTyped DEF CurrentInv, FulfilmentInv, Row
<1>2. scene[p] # {}
  BY InProgress
<1>3. Only(p)
  BY <1>2 DEF Only, OneAtATime
<1> QED
  BY <1>1, <1>3, InProgress

\* One row is written with the same shipped_quantity.
LEMMA ExactRow ==
    ASSUME ExactInv, UNCHANGED scene, SameHeld, NEW o \in OrderId, NEW r, Update(o, r),
           OneAtATime => /\ r.shipped = order[o].shipped
                         /\ Without({"edit"}) /\ order[o].shipped <= order[o].qty
                              => order[o].shipped <= r.qty
    PROVE  Exact'
<1>1. order'[o] = r /\ \A x \in OrderId \ {o} : order'[x] = order[x]
  BY Updated DEF ExactInv, CurrentInv
<1> QED
  BY <1>1, ExactSame

\* Writing an order keeps shipped_quantity, or writes back what it was.
LEMMA ExactWrites ==
    ASSUME ExactInv, UNCHANGED scene, NEW p \in Session, SameHeld
    PROVE  /\ UNCHANGED order => Exact'
           /\ \A o \in OrderId : EraseOrder(p, o) \/ RetireOrder(p, o) => Exact'
           /\ CloseIfPaid(p) \/ ClosePaid(p) \/ CommitPay(p) \/ WriteOrder(p) => Exact'
           /\ CommitModify(p) => Exact'
           /\ EditItem(p) => Exact'
<1>1. ASSUME UNCHANGED order PROVE Exact'
  BY <1>1, ExactSame
<1>2. ASSUME NEW o \in OrderId, EraseOrder(p, o) \/ RetireOrder(p, o) PROVE Exact'
  <2>1. PICK a : Update(o, WithRow(order[o], a))
    BY <1>2 DEF EraseOrder, RetireOrder
  <2>2. /\ WithRow(order[o], a).shipped = order[o].shipped
        /\ WithRow(order[o], a).qty = order[o].qty
    BY DEF WithRow
  <2> QED
    BY <2>1, <2>2, ExactRow
<1>3. ASSUME CloseIfPaid(p) \/ ClosePaid(p) \/ CommitPay(p) \/ WriteOrder(p) PROVE Exact'
  <2>1. Of(p) \in OrderId /\ Row(p) = order[Of(p)]
    BY <1>3, PresentTyped DEF ExactInv, CurrentInv, FulfilmentInv, CloseIfPaid, ClosePaid,
       CommitPay, WriteOrder, Row
  <2>2. UNCHANGED order \/ \E r : /\ Update(Of(p), r)
                                  /\ r.shipped = Row(p).shipped /\ r.qty = Row(p).qty
    BY <1>3 DEF CloseIfPaid, ClosePaid, CommitPay, WriteOrder, WithStatus, Of
  <2> QED
    BY <1>1, <2>1, <2>2, ExactRow
<1>4. ASSUME CommitModify(p) PROVE Exact'
  <2> DEFINE w == session[p]
             r == [row |-> w.copy.row, status |-> w.copy.status, qty |-> w.edit,
                   shipped |-> w.copy.shipped, paid |-> w.copy.paid]
  <2>1. w.stage = "modifying" /\ Present(p) /\ ~At(p, "idle") /\ Update(Of(p), r)
    BY <1>4 DEF CommitModify, At, Of
  <2>2. Of(p) \in OrderId
    BY <2>1, PresentTyped DEF ExactInv, CurrentInv, FulfilmentInv
  <2>3. ASSUME OneAtATime
        PROVE  r.shipped = order[Of(p)].shipped /\ order[Of(p)].shipped <= r.qty
    <3>1. /\ Row(p) = order[Of(p)] /\ w \in Work /\ Fits(w, Row(p))
      BY <2>1, <2>3, SerialRow DEF ExactInv
    <3>2. w.copy.shipped = Row(p).shipped /\ Row(p).shipped = 0 /\ w.edit \in Nat
      BY <2>1, <3>1, WorkTyped DEF Fits
    <3> QED
      BY <3>1, <3>2
  <2> HIDE DEF r
  <2> QED
    BY <2>1, <2>2, <2>3, ExactRow
<1>5. ASSUME EditItem(p) PROVE Exact'
  <2> DEFINE w == session[p]
             r == [row |-> Row(p).row, status |-> Row(p).status, qty |-> w.edit,
                   shipped |-> w.copy.shipped, paid |-> Row(p).paid]
  <2>1. w.stage = "editing" /\ Present(p) /\ ~At(p, "idle") /\ Update(Of(p), r)
    BY <1>5 DEF EditItem, At, Of
  <2>2. Of(p) \in OrderId
    BY <2>1, PresentTyped DEF ExactInv, CurrentInv, FulfilmentInv
  <2>3. ~Without({"edit"})
    BY <2>1 DEF ExactInv, NoEdits
  <2>4. ASSUME OneAtATime PROVE r.shipped = order[Of(p)].shipped
    <3>1. Row(p) = order[Of(p)] /\ Fits(w, Row(p))
      BY <2>1, <2>4, SerialRow DEF ExactInv
    <3>2. w.copy.shipped = Row(p).shipped
      BY <2>1, <3>1 DEF Fits
    <3> QED
      BY <3>1, <3>2
  <2> HIDE DEF r
  <2> QED
    BY <2>1, <2>2, <2>3, <2>4, ExactRow
<1> QED
  BY <1>1, <1>2, <1>3, <1>4, <1>5

\* A step that moves goods of one order and writes its row.
LEMMA ExactMoved ==
    ASSUME ExactInv, UNCHANGED scene, NEW o \in OrderId, OthersHeld(o), NEW r, Update(o, r),
           OneAtATime /\ (Without({"crash"}) \/ Without({"undo"}))
             /\ order[o].shipped = HeldBy(full, shipment, o)
             /\ (Without({"edit"}) => order[o].shipped <= order[o].qty)
             => /\ r.shipped = HeldBy(full', shipment', o)
                /\ Without({"edit"}) => r.shipped <= r.qty
    PROVE  Exact'
<1> SUFFICES ASSUME OneAtATime, Without({"crash"}) \/ Without({"undo"}),
                    Exacts(order, full, shipment)
             PROVE  Exacts(order', full', shipment')
  BY ExactKept
<1>1. order'[o] = r /\ \A x \in OrderId \ {o} : order'[x] = order[x]
  BY Updated DEF ExactInv, CurrentInv
<1>2. ASSUME NEW x \in OrderId
      PROVE  /\ order'[x].shipped = HeldBy(full', shipment', x)
             /\ Without({"edit"}) => order'[x].shipped <= order'[x].qty
  <2>1. CASE x = o
    BY <1>1, <2>1 DEF Exacts
  <2>2. CASE x # o
    BY <1>1, <2>2 DEF Exacts, OthersHeld
  <2> QED
    BY <2>1, <2>2
<1> QED
  BY <1>2 DEF Exacts

\* Shipments, in full and in part, raise it by what they take.
LEMMA ExactIssues ==
    ASSUME ExactInv, UNCHANGED scene, NEW p \in Session
    PROVE  /\ IssueFull(p) => Exact'
           /\ CommitPartial(p) => Exact'
           /\ CancelOrder(p) => Exact'
<1> DEFINE o == Of(p)
           w == session[p]
<1>1. FulfilmentInv /\ CurrentInv
  BY DEF ExactInv, CurrentInv
<1>2. ASSUME Present(p)
      PROVE  /\ o \in OrderId /\ Row(p) = order[o] /\ Row(p) \in OrderRow
             /\ HeldBy(full, shipment, o) \in Nat
  BY <1>1, <1>2, PresentTyped, MovementTables DEF FulfilmentInv, Row
<1>3. ASSUME IssueFull(p) PROVE Exact'
  <2> DEFINE r == WithShipped(Row(p), Row(p).status, Row(p).qty)
  <2>1. /\ w.stage = "issuing" /\ Present(p) /\ ~At(p, "idle") /\ Update(o, r)
        /\ OthersHeld(o)
        /\ HeldBy(full', shipment', o) = HeldBy(full, shipment, o) + w.amount
    BY <1>1, <1>3, IssueFullHeld DEF IssueFull, At
  <2>2. r.shipped = order[o].qty /\ r.qty = order[o].qty
    BY <1>2, <2>1 DEF WithShipped
  <2>3. ASSUME OneAtATime, order[o].shipped = HeldBy(full, shipment, o)
        PROVE  r.shipped = HeldBy(full', shipment', o) /\ r.shipped <= r.qty
    <3>1. Fits(w, Row(p))
      BY <1>1, <2>1, <2>3, SerialRow
    <3>2. w.amount = order[o].qty - order[o].shipped
      BY <1>2, <2>1, <3>1 DEF Fits
    <3>3. order[o].qty \in Nat /\ order[o].shipped \in Nat
      BY <1>2, <2>1, RowsTyped
    <3> HIDE DEF o, r, w
    <3> QED
      BY <2>1, <2>2, <2>3, <3>2, <3>3
  <2> HIDE DEF o, r, w
  <2> QED
    BY <1>2, <2>1, <2>3, ExactMoved
<1>4. ASSUME CommitPartial(p) PROVE Exact'
  <2> DEFINE n == Row(p).shipped + w.amount
             t == WithShipped(Row(p), Row(p).status, n)
             r == WithStatus(t, StatusAfter(t, w.copy.status))
  <2>1. /\ w.stage = "picking" /\ Present(p) /\ ~At(p, "idle") /\ Update(o, r)
        /\ OthersHeld(o)
        /\ HeldBy(full', shipment', o) = HeldBy(full, shipment, o) + w.amount
    BY <1>1, <1>4, CommitPartialHeld DEF CommitPartial, At
  <2>2. r.shipped = Row(p).shipped + w.amount /\ r.qty = Row(p).qty
    BY DEF WithShipped, WithStatus
  <2>3. ASSUME OneAtATime, order[o].shipped = HeldBy(full, shipment, o)
        PROVE  r.shipped = HeldBy(full', shipment', o) /\ r.shipped <= r.qty
    <3>1. Fits(w, Row(p))
      BY <1>1, <2>1, <2>3, SerialRow
    <3>2. Row(p).shipped + w.amount <= Row(p).qty
      BY <2>1, <3>1 DEF Fits
    <3> HIDE DEF o, r, w
    <3> QED
      BY <1>2, <2>1, <2>2, <2>3, <3>2
  <2> HIDE DEF o, r, w
  <2> QED
    BY <1>2, <2>1, <2>3, ExactMoved
<1>5. ASSUME CancelOrder(p) PROVE Exact'
  <2>1. CASE ~HasShipped(w.old)
    <3>1. SameHeld /\ UNCHANGED order
      BY <1>1, <1>5, <2>1, CancelHeld DEF CancelOrder
    <3> QED
      BY <3>1, ExactWrites
  <2>2. CASE HasShipped(w.old)
    <3> DEFINE r == WithShipped(Row(p), Row(p).status, 0)
    <3>1. /\ Present(p) /\ Update(o, r) /\ OthersHeld(o)
          /\ HeldBy(full', shipment', o) = 0
      BY <1>1, <1>5, <2>2, CancelHeld DEF CancelOrder
    <3>2. r.shipped = 0 /\ r.qty = Row(p).qty
      BY DEF WithShipped
    <3>3. Row(p).qty \in Nat
      BY <1>2, <3>1, RowsTyped
    <3>4. r.shipped <= r.qty
      BY <3>2, <3>3
    <3> HIDE DEF o, r
    <3> QED
      BY <1>2, <3>1, <3>2, <3>4, ExactMoved
  <2> QED
    BY <2>1, <2>2
<1> QED
  BY <1>3, <1>4, <1>5

\* A shipment that can be undone takes its whole quantity, or nothing was left
\* to take: without that, shipped_quantity would be reduced twice.
LEMMA ExactUndone ==
    ASSUME ExactInv, UNCHANGED scene, NEW p \in Session, NEW s \in ShipmentId,
           UndoShipment(p, s)
    PROVE  Exact'
<1> DEFINE o == shipment[s].order
           i == shipment[s].item
           r == WithShipped(order[o], order[o].status, order[o].shipped - i.qty)
<1>1. FulfilmentInv
  BY DEF ExactInv, CurrentInv
<1>2. /\ At(p, "idle") /\ shipment[s].row = "active" /\ order[o].shipped >= i.qty
      /\ Update(o, r) /\ scene[p] # {} /\ ~Without({"undo"})
  BY DEF UndoShipment, Without
<1>3. /\ OthersHeld(o)
      /\ HeldBy(full', shipment', o) = HeldBy(full, shipment, o) - Taking(i)
  BY <1>1, UndoHeld
<1>4. /\ o \in OrderId /\ i \in Movement /\ i.qty \in Nat
      /\ order[o].shipped \in Nat /\ order[o].qty \in Nat
  BY <1>1, RowsTyped DEF FulfilmentInv, TypeOK
<1>5. r.shipped = order[o].shipped - i.qty /\ r.qty = order[o].qty
  BY DEF WithShipped
<1>6. ASSUME OneAtATime, Without({"crash"}) \/ Without({"undo"}),
             order[o].shipped = HeldBy(full, shipment, o)
      PROVE  Taking(i) = i.qty
  <2>1. Empties(session[p], order, full, shipment) /\ session[p] = Idle
    BY <1>2, <1>6, Alone DEF ExactInv, Emptied, CurrentInv, Current, UpToDate, At
  <2>2. ~ShipsOut(Idle, o) /\ ~Cancels(Idle, o)
    BY DEF ShipsOut, Cancels, Idle, Holds
  <2>3. CASE i.state = "reversed"
    <3>1. order[o].status = "CANCELLED"
      BY <1>2, <2>1, <2>2, <2>3 DEF Empties
    <3>2. HeldBy(full, shipment, o) = 0
      BY <1>4, <2>1, <2>2, <3>1 DEF Empties
    <3> QED
      BY <1>2, <1>4, <1>6, <2>3, <3>2 DEF Taking
  <2>4. CASE i.state = "none"
    BY <2>4 DEF ExactInv, NoneTakesNone, Taking
  <2>5. i.state \in {"none", "active", "reversed"}
    BY <1>4 DEF Movement
  <2> QED
    BY <2>3, <2>4, <2>5 DEF Taking
<1> HIDE DEF o, i, r
<1>7. ASSUME OneAtATime, Without({"crash"}) \/ Without({"undo"}),
             order[o].shipped = HeldBy(full, shipment, o)
      PROVE  /\ r.shipped = HeldBy(full', shipment', o)
             /\ order[o].shipped <= order[o].qty => r.shipped <= r.qty
  <2>1. Taking(i) = i.qty
    BY <1>6, <1>7
  <2> QED
    BY <1>3, <1>4, <1>5, <1>7, <2>1
<1> QED
  BY <1>2, <1>3, <1>4, <1>7, ExactMoved

\* Every step keeps shipped_quantity what the movements hold.
LEMMA ExactStep == ExactInv /\ [Next]_vars => Exact'
<1> SUFFICES ASSUME ExactInv, [Next]_vars PROVE Exact'
  OBVIOUS
<1>1. CASE UNCHANGED vars
  BY <1>1 DEF vars, ExactInv, Exact, Exacts, OneAtATime, Without, HeldBy, PartsOf
<1>2. ASSUME UNCHANGED scene, NEW p \in Session, Ask(p) \/ Handle(p) \/ Proceed(p)
      PROVE  Exact'
  <2>1. FulfilmentInv
    BY DEF ExactInv, CurrentInv
  <2>2. CASE IssueFull(p) \/ CommitPartial(p) \/ CancelOrder(p)
    BY <1>2, <2>2, ExactIssues
  <2>3. CASE \E s \in ShipmentId : UndoShipment(p, s)
    BY <1>2, <2>3, ExactUndone
  <2>4. CASE /\ ~IssueFull(p) /\ ~CommitPartial(p) /\ ~CancelOrder(p)
             /\ \A s \in ShipmentId : ~UndoShipment(p, s)
    <3>1. SameHeld
      BY <1>2, <2>1, <2>4, StepHeld
    <3>2. \/ UNCHANGED order
          \/ \E o \in OrderId : EraseOrder(p, o) \/ RetireOrder(p, o)
          \/ CloseIfPaid(p) \/ ClosePaid(p) \/ CommitPay(p) \/ WriteOrder(p)
          \/ CommitModify(p) \/ EditItem(p)
      BY <1>2, <2>4 DEF Ask, Handle, Proceed, AskStatus, AskPartial, AskModify, AskEdit, AskPay,
         CreateShipment, AskShipment, DeliverShipment, EraseShipment, Begin, Reserve, PickFull,
         IssueFullFails, Release, RowGone, PartialFails, SyncOrder, WriteShipment, Crash
    <3> QED
      BY <1>2, <3>1, <3>2, ExactWrites
  <2> QED
    BY <2>2, <2>3, <2>4
<1> QED
  BY <1>1, <1>2 DEF Next

\* What keeps Empties from one state to the next, for a request that was w and
\* is v.
Unshipped == {"DRAFT", "CONFIRMED", "CANCELLED"}
\* A step about one order keeps what the others hold.
LEMMA EmptiesKept ==
    ASSUME NEW w, NEW v, NEW t, NEW u, NEW f, NEW g, NEW sh, NEW th, Empties(w, t, f, sh),
           \A s \in ShipmentId : sh[s].order \in OrderId,
           v.shipment # 0 => th[v.shipment].row = "active",
           \A x \in OrderId : ShipsOut(w, x) => ShipsOut(v, x) \/ u[x].status \notin Unshipped,
           \A x \in OrderId : Cancels(w, x) => Cancels(v, x) \/ u[x].status = "CANCELLED",
           \A x \in OrderId : Cancels(v, x) => Cancels(w, x) \/ HeldBy(g, th, x) = 0,
           \A x \in OrderId : \/ u[x].status = t[x].status
                              \/ /\ t[x].status # "CANCELLED"
                                 /\ \/ u[x].status \notin Unshipped
                                    \/ t[x].status \in Unshipped
                                    \/ Cancels(w, x),
           \A x \in OrderId : \/ ShipsOut(v, x)
                              \/ u[x].status \notin Unshipped /\ ~Cancels(v, x)
                              \/ HeldBy(f, sh, x) = 0 => HeldBy(g, th, x) = 0,
           \A s \in ShipmentId : th[s].row = "active" /\ th[s].item.state = "reversed" =>
             \/ /\ sh[s].row = "active" /\ sh[s].item.state = "reversed"
                /\ th[s].order = sh[s].order
             \/ Cancels(v, th[s].order)
    PROVE  Empties(v, u, g, th)
<1>1. \A x \in OrderId : ~(ShipsOut(v, x) /\ Cancels(v, x))
  BY DEF ShipsOut, Cancels
<1>2. \A x \in OrderId : /\ t[x].status \in Unshipped => HeldBy(f, sh, x) = 0 \/ ShipsOut(w, x)
                         /\ Cancels(w, x) => HeldBy(f, sh, x) = 0
  BY DEF Empties, Unshipped
<1>3. \A s \in ShipmentId : sh[s].row = "active" /\ sh[s].item.state = "reversed"
        => t[sh[s].order].status = "CANCELLED" \/ Cancels(w, sh[s].order)
  BY DEF Empties
<1>4. ASSUME NEW x \in OrderId, Cancels(v, x) PROVE HeldBy(g, th, x) = 0
  BY <1>1, <1>2, <1>4
<1>5. ASSUME NEW x \in OrderId, u[x].status \in Unshipped
      PROVE  HeldBy(g, th, x) = 0 \/ ShipsOut(v, x)
  BY <1>2, <1>5
<1>6. ASSUME NEW s \in ShipmentId, th[s].row = "active", th[s].item.state = "reversed"
      PROVE  u[th[s].order].status = "CANCELLED" \/ Cancels(v, th[s].order)
  BY <1>3, <1>6
<1> QED
  BY <1>4, <1>5, <1>6 DEF Empties, Unshipped

Serial(p) == Only(p) /\ Without({"crash"}) /\ Empties(session[p], order, full, shipment)

\* Most steps give nothing out or back.
LEMMA EmptiedQuiet ==
    ASSUME ExactInv, UNCHANGED scene, NEW p \in Session, scene[p] # {}, SameHeld,
           \A s \in ShipmentId :
             shipment'[s].row = "active" /\ shipment'[s].item.state = "reversed"
               => /\ shipment[s].row = "active" /\ shipment[s].item.state = "reversed"
                  /\ shipment'[s].order = shipment[s].order,
           Serial(p) =>
             /\ \A x \in OrderId : \/ order'[x].status = order[x].status
                                   \/ /\ order[x].status # "CANCELLED"
                                      /\ order'[x].status \notin Unshipped
             /\ session'[p].shipment # 0 => shipment'[session'[p].shipment].row = "active"
             /\ \A x \in OrderId : /\ ShipsOut(session[p], x) => ShipsOut(session'[p], x)
                                   /\ Cancels(session[p], x) <=> Cancels(session'[p], x)
    PROVE  Emptied'
<1> SUFFICES ASSUME Serial(p) PROVE Empties(session'[p], order', full', shipment')
  BY EmptiedKept DEF Serial
<1> DEFINE v == session'[p]
           u == order'
           g == full'
           th == shipment'
<1>1. \A s \in ShipmentId : shipment[s].order \in OrderId
  BY RowsTyped DEF ExactInv, CurrentInv, FulfilmentInv, TypeOK
<1>2. \A x \in OrderId : HeldBy(g, th, x) = HeldBy(full, shipment, x)
  BY DEF SameHeld
<1>3. Empties(session[p], order, full, shipment)
  BY DEF Serial
<1>4. /\ \A x \in OrderId : \/ u[x].status = order[x].status
                            \/ order[x].status # "CANCELLED" /\ u[x].status \notin Unshipped
      /\ v.shipment # 0 => th[v.shipment].row = "active"
      /\ \A x \in OrderId : /\ ShipsOut(session[p], x) => ShipsOut(v, x)
                            /\ Cancels(session[p], x) <=> Cancels(v, x)
  OBVIOUS
<1>5. \A s \in ShipmentId : th[s].row = "active" /\ th[s].item.state = "reversed"
        => /\ shipment[s].row = "active" /\ shipment[s].item.state = "reversed"
           /\ th[s].order = shipment[s].order
  OBVIOUS
<1> HIDE DEF v, u, g, th
<1>6. Empties(v, u, g, th)
  BY <1>1, <1>2, <1>3, <1>4, <1>5, EmptiesKept
<1> QED
  BY <1>6 DEF v, u, g, th

\* A request that is not past its movements has neither shipped nor cancelled.
LEMMA QuietWork ==
    \A w, x : w.stage \notin {"releasing", "writing"} => ~ShipsOut(w, x) /\ ~Cancels(w, x)
BY DEF ShipsOut, Cancels

\* A request holds what the step gave it.
LEMMA WentTo ==
    ASSUME FulfilmentInv, NEW p \in Session, NEW w, Goto(p, w)
    PROVE  session'[p] = w
BY DEF Goto, FulfilmentInv, TypeOK

\* A request begins: it reads, and holds no shipment or one that is there.
LEMMA EmptiedBegun ==
    ASSUME ExactInv, UNCHANGED <<scene, order, full, shipment>>, NEW p \in Session,
           scene[p] # {}, At(p, "idle"), NEW w, Goto(p, w),
           w.stage \notin {"releasing", "writing"},
           w.shipment # 0 => shipment[w.shipment].row = "active"
    PROVE  Emptied'
<1>1. SameHeld
  BY UntouchedHeld
<1>2. session'[p] = w
  BY WentTo DEF ExactInv, CurrentInv
<1>3. \A x : /\ ~ShipsOut(session[p], x) /\ ~Cancels(session[p], x)
             /\ ~ShipsOut(w, x) /\ ~Cancels(w, x)
  BY QuietWork DEF At
<1> QED
  BY <1>1, <1>2, <1>3, EmptiedQuiet

\* The first reads of each entry point.
LEMMA FirstReadsEmptied ==
    ASSUME ExactInv, UNCHANGED scene, NEW p \in Session
    PROVE  /\ \A o, new : AskStatus(p, o, new) => Emptied'
           /\ \A o, q : AskPartial(p, o, q) \/ AskModify(p, o, q) \/ AskEdit(p, o, q) => Emptied'
           /\ \A o : AskPay(p, o) => Emptied'
           /\ \A s, status : AskShipment(p, s, status) => Emptied'
<1>1. \A o, new : AskStatus(p, o, new) => Emptied'
  BY EmptiedBegun, WorkRead DEF AskStatus
<1>2. \A o, q : AskPartial(p, o, q) => Emptied'
  BY EmptiedBegun, WorkRead DEF AskPartial
<1>3. \A o, q : AskModify(p, o, q) => Emptied'
  BY EmptiedBegun, WorkRead DEF AskModify
<1>4. \A o, q : AskEdit(p, o, q) => Emptied'
  BY EmptiedBegun, WorkRead DEF AskEdit
<1>5. \A o : AskPay(p, o) => Emptied'
  BY EmptiedBegun, WorkRead DEF AskPay
<1>6. \A s, status : AskShipment(p, s, status) => Emptied'
  BY EmptiedBegun, WorkRead DEF AskShipment
<1> QED
  BY <1>1, <1>2, <1>3, <1>4, <1>5, <1>6

\* The steps that leave the request as it is.
LEMMA RowsEmptied ==
    ASSUME ExactInv, UNCHANGED scene, NEW p \in Session, SameHeld
    PROVE  /\ \A o \in OrderId : CreateShipment(p, o) \/ EraseOrder(p, o) \/ RetireOrder(p, o)
                                   => Emptied'
           /\ \A s \in ShipmentId : DeliverShipment(p, s) \/ EraseShipment(p, s) => Emptied'
<1>1. /\ FulfilmentInv /\ CurrentInv /\ shipment \in [ShipmentId -> ShipmentRow]
      /\ session[p] \in Work
  BY DEF ExactInv, CurrentInv, FulfilmentInv, TypeOK
<1>2. session[p].shipment \in 0..Shipments
  BY <1>1 DEF Work
<1>3. session[p].shipment # 0 => session[p].shipment \in ShipmentId
  BY <1>2, Bounds
<1>4. Serial(p) /\ At(p, "idle") => session[p].shipment = 0
  BY <1>1, WorkRead DEF Serial, CurrentInv, Current, UpToDate, At
<1>5. Serial(p) /\ session[p].shipment # 0 => shipment[session[p].shipment].row = "active"
  BY DEF Serial, Empties
<1>6. ASSUME NEW o \in OrderId, CreateShipment(p, o) PROVE Emptied'
  <2>1. /\ \A s \in ShipmentId : \/ shipment'[s] = shipment[s]
                                 \/ shipment'[s].item = NoMovement
        /\ UNCHANGED <<order, session>> /\ At(p, "idle") /\ scene[p] # {}
    BY <1>1, <1>6 DEF CreateShipment
  <2>2. NoMovement.state = "none"
    BY DEF NoMovement
  <2> QED
    BY <1>4, <2>1, <2>2, EmptiedQuiet
<1>7. ASSUME NEW o \in OrderId, EraseOrder(p, o) PROVE Emptied'
  <2>1. PICK a : Update(o, WithRow(order[o], a))
    BY <1>7 DEF EraseOrder
  <2>2. \A x \in OrderId : order'[x].status = order[x].status
    BY <1>1, <2>1, Updated DEF WithRow
  <2>3. \A s \in ShipmentId : \/ shipment'[s] = shipment[s]
                              \/ shipment'[s].row = "erased"
    BY <1>1, <1>7 DEF EraseOrder, Dropped
  <2>4. UNCHANGED session /\ At(p, "idle") /\ scene[p] # {}
    BY <1>7 DEF EraseOrder
  <2> QED
    BY <1>4, <2>2, <2>3, <2>4, EmptiedQuiet
<1>8. ASSUME NEW o \in OrderId, RetireOrder(p, o) PROVE Emptied'
  <2>1. PICK a : Update(o, WithRow(order[o], a))
    BY <1>8 DEF RetireOrder
  <2>2. \A x \in OrderId : order'[x].status = order[x].status
    BY <1>1, <2>1, Updated DEF WithRow
  <2>3. UNCHANGED <<shipment, session>> /\ At(p, "idle") /\ scene[p] # {}
    BY <1>8 DEF RetireOrder
  <2> QED
    BY <1>4, <2>2, <2>3, EmptiedQuiet
<1>9. ASSUME NEW s \in ShipmentId, DeliverShipment(p, s) PROVE Emptied'
  <2>1. \A t \in ShipmentId : /\ shipment'[t].row = shipment[t].row
                              /\ shipment'[t].item = shipment[t].item
                              /\ shipment'[t].order = shipment[t].order
    BY <1>1, <1>9 DEF DeliverShipment, Sent
  <2>2. UNCHANGED <<order, session>> /\ ~At(p, "idle")
    BY <1>9 DEF DeliverShipment, At
  <2>3. scene[p] # {}
    BY <1>1, <2>2, InProgress
  <2> QED
    BY <1>3, <1>5, <2>1, <2>2, <2>3, EmptiedQuiet
<1>10. ASSUME NEW s \in ShipmentId, EraseShipment(p, s) PROVE Emptied'
  <2>1. \A t \in ShipmentId : \/ shipment'[t] = shipment[t]
                              \/ shipment'[t].row = "erased"
    BY <1>1, <1>10 DEF EraseShipment, Dropped
  <2>2. UNCHANGED <<order, session>> /\ At(p, "idle") /\ scene[p] # {}
    BY <1>10 DEF EraseShipment
  <2> QED
    BY <1>4, <2>1, <2>2, EmptiedQuiet
<1> QED
  BY <1>6, <1>7, <1>8, <1>9, <1>10

\* A request ends that had nothing to write.
LEMMA EmptiedDone ==
    ASSUME ExactInv, UNCHANGED scene, NEW p \in Session, SameHeld, Done(p),
           session[p].stage \notin {"idle", "releasing", "writing"},
           \A s \in ShipmentId :
             shipment'[s].row = "active" /\ shipment'[s].item.state = "reversed"
               => /\ shipment[s].row = "active" /\ shipment[s].item.state = "reversed"
                  /\ shipment'[s].order = shipment[s].order,
           Serial(p) =>
             \A x \in OrderId : \/ order'[x].status = order[x].status
                                \/ /\ order[x].status # "CANCELLED"
                                   /\ order'[x].status \notin Unshipped
    PROVE  Emptied'
<1>1. scene[p] # {}
  BY InProgress DEF ExactInv, At
<1>2. session'[p] = Idle
  BY WentTo DEF ExactInv, CurrentInv, Done
<1>3. \A x : /\ ~ShipsOut(session[p], x) /\ ~Cancels(session[p], x)
             /\ ~ShipsOut(Idle, x) /\ ~Cancels(Idle, x)
  BY QuietWork, WorkRead
<1> QED
  BY <1>1, <1>2, <1>3, WorkRead, EmptiedQuiet

\* A request goes on, with its shipment if it has one.
LEMMA EmptiedOn ==
    ASSUME ExactInv, UNCHANGED <<scene, full, shipment>>, NEW p \in Session, ~At(p, "idle"),
           NEW w, Goto(p, w), w.shipment = session[p].shipment,
           Serial(p) =>
             \A x \in OrderId : \/ order'[x].status = order[x].status
                                \/ /\ order[x].status # "CANCELLED"
                                   /\ order'[x].status \notin Unshipped,
           Serial(p) => \A x \in OrderId : /\ ShipsOut(session[p], x) => ShipsOut(w, x)
                                           /\ Cancels(session[p], x) <=> Cancels(w, x)
    PROVE  Emptied'
<1>1. scene[p] # {}
  BY InProgress DEF ExactInv
<1>2. session'[p] = w
  BY WentTo DEF ExactInv, CurrentInv
<1>3. SameHeld
  BY UntouchedHeld
<1>4. Serial(p) /\ session[p].shipment # 0 => shipment[session[p].shipment].row = "active"
  BY DEF Serial, Empties
<1> QED
  BY <1>1, <1>2, <1>3, <1>4, EmptiedQuiet

\* What the one request at a time knows of the row of its order.
LEMMA SerialFits ==
    ASSUME ExactInv, NEW p \in Session, Serial(p), ~At(p, "idle")
    PROVE  /\ Of(p) \in OrderId /\ Row(p) = order[Of(p)] /\ Row(p) \in OrderRow
           /\ session[p] \in Work /\ Fits(session[p], Row(p))
BY InProgress DEF Serial, ExactInv, Row

\* Nothing is done with a cancelled order.
LEMMA NoWayBack ==
    ASSUME NEW w, NEW r, Turns(w, r.status)
    PROVE  r.status # "CANCELLED"
BY DEF Turns, Allowed, Status

\* A written status that does not lead back among the unshipped ones.
LEMMA StatusesKept ==
    ASSUME FulfilmentInv, NEW o \in OrderId, NEW r, Update(o, r),
           \/ r.status = order[o].status
           \/ order[o].status # "CANCELLED" /\ r.status \notin Unshipped
    PROVE  \A x \in OrderId : \/ order'[x].status = order[x].status
                              \/ /\ order[x].status # "CANCELLED"
                                 /\ order'[x].status \notin Unshipped
BY Updated

\* Requests between two transactions.
LEMMA ProceedEmptied ==
    ASSUME ExactInv, UNCHANGED scene, NEW p \in Session
    PROVE  /\ Begin(p) => Emptied'
           /\ Reserve(p) => Emptied'
           /\ PickFull(p) => Emptied'
           /\ IssueFullFails(p) \/ PartialFails(p) => Emptied'
           /\ Release(p) => Emptied'
           /\ SyncOrder(p) => Emptied'
           /\ RowGone(p) => Emptied'
           /\ Crash(p) => Emptied'
<1> DEFINE w == session[p]
<1>1. ASSUME UNCHANGED order
      PROVE  \A x \in OrderId : order'[x].status = order[x].status
  BY <1>1
<1>2. \A stage, old, n : Then(w, stage, old, n).shipment = w.shipment
  BY WorkRead
<1>3. \A stage, old, n, x :
        LET v == Then(w, stage, old, n)
        IN  /\ Cancels(v, x) <=> w.order = x /\ stage = "writing" /\ w.new = "CANCELLED" /\ ~w.whole
            /\ ShipsOut(v, x) <=> w.order = x /\ stage \in {"releasing", "writing"}
                                  /\ w.new = "SHIPPED" /\ ~w.whole
  BY DEF Then, Cancels, ShipsOut
<1>4. ASSUME Begin(p) PROVE Emptied'
  <2> DEFINE c == Consequence(Row(p).status, w.new)
             v == Then(w, c, Row(p).status, 0)
  <2>1. /\ w.stage = "asked" /\ ~At(p, "idle") /\ Goto(p, v)
        /\ UNCHANGED <<order, full, shipment>>
    BY <1>4 DEF Begin, At
  <2>2. ASSUME Serial(p), NEW x PROVE ~Cancels(v, x)
    <3>1. SUFFICES ASSUME Cancels(v, x) PROVE FALSE
      OBVIOUS
    <3>2. c = "writing" /\ w.new = "CANCELLED" /\ ~w.whole
      BY <1>3, <3>1
    <3>3. Row(p).status = "CANCELLED"
      BY <3>2 DEF Consequence
    <3>4. Turns(w, Row(p).status)
      BY <2>1, <2>2, <3>2, SerialFits DEF Fits
    <3> QED
      BY <3>3, <3>4, NoWayBack
  <2>3. \A x : ~Cancels(w, x) /\ ~ShipsOut(w, x)
    BY <2>1, QuietWork
  <2>4. v.shipment = w.shipment
    BY <1>2
  <2> HIDE DEF v
  <2> QED
    BY <1>1, <2>1, <2>2, <2>3, <2>4, EmptiedOn
<1>5. ASSUME Reserve(p) PROVE Emptied'
  <2>1. /\ w.stage = "reserving" /\ ~At(p, "idle")
        /\ Goto(p, Then(w, "writing", w.old, w.amount)) /\ UNCHANGED <<order, full, shipment>>
    BY <1>5 DEF Reserve, At, Continue
  <2>2. Serial(p) => w.new = "CONFIRMED"
    BY <2>1, SerialFits DEF Fits, Consequences, Target
  <2>3. \A x : ~Cancels(w, x) /\ ~ShipsOut(w, x)
    BY <2>1, QuietWork
  <2> QED
    BY <1>1, <1>2, <1>3, <2>1, <2>2, <2>3, EmptiedOn
<1>6. ASSUME PickFull(p) PROVE Emptied'
  <2>1. w.stage = "shipping" /\ ~At(p, "idle") /\ UNCHANGED <<order, full, shipment>>
    BY <1>6 DEF PickFull, At
  <2>2. Serial(p) => w.new = "SHIPPED"
    BY <2>1, SerialFits DEF Fits, Consequences, Target
  <2>3. \A x : ~Cancels(w, x) /\ ~ShipsOut(w, x)
    BY <2>1, QuietWork
  <2>4. CASE Done(p)
    BY <1>1, <2>1, <2>4, UntouchedHeld, EmptiedDone
  <2>5. CASE \E stage, n : Goto(p, Then(w, stage, w.old, n))
    BY <1>1, <1>2, <1>3, <2>1, <2>2, <2>3, <2>5, EmptiedOn
  <2> QED
    BY <1>6, <2>4, <2>5 DEF PickFull, Continue
<1>7. ASSUME IssueFullFails(p) \/ PartialFails(p) PROVE Emptied'
  <2>1. /\ w.stage \in {"issuing", "picking"} /\ Done(p) /\ UNCHANGED <<order, full, shipment>>
    BY <1>7 DEF IssueFullFails, PartialFails, At
  <2> QED
    BY <1>1, <2>1, UntouchedHeld, EmptiedDone
<1>8. ASSUME Release(p) PROVE Emptied'
  <2>1. /\ w.stage = "releasing" /\ ~At(p, "idle")
        /\ Goto(p, Then(w, "writing", w.old, w.amount)) /\ UNCHANGED <<order, full, shipment>>
    BY <1>8 DEF Release, At, Continue
  <2>2. Serial(p) => w.new = "SHIPPED"
    BY <2>1, SerialFits DEF Fits, Consequences, Target
  <2>3. \A x : ~Cancels(w, x)
    BY <2>1 DEF Cancels
  <2>4. \A x : ShipsOut(w, x) => ShipsOut(Then(w, "writing", w.old, w.amount), x)
    BY <1>3 DEF ShipsOut
  <2> QED
    BY <1>1, <1>2, <1>3, <2>1, <2>2, <2>3, <2>4, EmptiedOn
<1>9. ASSUME SyncOrder(p) PROVE Emptied'
  <2>1. PICK stage \in {"asked", "sending"} : Continue(p, stage)
    BY <1>9 DEF SyncOrder
  <2>2. w.stage = "updating" /\ ~At(p, "idle") /\ UNCHANGED <<order, full, shipment>>
    BY <1>9 DEF SyncOrder, At
  <2>3. \A x : ~Cancels(w, x) /\ ~ShipsOut(w, x)
    BY <2>2, QuietWork
  <2>4. Goto(p, Then(w, stage, w.old, w.amount)) /\ stage # "writing"
    BY <2>1 DEF Continue
  <2> QED
    BY <1>1, <1>2, <1>3, <2>2, <2>3, <2>4, EmptiedOn
<1>10. ASSUME RowGone(p) PROVE Emptied'
  <2>1. Of(p) # 0 /\ ~Present(p)
    BY <1>10 DEF RowGone
  <2>2. (scene[p] # {} /\ ~At(p, "idle")) \/ ~Only(p)
    BY <2>1, Mover DEF ExactInv, CurrentInv, Current, UpToDate, At, Of, Idle, Holds
  <2>3. scene[p] # {}
    BY <2>1, Mover DEF ExactInv, CurrentInv
  <2>4. ASSUME Serial(p) PROVE FALSE
    <3>1. Fits(session[p], Row(p))
      BY <2>2, <2>4, SerialFits DEF Serial
    <3> QED
      BY <2>1, <3>1 DEF Fits, Present
  <2> QED
    BY <2>3, <2>4, EmptiedKept DEF Serial
<1>11. ASSUME Crash(p) PROVE Emptied'
  BY <1>11, EmptiedKept DEF Crash, Without
<1> QED
  BY <1>4, <1>5, <1>6, <1>7, <1>8, <1>9, <1>10, <1>11

\* The writes that leave every movement as it is.
LEMMA WritesEmptied ==
    ASSUME ExactInv, UNCHANGED scene, NEW p \in Session
    PROVE  /\ CloseIfPaid(p) => Emptied'
           /\ ClosePaid(p) => Emptied'
           /\ CommitPay(p) => Emptied'
           /\ EditItem(p) => Emptied'
           /\ CommitModify(p) => Emptied'
           /\ WriteShipment(p) => Emptied'
<1> DEFINE w == session[p]
<1>1. FulfilmentInv /\ CurrentInv
  BY DEF ExactInv, CurrentInv
<1>2. ASSUME Present(p) PROVE Of(p) \in OrderId /\ Row(p) = order[Of(p)]
  BY <1>1, <1>2, PresentTyped DEF FulfilmentInv, Row
<1>3. \A stage, old, n : Then(w, stage, old, n).shipment = w.shipment
  BY WorkRead
<1>4. \A stage, old, n, x :
        LET v == Then(w, stage, old, n)
        IN  /\ Cancels(v, x) <=> w.order = x /\ stage = "writing" /\ w.new = "CANCELLED" /\ ~w.whole
            /\ ShipsOut(v, x) <=> w.order = x /\ stage \in {"releasing", "writing"}
                                  /\ w.new = "SHIPPED" /\ ~w.whole
  BY DEF Then, Cancels, ShipsOut
<1>5. ASSUME CloseIfPaid(p) PROVE Emptied'
  <2> DEFINE r == WithStatus(Row(p), "CLOSED")
             v == Then(w, "writing", w.old, w.amount)
  <2>1. /\ w.stage = "delivering" /\ ~At(p, "idle") /\ Present(p) /\ Goto(p, v)
        /\ UNCHANGED <<full, shipment>> /\ (UNCHANGED order \/ Update(Of(p), r))
    BY <1>5 DEF CloseIfPaid, At, Continue
  <2>2. ASSUME Serial(p) PROVE w.new = "DELIVERED" /\ Row(p).status # "CANCELLED"
    <3>1. Turns(w, Row(p).status) /\ w.new = "DELIVERED"
      BY <2>1, <2>2, SerialFits DEF Fits, Consequences, Target
    <3> QED
      BY <3>1, NoWayBack
  <2>3. r.status = "CLOSED" /\ "CLOSED" \notin Unshipped
    BY DEF WithStatus, Unshipped
  <2> HIDE DEF r
  <2>4. Serial(p) => \A x \in OrderId : \/ order'[x].status = order[x].status
                                        \/ /\ order[x].status # "CANCELLED"
                                           /\ order'[x].status \notin Unshipped
    BY <1>1, <1>2, <2>1, <2>2, <2>3, StatusesKept
  <2>5. \A x : ~Cancels(w, x) /\ ~ShipsOut(w, x)
    BY <2>1, QuietWork
  <2>6. v.shipment = w.shipment /\ \A x : Cancels(v, x) => w.new = "CANCELLED"
    BY <1>3, <1>4
  <2> HIDE DEF v
  <2> QED
    BY <2>1, <2>2, <2>4, <2>5, <2>6, EmptiedOn
<1>6. ASSUME ClosePaid(p) PROVE Emptied'
  <2> DEFINE r == WithStatus(Row(p), "CLOSED")
  <2>1. /\ w.stage = "closing" /\ ~At(p, "idle") /\ Present(p) /\ Done(p)
        /\ UNCHANGED <<full, shipment>>
        /\ UNCHANGED order \/ (Update(Of(p), r) /\ w.copy.status = "DELIVERED")
    BY <1>6 DEF ClosePaid, At
  <2>2. Serial(p) => w.copy.status = Row(p).status
    BY <2>1, SerialFits DEF Fits
  <2>3. r.status = "CLOSED" /\ "CLOSED" \notin Unshipped
    BY DEF WithStatus, Unshipped
  <2> HIDE DEF r
  <2>4. Serial(p) => \A x \in OrderId : \/ order'[x].status = order[x].status
                                        \/ /\ order[x].status # "CANCELLED"
                                           /\ order'[x].status \notin Unshipped
    BY <1>1, <1>2, <2>1, <2>2, <2>3, StatusesKept
  <2> QED
    BY <2>1, <2>4, UntouchedHeld, EmptiedDone
<1>7. ASSUME CommitPay(p) PROVE Emptied'
  <2> DEFINE r == [row |-> Row(p).row, status |-> Row(p).status, qty |-> Row(p).qty,
                   shipped |-> Row(p).shipped, paid |-> TRUE]
  <2>1. /\ w.stage = "paying" /\ ~At(p, "idle") /\ Present(p) /\ Update(Of(p), r)
        /\ UNCHANGED <<full, shipment>>
        /\ Done(p) \/ Goto(p, Then(w, "closing", w.old, w.amount))
    BY <1>7 DEF CommitPay, At, Continue
  <2>2. r.status = Row(p).status
    OBVIOUS
  <2> HIDE DEF r
  <2>3. \A x \in OrderId : \/ order'[x].status = order[x].status
                           \/ /\ order[x].status # "CANCELLED"
                              /\ order'[x].status \notin Unshipped
    BY <1>1, <1>2, <2>1, <2>2, StatusesKept
  <2>4. \A x : ~Cancels(w, x) /\ ~ShipsOut(w, x)
    BY <2>1, QuietWork
  <2>5. CASE Done(p)
    BY <2>1, <2>3, <2>5, UntouchedHeld, EmptiedDone
  <2>6. CASE Goto(p, Then(w, "closing", w.old, w.amount))
    BY <1>3, <1>4, <2>1, <2>3, <2>4, <2>6, EmptiedOn
  <2> QED
    BY <2>1, <2>5, <2>6
<1>8. ASSUME EditItem(p) PROVE Emptied'
  <2> DEFINE r == [row |-> Row(p).row, status |-> Row(p).status, qty |-> w.edit,
                   shipped |-> w.copy.shipped, paid |-> Row(p).paid]
             v == WithEdit(Then(w, "asked", w.old, 0), 0)
  <2>1. /\ w.stage = "editing" /\ ~At(p, "idle") /\ Present(p) /\ Update(Of(p), r)
        /\ UNCHANGED <<full, shipment>> /\ Goto(p, v)
    BY <1>8 DEF EditItem, At, Of
  <2>2. r.status = Row(p).status
    OBVIOUS
  <2> HIDE DEF r
  <2>3. \A x \in OrderId : \/ order'[x].status = order[x].status
                           \/ /\ order[x].status # "CANCELLED"
                              /\ order'[x].status \notin Unshipped
    BY <1>1, <1>2, <2>1, <2>2, StatusesKept
  <2>4. v.stage = "asked" /\ v.shipment = w.shipment
    BY WorkRead
  <2>5. \A x : ~Cancels(w, x) /\ ~ShipsOut(w, x) /\ ~Cancels(v, x)
    BY <2>1, <2>4, QuietWork
  <2> HIDE DEF v
  <2> QED
    BY <2>1, <2>3, <2>4, <2>5, EmptiedOn
<1>9. ASSUME CommitModify(p) PROVE Emptied'
  <2> DEFINE r == [row |-> w.copy.row, status |-> w.copy.status, qty |-> w.edit,
                   shipped |-> w.copy.shipped, paid |-> w.copy.paid]
  <2>1. /\ w.stage = "modifying" /\ ~At(p, "idle") /\ Present(p) /\ Update(Of(p), r)
        /\ UNCHANGED <<full, shipment>> /\ Done(p)
    BY <1>9 DEF CommitModify, At, Of
  <2>2. Serial(p) => w.copy.status = Row(p).status
    BY <2>1, SerialFits DEF Fits
  <2>3. r.status = w.copy.status
    OBVIOUS
  <2> HIDE DEF r
  <2>4. Serial(p) => \A x \in OrderId : \/ order'[x].status = order[x].status
                                        \/ /\ order[x].status # "CANCELLED"
                                           /\ order'[x].status \notin Unshipped
    BY <1>1, <1>2, <2>1, <2>2, <2>3, StatusesKept
  <2> QED
    BY <2>1, <2>4, UntouchedHeld, EmptiedDone
<1>10. ASSUME WriteShipment(p) PROVE Emptied'
  <2>1. w.stage = "sending" /\ ~At(p, "idle") /\ UNCHANGED order /\ Done(p) /\ SameHeld
    BY <1>1, <1>10, ShipmentRowsHeld DEF WriteShipment, At
  <2>2. /\ shipment \in [ShipmentId -> ShipmentRow]
        /\ shipment' = [shipment EXCEPT ![w.shipment] =
                          Sent(Dropped(shipment[w.shipment], "active"), w.sent)]
    BY <1>1, <1>10 DEF WriteShipment, FulfilmentInv, TypeOK
  <2>3. \A r, a, status : LET d == Sent(Dropped(r, a), status)
                          IN  d.row = a /\ d.order = r.order /\ d.item = r.item
    BY DEF Sent, Dropped
  <2>4. CASE Serial(p) /\ w.shipment # 0
    <3>1. shipment[w.shipment].row = "active"
      BY <2>4 DEF Serial, Empties
    <3>2. \A s \in ShipmentId : /\ shipment'[s].row = shipment[s].row
                                /\ shipment'[s].order = shipment[s].order
                                /\ shipment'[s].item = shipment[s].item
      BY <2>2, <2>3, <3>1
    <3> QED
      BY <2>1, <3>2, EmptiedDone
  <2>5. CASE w.shipment \notin ShipmentId
    BY <2>1, <2>2, <2>5, EmptiedDone
  <2>6. CASE ~Serial(p)
    <3>1. scene[p] # {}
      BY <1>1, <2>1, InProgress
    <3> QED
      BY <2>6, <3>1, EmptiedKept DEF Serial
  <2>7. 0 \notin ShipmentId
    BY Bounds
  <2> QED
    BY <2>4, <2>5, <2>6, <2>7
<1> QED
  BY <1>5, <1>6, <1>7, <1>8, <1>9, <1>10

\* A step of a request on one order, whose movements it may change.
LEMMA EmptiedByRow ==
    ASSUME ExactInv, UNCHANGED scene, NEW p \in Session, scene[p] # {}, Of(p) \in OrderId,
           NEW r, Update(Of(p), r), NEW v, Goto(p, v), OthersHeld(Of(p)),
           v.stage # "idle" => v.order = Of(p),
           \A s \in ShipmentId : shipment'[s].order = shipment[s].order
                                 \/ shipment'[s].item.state # "reversed",
           Serial(p) =>
             /\ v.shipment # 0 => shipment'[v.shipment].row = "active"
             /\ ShipsOut(session[p], Of(p)) => ShipsOut(v, Of(p)) \/ r.status \notin Unshipped
             /\ Cancels(session[p], Of(p)) => Cancels(v, Of(p)) \/ r.status = "CANCELLED"
             /\ Cancels(v, Of(p)) => Cancels(session[p], Of(p))
                                     \/ HeldBy(full', shipment', Of(p)) = 0
             /\ \/ r.status = order[Of(p)].status
                \/ /\ order[Of(p)].status # "CANCELLED"
                   /\ \/ r.status \notin Unshipped
                      \/ order[Of(p)].status \in Unshipped
                      \/ Cancels(session[p], Of(p))
             /\ \/ ShipsOut(v, Of(p))
                \/ r.status \notin Unshipped /\ ~Cancels(v, Of(p))
                \/ HeldBy(full, shipment, Of(p)) = 0 => HeldBy(full', shipment', Of(p)) = 0
             /\ \A s \in ShipmentId :
                  shipment'[s].row = "active" /\ shipment'[s].item.state = "reversed" =>
                    \/ shipment[s].row = "active" /\ shipment[s].item.state = "reversed"
                    \/ Cancels(v, shipment'[s].order)
    PROVE  Emptied'
<1> SUFFICES ASSUME Serial(p) PROVE Empties(session'[p], order', full', shipment')
  BY EmptiedKept DEF Serial
<1> DEFINE o == Of(p)
           w == session[p]
           u == order'
           g == full'
           th == shipment'
<1>1. \A s \in ShipmentId : shipment[s].order \in OrderId
  BY RowsTyped DEF ExactInv, CurrentInv, FulfilmentInv, TypeOK
<1>2. Empties(w, order, full, shipment)
  BY DEF Serial
<1>3. session'[p] = v
  BY WentTo DEF ExactInv, CurrentInv
<1>4. u[o] = r /\ \A x \in OrderId \ {o} : u[x] = order[x]
  BY Updated DEF ExactInv, CurrentInv
<1>5. \A x \in OrderId \ {o} : HeldBy(g, th, x) = HeldBy(full, shipment, x)
  BY DEF OthersHeld
<1>6. \A x \in OrderId \ {o} : /\ ~ShipsOut(w, x) /\ ~Cancels(w, x)
                               /\ ~ShipsOut(v, x) /\ ~Cancels(v, x)
  BY DEF ShipsOut, Cancels, Of
<1>7. v.shipment # 0 => th[v.shipment].row = "active"
  OBVIOUS
<1>8. /\ ShipsOut(w, o) => ShipsOut(v, o) \/ r.status \notin Unshipped
      /\ Cancels(w, o) => Cancels(v, o) \/ r.status = "CANCELLED"
      /\ Cancels(v, o) => Cancels(w, o) \/ HeldBy(g, th, o) = 0
      /\ \/ r.status = order[o].status
         \/ /\ order[o].status # "CANCELLED"
            /\ r.status \notin Unshipped \/ order[o].status \in Unshipped \/ Cancels(w, o)
      /\ \/ ShipsOut(v, o)
         \/ r.status \notin Unshipped /\ ~Cancels(v, o)
         \/ HeldBy(full, shipment, o) = 0 => HeldBy(g, th, o) = 0
  OBVIOUS
<1>9. \A s \in ShipmentId : th[s].row = "active" /\ th[s].item.state = "reversed" =>
        \/ /\ shipment[s].row = "active" /\ shipment[s].item.state = "reversed"
           /\ th[s].order = shipment[s].order
        \/ Cancels(v, th[s].order)
  OBVIOUS
<1> HIDE DEF o, w, u, g, th
<1>10. \A x \in OrderId : ShipsOut(w, x) => ShipsOut(v, x) \/ u[x].status \notin Unshipped
  BY <1>4, <1>6, <1>8
<1>11. \A x \in OrderId : Cancels(w, x) => Cancels(v, x) \/ u[x].status = "CANCELLED"
  BY <1>4, <1>6, <1>8
<1>12. \A x \in OrderId : Cancels(v, x) => Cancels(w, x) \/ HeldBy(g, th, x) = 0
  BY <1>4, <1>6, <1>8
<1>13. \A x \in OrderId : \/ u[x].status = order[x].status
                          \/ /\ order[x].status # "CANCELLED"
                             /\ \/ u[x].status \notin Unshipped
                                \/ order[x].status \in Unshipped
                                \/ Cancels(w, x)
  BY <1>4, <1>6, <1>8
<1>14. \A x \in OrderId : \/ ShipsOut(v, x)
                          \/ u[x].status \notin Unshipped /\ ~Cancels(v, x)
                          \/ HeldBy(full, shipment, x) = 0 => HeldBy(g, th, x) = 0
  BY <1>4, <1>5, <1>8
<1>15. Empties(w, order, full, shipment) => Empties(v, u, g, th)
  BY <1>1, <1>7, <1>9, <1>10, <1>11, <1>12, <1>13, <1>14, EmptiesKept
<1> QED
  BY <1>2, <1>3, <1>15 DEF o, w, u, g, th

\* The write of a status, which ends a shipment or a cancellation.
LEMMA StatusWrittenEmptied ==
    ASSUME ExactInv, UNCHANGED scene, NEW p \in Session, WriteOrder(p)
    PROVE  Emptied'
<1> DEFINE o == Of(p)
           w == session[p]
           r == IF w.whole
                THEN [row |-> w.copy.row, status |-> w.copy.status, qty |-> Row(p).qty,
                      shipped |-> Row(p).shipped, paid |-> w.copy.paid]
                ELSE WithStatus(Row(p), w.new)
<1>1. /\ w.stage = "writing" /\ ~At(p, "idle") /\ Present(p)
      /\ Update(o, r) /\ UNCHANGED <<full, shipment>>
  BY DEF WriteOrder, At, Of
<1>2. PICK v : /\ Goto(p, v) /\ v.stage \notin {"releasing", "writing"}
               /\ v.stage # "idle" => v.order = o
               /\ v.shipment # 0 => v.shipment = w.shipment
  <2>1. \A stage, old, n : LET v == Then(w, stage, old, n)
                           IN  v.order = o /\ v.stage = stage /\ v.shipment = w.shipment
    BY DEF Then, Of
  <2> QED
    BY <2>1, WorkRead DEF WriteOrder, Done, Continue
<1>3. o \in OrderId /\ Row(p) = order[o] /\ FulfilmentInv /\ scene[p] # {}
  BY <1>1, PresentTyped, InProgress DEF ExactInv, CurrentInv, FulfilmentInv, Row
<1>4. SameHeld
  BY <1>1, UntouchedHeld
<1>5. r.status = IF w.whole THEN w.copy.status ELSE w.new
  BY DEF WithStatus
<1> HIDE DEF r
<1>6. ASSUME Serial(p)
      PROVE  /\ v.shipment # 0 => shipment'[v.shipment].row = "active"
             /\ ShipsOut(w, o) => r.status \notin Unshipped
             /\ Cancels(w, o) => r.status = "CANCELLED"
             /\ \/ r.status = order[o].status
                \/ /\ order[o].status # "CANCELLED"
                   /\ \/ r.status \notin Unshipped
                      \/ order[o].status \in Unshipped
                      \/ Cancels(w, o)
  <2>1. v.shipment # 0 => shipment'[v.shipment].row = "active"
    BY <1>1, <1>2, <1>6 DEF Serial, Empties
  <2>2. Fits(w, Row(p)) /\ w \in Work /\ Row(p) \in OrderRow
    BY <1>1, <1>6, SerialFits
  <2>3. CASE w.whole
    <3>1. w.copy.status = Row(p).status
      BY <2>2, <2>3 DEF Fits
    <3> QED
      BY <1>3, <1>5, <2>1, <2>3, <3>1 DEF ShipsOut, Cancels
  <2>4. CASE ~w.whole
    <3>1. \/ Turns(w, order[o].status)
          \/ w.new = "DELIVERED" /\ order[o].status = "CLOSED"
      BY <1>1, <1>3, <2>2, <2>4 DEF Fits
    <3>2. order[o].status # "CANCELLED"
      BY <3>1, NoWayBack
    <3>3. "SHIPPED" \notin Unshipped /\ "DELIVERED" \notin Unshipped
      BY DEF Unshipped
    <3>4. w.new \in Unshipped => order[o].status \in Unshipped \/ w.new = "CANCELLED"
      <4>0. order[o].status \in Status
        BY <1>3, <2>2, RowsTyped
      <4>1. w.new = "CONFIRMED" /\ Turns(w, order[o].status) => order[o].status = "DRAFT"
        BY <4>0, AllowedFacts DEF Turns
      <4>2. ~(w.new = "DRAFT" /\ Turns(w, order[o].status))
        BY <4>0, AllowedFacts DEF Turns
      <4> QED
        BY <3>1, <4>1, <4>2 DEF Unshipped
    <3>5. w.new = "CANCELLED" => Cancels(w, o)
      BY <1>1, <2>4 DEF Cancels, Of
    <3>6. r.status = w.new /\ (ShipsOut(w, o) => w.new = "SHIPPED")
          /\ (Cancels(w, o) => w.new = "CANCELLED")
      BY <1>5, <2>4 DEF ShipsOut, Cancels
    <3> QED
      BY <2>1, <3>2, <3>3, <3>4, <3>5, <3>6
  <2> QED
    BY <2>3, <2>4
<1>7. OthersHeld(o) /\ HeldBy(full', shipment', o) = HeldBy(full, shipment, o)
  BY <1>3, <1>4 DEF SameHeld, OthersHeld
<1>8. ~ShipsOut(v, o) /\ ~Cancels(v, o)
  BY <1>2, QuietWork
<1> HIDE DEF w, o
<1>9. \A s \in ShipmentId : shipment'[s] = shipment[s]
  BY <1>1
<1> QED
  BY <1>1, <1>2, <1>3, <1>6, <1>7, <1>8, <1>9, EmptiedByRow DEF w, o

\* A full shipment: its order may hold goods until SHIPPED is written.
LEMMA IssueFullEmptied ==
    ASSUME ExactInv, UNCHANGED scene, NEW p \in Session, IssueFull(p)
    PROVE  Emptied'
<1> DEFINE o == Of(p)
           w == session[p]
           r == WithShipped(Row(p), Row(p).status, Row(p).qty)
           v == Then(w, AfterShipping(p), w.old, w.amount)
<1>1. /\ w.stage = "issuing" /\ ~At(p, "idle") /\ Present(p)
      /\ Update(o, r) /\ UNCHANGED shipment /\ Goto(p, v)
  BY DEF IssueFull, At, Continue
<1>2. o \in OrderId /\ Row(p) = order[o] /\ FulfilmentInv /\ scene[p] # {}
  BY <1>1, PresentTyped, InProgress DEF ExactInv, CurrentInv, FulfilmentInv, Row
<1>3. OthersHeld(o)
  BY <1>2, IssueFullHeld
<1>4. r.status = order[o].status
  BY <1>2 DEF WithShipped
<1>5. v.order = o /\ v.shipment = w.shipment /\ v.stage = AfterShipping(p)
      /\ v.new = w.new /\ v.whole = w.whole /\ v.stage \in {"releasing", "writing"}
  BY DEF Then, Of, AfterShipping
<1>6. ~ShipsOut(w, o) /\ ~Cancels(w, o)
  BY <1>1, QuietWork
<1> HIDE DEF r, v
<1>7. ASSUME Serial(p)
      PROVE  /\ v.shipment # 0 => shipment'[v.shipment].row = "active"
             /\ ShipsOut(v, o) /\ ~Cancels(v, o)
  <2>1. v.shipment # 0 => shipment'[v.shipment].row = "active"
    BY <1>1, <1>5, <1>7 DEF Serial, Empties
  <2>2. w.new = "SHIPPED" /\ ~w.whole
    BY <1>1, <1>7, SerialFits DEF Fits, Consequences, Target
  <2> QED
    BY <1>5, <2>1, <2>2 DEF ShipsOut, Cancels
<1>8. \A s \in ShipmentId : shipment'[s] = shipment[s]
  BY <1>1
<1> QED
  BY <1>1, <1>2, <1>3, <1>4, <1>5, <1>6, <1>7, <1>8, EmptiedByRow

\* A partial shipment writes its status with its goods.
LEMMA CommitPartialEmptied ==
    ASSUME ExactInv, Exact', UNCHANGED scene, NEW p \in Session, CommitPartial(p)
    PROVE  Emptied'
<1> DEFINE o == Of(p)
           w == session[p]
           t == WithShipped(Row(p), Row(p).status, Row(p).shipped + w.amount)
           r == WithStatus(t, StatusAfter(t, w.copy.status))
<1>1. w.stage = "picking" /\ ~At(p, "idle") /\ Present(p) /\ Update(o, r) /\ Goto(p, Idle)
  BY DEF CommitPartial, At, Done
<1>2. /\ o \in OrderId /\ Row(p) = order[o] /\ FulfilmentInv /\ scene[p] # {}
      /\ Row(p) \in OrderRow /\ shipment \in [ShipmentId -> ShipmentRow]
  BY <1>1, PresentTyped, InProgress DEF ExactInv, CurrentInv, FulfilmentInv, TypeOK, Row
<1>3. OthersHeld(o)
  BY <1>2, CommitPartialHeld
<1>4. \A s \in ShipmentId : shipment'[s] = shipment[s] \/ shipment'[s].item.state = "active"
  BY <1>2 DEF CommitPartial
<1>5. ~ShipsOut(w, o) /\ ~Cancels(w, o) /\ ~Cancels(Idle, o) /\ Idle.stage = "idle"
      /\ Idle.shipment = 0
  BY <1>1, QuietWork, WorkRead
<1>6. /\ t.status = order[o].status /\ r.shipped = t.shipped
      /\ t.shipped = Row(p).shipped + w.amount /\ r.status = StatusAfter(t, w.copy.status)
  BY <1>2 DEF WithShipped, WithStatus
<1> HIDE DEF t, r
<1>7. ASSUME Serial(p)
      PROVE  /\ order[o].status # "CANCELLED"
             /\ r.status = order[o].status \/ r.status \notin Unshipped
             /\ r.status \notin Unshipped \/ HeldBy(full', shipment', o) = 0
  <2>1. Fits(w, Row(p)) /\ w \in Work
    BY <1>1, <1>7, SerialFits
  <2>2. /\ order[o].status \in {"CONFIRMED", "PARTIAL_SHIPPED"}
        /\ w.copy.status = order[o].status
    BY <1>1, <1>2, <2>1 DEF Fits
  <2>3. "PARTIAL_SHIPPED" \notin Unshipped /\ "SHIPPED" \notin Unshipped
    BY DEF Unshipped
  <2>4. r.status \in {"PARTIAL_SHIPPED", "SHIPPED"} \/ ~(t.shipped > 0)
    BY <1>6, <2>2 DEF StatusAfter
  <2>5. r.status = t.status \/ r.status \in {"PARTIAL_SHIPPED", "SHIPPED"}
    BY <1>6 DEF StatusAfter
  <2>6. t.shipped \in Nat
    BY <1>2, <1>6, <2>1, RowsTyped, WorkTyped, SMTT(60)
  <2>7. Exacts(order, full, shipment)' /\ OneAtATime
    BY <1>7 DEF Exact, OneAtATime, Without, Serial, Only
  <2>8. order'[o] = r
    BY <1>1, <1>2, Updated
  <2>9. HeldBy(full', shipment', o) = r.shipped
    BY <1>2, <2>7, <2>8 DEF Exacts
  <2> QED
    BY <1>6, <2>2, <2>3, <2>4, <2>5, <2>6, <2>9
<1> HIDE DEF o, w
<1> QED
  BY <1>1, <1>2, <1>3, <1>4, <1>5, <1>7, EmptiedByRow DEF o, w

\* A cancellation leaves its order without goods.
LEMMA CancelEmptied ==
    ASSUME ExactInv, UNCHANGED scene, NEW p \in Session, CancelOrder(p)
    PROVE  Emptied'
<1> DEFINE o == Of(p)
           w == session[p]
           v == Then(w, "writing", w.old, w.amount)
<1>1. w.stage = "cancelling" /\ ~At(p, "idle") /\ Present(p) /\ Goto(p, v)
  BY DEF CancelOrder, At, Continue
<1>2. /\ o \in OrderId /\ Row(p) = order[o] /\ FulfilmentInv /\ scene[p] # {}
      /\ Row(p) \in OrderRow /\ shipment \in [ShipmentId -> ShipmentRow]
      /\ order \in [OrderId -> OrderRow]
  BY <1>1, PresentTyped, InProgress DEF ExactInv, CurrentInv, FulfilmentInv, TypeOK, Row
<1>3. /\ v.order = o /\ v.shipment = w.shipment /\ v.stage = "writing"
      /\ v.new = w.new /\ v.whole = w.whole
  BY DEF Then, Of
<1>4. ~ShipsOut(w, o) /\ ~Cancels(w, o)
  BY <1>1, QuietWork
<1> HIDE DEF v
<1>5. ASSUME Serial(p)
      PROVE  /\ w.shipment # 0 => shipment[w.shipment].row = "active"
             /\ Cancels(v, o) /\ ~ShipsOut(v, o)
             /\ w.old = order[o].status /\ Turns(w, order[o].status) /\ w.new = "CANCELLED"
  <2>1. w.shipment # 0 => shipment[w.shipment].row = "active"
    BY <1>5 DEF Serial, Empties
  <2>2. /\ w.new = "CANCELLED" /\ ~w.whole /\ w.old = Row(p).status
        /\ Turns(w, Row(p).status)
    BY <1>1, <1>5, SerialFits DEF Fits, Consequences, Target
  <2> QED
    BY <1>2, <1>3, <2>1, <2>2 DEF ShipsOut, Cancels
<1>6. w.shipment \in 0..Shipments
  BY DEF ExactInv, CurrentInv, FulfilmentInv, TypeOK, Work
<1>7. w.shipment # 0 => w.shipment \in ShipmentId
  BY <1>6, Bounds
<1>8. CASE HasShipped(w.old)
  <2> DEFINE r == WithShipped(Row(p), Row(p).status, 0)
  <2>1. /\ Update(o, r)
        /\ shipment' = [s \in ShipmentId |->
             IF shipment[s].order = o
             THEN [row |-> shipment[s].row, order |-> o,
                   status |-> shipment[s].status, item |-> Undone(shipment[s].item)]
             ELSE shipment[s]]
    BY <1>8 DEF CancelOrder
  <2>2. /\ \A s \in ShipmentId : /\ shipment'[s].row = shipment[s].row
                                 /\ shipment'[s].order = shipment[s].order
                                 /\ shipment'[s] = shipment[s] \/ shipment[s].order = o
    BY <2>1
  <2>3. r.status = order[o].status
    BY <1>2 DEF WithShipped
  <2>4. OthersHeld(o) /\ HeldBy(full', shipment', o) = 0
    BY <1>2, <1>8, CancelHeld
  <2> HIDE DEF r
  <2>5. Serial(p) => \A s \in ShipmentId :
          shipment'[s].row = "active" /\ shipment'[s].item.state = "reversed" =>
            \/ shipment[s].row = "active" /\ shipment[s].item.state = "reversed"
            \/ Cancels(v, shipment'[s].order)
    BY <1>5, <2>2
  <2> QED
    BY <1>1, <1>2, <1>3, <1>4, <1>5, <1>7, <2>1, <2>2, <2>3, <2>4, <2>5, EmptiedByRow
<1>9. CASE ~HasShipped(w.old)
  <2>1. UNCHANGED <<full, shipment, order>>
    BY <1>9 DEF CancelOrder
  <2>2. Update(o, order[o])
    BY <1>2, <2>1 DEF Update
  <2>3. SameHeld
    BY <2>1, UntouchedHeld
  <2>4. OthersHeld(o) /\ HeldBy(full', shipment', o) = HeldBy(full, shipment, o)
    BY <1>2, <2>3 DEF OthersHeld, SameHeld
  <2>5. ASSUME Serial(p) PROVE HeldBy(full', shipment', o) = 0
    <3>1. order[o].status \in Status
      BY <1>2, RowsTyped
    <3>2. order[o].status \in {"DRAFT", "CONFIRMED", "PARTIAL_SHIPPED"}
      BY <1>5, <2>5, <3>1, AllowedFacts DEF Turns
    <3>3. order[o].status # "PARTIAL_SHIPPED"
      BY <1>5, <1>9, <2>5 DEF HasShipped
    <3> QED
      BY <1>2, <1>4, <2>4, <2>5, <3>2, <3>3 DEF Serial, Empties
  <2>6. \A s \in ShipmentId : shipment'[s] = shipment[s]
    BY <2>1
  <2> HIDE DEF o, w
  <2> QED
    BY <1>1, <1>2, <1>3, <1>4, <1>5, <1>7, <2>1, <2>2, <2>4, <2>5, <2>6, EmptiedByRow
       DEF o, w
<1> QED
  BY <1>8, <1>9

\* An undone shipment leaves its order with no more than it had.
LEMMA UndoEmptied ==
    ASSUME ExactInv, FulfilmentInv', UNCHANGED scene, NEW p \in Session, NEW s \in ShipmentId,
           UndoShipment(p, s)
    PROVE  Emptied'
<1> SUFFICES ASSUME Serial(p) PROVE Empties(session'[p], order', full', shipment')
  BY EmptiedKept DEF Serial, UndoShipment
<1> DEFINE o == shipment[s].order
           r == WithShipped(order[o], order[o].status, order[o].shipped - shipment[s].item.qty)
           u == order'
           g == full'
           th == shipment'
<1>1. FulfilmentInv /\ shipment \in [ShipmentId -> ShipmentRow]
      /\ \A t \in ShipmentId : shipment[t].order \in OrderId /\ shipment[t].item \in Movement
  BY RowsTyped DEF ExactInv, CurrentInv, FulfilmentInv, TypeOK
<1>2. session[p] = Idle /\ session' = session
  BY DEF UndoShipment, Serial, ExactInv, CurrentInv, Current, UpToDate, At
<1>3. \A x : ~ShipsOut(Idle, x) /\ ~Cancels(Idle, x)
  BY QuietWork, WorkRead
<1>4. \A x \in OrderId : u[x].status = order[x].status
  <2>1. Update(o, r) /\ r.status = order[o].status
    BY DEF UndoShipment, WithShipped
  <2> QED
    BY <1>1, <2>1, Updated
<1>5. \A t \in ShipmentId : th[t] = shipment[t] \/ th[t].row = "retired"
  BY <1>1 DEF UndoShipment
<1>6. ASSUME NEW x \in OrderId, HeldBy(full, shipment, x) = 0 PROVE HeldBy(g, th, x) = 0
  <2>1. HeldBy(g, th, x) \in Nat
    <3>1. Tables(g, th)
      BY DEF FulfilmentInv, TypeOK, Tables
    <3> HIDE DEF g, th
    <3> QED
      BY <3>1, HeldTyped
  <2>2. Taking(shipment[s].item) \in Nat
    BY <1>1, TakingTyped
  <2>3. /\ OthersHeld(o)
        /\ HeldBy(g, th, o) = HeldBy(full, shipment, o) - Taking(shipment[s].item)
    BY <1>1, UndoHeld
  <2>4. CASE x = o
    BY <1>6, <2>1, <2>2, <2>3, <2>4
  <2>5. CASE x # o
    BY <1>6, <2>3, <2>5 DEF OthersHeld
  <2> QED
    BY <2>4, <2>5
<1>7. Empties(Idle, order, full, shipment)
  BY <1>2 DEF Serial
<1> HIDE DEF o, r, u, g, th
<1>8. Empties(Idle, u, g, th)
  BY <1>1, <1>3, <1>4, <1>5, <1>6, <1>7, WorkRead, EmptiesKept
<1> QED
  BY <1>2, <1>8 DEF u, g, th

\* Every step keeps unshipped orders empty.
LEMMA EmptiedStep == ExactInv /\ FulfilmentInv' /\ Exact' /\ [Next]_vars => Emptied'
<1> SUFFICES ASSUME ExactInv, FulfilmentInv', Exact', [Next]_vars PROVE Emptied'
  OBVIOUS
<1>1. CASE UNCHANGED vars
  BY <1>1 DEF vars, ExactInv, Emptied, Empties, Only, Without, HeldBy, PartsOf
<1>2. FulfilmentInv
  BY DEF ExactInv, CurrentInv
<1>3. ASSUME UNCHANGED scene, NEW p \in Session, Ask(p) PROVE Emptied'
  <2>1. CASE \E o \in OrderId : CreateShipment(p, o) \/ EraseOrder(p, o) \/ RetireOrder(p, o)
    <3>1. SameHeld
      BY <1>2, <2>1, ShipmentRowsHeld, UntouchedHeld DEF RetireOrder
    <3> QED
      BY <1>3, <2>1, <3>1, RowsEmptied
  <2> QED
    BY <1>3, <2>1, FirstReadsEmptied DEF Ask
<1>4. ASSUME UNCHANGED scene, NEW p \in Session, Handle(p) PROVE Emptied'
  <2>1. CASE \E s \in ShipmentId : DeliverShipment(p, s) \/ EraseShipment(p, s)
    <3>1. SameHeld
      BY <1>2, <2>1, ShipmentRowsHeld
    <3> QED
      BY <1>4, <2>1, <3>1, RowsEmptied
  <2> QED
    BY <1>4, <2>1, FirstReadsEmptied, UndoEmptied DEF Handle
<1>5. ASSUME UNCHANGED scene, NEW p \in Session, Proceed(p) PROVE Emptied'
  BY <1>5, ProceedEmptied, WritesEmptied, StatusWrittenEmptied, IssueFullEmptied,
     CommitPartialEmptied, CancelEmptied DEF Proceed
<1> QED
  BY <1>1, <1>3, <1>4, <1>5 DEF Next

\* Every step keeps the invariant of one request at a time.
LEMMA ExactInvStep == ExactInv /\ [Next]_vars => ExactInv'
<1> SUFFICES ASSUME ExactInv, [Next]_vars PROVE ExactInv'
  OBVIOUS
<1>1. CurrentInv' /\ NoEdits' /\ NoneTakesNone' /\ FulfilmentInv'
  BY CurrentStep, NoEditsStep, NoneTakesStep, StepKeeps DEF ExactInv, CurrentInv
<1>2. Exact'
  BY ExactStep
<1>3. Emptied'
  BY <1>1, <1>2, EmptiedStep
<1> QED
  BY <1>1, <1>2, <1>3 DEF ExactInv

\* It holds at the start.
LEMMA InitExact == Init => ExactInv
<1> SUFFICES ASSUME Init PROVE ExactInv
  OBVIOUS
<1>1. CurrentInv
  BY InitCurrent
<1>2. NoEdits
  BY EditRead, WorkRead DEF Init, NoEdits
<1>3. \A s \in ShipmentId : shipment[s].item = NoMovement
  BY DEF Init, NoShipment, Dropped
<1>4. NoneTakesNone
  BY <1>3 DEF NoneTakesNone, NoMovement
<1>5. ASSUME NEW o \in OrderId PROVE HeldBy(full, shipment, o) = 0
  <2>1. Tables(full, shipment)
    BY <1>1, MovementTables DEF CurrentInv
  <2>2. PartsOf(shipment, o) \in [1..Shipments -> Int]
    BY <2>1, HeldTyped
  <2>3. \A s \in 1..Shipments : PartsOf(shipment, o)[s] = 0
    BY <1>3, Bounds DEF PartsOf, NoMovement, Taking
  <2>4. SumTo(PartsOf(shipment, o), Shipments) = 0
    BY <2>2, <2>3, Bounds, SumToZero
  <2>5. Taking(full[o]) = 0
    BY DEF Init, Taking, NoMovement
  <2> QED
    BY <2>4, <2>5 DEF HeldBy
<1>6. \A o \in OrderId : order[o].shipped = 0 /\ order[o].qty \in Nat
  BY Bounds DEF Init
<1>7. Exact
  BY <1>5, <1>6 DEF Exact, Exacts
<1>8. Emptied
  BY <1>3, <1>5, WorkRead, QuietWork DEF Emptied, Empties, Init, NoMovement
<1> QED
  BY <1>1, <1>2, <1>4, <1>7, <1>8 DEF ExactInv

\* So it always holds.
LEMMA ExactInvariant == Spec => []ExactInv
BY InitExact, ExactInvStep, PTL DEF Spec

\* When one request follows the other, shipped_quantity is what the movements of
\* the order hold, through every entry point; also where requests die between
\* their transactions, unless shipments are undone.  Unless its quantity is
\* edited after the fact, no order is issued more than it asked for.
THEOREM ShippedQuantityExact == Spec => []ShippedExact
<1>1. ExactInv => ShippedExact
  <2> SUFFICES ASSUME ExactInv, OneAtATime, Without({"crash"}) \/ Without({"undo"}),
                      NEW o \in OrderId
               PROVE  /\ order[o].shipped = Issued(o)
                      /\ Without({"edit"}) => Issued(o) <= order[o].qty
    BY DEF ShippedExact, ShippedIsIssued, NeverOverShipped
  <2> QED
    BY IssuedIsHeld DEF ExactInv, Exact, Exacts
<1> QED
  BY <1>1, ExactInvariant, PTL

\* When one request follows the other and none dies, a cancelled order holds no
\* goods, through whichever entry points it went.
THEOREM CancelledHoldsNothing == Spec => []CancelledEmpty
<1>1. ExactInv => CancelledEmpty
  <2> SUFFICES ASSUME ExactInv, OneAtATime, Without({"crash"}), NEW o \in OrderId,
                      order[o].status = "CANCELLED"
               PROVE  Issued(o) = 0
    BY DEF CancelledEmpty
  <2>1. PICK p \in Session : Only(p)
    BY DEF OneAtATime, Only
  <2>2. Empties(session[p], order, full, shipment)
    BY <2>1 DEF ExactInv, Emptied
  <2>3. ~ShipsOut(session[p], o)
    <3>1. SUFFICES ASSUME ShipsOut(session[p], o) PROVE FALSE
      OBVIOUS
    <3>2. /\ ~At(p, "idle") /\ Of(p) = o /\ session[p].new = "SHIPPED" /\ ~session[p].whole
          /\ session[p].stage \in {"releasing", "writing"}
      BY <3>1 DEF ShipsOut, At, Of
    <3>3. Fits(session[p], order[o])
      BY <2>1, <3>2, InProgress DEF ExactInv, Row
    <3>4. Turns(session[p], order[o].status)
      BY <3>2, <3>3 DEF Fits, Consequences
    <3> QED
      BY <3>4, NoWayBack
  <2>4. HeldBy(full, shipment, o) = 0
    BY <2>2, <2>3 DEF Empties
  <2> QED
    BY <2>4, IssuedIsHeld
<1> QED
  BY <1>1, ExactInvariant, PTL

-----------------------------------------------------------------------------
(* One request at a time: the reservation. *)

\* Orders are confirmed, modified, shipped whole, paid and cancelled, and no
\* request dies.
StatusScene == Without(EntryPoint \ {"status", "pay", "modify"})

Early == {"DRAFT", "CONFIRMED", "PARTIAL_SHIPPED"}
\* What a row still has to be shipped.
Out(r) == IF r.row = "active" /\ r.status \in {"CONFIRMED", "PARTIAL_SHIPPED"}
          THEN r.qty - r.shipped ELSE 0
\* Nothing of order o has been shipped, unless request w just has.
Awaits(w, o, r, m) ==
    IF ShipsOut(w, o) THEN r.shipped = r.qty
    ELSE r.status \in Early => r.shipped = 0 /\ m.state # "active"
\* How far reserved_stock is ahead of the status of the order r of request w.
Ahead(w, r) ==
    IF w.stage = "releasing" \/ (w.stage = "writing" /\ w.new = "CONFIRMED") THEN r.qty
    ELSE IF w.stage = "writing" /\ w.new = "CANCELLED" THEN 0 - Out(r)
    ELSE 0
\* A request of these entry points.
Modest(w) ==
    /\ w.stage \notin {"picking", "updating", "sending", "editing"}
    /\ w.whole <=> w.stage = "modifying"
    /\ w.shipment = 0
    /\ w.edit # 0 => w.stage = "modifying"

Reckons(w, t, f, n) ==
    /\ Modest(w)
    /\ w.stage # "idle" => t[w.order].row = "active"
    /\ \A o \in OrderId : Awaits(w, o, t[o], f[o])
    /\ n = SumTo([o \in OrderId |-> Out(t[o])], Orders) + Ahead(w, t[w.order])
Reckoned == StatusScene => \A p \in Session :
                Only(p) => Reckons(session[p], order, full, reserved)

ReservedInv == CurrentInv /\ Reckoned

\* Every order reserves a natural number, and no more than all of them.
LEMMA OutBound ==
    ASSUME NEW w, NEW t \in [OrderId -> OrderRow], NEW f, NEW n, Reckons(w, t, f, n)
    PROVE  /\ [o \in OrderId |-> Out(t[o])] \in [1..Orders -> Nat]
           /\ SumTo([o \in OrderId |-> Out(t[o])], Orders) \in Nat
           /\ \A o \in OrderId : /\ Out(t[o]) \in Nat
                                 /\ Out(t[o]) <= SumTo([x \in OrderId |-> Out(t[x])], Orders)
<1> DEFINE F == [o \in OrderId |-> Out(t[o])]
<1>1. ASSUME NEW o \in OrderId PROVE Out(t[o]) \in Nat
  <2>1. Awaits(w, o, t[o], f[o])
    BY DEF Reckons
  <2>2. t[o].qty \in Nat /\ t[o].shipped \in Nat
    BY RowsTyped
  <2> QED
    BY <2>1, <2>2 DEF Awaits, Out, Early
<1>2. F \in [1..Orders -> Nat] /\ OrderId = 1..Orders /\ Orders \in Nat /\ Orders \in 0..Orders
  BY <1>1, Bounds
<1>3. \A o \in OrderId : F[o] = Out(t[o])
  OBVIOUS
<1> HIDE DEF F
<1>4. /\ SumTo(F, Orders) \in Nat
      /\ \A o \in OrderId : F[o] <= SumTo(F, Orders)
  BY <1>2, SumToNat
<1> QED
  BY <1>1, <1>2, <1>3, <1>4 DEF F

\* A request changes one order: the reservation keeps its step with it.
LEMMA ReckonsKept ==
    ASSUME NEW w, NEW v, NEW t \in [OrderId -> OrderRow], NEW u \in [OrderId -> OrderRow],
           NEW f, NEW g, NEW n \in Nat, NEW m \in Nat, NEW o \in OrderId, Reckons(w, t, f, n),
           w.stage = "idle" \/ w.order = o, v.stage = "idle" \/ v.order = o,
           \A x \in OrderId \ {o} : u[x] = t[x] /\ g[x] = f[x],
           Modest(v), v.stage # "idle" => u[o].row = "active", Awaits(v, o, u[o], g[o]),
           m - Ahead(v, u[o]) - Out(u[o]) = n - Ahead(w, t[o]) - Out(t[o])
    PROVE  Reckons(v, u, g, m)
<1> DEFINE F == [x \in OrderId |-> Out(t[x])]
           G == [x \in OrderId |-> Out(u[x])]
<1>1. \A r \in OrderRow : Out(r) \in Int
  BY RowsTyped DEF Out
<1>2. \A r \in OrderRow : \A y : Ahead(y, r) \in Int
  BY <1>1, RowsTyped DEF Ahead
<1>3. /\ F \in [1..Orders -> Int] /\ G \in [1..Orders -> Int]
      /\ o \in 1..Orders /\ Orders \in Nat /\ Orders \in 0..Orders
      /\ F[o] = Out(t[o]) /\ G[o] = Out(u[o])
      /\ \A x \in 1..Orders \ {o} : G[x] = F[x]
  BY <1>1, Bounds
<1> HIDE DEF F, G
<1>4. G = [F EXCEPT ![o] = G[o]]
  BY <1>3
<1>5. SumTo(G, Orders) = SumTo(F, Orders) - F[o] + G[o]
  <2>1. G[o] \in Int /\ ~(Orders < o)
    BY <1>3
  <2>2. SumTo([F EXCEPT ![o] = G[o]], Orders)
          = IF Orders < o THEN SumTo(F, Orders) ELSE SumTo(F, Orders) - F[o] + G[o]
    BY <1>3, <2>1, SumToUpdate
  <2> QED
    BY <1>4, <2>1, <2>2
<1>6. SumTo(F, Orders) \in Int /\ SumTo(G, Orders) \in Int
  BY <1>3, SumToStep
<1>7. Ahead(w, t[w.order]) = Ahead(w, t[o]) /\ Ahead(v, u[v.order]) = Ahead(v, u[o])
  BY DEF Ahead
<1>8. n = SumTo(F, Orders) + Ahead(w, t[o])
  BY <1>7 DEF Reckons, F
<1>9. /\ Ahead(w, t[o]) \in Int /\ Ahead(v, u[o]) \in Int
      /\ Out(t[o]) \in Int /\ Out(u[o]) \in Int
  BY <1>1, <1>2
<1>10. m = SumTo(G, Orders) + Ahead(v, u[o])
  <2> DEFINE a == Ahead(w, t[o])
             b == Ahead(v, u[o])
             x == Out(t[o])
             y == Out(u[o])
             S == SumTo(F, Orders)
             T == SumTo(G, Orders)
  <2>1. /\ a \in Int /\ b \in Int /\ x \in Int /\ y \in Int /\ S \in Int /\ T \in Int
        /\ m \in Nat /\ n \in Nat /\ m - b - y = n - a - x /\ n = S + a /\ T = S - x + y
    BY <1>3, <1>5, <1>6, <1>8, <1>9
  <2> HIDE DEF a, b, x, y, S, T
  <2>2. m = T + b
    BY <2>1
  <2> QED
    BY <2>2 DEF T, b
<1>11. \A x \in OrderId \ {o} : ~ShipsOut(w, x) /\ ~ShipsOut(v, x)
  BY DEF ShipsOut
<1>12. \A x \in OrderId : Awaits(v, x, u[x], g[x])
  BY <1>11 DEF Reckons, Awaits
<1>13. v.stage # "idle" => u[v.order].row = "active"
  OBVIOUS
<1> QED
  BY <1>7, <1>10, <1>12, <1>13 DEF Reckons, G

\* The one request and its order, in such a scene.
LEMMA ReckonedKept ==
    ASSUME ReservedInv, UNCHANGED scene, NEW p \in Session, scene[p] # {},
           StatusScene /\ Only(p) /\ Reckons(session[p], order, full, reserved)
             => Reckons(session'[p], order', full', reserved')
    PROVE  Reckoned'
<1> SUFFICES ASSUME StatusScene', NEW q \in Session, Only(q)'
             PROVE  Reckons(session'[q], order', full', reserved')
  BY DEF Reckoned
<1>1. StatusScene /\ Only(q) /\ q = p
  BY DEF StatusScene, Without, Only
<1>2. Reckons(session[p], order, full, reserved)
  BY <1>1 DEF ReservedInv, Reckoned
<1> QED
  BY <1>1, <1>2

Reckoning(p) == StatusScene /\ Only(p) /\ Reckons(session[p], order, full, reserved)

\* A step of request p about order o that leaves v in progress.
LEMMA ReckonedBy ==
    ASSUME ReservedInv, FulfilmentInv', UNCHANGED scene, NEW p \in Session, scene[p] # {},
           NEW o \in OrderId, session[p].stage = "idle" \/ session[p].order = o,
           NEW v, Goto(p, v), v.stage = "idle" \/ v.order = o,
           \A x \in OrderId \ {o} : order'[x] = order[x] /\ full'[x] = full[x],
           Reckoning(p) =>
             /\ Modest(v)
             /\ v.stage # "idle" => order'[o].row = "active"
             /\ Awaits(v, o, order'[o], full'[o])
             /\ reserved' - Ahead(v, order'[o]) - Out(order'[o])
                  = reserved - Ahead(session[p], order[o]) - Out(order[o])
    PROVE  Reckoned'
<1> SUFFICES ASSUME Reckoning(p)
             PROVE  Reckons(session'[p], order', full', reserved')
  BY ReckonedKept DEF Reckoning
<1> DEFINE w == session[p]
           u == order'
           g == full'
           m == reserved'
<1>1. session'[p] = v
  BY WentTo DEF ReservedInv, CurrentInv
<1>2. /\ order \in [OrderId -> OrderRow] /\ u \in [OrderId -> OrderRow]
      /\ reserved \in Nat /\ m \in Nat
  BY DEF ReservedInv, CurrentInv, FulfilmentInv, TypeOK
<1>3. Reckons(w, order, full, reserved) /\ (w.stage = "idle" \/ w.order = o)
  BY DEF Reckoning
<1>4. /\ Modest(v)
      /\ v.stage # "idle" => u[o].row = "active"
      /\ Awaits(v, o, u[o], g[o])
      /\ m - Ahead(v, u[o]) - Out(u[o]) = reserved - Ahead(w, order[o]) - Out(order[o])
      /\ \A x \in OrderId \ {o} : u[x] = order[x] /\ g[x] = full[x]
  OBVIOUS
<1> HIDE DEF w, u, g, m
<1>5. Reckons(v, u, g, m)
  BY <1>2, <1>3, <1>4, ReckonsKept
<1> QED
  BY <1>1, <1>5 DEF u, g, m

\* What the one request in progress knows in such a scene.
LEMMA ReckonedWork ==
    ASSUME ReservedInv, NEW p \in Session, Reckoning(p), ~At(p, "idle")
    PROVE  /\ Of(p) \in OrderId /\ Row(p) = order[Of(p)] /\ Row(p) \in OrderRow
           /\ scene[p] # {} /\ session[p] \in Work /\ session[p].order = Of(p)
           /\ Fits(session[p], Row(p)) /\ Modest(session[p]) /\ Row(p).row = "active"
           /\ Awaits(session[p], Of(p), Row(p), full[Of(p)])
           /\ Row(p).qty \in Nat /\ Row(p).shipped \in Nat /\ Row(p).status \in Status
           /\ reserved \in Nat /\ Out(Row(p)) \in Nat
           /\ reserved - Ahead(session[p], Row(p)) >= Out(Row(p))
<1>1. /\ Of(p) \in OrderId /\ Row(p) = order[Of(p)] /\ Row(p) \in OrderRow
      /\ scene[p] # {} /\ session[p] \in Work /\ session[p].order = Of(p)
      /\ Fits(session[p], Row(p))
  BY InProgress DEF ReservedInv, Reckoning, Row, Of
<1>2. Row(p).qty \in Nat /\ Row(p).shipped \in Nat /\ Row(p).status \in Status
  BY <1>1, RowsTyped
<1>3. order \in [OrderId -> OrderRow] /\ reserved \in Nat
  BY DEF ReservedInv, CurrentInv, FulfilmentInv, TypeOK
<1>4. Reckons(session[p], order, full, reserved)
  BY DEF Reckoning
<1>5. /\ Modest(session[p]) /\ Row(p).row = "active"
      /\ Awaits(session[p], Of(p), Row(p), full[Of(p)])
  BY <1>1, <1>4 DEF Reckons, At
<1> DEFINE S == SumTo([x \in OrderId |-> Out(order[x])], Orders)
           a == Ahead(session[p], Row(p))
           b == Out(Row(p))
<1>6. S \in Nat /\ b \in Nat /\ b <= S
  BY <1>1, <1>3, <1>4, OutBound
<1>7. a \in Int
  BY <1>2, <1>6 DEF Ahead
<1>8. reserved = S + a
  BY <1>1, <1>4 DEF Reckons
<1> HIDE DEF S, a, b
<1>9. reserved - a >= b
  BY <1>6, <1>7, <1>8
<1> QED
  BY <1>1, <1>2, <1>3, <1>5, <1>6, <1>9 DEF a, b

\* The first reads of a request.
LEMMA ReckonedBegun ==
    ASSUME ReservedInv, FulfilmentInv', UNCHANGED scene, NEW p \in Session, NEW o \in OrderId
    PROVE  /\ \A new : AskStatus(p, o, new) => Reckoned'
           /\ \A q : AskPartial(p, o, q) \/ AskModify(p, o, q) \/ AskEdit(p, o, q) => Reckoned'
           /\ AskPay(p, o) => Reckoned'
           /\ CreateShipment(p, o) \/ EraseOrder(p, o) \/ RetireOrder(p, o) => Reckoned'
<1>1. ASSUME NEW v, Goto(p, v), v.order = o, v.stage \in {"asked", "paying", "modifying"},
             At(p, "idle"), Live(o), UNCHANGED <<order, full, reserved>>, scene[p] # {},
             Modest(v)
      PROVE  Reckoned'
  <2>1. ASSUME Reckoning(p) PROVE Awaits(v, o, order'[o], full'[o])
    <3>1. ~ShipsOut(v, o) /\ ~ShipsOut(session[p], o)
      BY <1>1, QuietWork DEF At
    <3> QED
      BY <1>1, <2>1, <3>1 DEF Reckoning, Reckons, Awaits
  <2>2. Ahead(v, order'[o]) = 0 /\ Ahead(session[p], order[o]) = 0
    BY <1>1 DEF Ahead, At
  <2>3. session[p].stage = "idle" /\ order'[o].row = "active"
    BY <1>1 DEF At, Live
  <2> QED
    BY <1>1, <2>1, <2>2, <2>3, ReckonedBy
<1>2. \A stage \in {"asked", "paying"} : \A new, r : Modest(Holds(stage, o, new, r, 0))
  BY DEF Modest, Holds
<1>3. \A new, r, q : Modest(WithEdit(Holds("modifying", o, new, r, 0), q))
  BY DEF Modest, Holds, WithEdit
<1>4. \A stage, new, r, q :
        LET v == Holds(stage, o, new, r, 0)
        IN  v.order = o /\ v.stage = stage /\ WithEdit(v, q).order = o
            /\ WithEdit(v, q).stage = stage
  BY DEF Holds, WithEdit
<1>5. ASSUME NEW new, AskStatus(p, o, new) PROVE Reckoned'
  BY <1>1, <1>2, <1>4, <1>5 DEF AskStatus
<1>6. ASSUME NEW q, AskModify(p, o, q) PROVE Reckoned'
  BY <1>1, <1>3, <1>4, <1>6 DEF AskModify
<1>7. ASSUME AskPay(p, o) PROVE Reckoned'
  BY <1>1, <1>2, <1>4, <1>7 DEF AskPay
<1>8. ASSUME scene[p] \cap (EntryPoint \ {"status", "pay", "modify"}) # {} PROVE Reckoned'
  <2>1. ~StatusScene'
    BY <1>8 DEF StatusScene, Without
  <2> QED
    BY <2>1 DEF Reckoned
<1>9. {"partial", "edit", "shipment", "erase", "retire"}
        \subseteq EntryPoint \ {"status", "pay", "modify"}
  BY DEF EntryPoint
<1>10. ASSUME NEW q, AskPartial(p, o, q) \/ AskEdit(p, o, q) PROVE Reckoned'
  BY <1>8, <1>9, <1>10 DEF AskPartial, AskEdit
<1>11. ASSUME CreateShipment(p, o) \/ EraseOrder(p, o) \/ RetireOrder(p, o) PROVE Reckoned'
  BY <1>8, <1>9, <1>11 DEF CreateShipment, EraseOrder, RetireOrder
<1> QED
  BY <1>5, <1>6, <1>7, <1>10, <1>11

\* The requests about shipments are not of this scene, or move nothing.
LEMMA ReckonedShipments ==
    ASSUME ReservedInv, FulfilmentInv', UNCHANGED scene, NEW p \in Session, Handle(p)
    PROVE  Reckoned'
<1>1. ASSUME scene[p] \cap (EntryPoint \ {"status", "pay", "modify"}) # {} PROVE Reckoned'
  <2>1. ~StatusScene'
    BY <1>1 DEF StatusScene, Without
  <2> QED
    BY <2>1 DEF Reckoned
<1>2. {"shipment", "erase", "undo"} \subseteq EntryPoint \ {"status", "pay", "modify"}
  BY DEF EntryPoint
<1>3. ASSUME NEW s \in ShipmentId, DeliverShipment(p, s) PROVE Reckoned'
  BY <1>3 DEF DeliverShipment, ReservedInv, Reckoned, StatusScene, Without, Only
<1>4. ASSUME NEW s \in ShipmentId, EraseShipment(p, s) \/ UndoShipment(p, s) PROVE Reckoned'
  BY <1>1, <1>2, <1>4 DEF EraseShipment, UndoShipment
<1>5. ASSUME NEW s \in ShipmentId, NEW status, AskShipment(p, s, status) PROVE Reckoned'
  BY <1>1, <1>2, <1>5 DEF AskShipment
<1> QED
  BY <1>3, <1>4, <1>5 DEF Handle

\* A request in progress goes on with v and leaves row r and movement m.
LEMMA ReckonedTurn ==
    ASSUME ReservedInv, FulfilmentInv', UNCHANGED scene, NEW p \in Session, ~At(p, "idle"),
           Present(p), NEW v, Goto(p, v), v.stage = "idle" \/ v.order = Of(p),
           NEW r, Update(Of(p), r) \/ (UNCHANGED order /\ r = Row(p)),
           \A x \in OrderId \ {Of(p)} : full'[x] = full[x],
           Reckoning(p) =>
             /\ Modest(v) /\ r.row = "active" /\ Awaits(v, Of(p), r, full'[Of(p)])
             /\ reserved' - Ahead(v, r) - Out(r)
                  = reserved - Ahead(session[p], Row(p)) - Out(Row(p))
    PROVE  Reckoned'
<1>1. Of(p) \in OrderId /\ Row(p) = order[Of(p)] /\ session[p].order = Of(p)
  BY PresentTyped DEF ReservedInv, CurrentInv, FulfilmentInv, Row, Of
<1>2. FulfilmentInv /\ scene[p] # {}
  BY InProgress DEF ReservedInv, CurrentInv
<1> DEFINE o == Of(p)
<1> HIDE DEF o
<1>3. order'[Of(p)] = r /\ \A x \in OrderId \ {Of(p)} : order'[x] = order[x]
  BY <1>1, <1>2, Updated
<1> QED
  BY <1>1, <1>2, <1>3, ReckonedBy

\* Requests between two transactions: the handler compares, picks or fails.
LEMMA ReckonedReads ==
    ASSUME ReservedInv, FulfilmentInv', UNCHANGED scene, NEW p \in Session
    PROVE  /\ Begin(p) => Reckoned'
           /\ PickFull(p) => Reckoned'
           /\ IssueFullFails(p) => Reckoned'
           /\ RowGone(p) => Reckoned'
           /\ Crash(p) => Reckoned'
<1> DEFINE w == session[p]
           o == Of(p)
           r == Row(p)
           m == full[Of(p)]
<1>1. \A stage, old, n :
        LET v == Then(w, stage, old, n)
        IN  /\ v.stage = stage /\ v.order = o /\ v.new = w.new /\ v.whole = w.whole
            /\ v.shipment = w.shipment /\ v.edit = w.edit
  BY DEF Then, Of
<1>2. ASSUME Begin(p) PROVE Reckoned'
  <2> DEFINE c == Consequence(r.status, w.new)
             v == Then(w, c, r.status, 0)
  <2>1. /\ w.stage = "asked" /\ ~At(p, "idle") /\ Goto(p, v) /\ Present(p)
        /\ UNCHANGED <<order, full, reserved>>
    BY <1>2 DEF Begin, At
  <2>2. ASSUME Reckoning(p)
        PROVE  /\ Modest(v) /\ r.row = "active" /\ Awaits(v, o, r, m)
               /\ reserved - Ahead(v, r) - Out(r) = reserved - Ahead(w, r) - Out(r)
    <3>1. /\ Fits(w, r) /\ Modest(w) /\ r.row = "active" /\ Awaits(w, o, r, m)
          /\ r.status \in Status
      BY <2>1, <2>2, ReckonedWork
    <3>2. ~w.whole /\ w.shipment = 0 /\ w.edit = 0
      BY <2>1, <3>1 DEF Modest
    <3>3. w.new \in Allowed[r.status]
      BY <2>1, <3>1, <3>2 DEF Fits, Turns
    <3>4. /\ c \in {"writing", "reserving", "shipping", "delivering", "cancelling"}
          /\ c = "writing" => w.new \notin {"CONFIRMED", "SHIPPED", "CANCELLED"}
      BY <3>1, <3>3, AllowedFacts DEF Consequence
    <3>5. v.stage = c /\ v.order = o /\ v.new = w.new /\ v.whole = w.whole
          /\ v.shipment = w.shipment /\ v.edit = w.edit
      BY <1>1
    <3> HIDE DEF v, c
    <3>6. Modest(v)
      BY <3>2, <3>4, <3>5 DEF Modest
    <3>7. ~ShipsOut(v, o) /\ ~ShipsOut(w, o)
      BY <2>1, <3>4, <3>5 DEF ShipsOut
    <3>8. Awaits(v, o, r, m)
      BY <3>1, <3>7 DEF Awaits
    <3>9. Ahead(v, r) = 0 /\ Ahead(w, r) = 0
      BY <2>1, <3>4, <3>5 DEF Ahead
    <3> QED
      BY <3>1, <3>6, <3>8, <3>9
  <2>3. v.order = o
    BY <1>1
  <2> HIDE DEF v
  <2> QED
    BY <2>1, <2>2, <2>3, ReckonedTurn
<1>3. ASSUME PickFull(p), NEW v, Goto(p, v), v.stage = "idle" \/ v.order = o,
             Reckoning(p) => Modest(v) /\ Awaits(v, o, r, m) /\ Ahead(v, r) = 0
      PROVE  Reckoned'
  <2>1. w.stage = "shipping" /\ ~At(p, "idle") /\ Present(p) /\ UNCHANGED <<order, full, reserved>>
    BY <1>3 DEF PickFull, At
  <2>2. Ahead(w, r) = 0
    BY <2>1 DEF Ahead
  <2>3. Reckoning(p) => r.row = "active"
    BY <2>1, ReckonedWork
  <2> QED
    BY <1>3, <2>1, <2>2, <2>3, ReckonedTurn
<1>4. ASSUME NEW v, v.stage \notin {"releasing", "writing"}, w.stage \notin {"releasing", "writing"},
             Reckoning(p), ~At(p, "idle")
      PROVE  Awaits(v, o, r, m) /\ Ahead(v, r) = 0
  <2>1. ~ShipsOut(v, o) /\ ~ShipsOut(w, o)
    BY <1>4, QuietWork
  <2>2. Awaits(w, o, r, m)
    BY <1>4, ReckonedWork
  <2> QED
    BY <1>4, <2>1, <2>2 DEF Awaits, Ahead
<1>5. Modest(Idle) /\ Idle.stage = "idle"
  BY DEF Modest, Idle, Holds
<1>6. ASSUME PickFull(p) PROVE Reckoned'
  <2>1. w.stage = "shipping" /\ ~At(p, "idle") /\ Present(p)
    BY <1>6 DEF PickFull, At
  <2>2. Reckoning(p) => /\ Fits(w, r) /\ Modest(w) /\ w.new = "SHIPPED" /\ ~w.whole
                        /\ w.shipment = 0 /\ w.edit = 0 /\ w.old = r.status
                        /\ r.status \in {"CONFIRMED", "PARTIAL_SHIPPED"}
    <3> SUFFICES ASSUME Reckoning(p)
                 PROVE  /\ Fits(w, r) /\ Modest(w) /\ w.new = "SHIPPED" /\ ~w.whole
                        /\ w.shipment = 0 /\ w.edit = 0 /\ w.old = r.status
                        /\ r.status \in {"CONFIRMED", "PARTIAL_SHIPPED"}
      OBVIOUS
    <3>1. Fits(w, r) /\ Modest(w) /\ r.status \in Status
      BY <2>1, ReckonedWork
    <3>2. w.new = "SHIPPED" /\ w.old = r.status /\ Turns(w, r.status)
      BY <2>1, <3>1 DEF Fits, Consequences, Target
    <3>3. r.status \in {"CONFIRMED", "PARTIAL_SHIPPED"}
      BY <3>1, <3>2, AllowedFacts DEF Turns
    <3> QED
      BY <2>1, <3>1, <3>2, <3>3 DEF Modest
  <2>3. CASE Goto(p, Then(w, "issuing", w.old, Remaining(r)))
    <3> DEFINE v == Then(w, "issuing", w.old, Remaining(r))
    <3>1. /\ v.stage = "issuing" /\ v.order = o /\ v.whole = w.whole
          /\ v.shipment = w.shipment /\ v.edit = w.edit
      BY <1>1
    <3> HIDE DEF v
    <3>2. Reckoning(p) => Modest(v)
      BY <2>2, <3>1 DEF Modest
    <3>3. Reckoning(p) => Awaits(v, o, r, m) /\ Ahead(v, r) = 0
      BY <1>4, <2>1, <3>1
    <3> QED
      BY <1>3, <1>6, <2>3, <3>1, <3>2, <3>3 DEF v
  <2>4. CASE Done(p)
    BY <1>3, <1>4, <1>5, <1>6, <2>1, <2>4 DEF Done
  <2>5. CASE /\ m.state = "active" \/ Remaining(r) <= 0
             /\ Goto(p, Then(w, AfterShipping(p), w.old, w.amount))
    <3> DEFINE v == Then(w, AfterShipping(p), w.old, w.amount)
    <3>1. /\ v.stage = AfterShipping(p) /\ v.order = o /\ v.whole = w.whole /\ v.new = w.new
          /\ v.shipment = w.shipment /\ v.edit = w.edit
      BY <1>1
    <3> HIDE DEF v
    <3>2. ASSUME Reckoning(p) PROVE Modest(v) /\ Awaits(v, o, r, m) /\ Ahead(v, r) = 0
      <4>1. v.stage = "releasing"
        BY <2>2, <3>1, <3>2 DEF AfterShipping
      <4>2. Modest(v)
        BY <2>2, <3>1, <3>2, <4>1 DEF Modest
      <4>3. ShipsOut(v, o)
        BY <2>2, <3>1, <3>2, <4>1 DEF ShipsOut
      <4>4. Awaits(w, o, r, m) /\ r.qty \in Nat /\ r.shipped \in Nat
        BY <2>1, <3>2, ReckonedWork
      <4>5. r.shipped = 0 /\ m.state # "active"
        BY <2>1, <2>2, <3>2, <4>4, QuietWork DEF Awaits, Early
      <4>6. r.qty = 0
        BY <2>5, <4>4, <4>5 DEF Remaining
      <4>7. Ahead(v, r) = 0
        BY <4>1, <4>6 DEF Ahead
      <4>8. Awaits(v, o, r, m)
        BY <4>3, <4>5, <4>6 DEF Awaits
      <4> QED
        BY <4>2, <4>7, <4>8
    <3> QED
      BY <1>3, <1>6, <2>5, <3>1, <3>2 DEF v
  <2> QED
    BY <1>6, <2>3, <2>4, <2>5 DEF PickFull, Continue
<1>7. ASSUME IssueFullFails(p) PROVE Reckoned'
  <2>1. /\ w.stage = "issuing" /\ ~At(p, "idle") /\ Present(p) /\ Goto(p, Idle)
        /\ UNCHANGED <<order, full, reserved>>
    BY <1>7 DEF IssueFullFails, At, Done
  <2>2. Ahead(w, r) = 0
    BY <2>1 DEF Ahead
  <2>3. Reckoning(p) => r.row = "active" /\ Awaits(Idle, o, r, m) /\ Ahead(Idle, r) = 0
    BY <1>4, <1>5, <2>1, ReckonedWork
  <2> QED
    BY <1>5, <2>1, <2>2, <2>3, ReckonedTurn
<1>8. ASSUME RowGone(p) PROVE Reckoned'
  <2>1. Of(p) # 0 /\ ~Present(p)
    BY <1>8 DEF RowGone
  <2>2. scene[p] # {}
    BY <2>1, Mover DEF ReservedInv, CurrentInv
  <2>3. Only(p) => ~At(p, "idle")
    BY <2>1 DEF ReservedInv, CurrentInv, Current, UpToDate, At, Of, Idle, Holds
  <2>4. ASSUME Reckoning(p) PROVE FALSE
    <3>1. Fits(session[p], Row(p))
      BY <2>3, <2>4, ReckonedWork DEF Reckoning
    <3> QED
      BY <2>1, <3>1 DEF Fits, Present
  <2> QED
    BY <2>2, <2>4, ReckonedKept DEF Reckoning
<1>9. ASSUME Crash(p) PROVE Reckoned'
  <2>1. ~StatusScene'
    BY <1>9 DEF Crash, StatusScene, Without, EntryPoint
  <2> QED
    BY <2>1 DEF Reckoned
<1> QED
  BY <1>2, <1>6, <1>7, <1>8, <1>9

\* Requests reserve, issue and release.
LEMMA ReckonedMoves ==
    ASSUME ReservedInv, FulfilmentInv', UNCHANGED scene, NEW p \in Session
    PROVE  /\ Reserve(p) => Reckoned'
           /\ IssueFull(p) => Reckoned'
           /\ Release(p) => Reckoned'
<1> DEFINE w == session[p]
           o == Of(p)
           r == Row(p)
           m == full[Of(p)]
<1>1. \A stage, old, n :
        LET v == Then(w, stage, old, n)
        IN  /\ v.stage = stage /\ v.order = o /\ v.new = w.new /\ v.whole = w.whole
            /\ v.shipment = w.shipment /\ v.edit = w.edit
  BY DEF Then, Of
<1>2. ASSUME Reserve(p) PROVE Reckoned'
  <2> DEFINE v == Then(w, "writing", w.old, w.amount)
  <2>1. /\ w.stage = "reserving" /\ ~At(p, "idle") /\ Goto(p, v) /\ Present(p)
        /\ UNCHANGED <<order, full>> /\ reserved' = reserved + r.qty
    BY <1>2 DEF Reserve, At, Continue, ReserveTo
  <2>2. /\ v.stage = "writing" /\ v.order = o /\ v.new = w.new /\ v.whole = w.whole
        /\ v.shipment = w.shipment /\ v.edit = w.edit
    BY <1>1
  <2> HIDE DEF v
  <2>3. ASSUME Reckoning(p)
        PROVE  /\ Modest(v) /\ r.row = "active" /\ Awaits(v, o, r, m)
               /\ reserved' - Ahead(v, r) - Out(r) = reserved - Ahead(w, r) - Out(r)
    <3>1. /\ Fits(w, r) /\ Modest(w) /\ r.row = "active" /\ Awaits(w, o, r, m)
          /\ r.qty \in Nat /\ reserved \in Nat /\ Out(r) \in Nat
      BY <2>1, <2>3, ReckonedWork
    <3>2. w.new = "CONFIRMED"
      BY <2>1, <3>1 DEF Fits, Consequences, Target
    <3>3. Modest(v)
      BY <2>1, <2>2, <3>1 DEF Modest
    <3>4. Awaits(v, o, r, m)
      BY <2>1, <2>2, <3>1, <3>2 DEF Awaits, ShipsOut
    <3>5. Ahead(v, r) = r.qty /\ Ahead(w, r) = 0
      BY <2>1, <2>2, <3>2 DEF Ahead
    <3> QED
      BY <2>1, <3>1, <3>3, <3>4, <3>5
  <2> QED
    BY <2>1, <2>2, <2>3, ReckonedTurn
<1>3. ASSUME Release(p) PROVE Reckoned'
  <2> DEFINE v == Then(w, "writing", w.old, w.amount)
  <2>1. /\ w.stage = "releasing" /\ ~At(p, "idle") /\ Goto(p, v) /\ Present(p)
        /\ UNCHANGED <<order, full>> /\ reserved' = reserved - Lesser(r.qty, reserved)
    BY <1>3 DEF Release, At, Continue, GiveBack
  <2>2. /\ v.stage = "writing" /\ v.order = o /\ v.new = w.new /\ v.whole = w.whole
        /\ v.shipment = w.shipment /\ v.edit = w.edit
    BY <1>1
  <2> HIDE DEF v
  <2>3. ASSUME Reckoning(p)
        PROVE  /\ Modest(v) /\ r.row = "active" /\ Awaits(v, o, r, m)
               /\ reserved' - Ahead(v, r) - Out(r) = reserved - Ahead(w, r) - Out(r)
    <3>1. /\ Fits(w, r) /\ Modest(w) /\ r.row = "active" /\ Awaits(w, o, r, m)
          /\ r.qty \in Nat /\ reserved \in Nat /\ Out(r) \in Nat
          /\ reserved - Ahead(w, r) >= Out(r)
      BY <2>1, <2>3, ReckonedWork
    <3>2. w.new = "SHIPPED"
      BY <2>1, <3>1 DEF Fits, Consequences, Target
    <3>3. Modest(v)
      BY <2>1, <2>2, <3>1 DEF Modest
    <3>4. ShipsOut(v, o) <=> ShipsOut(w, o)
      BY <2>1, <2>2, <3>2 DEF ShipsOut, Of
    <3>5. Awaits(v, o, r, m)
      BY <3>1, <3>4 DEF Awaits
    <3>6. Ahead(v, r) = 0 /\ Ahead(w, r) = r.qty
      BY <2>1, <2>2, <3>2 DEF Ahead
    <3>7. reserved' = reserved - r.qty
      BY <2>1, <3>1, <3>6 DEF Lesser
    <3> QED
      BY <3>1, <3>3, <3>5, <3>6, <3>7
  <2> QED
    BY <2>1, <2>2, <2>3, ReckonedTurn
<1>4. ASSUME IssueFull(p) PROVE Reckoned'
  <2> DEFINE v == Then(w, AfterShipping(p), w.old, w.amount)
             u == WithShipped(r, r.status, r.qty)
  <2>1. /\ w.stage = "issuing" /\ ~At(p, "idle") /\ Goto(p, v) /\ Present(p)
        /\ Update(o, u) /\ reserved' = reserved
        /\ full' = [full EXCEPT ![o] = [state |-> "active", qty |-> w.amount]]
    BY <1>4 DEF IssueFull, At, Continue
  <2>2. /\ v.stage = AfterShipping(p) /\ v.order = o /\ v.new = w.new /\ v.whole = w.whole
        /\ v.shipment = w.shipment /\ v.edit = w.edit
    BY <1>1
  <2>3. u.row = r.row /\ u.status = r.status /\ u.qty = r.qty /\ u.shipped = r.qty
    BY DEF WithShipped
  <2> HIDE DEF v, u
  <2>4. ASSUME Reckoning(p)
        PROVE  /\ Modest(v) /\ u.row = "active" /\ Awaits(v, o, u, full'[o])
               /\ reserved' - Ahead(v, u) - Out(u) = reserved - Ahead(w, r) - Out(r)
    <3>1. /\ Fits(w, r) /\ Modest(w) /\ r.row = "active" /\ Awaits(w, o, r, m)
          /\ r.qty \in Nat /\ r.shipped \in Nat /\ reserved \in Nat /\ r.status \in Status
      BY <2>1, <2>4, ReckonedWork
    <3>2. w.new = "SHIPPED" /\ w.old = r.status /\ Turns(w, r.status)
      BY <2>1, <3>1 DEF Fits, Consequences, Target
    <3>3. ~w.whole /\ w.shipment = 0 /\ w.edit = 0
      BY <2>1, <3>1 DEF Modest
    <3>4. r.status \in {"CONFIRMED", "PARTIAL_SHIPPED"}
      BY <3>1, <3>2, AllowedFacts DEF Turns
    <3>5. v.stage = "releasing"
      BY <2>2, <3>2, <3>4 DEF AfterShipping
    <3>6. Modest(v)
      BY <2>2, <3>3, <3>5 DEF Modest
    <3>7. ShipsOut(v, o) /\ ~ShipsOut(w, o)
      BY <2>1, <2>2, <3>2, <3>3, <3>5 DEF ShipsOut
    <3>8. Awaits(v, o, u, full'[o])
      BY <2>3, <3>7 DEF Awaits
    <3>9. r.shipped = 0
      BY <3>1, <3>4, <3>7 DEF Awaits, Early
    <3>10. Out(r) = r.qty /\ Out(u) = 0
      BY <2>3, <3>1, <3>4, <3>9 DEF Out
    <3>11. Ahead(v, u) = r.qty /\ Ahead(w, r) = 0
      BY <2>1, <2>3, <3>5 DEF Ahead
    <3> QED
      BY <2>1, <2>3, <3>1, <3>6, <3>8, <3>10, <3>11
  <2>5. \A x \in OrderId \ {o} : full'[x] = full[x]
    BY <2>1 DEF ReservedInv, CurrentInv, FulfilmentInv, TypeOK
  <2> QED
    BY <2>1, <2>2, <2>4, <2>5, ReckonedTurn
<1> QED
  BY <1>2, <1>3, <1>4

\* A cancellation releases what its order had reserved.
LEMMA ReckonedCancelled ==
    ASSUME ReservedInv, FulfilmentInv', UNCHANGED scene, NEW p \in Session, CancelOrder(p)
    PROVE  Reckoned'
<1> DEFINE w == session[p]
           o == Of(p)
           r == Row(p)
           v == Then(w, "writing", w.old, w.amount)
           u == IF HasShipped(w.old) THEN WithShipped(r, r.status, 0) ELSE r
           k == IF w.old \in {"CONFIRMED", "PARTIAL_SHIPPED"} /\ Remaining(r) > 0
                THEN Remaining(r) ELSE 0
<1>1. /\ w.stage = "cancelling" /\ ~At(p, "idle") /\ Goto(p, v) /\ Present(p)
      /\ reserved' = reserved - Lesser(k, reserved)
  BY DEF CancelOrder, At, Continue, GiveBack
<1>2. Update(o, u) \/ (UNCHANGED order /\ u = Row(p))
  BY DEF CancelOrder
<1>3. full' = (IF HasShipped(w.old) THEN [full EXCEPT ![o] = Undone(full[o])] ELSE full)
  BY DEF CancelOrder
<1>4. /\ v.stage = "writing" /\ v.order = o /\ v.new = w.new /\ v.whole = w.whole
      /\ v.shipment = w.shipment /\ v.edit = w.edit
  BY DEF Then, Of
<1>5. u.row = r.row /\ u.status = r.status /\ u.qty = r.qty /\ u.shipped \in {0, r.shipped}
  BY DEF WithShipped
<1>6. o \in OrderId /\ full \in [OrderId -> Movement]
  BY <1>1, PresentTyped DEF ReservedInv, CurrentInv, FulfilmentInv, TypeOK
<1>7. /\ \A x \in OrderId \ {o} : full'[x] = full[x]
      /\ full'[o] = full[o] \/ full'[o] = Undone(full[o])
  BY <1>3, <1>6
<1> HIDE DEF v, u
<1>8. ASSUME Reckoning(p)
      PROVE  /\ Modest(v) /\ u.row = "active" /\ Awaits(v, o, u, full'[o])
             /\ reserved' - Ahead(v, u) - Out(u) = reserved - Ahead(w, r) - Out(r)
  <2>1. /\ Fits(w, r) /\ Modest(w) /\ r.row = "active" /\ Awaits(w, o, r, full[o])
        /\ r.qty \in Nat /\ r.shipped \in Nat /\ reserved \in Nat /\ r.status \in Status
        /\ Out(r) \in Nat /\ reserved - Ahead(w, r) >= Out(r)
    BY <1>1, <1>8, ReckonedWork
  <2>2. w.new = "CANCELLED" /\ w.old = r.status /\ Turns(w, r.status)
    BY <1>1, <2>1 DEF Fits, Consequences, Target
  <2>3. r.status \in Early
    BY <2>1, <2>2, AllowedFacts DEF Turns, Early
  <2>4. ~ShipsOut(w, o) /\ ~ShipsOut(v, o)
    BY <1>1, <1>4, <2>2 DEF ShipsOut
  <2>5. r.shipped = 0 /\ full[o].state # "active"
    BY <2>1, <2>3, <2>4 DEF Awaits
  <2>6. u.shipped = 0 /\ full'[o].state # "active"
    BY <1>5, <1>7, <2>5 DEF Undone
  <2>7. Awaits(v, o, u, full'[o])
    BY <2>4, <2>6 DEF Awaits
  <2>8. Modest(v)
    BY <1>1, <1>4, <2>1 DEF Modest
  <2>9. Out(u) = Out(r)
    BY <1>5, <2>5, <2>6 DEF Out
  <2>10. Ahead(w, r) = 0 /\ Ahead(v, u) = 0 - Out(r)
    BY <1>1, <1>4, <2>2, <2>9 DEF Ahead
  <2>11. k = Out(r)
    BY <2>1, <2>2, <2>5 DEF Out, Remaining
  <2> HIDE DEF k
  <2>12. reserved' = reserved - Out(r)
    BY <1>1, <2>1, <2>10, <2>11 DEF Lesser
  <2> QED
    BY <1>5, <2>1, <2>7, <2>8, <2>9, <2>10, <2>12
<1> QED
  BY <1>1, <1>2, <1>4, <1>7, <1>8, ReckonedTurn

\* Requests write the status: it then says what the reservation says.
LEMMA ReckonedWritten ==
    ASSUME ReservedInv, FulfilmentInv', UNCHANGED scene, NEW p \in Session, WriteOrder(p)
    PROVE  Reckoned'
<1> DEFINE w == session[p]
           o == Of(p)
           r == Row(p)
           u == IF w.whole
                THEN [row |-> w.copy.row, status |-> w.copy.status, qty |-> Row(p).qty,
                      shipped |-> Row(p).shipped, paid |-> w.copy.paid]
                ELSE WithStatus(Row(p), w.new)
<1>1. /\ w.stage = "writing" /\ ~At(p, "idle") /\ Present(p)
      /\ Update(o, u) /\ UNCHANGED <<full, reserved>>
  BY DEF WriteOrder, At, Of
<1>2. PICK v : /\ Goto(p, v) /\ (v.order = o \/ v.stage = "idle")
               /\ w.shipment = 0 /\ w.edit = 0 => v = Idle
  <2>1. \A stage, old, n : Then(w, stage, old, n).order = o
    BY DEF Then, Of
  <2> QED
    BY <2>1, WorkRead DEF WriteOrder, Done, Continue
<1>3. Modest(Idle) /\ Idle.stage = "idle"
  BY DEF Modest, Idle, Holds
<1>4. ~w.whole => u.row = r.row /\ u.status = w.new /\ u.qty = r.qty /\ u.shipped = r.shipped
  BY DEF WithStatus
<1> HIDE DEF u
<1>5. ASSUME Reckoning(p)
      PROVE  /\ Modest(v) /\ u.row = "active" /\ Awaits(v, o, u, full'[o])
             /\ reserved' - Ahead(v, u) - Out(u) = reserved - Ahead(w, r) - Out(r)
  <2>1. /\ Fits(w, r) /\ Modest(w) /\ r.row = "active" /\ Awaits(w, o, r, full[o])
        /\ r.qty \in Nat /\ r.shipped \in Nat /\ reserved \in Nat /\ r.status \in Status
        /\ Out(r) \in Nat
    BY <1>1, <1>5, ReckonedWork
  <2>2. ~w.whole /\ w.shipment = 0 /\ w.edit = 0
    BY <1>1, <2>1 DEF Modest
  <2>3. \/ w.new \in Allowed[r.status]
        \/ w.new = "DELIVERED" /\ r.status = "CLOSED"
    BY <1>1, <2>1, <2>2 DEF Fits, Turns
  <2>4. v = Idle
    BY <1>2, <2>2
  <2>5. ~ShipsOut(v, o) /\ Ahead(v, u) = 0
    BY <1>3, <2>4, QuietWork DEF Ahead
  <2>6. ShipsOut(w, o) <=> w.new = "SHIPPED"
    BY <1>1, <2>2 DEF ShipsOut, Of
  <2>7. u.row = "active" /\ u.status = w.new /\ u.qty = r.qty /\ u.shipped = r.shipped
    BY <1>4, <2>1, <2>2
  <2>8. CASE w.new = "CONFIRMED"
    <3>1. r.status = "DRAFT"
      BY <2>1, <2>3, <2>8, AllowedFacts
    <3>2. r.shipped = 0 /\ full[o].state # "active"
      BY <2>1, <2>6, <2>8, <3>1 DEF Awaits, Early
    <3>3. Ahead(w, r) = r.qty /\ Out(r) = 0 /\ Out(u) = r.qty
      BY <1>1, <2>1, <2>7, <2>8, <3>1, <3>2 DEF Ahead, Out
    <3>4. Awaits(v, o, u, full'[o])
      BY <1>1, <2>5, <2>7, <3>2 DEF Awaits
    <3> QED
      BY <1>1, <1>3, <2>1, <2>4, <2>5, <2>7, <3>3, <3>4
  <2>9. CASE w.new = "PARTIAL_SHIPPED"
    <3>1. r.status \in {"CONFIRMED", "PARTIAL_SHIPPED"}
      BY <2>1, <2>3, <2>9, AllowedFacts
    <3>2. r.shipped = 0 /\ full[o].state # "active"
      BY <2>1, <2>6, <2>9, <3>1 DEF Awaits, Early
    <3>3. Ahead(w, r) = 0 /\ Out(r) = r.qty /\ Out(u) = r.qty
      BY <1>1, <2>1, <2>7, <2>9, <3>1, <3>2 DEF Ahead, Out
    <3>4. Awaits(v, o, u, full'[o])
      BY <1>1, <2>5, <2>7, <3>2 DEF Awaits
    <3> QED
      BY <1>1, <1>3, <2>1, <2>4, <2>5, <2>7, <3>3, <3>4
  <2>10. CASE w.new \notin {"CONFIRMED", "PARTIAL_SHIPPED"}
    <3>1. w.new \notin Early
      BY <2>1, <2>3, <2>10, AllowedFacts DEF Early
    <3>2. Awaits(v, o, u, full'[o])
      BY <2>5, <2>7, <3>1 DEF Awaits
    <3>3. Out(u) = 0
      BY <2>7, <2>10 DEF Out
    <3>4. Ahead(w, r) = 0 - Out(r)
      <4>1. CASE w.new = "CANCELLED"
        BY <1>1, <4>1 DEF Ahead
      <4>2. CASE w.new = "SHIPPED"
        <5>1. r.shipped = r.qty
          BY <2>1, <2>6, <4>2 DEF Awaits
        <5>2. Out(r) = 0
          BY <2>1, <5>1 DEF Out
        <5> QED
          BY <1>1, <4>2, <5>2 DEF Ahead
      <4>3. CASE w.new \notin {"CANCELLED", "SHIPPED"}
        <5>1. r.status \notin {"CONFIRMED", "PARTIAL_SHIPPED"}
          BY <2>1, <2>3, <2>10, <4>3, AllowedFacts DEF Status
        <5>2. Out(r) = 0
          BY <5>1 DEF Out
        <5> QED
          BY <1>1, <2>10, <4>3, <5>2 DEF Ahead
      <4> QED
        BY <4>1, <4>2, <4>3
    <3> QED
      BY <1>1, <1>3, <2>1, <2>4, <2>5, <2>7, <3>2, <3>3, <3>4
  <2> QED
    BY <2>8, <2>9, <2>10
<1> HIDE DEF w, r
<1>6. \A x \in OrderId \ {o} : full'[x] = full[x]
  BY <1>1
<1> QED
  BY <1>1, <1>2, <1>5, <1>6, ReckonedTurn DEF w, r

\* Payments close orders that hold no reservation.
LEMMA ReckonedPaid ==
    ASSUME ReservedInv, FulfilmentInv', UNCHANGED scene, NEW p \in Session
    PROVE  /\ CloseIfPaid(p) => Reckoned'
           /\ CommitPay(p) => Reckoned'
           /\ ClosePaid(p) => Reckoned'
<1> DEFINE w == session[p]
           o == Of(p)
           r == Row(p)
<1>1. ASSUME NEW v, NEW u, Goto(p, v), v.stage = "idle" \/ v.order = o, ~At(p, "idle"),
             Present(p), Update(o, u) \/ (UNCHANGED order /\ u = r),
             UNCHANGED <<full, reserved>>,
             w.stage \in {"delivering", "paying", "closing"},
             v.stage \in {"idle", "writing", "closing"},
             Reckoning(p) => /\ Modest(v) /\ u.row = r.row /\ u.qty = r.qty
                             /\ u.shipped = r.shipped
                             /\ \/ u.status = r.status
                                \/ u.status \notin Early /\ r.status \notin Early
                             /\ v.stage = "writing" => v.new = "DELIVERED"
      PROVE  Reckoned'
  <2>1. ASSUME Reckoning(p)
        PROVE  /\ Modest(v) /\ u.row = "active" /\ Awaits(v, o, u, full'[o])
               /\ reserved' - Ahead(v, u) - Out(u) = reserved - Ahead(w, r) - Out(r)
    <3>1. r.row = "active" /\ Awaits(w, o, r, full[o]) /\ reserved \in Nat
      BY <1>1, <2>1, ReckonedWork
    <3>2. ~ShipsOut(w, o) /\ ~ShipsOut(v, o) /\ Ahead(w, r) = 0 /\ Ahead(v, u) = 0
      BY <1>1, <2>1 DEF ShipsOut, Ahead
    <3>3. Awaits(v, o, u, full'[o])
      BY <1>1, <2>1, <3>1, <3>2 DEF Awaits
    <3>4. Out(u) = Out(r)
      BY <1>1, <2>1 DEF Out, Early
    <3> QED
      BY <1>1, <2>1, <3>1, <3>2, <3>3, <3>4
  <2> HIDE DEF w, r
  <2> QED
    BY <1>1, <2>1, ReckonedTurn DEF w, r
<1>2. Modest(Idle) /\ Idle.stage = "idle"
  BY DEF Modest, Idle, Holds
<1>3. \A stage, old, n :
        LET v == Then(w, stage, old, n)
        IN  /\ v.stage = stage /\ v.order = o /\ v.new = w.new /\ v.whole = w.whole
            /\ v.shipment = w.shipment /\ v.edit = w.edit
  BY DEF Then, Of
<1>4. ASSUME CloseIfPaid(p) PROVE Reckoned'
  <2> DEFINE v == Then(w, "writing", w.old, w.amount)
             u == IF r.paid /\ Live(o) THEN WithStatus(r, "CLOSED") ELSE r
  <2>1. /\ w.stage = "delivering" /\ ~At(p, "idle") /\ Goto(p, v) /\ Present(p)
        /\ UNCHANGED <<full, reserved>> /\ (Update(o, u) \/ (UNCHANGED order /\ u = r))
    BY <1>4 DEF CloseIfPaid, At, Continue
  <2>2. /\ v.stage = "writing" /\ v.order = o /\ v.new = w.new /\ v.whole = w.whole
        /\ v.shipment = w.shipment /\ v.edit = w.edit
    BY <1>3
  <2>3. u.row = r.row /\ u.qty = r.qty /\ u.shipped = r.shipped /\ u.status \in {r.status, "CLOSED"}
    BY DEF WithStatus
  <2> HIDE DEF v, u
  <2>4. ASSUME Reckoning(p)
        PROVE  Modest(v) /\ r.status \notin Early /\ v.new = "DELIVERED"
    <3>1. Fits(w, r) /\ Modest(w) /\ r.status \in Status
      BY <2>1, <2>4, ReckonedWork
    <3>2. w.new = "DELIVERED" /\ Turns(w, r.status)
      BY <2>1, <3>1 DEF Fits, Consequences, Target
    <3>3. w.shipment = 0
      BY <3>1 DEF Modest
    <3>4. r.status = "SHIPPED"
      BY <3>1, <3>2, <3>3, AllowedFacts DEF Turns
    <3> QED
      BY <2>1, <2>2, <3>1, <3>2, <3>4 DEF Modest, Early
  <2>5. "CLOSED" \notin Early
    BY DEF Early
  <2>6. Reckoning(p) => /\ Modest(v) /\ u.row = r.row /\ u.qty = r.qty
                        /\ u.shipped = r.shipped
                        /\ \/ u.status = r.status
                           \/ u.status \notin Early /\ r.status \notin Early
                        /\ v.stage = "writing" => v.new = "DELIVERED"
    BY <2>3, <2>4, <2>5
  <2> QED
    BY <1>1, <2>1, <2>2, <2>6
<1>5. ASSUME CommitPay(p) PROVE Reckoned'
  <2> DEFINE u == [row |-> r.row, status |-> r.status, qty |-> r.qty,
                   shipped |-> r.shipped, paid |-> TRUE]
  <2>1. /\ w.stage = "paying" /\ ~At(p, "idle") /\ Present(p)
        /\ UNCHANGED <<full, reserved>> /\ Update(o, u)
    BY <1>5 DEF CommitPay, At
  <2>2. u.row = r.row /\ u.qty = r.qty /\ u.shipped = r.shipped /\ u.status = r.status
    OBVIOUS
  <2> HIDE DEF u
  <2>3. CASE Done(p)
    BY <1>1, <1>2, <2>1, <2>2, <2>3 DEF Done
  <2>4. CASE Goto(p, Then(w, "closing", w.old, w.amount))
    <3> DEFINE v == Then(w, "closing", w.old, w.amount)
    <3>1. /\ v.stage = "closing" /\ v.order = o /\ v.whole = w.whole
          /\ v.shipment = w.shipment /\ v.edit = w.edit
      BY <1>3
    <3> HIDE DEF v
    <3>2. Reckoning(p) => Modest(v)
      BY <2>1, <3>1, ReckonedWork DEF Modest
    <3> QED
      BY <1>1, <2>1, <2>2, <2>4, <3>1, <3>2 DEF v
  <2> QED
    BY <1>5, <2>3, <2>4 DEF CommitPay, Continue
<1>6. ASSUME ClosePaid(p) PROVE Reckoned'
  <2> DEFINE u == IF w.copy.status = "DELIVERED" /\ Live(o) /\ r.paid
                  THEN WithStatus(r, "CLOSED") ELSE r
  <2>1. /\ w.stage = "closing" /\ ~At(p, "idle") /\ Goto(p, Idle) /\ Present(p)
        /\ UNCHANGED <<full, reserved>> /\ (Update(o, u) \/ (UNCHANGED order /\ u = r))
    BY <1>6 DEF ClosePaid, At, Done
  <2>2. /\ u.row = r.row /\ u.qty = r.qty /\ u.shipped = r.shipped
        /\ (u.status = r.status \/ (u.status = "CLOSED" /\ w.copy.status = "DELIVERED"))
    BY DEF WithStatus
  <2> HIDE DEF u
  <2>3. Reckoning(p) => w.copy.status = r.status
    BY <2>1, ReckonedWork DEF Fits
  <2>4. "CLOSED" \notin Early /\ "DELIVERED" \notin Early
    BY DEF Early
  <2>5. Reckoning(p) => /\ Modest(Idle) /\ u.row = r.row /\ u.qty = r.qty
                        /\ u.shipped = r.shipped
                        /\ \/ u.status = r.status
                           \/ u.status \notin Early /\ r.status \notin Early
    BY <1>2, <2>2, <2>3, <2>4
  <2> QED
    BY <1>1, <1>2, <2>1, <2>5
<1> QED
  BY <1>4, <1>5, <1>6

\* The modification of an order reserves what its form says.
LEMMA ReckonedModified ==
    ASSUME ReservedInv, FulfilmentInv', UNCHANGED scene, NEW p \in Session, CommitModify(p)
    PROVE  Reckoned'
<1> DEFINE w == session[p]
           o == Of(p)
           r == Row(p)
           u == [row |-> w.copy.row, status |-> w.copy.status, qty |-> w.edit,
                 shipped |-> w.copy.shipped, paid |-> w.copy.paid]
           k == IF r.status # "CONFIRMED" THEN r.qty ELSE 0
<1>1. /\ w.stage = "modifying" /\ ~At(p, "idle") /\ Goto(p, Idle) /\ Present(p)
      /\ Update(o, u) /\ UNCHANGED full
      /\ reserved' = reserved - Lesser(r.qty, reserved) + k + w.edit
  BY DEF CommitModify, At, Done, ReserveTo, Of
<1>2. Modest(Idle) /\ Idle.stage = "idle"
  BY DEF Modest, Idle, Holds
<1>3. u.row = w.copy.row /\ u.status = w.copy.status /\ u.qty = w.edit
      /\ u.shipped = w.copy.shipped
  OBVIOUS
<1> HIDE DEF u
<1>4. ASSUME Reckoning(p)
      PROVE  /\ u.row = "active" /\ Awaits(Idle, o, u, full'[o])
             /\ reserved' - Ahead(Idle, u) - Out(u) = reserved - Ahead(w, r) - Out(r)
  <2>1. /\ Fits(w, r) /\ Modest(w) /\ r.row = "active" /\ Awaits(w, o, r, full[o])
        /\ r.qty \in Nat /\ reserved \in Nat /\ w \in Work
        /\ reserved - Ahead(w, r) >= Out(r)
    BY <1>1, <1>4, ReckonedWork
  <2>2. w.whole /\ w.edit \in Nat
    BY <1>1, <2>1, WorkTyped DEF Modest
  <2>3. /\ r.status = "CONFIRMED" /\ r.shipped = 0 /\ w.copy.row = r.row
        /\ w.copy.status = r.status /\ w.copy.shipped = r.shipped
    BY <1>1, <2>1, <2>2 DEF Fits
  <2>4. ~ShipsOut(w, o) /\ ~ShipsOut(Idle, o)
    BY <1>1, <1>2, QuietWork
  <2>5. full[o].state # "active"
    BY <2>1, <2>3, <2>4 DEF Awaits, Early
  <2>6. Awaits(Idle, o, u, full'[o])
    BY <1>1, <1>3, <2>3, <2>4, <2>5 DEF Awaits
  <2>7. Ahead(w, r) = 0 /\ Ahead(Idle, u) = 0
    BY <1>1, <1>2 DEF Ahead
  <2>8. Out(r) = r.qty /\ Out(u) = w.edit
    BY <1>3, <2>1, <2>2, <2>3 DEF Out
  <2>9. reserved' = reserved - r.qty + w.edit
    BY <1>1, <2>1, <2>2, <2>3, <2>7, <2>8 DEF Lesser
  <2> QED
    BY <1>3, <2>1, <2>2, <2>3, <2>6, <2>7, <2>8, <2>9
<1> HIDE DEF w, r
<1>5. \A x \in OrderId \ {o} : full'[x] = full[x]
  BY <1>1
<1> QED
  BY <1>1, <1>2, <1>4, <1>5, ReckonedTurn DEF w, r

\* No such request is at a stage of the other entry points.
LEMMA ReckonedOtherwise ==
    ASSUME ReservedInv, UNCHANGED scene, NEW p \in Session
    PROVE  CommitPartial(p) \/ PartialFails(p) \/ SyncOrder(p) \/ WriteShipment(p) \/ EditItem(p)
             => Reckoned'
<1> SUFFICES ASSUME CommitPartial(p) \/ PartialFails(p) \/ SyncOrder(p) \/ WriteShipment(p)
                    \/ EditItem(p)
             PROVE  Reckoned'
  OBVIOUS
<1>1. session[p].stage \in {"picking", "updating", "sending", "editing"}
  BY DEF CommitPartial, PartialFails, SyncOrder, WriteShipment, EditItem, At
<1>2. scene[p] # {}
  BY <1>1, InProgress DEF ReservedInv, At
<1>3. ~Reckons(session[p], order, full, reserved)
  BY <1>1 DEF Reckons, Modest
<1> QED
  BY <1>2, <1>3, ReckonedKept

\* Every step keeps the reservation reckoned with.
LEMMA ReservedStep == ReservedInv /\ [Next]_vars => ReservedInv'
<1> SUFFICES ASSUME ReservedInv, [Next]_vars PROVE ReservedInv'
  OBVIOUS
<1>1. CurrentInv' /\ FulfilmentInv'
  BY CurrentStep, StepKeeps DEF ReservedInv, CurrentInv
<1>2. CASE UNCHANGED vars
  <2>1. Reckoned'
    BY <1>2 DEF vars, ReservedInv, Reckoned, StatusScene, Without, Only
  <2> QED
    BY <1>1, <2>1 DEF ReservedInv
<1>3. ASSUME UNCHANGED scene, NEW p \in Session, Ask(p) PROVE Reckoned'
  BY <1>1, <1>3, ReckonedBegun DEF Ask
<1>4. ASSUME UNCHANGED scene, NEW p \in Session, Handle(p) PROVE Reckoned'
  BY <1>1, <1>4, ReckonedShipments
<1>5. ASSUME UNCHANGED scene, NEW p \in Session, Proceed(p) PROVE Reckoned'
  BY <1>1, <1>5, ReckonedReads, ReckonedMoves, ReckonedCancelled, ReckonedWritten,
     ReckonedPaid, ReckonedModified, ReckonedOtherwise DEF Proceed
<1> QED
  BY <1>1, <1>2, <1>3, <1>4, <1>5 DEF Next, ReservedInv

\* Nothing is reserved and nothing confirmed at the start.
LEMMA InitReserved == Init => ReservedInv
<1> SUFFICES ASSUME Init PROVE ReservedInv
  OBVIOUS
<1>1. CurrentInv
  BY InitCurrent
<1>2. \A o \in OrderId : order[o].status = "DRAFT" /\ order[o].shipped = 0
  BY DEF Init
<1>3. \A o \in OrderId : full[o].state # "active"
  BY DEF Init, NoMovement
<1>4. \A p \in Session : session[p] = Idle
  BY DEF Init
<1>5. Idle.stage = "idle" /\ Modest(Idle)
  BY DEF Idle, Holds, Modest
<1> DEFINE F == [o \in OrderId |-> Out(order[o])]
<1>6. /\ F \in [1..Orders -> Int] /\ Orders \in Nat /\ Orders \in 0..Orders
      /\ \A o \in 1..Orders : F[o] = 0
  BY <1>2, Bounds DEF Out
<1> HIDE DEF F
<1>7. SumTo(F, Orders) = 0
  BY <1>6, SumToZero
<1>8. \A o : ~ShipsOut(Idle, o) /\ Ahead(Idle, order[Idle.order]) = 0
  BY <1>5, QuietWork DEF Ahead
<1>9. reserved = 0
  BY DEF Init
<1>10. Reckons(Idle, order, full, reserved)
  BY <1>2, <1>3, <1>5, <1>7, <1>8, <1>9 DEF Reckons, Awaits, F
<1>11. Reckoned
  BY <1>4, <1>10 DEF Reckoned
<1> QED
  BY <1>1, <1>11 DEF ReservedInv

\* When one request follows the other, none dies, and orders are modified,
\* shipped whole, paid and cancelled, reserved_stock is, once a request is over,
\* what the confirmed orders still have to be shipped.
THEOREM ReservationIsOutstanding == Spec => []ReservationsExact
<1>1. ReservedInv => ReservationsExact
  <2> SUFFICES ASSUME ReservedInv, OneAtATime, StatusScene, AllIdle
               PROVE  reserved = SumTo([o \in OrderId |-> Outstanding(o)], Orders)
    BY DEF ReservationsExact, ReservedExact, StatusScene
  <2>1. PICK p \in Session : Only(p)
    BY DEF OneAtATime, Only
  <2>2. Reckons(session[p], order, full, reserved)
    BY <2>1 DEF ReservedInv, Reckoned
  <2>3. Ahead(session[p], order[session[p].order]) = 0
    BY DEF AllIdle, At, Ahead
  <2>4. \A o \in OrderId : Outstanding(o) = Out(order[o])
    BY DEF Outstanding, Out, Live
  <2>5. [o \in OrderId |-> Outstanding(o)] = [o \in OrderId |-> Out(order[o])]
    BY <2>4
  <2>6. reserved \in Nat /\ SumTo([o \in OrderId |-> Out(order[o])], Orders) \in Nat
    BY <2>2, OutBound DEF ReservedInv, CurrentInv, FulfilmentInv, TypeOK
  <2> QED
    BY <2>2, <2>3, <2>5, <2>6 DEF Reckons
<1> QED
  BY <1>1, InitReserved, ReservedStep, PTL DEF Spec
=============================================================================
