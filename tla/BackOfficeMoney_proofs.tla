----------------------- MODULE BackOfficeMoney_proofs -----------------------
(***************************************************************************)
(* Production and the money of the back office, for any rows, any requests  *)
(* and any scenes: what is made, an order's payments, cards, vouchers, the  *)
(* closing of a month, settlements and tax invoices.  Each component is     *)
(* proved by itself, as the instance it is in BackOffice; the last section  *)
(* takes the invariants to the back office, where one part moves at a time. *)
(***************************************************************************)
EXTENDS BackOffice, Sums_proofs, FiniteSetTheorems

-----------------------------------------------------------------------------
(* Production. *)

\* The sum of the instance is that of the lemmas.
LEMMA ProductionSum == \A f, n : Production!SumTo(f, n) = SumTo(f, n)
BY DEF Production!SumTo, SumTo

\* What the constants of this part are.
LEMMA ProductionNumbers ==
    ProductionOrders \in Nat \ {0} /\ Records \in Nat \ {0} /\ Needed \in Nat \ {0}
      /\ ProductionQuantity \subseteq Nat
BY BackOfficeAssumption

-----------------------------------------------------------------------------
(* The invariant. *)

\* Only where records are edited is one being edited.
EditsAsked == \A p \in Session : Production!At(p, "editing") => "edit" \in entries
ProductionInv == Production!TypeOK /\ EditsAsked /\ Production!StockFollowsRecords

-----------------------------------------------------------------------------
(* The steps. *)

\* A row whose materials follow its goods, and its goods what it says.
RowRight(w) ==
    /\ w \in Production!Record
    /\ "longer" \notin entries => w.used = w.goods
    /\ "edit" \notin entries => w.goods = IF w.row = "active" THEN w.good ELSE 0

LEMMA ProductionIdle ==
    Production!Idle \in Production!Work /\ Production!Idle.stage = "idle"
      /\ Production!NoRecord \in Production!Record /\ RowRight(Production!NoRecord)
<1>1. 1 \in Production!OrderId /\ 1 \in Production!RecordId
  BY ProductionNumbers DEF Production!OrderId, Production!RecordId
<1>2. Production!NoRecord \in Production!Record
  BY <1>1 DEF Production!NoRecord, Production!Record
<1> QED BY <1>1, <1>2 DEF Production!Idle, Production!Work, Production!PlanStatus,
   Production!OrderStatus, RowRight, Production!NoRecord

LEMMA RowsRight ==
    ASSUME ProductionInv, NEW r \in Production!RecordId
    PROVE  RowRight(record[r])
BY DEF ProductionInv, Production!TypeOK, Production!StockFollowsRecords, Production!Active,
  RowRight

\* A request goes on, in a table of rows that are right.
LEMMA ProductionGoes ==
    ASSUME ProductionInv, NEW p \in Session, NEW w \in Production!Work,
           desk' = [desk EXCEPT ![p] = w], entries' = entries,
           w.stage = "editing" => "edit" \in entries,
           plan' \in Production!PlanStatus,
             order' \in [Production!OrderId -> Production!OrderStatus],
           NEW table, record' = table, table = [r \in Production!RecordId |-> table[r]],
           \A r \in Production!RecordId : RowRight(table[r])
    PROVE  ProductionInv'
<1>1. Production!TypeOK'
  <2>1. record' \in [Production!RecordId -> Production!Record]
    BY DEF RowRight
  <2>2. desk' \in [Session -> Production!Work]
    BY DEF ProductionInv, Production!TypeOK
  <2> QED BY <2>1, <2>2 DEF ProductionInv, Production!TypeOK
<1>2. EditsAsked'
  BY DEF ProductionInv, Production!TypeOK, EditsAsked, Production!At
<1>3. Production!StockFollowsRecords'
  BY DEF RowRight, Production!StockFollowsRecords, Production!Active
<1> QED BY <1>1, <1>2, <1>3 DEF ProductionInv

\* The same, when the rows stay.
LEMMA ProductionAsks ==
    ASSUME ProductionInv, NEW p \in Session, NEW w \in Production!Work,
           desk' = [desk EXCEPT ![p] = w], entries' = entries,
           w.stage = "editing" => "edit" \in entries,
           plan' \in Production!PlanStatus,
             order' \in [Production!OrderId -> Production!OrderStatus], record' = record
    PROVE  ProductionInv'
<1>1. record = [r \in Production!RecordId |-> record[r]] /\ \A r \in Production!RecordId :
        RowRight(record[r])
  BY RowsRight DEF ProductionInv, Production!TypeOK
<1> QED BY <1>1, ProductionGoes

\* What follows the movements of a record keeps to the statuses.
LEMMA FollowsTyped ==
    ASSUME Production!TypeOK, NEW table, NEW o \in Production!OrderId, NEW w,
           Production!Follow(table, o, w)
    PROVE  plan' \in Production!PlanStatus
             /\ order' \in [Production!OrderId -> Production!OrderStatus] /\ record' = table
<1>1. Production!OrderAfter(table, o, w.status) \in Production!OrderStatus
  BY DEF Production!OrderAfter, Production!TypeOK, Production!OrderStatus
<1> DEFINE orders == [order EXCEPT ![o] = Production!OrderAfter(table, o, w.status)]
<1>2. orders \in [Production!OrderId -> Production!OrderStatus]
  BY <1>1 DEF Production!TypeOK
<1>3. order' = orders /\ record' = table /\ plan' = Production!PlanAfter(orders, w.plan)
  BY DEF Production!Follow
<1> HIDE DEF orders
<1>4. Production!PlanAfter(orders, w.plan) \in Production!PlanStatus
  BY DEF Production!PlanAfter, Production!TypeOK, Production!PlanStatus
<1> QED BY <1>2, <1>3, <1>4

LEMMA ProductionRecords ==
    ASSUME ProductionInv, NEW p \in Session, Production!Recording(p)
    PROVE  ProductionInv'
<1>1. ASSUME NEW o \in Production!OrderId, NEW q \in ProductionQuantity,
             Production!AskRecord(p, o, q) PROVE ProductionInv'
  <2> DEFINE w == [Production!Idle EXCEPT !.stage = "recording", !.order = o, !.qty = q,
                                          !.plan = plan, !.status = order[o]]
  <2>1. w \in Production!Work /\ w.stage = "recording"
    BY ProductionNumbers, ProductionIdle DEF Production!Idle, Production!Work, ProductionInv,
       Production!TypeOK
  <2>2. desk' = [desk EXCEPT ![p] = w] /\ UNCHANGED <<plan, order, record, entries>>
    BY <1>1 DEF Production!AskRecord, Production!Goto
  <2> HIDE DEF w
  <2> QED BY <2>1, <2>2, ProductionAsks DEF ProductionInv, Production!TypeOK
<1>2. ASSUME NEW r \in Production!RecordId, Production!CommitRecord(p, r) PROVE ProductionInv'
  <2> DEFINE w == desk[p]
             new == [row |-> "active", order |-> w.order, good |-> w.qty,
                     goods |-> w.qty, used |-> w.qty, numbered |-> w.qty > 0]
             table == [record EXCEPT ![r] = new]  i == Production!Idle
  <2>1. /\ Production!Follow(table, w.order, w) /\ entries' = entries
             /\ desk' = [desk EXCEPT ![p] = i]
    BY <1>2 DEF Production!CommitRecord, Production!Done, Production!Goto
  <2>2. w.order \in Production!OrderId /\ w.qty \in Nat /\ Production!TypeOK
    BY DEF ProductionInv, Production!TypeOK, Production!Work
  <2>3. new \in Production!Record /\ RowRight(new)
    BY <2>2 DEF Production!Record, RowRight
  <2>4. record \in [Production!RecordId -> Production!Record]
    BY <2>2 DEF Production!TypeOK
  <2> HIDE DEF new
  <2>5. table = [s \in Production!RecordId |-> table[s]] /\ \A s \in Production!RecordId :
          RowRight(table[s])
    BY <2>3, <2>4, RowsRight
  <2>6. i \in Production!Work /\ i.stage = "idle"
    BY ProductionIdle
  <2> HIDE DEF table, w, i
  <2>7. plan' \in Production!PlanStatus
          /\ order' \in [Production!OrderId -> Production!OrderStatus] /\ record' = table
    BY <2>1, <2>2, FollowsTyped
  <2> QED BY <2>1, <2>5, <2>6, <2>7, ProductionGoes
<1>3. ASSUME NEW r \in Production!RecordId, NEW q \in ProductionQuantity,
             Production!AskEdit(p, r, q) PROVE ProductionInv'
  <2> DEFINE o == record[r].order
             w == [Production!Idle EXCEPT !.stage = "editing", !.record = r, !.order = o,
                                          !.qty = q, !.plan = plan, !.status = order[o]]
             table == [record EXCEPT ![r].good = q]
  <2>1. /\ desk' = [desk EXCEPT ![p] = w] /\ "edit" \in entries
        /\ record' = table /\ UNCHANGED <<plan, order, entries>>
    BY <1>3 DEF Production!AskEdit, Production!Starts, Production!Goto
  <2>2. o \in Production!OrderId /\ record[r] \in Production!Record /\ q \in Nat
    BY ProductionNumbers DEF ProductionInv, Production!TypeOK, Production!Record
  <2> HIDE DEF o
  <2>3. w \in Production!Work /\ w.stage = "editing"
    BY <2>2, ProductionIdle DEF Production!Idle, Production!Work, ProductionInv, Production!TypeOK
  <2>4. table = [s \in Production!RecordId |-> table[s]]
    BY DEF ProductionInv, Production!TypeOK
  <2>5. \A s \in Production!RecordId : RowRight(table[s])
    <3> TAKE s \in Production!RecordId
    <3>1. RowRight(record[s]) /\ record \in [Production!RecordId -> Production!Record]
      BY RowsRight DEF ProductionInv, Production!TypeOK
    <3>2. CASE s # r
      BY <3>1, <3>2
    <3>3. CASE s = r
      <4> DEFINE b == record[r]  d == [b EXCEPT !.good = q]
      <4>1. table[s] = d /\ b \in Production!Record /\ RowRight(b)
        BY <3>1, <3>3
      <4> HIDE DEF b, table
      <4>2. d \in Production!Record /\ d.used = b.used /\ d.goods = b.goods
        BY <2>2, <4>1 DEF Production!Record
      <4> QED BY <2>1, <4>1, <4>2 DEF RowRight
    <3> QED BY <3>2, <3>3
  <2> HIDE DEF w, table
  <2>6. plan' \in Production!PlanStatus
          /\ order' \in [Production!OrderId -> Production!OrderStatus]
    BY <2>1 DEF ProductionInv, Production!TypeOK
  <2> QED BY <2>1, <2>3, <2>4, <2>5, <2>6, ProductionGoes
<1>4. ASSUME Production!CommitEdit(p) PROVE ProductionInv'
  <2> DEFINE w == desk[p]
             r == w.record
             Cleared(s) == IF s = r \/ s \in Production!Longer(r)
                           THEN [record[s] EXCEPT !.used = 0, !.goods = IF s = r THEN 0 ELSE @]
                           ELSE record[s]
             New(s) == IF s = r THEN [Cleared(s) EXCEPT !.goods = w.qty, !.used = w.qty,
                                                        !.numbered = @ \/ w.qty > 0]
                       ELSE Cleared(s)
             table == [s \in Production!RecordId |-> New(s)]
             i == Production!Idle
  <2>1. /\ Production!At(p, "editing") /\ desk' = [desk EXCEPT ![p] = i] /\ entries' = entries
        /\ UNCHANGED <<plan, order, record>> \/ Production!Follow(table, w.order, w)
    BY <1>4 DEF Production!CommitEdit, Production!Done, Production!Goto
  <2>2. /\ w.order \in Production!OrderId /\ w.record \in Production!RecordId /\ w.qty \in Nat
             /\ Production!TypeOK
        /\ "edit" \in entries
    BY <2>1 DEF ProductionInv, Production!TypeOK, Production!Work, EditsAsked
  <2>3. i \in Production!Work /\ i.stage = "idle"
    BY ProductionIdle
  <2>4. CASE UNCHANGED <<plan, order, record>>
    BY <2>1, <2>2, <2>3, <2>4, ProductionAsks DEF Production!TypeOK
  <2>5. CASE Production!Follow(table, w.order, w)
    <3>1. ASSUME NEW s \in Production!RecordId PROVE RowRight(New(s))
      <4> DEFINE b == record[s]  c == Cleared(s)
      <4>1. b \in Production!Record /\ RowRight(b)
        BY <2>2, RowsRight DEF Production!TypeOK
      <4>2. "longer" \notin entries => Production!Longer(r) = {}
        BY DEF Production!Longer
      <4>3. c \in Production!Record /\ ("longer" \notin entries /\ s # r => c = b)
        <5>1. CASE s = r \/ s \in Production!Longer(r)
          <6> DEFINE g == IF s = r THEN 0 ELSE b.goods
          <6>1. g \in Nat /\ c = [b EXCEPT !.used = 0, !.goods = g]
            BY <4>1, <5>1 DEF Production!Record
          <6> HIDE DEF g, b, c
          <6>2. c \in Production!Record
            BY <4>1, <6>1 DEF Production!Record
          <6> QED BY <4>2, <5>1, <6>2
        <5>2. CASE ~(s = r \/ s \in Production!Longer(r))
          BY <4>1, <5>2
        <5> QED BY <5>1, <5>2
      <4> HIDE DEF b, c
      <4>4. CASE s = r
        <5> DEFINE k == w.qty  n == c.numbered \/ k > 0
                   d == [c EXCEPT !.goods = k, !.used = k, !.numbered = n]
        <5>1. New(s) = d
          BY <4>4 DEF c
        <5>2. k \in Nat /\ n \in BOOLEAN
          BY <2>2, <4>3 DEF Production!Record
        <5> HIDE DEF k, n
        <5>3. d \in Production!Record /\ d.used = d.goods
          BY <4>3, <5>2 DEF Production!Record
        <5> HIDE DEF d
        <5> QED BY <2>2, <5>1, <5>3 DEF RowRight
      <4>5. CASE s # r
        <5>1. New(s) = c
          BY <4>5 DEF c
        <5> HIDE DEF New
        <5> QED BY <2>2, <4>1, <4>3, <4>5, <5>1 DEF RowRight
      <4> QED BY <4>4, <4>5
    <3> HIDE DEF New
    <3>2. table = [s \in Production!RecordId |-> table[s]] /\ \A s \in Production!RecordId :
            RowRight(table[s])
      BY <3>1
    <3> HIDE DEF table, w, i
    <3>3. plan' \in Production!PlanStatus
            /\ order' \in [Production!OrderId -> Production!OrderStatus] /\ record' = table
      BY <2>2, <2>5, FollowsTyped
    <3> QED BY <2>1, <2>3, <3>2, <3>3, ProductionGoes
  <2> QED BY <2>1, <2>4, <2>5
<1> QED BY <1>1, <1>2, <1>3, <1>4 DEF Production!Recording

\* A cancellation takes back what the records of its orders stand for.
LEMMA CancelledRight ==
    ASSUME ProductionInv, NEW os
    PROVE  /\ Production!Cancelled(os) = [r \in Production!RecordId |-> Production!Cancelled(os)[r]]
           /\ \A r \in Production!RecordId : RowRight(Production!Cancelled(os)[r])
<1>1. Production!Cancelled(os) = [r \in Production!RecordId |-> Production!Cancelled(os)[r]]
  BY DEF Production!Cancelled
<1>2. ASSUME NEW r \in Production!RecordId PROVE RowRight(Production!Cancelled(os)[r])
  <2>1. RowRight(record[r]) /\ record[r] \in Production!Record
    BY RowsRight DEF RowRight
  <2>2. RowRight(Production!Reversed(record[r]))
    BY <2>1 DEF Production!Reversed, Production!Record, RowRight
  <2> QED BY <2>1, <2>2 DEF Production!Cancelled
<1> QED BY <1>1, <1>2

LEMMA ProductionForms ==
    ASSUME ProductionInv, NEW p \in Session, Production!Forms(p) \/ Production!Die(p)
    PROVE  ProductionInv'
<1> DEFINE w == desk[p]  i == Production!Idle
<1>0. /\ plan \in Production!PlanStatus
           /\ order \in [Production!OrderId -> Production!OrderStatus]
      /\ w \in Production!Work /\ i \in Production!Work /\ i.stage = "idle"
  BY ProductionIdle DEF ProductionInv, Production!TypeOK
<1>1. ASSUME NEW o \in Production!OrderId, NEW s \in Chosen \cap Production!OrderStatus,
             Production!AskOrder(p, o, s)
      PROVE  ProductionInv'
  <2> DEFINE v == [Production!Idle EXCEPT !.stage = "ordering", !.order = o, !.status = s]
  <2>1. v \in Production!Work /\ v.stage = "ordering"
    BY ProductionIdle DEF Production!Idle, Production!Work
  <2>2. desk' = [desk EXCEPT ![p] = v] /\ UNCHANGED <<plan, order, record, entries>>
    BY <1>1 DEF Production!AskOrder, Production!Goto
  <2> HIDE DEF v
  <2> QED BY <1>0, <2>1, <2>2, ProductionAsks
<1>2. ASSUME NEW s \in Chosen \cap Production!PlanStatus, Production!AskPlan(p, s)
      PROVE  ProductionInv'
  <2> DEFINE v == [Production!Idle EXCEPT !.stage = "planning", !.plan = s]
  <2>1. v \in Production!Work /\ v.stage = "planning"
    BY ProductionIdle DEF Production!Idle, Production!Work
  <2>2. desk' = [desk EXCEPT ![p] = v] /\ UNCHANGED <<plan, order, record, entries>>
    BY <1>2 DEF Production!AskPlan, Production!Goto
  <2> HIDE DEF v
  <2> QED BY <1>0, <2>1, <2>2, ProductionAsks
<1>3. ASSUME Production!CascadeOrder(p) PROVE ProductionInv'
  <2> DEFINE v == [w EXCEPT !.stage = "writingOrder"]
  <2>1. v \in Production!Work /\ v.stage = "writingOrder"
    BY <1>0 DEF Production!Work
  <2>2. /\ desk' = [desk EXCEPT ![p] = v] /\ UNCHANGED <<plan, order, entries>>
        /\ record' = record \/ record' = Production!Cancelled({w.order})
    BY <1>3 DEF Production!CascadeOrder, Production!Goto
  <2> HIDE DEF v
  <2>3. CASE record' = record
    BY <1>0, <2>1, <2>2, <2>3, ProductionAsks
  <2>4. CASE record' = Production!Cancelled({w.order})
    BY <1>0, <2>1, <2>2, <2>4, CancelledRight, ProductionGoes
  <2> QED BY <2>2, <2>3, <2>4
<1>4. ASSUME Production!CascadePlan(p) PROVE ProductionInv'
  <2> DEFINE v == [w EXCEPT !.stage = "writingPlan"]
  <2>1. v \in Production!Work /\ v.stage = "writingPlan"
    BY <1>0 DEF Production!Work
  <2>2. /\ desk' = [desk EXCEPT ![p] = v] /\ UNCHANGED <<plan, entries>>
        /\ \/ UNCHANGED <<record, order>>
           \/ record' = Production!Cancelled(Production!OrderId)
                /\ order' = [o \in Production!OrderId |-> "CANCELLED"]
    BY <1>4 DEF Production!CascadePlan, Production!Goto
  <2> HIDE DEF v
  <2>3. CASE UNCHANGED <<record, order>>
    BY <1>0, <2>1, <2>2, <2>3, ProductionAsks
  <2>4. CASE record' = Production!Cancelled(Production!OrderId)
               /\ order' = [o \in Production!OrderId |-> "CANCELLED"]
    <3>1. order' \in [Production!OrderId -> Production!OrderStatus]
      BY <2>4 DEF Production!OrderStatus
    <3> QED BY <1>0, <2>1, <2>2, <2>4, <3>1, CancelledRight, ProductionGoes
  <2> QED BY <2>2, <2>3, <2>4
<1>5. ASSUME Production!WriteOrder(p) \/ Production!WritePlan(p) \/ Production!Die(p)
      PROVE  ProductionInv'
  <2>1. desk' = [desk EXCEPT ![p] = i] /\ UNCHANGED <<record, entries>>
    BY <1>5 DEF Production!WriteOrder, Production!WritePlan, Production!Die, Production!Done,
       Production!Goto
  <2>2. plan' \in Production!PlanStatus
          /\ order' \in [Production!OrderId -> Production!OrderStatus]
    BY <1>0, <1>5 DEF Production!WriteOrder, Production!WritePlan, Production!Die, Production!Work
  <2> HIDE DEF i
  <2> QED BY <1>0, <2>1, <2>2, ProductionAsks DEF i
<1> QED BY <1>1, <1>2, <1>3, <1>4, <1>5 DEF Production!Forms

LEMMA ProductionStarts == Production!Init => ProductionInv
<1> SUFFICES ASSUME Production!Init PROVE ProductionInv
  OBVIOUS
<1>1. Production!TypeOK
  BY ProductionIdle DEF Production!Init, Production!TypeOK, Production!PlanStatus,
     Production!OrderStatus
<1>2. \A r \in Production!RecordId : RowRight(record[r])
  BY ProductionIdle DEF Production!Init
<1>3. Production!StockFollowsRecords
  BY <1>2 DEF Production!StockFollowsRecords, RowRight, Production!Active
<1>4. EditsAsked
  BY ProductionIdle DEF Production!Init, EditsAsked, Production!At
<1> QED BY <1>1, <1>3, <1>4 DEF ProductionInv

LEMMA ProductionStep == ProductionInv /\ [Production!Next]_(Production!vars) => ProductionInv'
<1> SUFFICES ASSUME ProductionInv, [Production!Next]_(Production!vars) PROVE ProductionInv'
  OBVIOUS
<1>1. CASE UNCHANGED Production!vars
  BY <1>1 DEF Production!vars, ProductionInv, Production!TypeOK, EditsAsked,
     Production!StockFollowsRecords, Production!Active, Production!At
<1>2. ASSUME NEW p \in Session, Production!Recording(p) \/ Production!Forms(p)
             \/ Production!Die(p) PROVE ProductionInv'
  BY <1>2, ProductionRecords, ProductionForms
<1> QED BY <1>1, <1>2 DEF Production!Next
-----------------------------------------------------------------------------
(* Completion, where no form sets a status and no record is edited. *)

Running == {"IN_PROGRESS", "COMPLETED"}
Undisturbed == entries \cap {"form", "edit"} = {}
\* An order is COMPLETED exactly when enough is made, the plan exactly when all
\* its orders are, and a request that found either COMPLETED still would.
CompletionInv ==
    Undisturbed =>
        /\ plan \in Running /\ \A o \in Production!OrderId : order[o] \in Running
        /\ \A o \in Production!OrderId : order[o] = "COMPLETED"
             <=> Production!Produced(record, o) >= Needed
        /\ plan = "COMPLETED" <=> \A o \in Production!OrderId : order[o] = "COMPLETED"
        /\ \A p \in Session :
             /\ desk[p].stage \in {"idle", "recording"}
             /\ Production!At(p, "recording") =>
                             /\ desk[p].plan \in Running
                             /\ desk[p].plan = "COMPLETED" => plan = "COMPLETED"
                             /\ desk[p].status = "COMPLETED" => order[desk[p].order] = "COMPLETED"

\* What is made of an order, by record.
Made(table, o) ==
    [r \in Production!RecordId |-> IF table[r].row = "active" /\ table[r].order = o THEN table[r].good ELSE 0]

LEMMA ProducedNat ==
    ASSUME Production!TypeOK, NEW o \in Production!OrderId
    PROVE  Made(record, o) \in [1..Records -> Nat] /\ Production!Produced(record, o) \in Nat
           /\ Production!Produced(record, o) = SumTo(Made(record, o), Records)
<1>1. Made(record, o) \in [1..Records -> Nat]
  BY DEF Made, Production!TypeOK, Production!Record, Production!RecordId
<1>2. Production!Produced(record, o) = SumTo(Made(record, o), Records)
  BY ProductionSum DEF Production!Produced, Made
<1>3. Records \in Nat /\ Records \in 0..Records
  BY ProductionNumbers
<1> QED BY <1>1, <1>2, <1>3, SumToNat

\* A new record adds what it made to its order and to no other.
LEMMA ProducedByNew ==
    ASSUME Production!TypeOK, NEW r \in Production!RecordId, record[r].row = "absent",
           NEW new \in Production!Record,
           new.row = "active", NEW o \in Production!OrderId
    PROVE  Production!Produced([record EXCEPT ![r] = new], o)
             = Production!Produced(record, o) + (IF new.order = o THEN new.good ELSE 0)
<1> DEFINE t == [record EXCEPT ![r] = new]  f == Made(record, o)
           v == IF new.order = o THEN new.good ELSE 0
<1>1. f \in [1..Records -> Nat] /\ Production!Produced(record, o) = SumTo(f, Records)
  BY ProducedNat
<1>2. r \in 1..Records /\ v \in Nat /\ Records \in Nat /\ f[r] = 0
  BY ProductionNumbers DEF Production!Record, Production!RecordId, Made
<1>3. Made(t, o) = [f EXCEPT ![r] = v]
  BY DEF Made, Production!TypeOK
<1>4. Production!Produced(t, o) = SumTo(Made(t, o), Records)
  BY ProductionSum DEF Production!Produced, Made
<1>5. f \in [1..Records -> Int] /\ v \in Int /\ Records \in 0..Records
  BY <1>1, <1>2
<1>6. SumTo(f, Records) \in Nat
  BY <1>1, <1>2, <1>5, SumToNat
<1> HIDE DEF f, v, t
<1>7. SumTo([f EXCEPT ![r] = v], Records)
        = IF Records < r THEN SumTo(f, Records) ELSE SumTo(f, Records) - f[r] + v
  BY <1>2, <1>5, SumToUpdate
<1>8. SumTo([f EXCEPT ![r] = v], Records) = SumTo(f, Records) + v
  BY <1>2, <1>6, <1>7
<1> QED BY <1>1, <1>3, <1>4, <1>8 DEF t, v

LEMMA CompletionRecord ==
    ASSUME ProductionInv, CompletionInv, Undisturbed,
           NEW p \in Session, NEW r \in Production!RecordId, Production!CommitRecord(p, r)
    PROVE  CompletionInv'
<1> DEFINE w == desk[p]
           new == [row |-> "active", order |-> w.order, good |-> w.qty,
                   goods |-> w.qty, used |-> w.qty, numbered |-> w.qty > 0]
           table == [record EXCEPT ![r] = new]  o == w.order
           now == Production!OrderAfter(table, o, w.status)
           orders == [order EXCEPT ![o] = now]
<1>1. /\ Production!At(p, "recording") /\ record[r].row = "absent" /\ entries' = entries
      /\ desk' = [desk EXCEPT ![p] = Production!Idle]
      /\ record' = table /\ order' = orders /\ plan' = Production!PlanAfter(orders, w.plan)
  BY DEF Production!CommitRecord, Production!Done, Production!Goto, Production!Follow
<1>2. /\ o \in Production!OrderId /\ w.qty \in Nat /\ Production!TypeOK
           /\ order \in [Production!OrderId -> Production!OrderStatus]
      /\ Production!Idle.stage = "idle"
  BY ProductionIdle DEF ProductionInv, Production!TypeOK, Production!Work
<1>3. new \in Production!Record /\ new.row = "active" /\ new.order = o /\ new.good = w.qty
  BY <1>2 DEF Production!Record
<1>4. /\ plan \in Running /\ \A c \in Production!OrderId : order[c] \in Running
      /\ \A c \in Production!OrderId : order[c] = "COMPLETED"
           <=> Production!Produced(record, c) >= Needed
      /\ plan = "COMPLETED" <=> \A c \in Production!OrderId : order[c] = "COMPLETED"
      /\ \A q \in Session :
           /\ desk[q].stage \in {"idle", "recording"}
           /\ desk[q].stage = "recording" =>
                /\ desk[q].plan \in Running
                /\ desk[q].plan = "COMPLETED" => plan = "COMPLETED"
                /\ desk[q].status = "COMPLETED" => order[desk[q].order] = "COMPLETED"
  BY DEF CompletionInv, Production!At
<1> HIDE DEF new
<1>5. \A c \in Production!OrderId : /\ Production!Produced(table, c) \in Nat
                                         /\ Production!Produced(record, c) \in Nat
                                    /\ Production!Produced(table, c) >= Production!Produced(record, c)
                                    /\ c # o => Production!Produced(table, c) = Production!Produced(record, c)
  <2> TAKE c \in Production!OrderId
  <2>1. Production!Produced(table, c) = Production!Produced(record, c) + (IF o = c THEN w.qty ELSE 0)
    BY <1>1, <1>2, <1>3, ProducedByNew
  <2>2. Production!Produced(record, c) \in Nat
    BY <1>2, ProducedNat
  <2> QED BY <1>2, <2>1, <2>2
<1> HIDE DEF table
<1>6. Needed \in Nat
  BY ProductionNumbers
<1>7. now \in Running /\ (now = "COMPLETED" <=> Production!Produced(table, o) >= Needed)
      /\ (order[o] = "COMPLETED" => now = "COMPLETED")
  <2>1. CASE Production!Produced(table, o) >= Needed
    BY <1>1, <1>2, <1>4, <2>1 DEF Production!OrderAfter, Production!Complete, Running,
      Production!At
  <2>2. CASE ~(Production!Produced(table, o) >= Needed)
    <3>1. order[o] # "COMPLETED" /\ w.status # "COMPLETED"
      BY <1>1, <1>2, <1>4, <1>5, <1>6, <2>2 DEF Production!At
    <3> QED BY <1>2, <1>4, <2>2, <3>1 DEF Production!OrderAfter, Production!Complete
  <2> QED BY <2>1, <2>2
<1> HIDE DEF now
<1>8. /\ \A c \in Production!OrderId : orders[c] \in Running
           /\ (order[c] = "COMPLETED" => orders[c] = "COMPLETED")
      /\ \A c \in Production!OrderId : orders[c] = "COMPLETED"
           <=> Production!Produced(table, c) >= Needed
  BY <1>2, <1>4, <1>5, <1>7
<1> HIDE DEF orders
<1>9. /\ plan' \in Running /\ (plan = "COMPLETED" => plan' = "COMPLETED")
      /\ plan' = "COMPLETED" <=> \A c \in Production!OrderId : orders[c] = "COMPLETED"
  <2> DEFINE all == \A c \in Production!OrderId : orders[c] = "COMPLETED"
  <2>1. plan = "COMPLETED" => all
    BY <1>4, <1>8
  <2>2. w.plan \in Running /\ (w.plan = "COMPLETED" => plan = "COMPLETED")
    BY <1>1, <1>4 DEF Production!At
  <2>3. plan' = IF all /\ w.plan = "IN_PROGRESS" THEN "COMPLETED"
                ELSE IF ~all /\ w.plan = "COMPLETED" THEN "IN_PROGRESS" ELSE plan
    BY <1>1 DEF Production!PlanAfter
  <2>4. plan \in Running
    BY <1>4
  <2> HIDE DEF all
  <2> QED BY <2>1, <2>2, <2>3, <2>4 DEF Running, all
<1>10. ASSUME NEW q \in Session
       PROVE  /\ desk'[q].stage \in {"idle", "recording"}
              /\ desk'[q].stage = "recording" =>
                   /\ desk'[q].plan \in Running
                   /\ desk'[q].plan = "COMPLETED" => plan' = "COMPLETED"
                   /\ desk'[q].status = "COMPLETED" => order'[desk'[q].order] = "COMPLETED"
  <2>1. desk \in [Session -> Production!Work]
    BY <1>2 DEF Production!TypeOK
  <2>2. CASE q = p
    BY <1>1, <1>2, <2>1, <2>2
  <2>3. CASE q # p
    <3>1. desk'[q] = desk[q] /\ desk[q].order \in Production!OrderId
      BY <1>1, <2>1, <2>3 DEF Production!Work
    <3> QED BY <1>1, <1>4, <1>8, <1>9, <3>1
  <2> QED BY <2>2, <2>3
<1> QED BY <1>1, <1>8, <1>9, <1>10 DEF CompletionInv, Production!At

LEMMA CompletionStep ==
    ProductionInv /\ CompletionInv /\ [Production!Next]_(Production!vars) => CompletionInv'
<1> SUFFICES ASSUME ProductionInv, CompletionInv, [Production!Next]_(Production!vars),
                    Undisturbed' PROVE CompletionInv'
  BY DEF CompletionInv
<1>1. entries' = entries
  BY DEF Production!Next, Production!vars, Production!Recording, Production!Forms, Production!Die,
     Production!AskRecord, Production!CommitRecord, Production!AskEdit, Production!CommitEdit,
     Production!AskOrder,
     Production!CascadeOrder, Production!WriteOrder, Production!AskPlan, Production!CascadePlan,
        Production!WritePlan
<1>2. Undisturbed /\ "form" \notin entries /\ "edit" \notin entries
  BY <1>1 DEF Undisturbed
<1>3. /\ plan \in Running /\ \A o \in Production!OrderId : order[o] \in Running
      /\ \A o \in Production!OrderId : order[o] = "COMPLETED"
           <=> Production!Produced(record, o) >= Needed
      /\ plan = "COMPLETED" <=> \A o \in Production!OrderId : order[o] = "COMPLETED"
      /\ \A q \in Session :
           /\ desk[q].stage \in {"idle", "recording"}
           /\ desk[q].stage = "recording" =>
                /\ desk[q].plan \in Running
                /\ desk[q].plan = "COMPLETED" => plan = "COMPLETED"
                /\ desk[q].status = "COMPLETED" => order[desk[q].order] = "COMPLETED"
      /\ desk \in [Session -> Production!Work]
  BY <1>2 DEF CompletionInv, Production!At, ProductionInv, Production!TypeOK
<1>4. CASE UNCHANGED Production!vars
  BY <1>3, <1>4 DEF Production!vars, CompletionInv, Production!At
<1>5. ASSUME NEW p \in Session, Production!Recording(p) \/ Production!Forms(p)
             \/ Production!Die(p) PROVE CompletionInv'
  <2>1. desk[p].stage \in {"idle", "recording"}
    BY <1>3
  <2>2. ~Production!Forms(p)
    BY <1>2, <2>1 DEF Production!Forms, Production!AskOrder, Production!CascadeOrder,
       Production!WriteOrder, Production!AskPlan, Production!CascadePlan, Production!WritePlan,
       Production!Starts, Production!At
  <2>3. ~Production!CommitEdit(p) /\ \A r \in Production!RecordId, q \in ProductionQuantity :
          ~Production!AskEdit(p, r, q)
    BY <1>2, <2>1 DEF Production!CommitEdit, Production!AskEdit, Production!Starts, Production!At
  <2>4. ASSUME NEW o \in Production!OrderId, NEW q \in ProductionQuantity,
               Production!AskRecord(p, o, q) PROVE CompletionInv'
    <3> DEFINE w == [Production!Idle EXCEPT !.stage = "recording", !.order = o, !.qty = q,
                                            !.plan = plan, !.status = order[o]]
    <3>1. w.plan = plan /\ w.order = o /\ w.status = order[o] /\ w.stage = "recording"
      BY DEF Production!Idle
    <3>2. desk' = [desk EXCEPT ![p] = w] /\ UNCHANGED <<plan, order, record, entries>>
      BY <2>4 DEF Production!AskRecord, Production!Goto
    <3> HIDE DEF w
    <3> QED BY <1>3, <3>1, <3>2 DEF CompletionInv, Production!At
  <2>5. ASSUME NEW r \in Production!RecordId, Production!CommitRecord(p, r) PROVE CompletionInv'
    BY <1>2, <2>5, CompletionRecord
  <2>6. ASSUME Production!Die(p) PROVE CompletionInv'
    <3>1. desk' = [desk EXCEPT ![p] = Production!Idle]
            /\ UNCHANGED <<plan, order, record, entries>>
          /\ Production!Idle.stage = "idle"
      BY <2>6, ProductionIdle DEF Production!Die, Production!Done, Production!Goto
    <3> QED BY <1>3, <3>1 DEF CompletionInv, Production!At
  <2> QED BY <1>5, <2>2, <2>3, <2>4, <2>5, <2>6 DEF Production!Recording
<1> QED BY <1>4, <1>5 DEF Production!Next

LEMMA CompletionStarts == Production!Init => CompletionInv
<1> SUFFICES ASSUME Production!Init PROVE CompletionInv
  OBVIOUS
<1>1. Production!TypeOK
  BY ProductionStarts DEF ProductionInv
<1>2. \A o \in Production!OrderId : Production!Produced(record, o) = 0
  <2> TAKE o \in Production!OrderId
  <2>1. \A r \in 1..Records : Made(record, o)[r] = 0
    BY DEF Production!Init, Made, Production!NoRecord, Production!RecordId
  <2>2. Made(record, o) \in [1..Records -> Int] /\ Records \in Nat /\ Records \in 0..Records
    BY <1>1, ProducedNat, ProductionNumbers
  <2> QED BY <1>1, <2>1, <2>2, ProducedNat, SumToZero
<1>3. 1 \in Production!OrderId /\ Needed > 0 /\ Needed \in Nat
  BY ProductionNumbers DEF Production!OrderId
<1>4. \A o \in Production!OrderId : ~(Production!Produced(record, o) >= Needed)
  BY <1>2, <1>3
<1> QED BY <1>3, <1>4, ProductionIdle DEF Production!Init, CompletionInv, Running, Production!At

LEMMA CompletionKeeps == CompletionInv => Production!CompletionNoticed
BY DEF CompletionInv, Production!CompletionNoticed, Undisturbed

-----------------------------------------------------------------------------
(* The form that edits a production record. *)

\* The sum of the instance is that of the lemmas.
LEMMA EditingSum == \A f, n : Editing!SumTo(f, n) = SumTo(f, n)
BY DEF Editing!SumTo, SumTo

\* What the constants of this part are.
LEMMA EditingNumbers ==
    ProductionOrders \in Nat \ {0} /\ Records \in Nat \ {0} /\ Needed \in Nat \ {0}
      /\ EditingQuantity \subseteq Nat
BY BackOfficeAssumption

-----------------------------------------------------------------------------
(* The invariant. *)

\* Only where records are edited is one being edited.
EditingEditsAsked == \A p \in Session : Editing!At(p, "editing") => "edit" \in entries
EditingInv == Editing!TypeOK /\ EditingEditsAsked /\ Editing!StockFollowsRecords

-----------------------------------------------------------------------------
(* The steps. *)

\* A row whose materials follow its goods, and its goods what it says.
EditingRowRight(w) ==
    /\ w \in Editing!Record
    /\ "longer" \notin entries => w.used = w.goods
    /\ "edit" \notin entries => w.goods = IF w.row = "active" THEN w.good ELSE 0

LEMMA EditingIdle ==
    Editing!Idle \in Editing!Work /\ Editing!Idle.stage = "idle"
      /\ Editing!NoRecord \in Editing!Record /\ EditingRowRight(Editing!NoRecord)
<1>1. 1 \in Editing!OrderId /\ 1 \in Editing!RecordId
  BY EditingNumbers DEF Editing!OrderId, Editing!RecordId
<1>2. Editing!NoRecord \in Editing!Record
  BY <1>1 DEF Editing!NoRecord, Editing!Record
<1> QED BY <1>1, <1>2 DEF Editing!Idle, Editing!Work, Editing!PlanStatus, Editing!OrderStatus,
   EditingRowRight, Editing!NoRecord

LEMMA EditingRowsRight ==
    ASSUME EditingInv, NEW r \in Editing!RecordId
    PROVE  EditingRowRight(record[r])
BY DEF EditingInv, Editing!TypeOK, Editing!StockFollowsRecords, Editing!Active, EditingRowRight

\* A request goes on, in a table of rows that are right.
LEMMA EditingGoes ==
    ASSUME EditingInv, NEW p \in Session, NEW w \in Editing!Work,
           desk' = [desk EXCEPT ![p] = w], entries' = entries,
           w.stage = "editing" => "edit" \in entries,
           plan' \in Editing!PlanStatus, order' \in [Editing!OrderId -> Editing!OrderStatus],
           NEW table, record' = table, table = [r \in Editing!RecordId |-> table[r]],
           \A r \in Editing!RecordId : EditingRowRight(table[r])
    PROVE  EditingInv'
<1>1. Editing!TypeOK'
  <2>1. record' \in [Editing!RecordId -> Editing!Record]
    BY DEF EditingRowRight
  <2>2. desk' \in [Session -> Editing!Work]
    BY DEF EditingInv, Editing!TypeOK
  <2> QED BY <2>1, <2>2 DEF EditingInv, Editing!TypeOK
<1>2. EditingEditsAsked'
  BY DEF EditingInv, Editing!TypeOK, EditingEditsAsked, Editing!At
<1>3. Editing!StockFollowsRecords'
  BY DEF EditingRowRight, Editing!StockFollowsRecords, Editing!Active
<1> QED BY <1>1, <1>2, <1>3 DEF EditingInv

\* The same, when the rows stay.
LEMMA EditingAsks ==
    ASSUME EditingInv, NEW p \in Session, NEW w \in Editing!Work,
           desk' = [desk EXCEPT ![p] = w], entries' = entries,
           w.stage = "editing" => "edit" \in entries,
           plan' \in Editing!PlanStatus, order' \in [Editing!OrderId -> Editing!OrderStatus],
             record' = record
    PROVE  EditingInv'
<1>1. record = [r \in Editing!RecordId |-> record[r]] /\ \A r \in Editing!RecordId :
        EditingRowRight(record[r])
  BY EditingRowsRight DEF EditingInv, Editing!TypeOK
<1> QED BY <1>1, EditingGoes

\* What follows the movements of a record keeps to the statuses.
LEMMA EditingFollowsTyped ==
    ASSUME Editing!TypeOK, NEW table, NEW o \in Editing!OrderId, NEW w,
           Editing!Follow(table, o, w)
    PROVE  plan' \in Editing!PlanStatus /\ order' \in [Editing!OrderId -> Editing!OrderStatus]
             /\ record' = table
<1>1. Editing!OrderAfter(table, o, w.status) \in Editing!OrderStatus
  BY DEF Editing!OrderAfter, Editing!TypeOK, Editing!OrderStatus
<1> DEFINE orders == [order EXCEPT ![o] = Editing!OrderAfter(table, o, w.status)]
<1>2. orders \in [Editing!OrderId -> Editing!OrderStatus]
  BY <1>1 DEF Editing!TypeOK
<1>3. order' = orders /\ record' = table /\ plan' = Editing!PlanAfter(orders, w.plan)
  BY DEF Editing!Follow
<1> HIDE DEF orders
<1>4. Editing!PlanAfter(orders, w.plan) \in Editing!PlanStatus
  BY DEF Editing!PlanAfter, Editing!TypeOK, Editing!PlanStatus
<1> QED BY <1>2, <1>3, <1>4

LEMMA EditingRecords ==
    ASSUME EditingInv, NEW p \in Session, Editing!Recording(p)
    PROVE  EditingInv'
<1>1. ASSUME NEW o \in Editing!OrderId, NEW q \in EditingQuantity, Editing!AskRecord(p, o, q)
      PROVE  EditingInv'
  <2> DEFINE w == [Editing!Idle EXCEPT !.stage = "recording", !.order = o, !.qty = q,
                                       !.plan = plan, !.status = order[o]]
  <2>1. w \in Editing!Work /\ w.stage = "recording"
    BY EditingNumbers, EditingIdle DEF Editing!Idle, Editing!Work, EditingInv, Editing!TypeOK
  <2>2. desk' = [desk EXCEPT ![p] = w] /\ UNCHANGED <<plan, order, record, entries>>
    BY <1>1 DEF Editing!AskRecord, Editing!Goto
  <2> HIDE DEF w
  <2> QED BY <2>1, <2>2, EditingAsks DEF EditingInv, Editing!TypeOK
<1>2. ASSUME NEW r \in Editing!RecordId, Editing!CommitRecord(p, r) PROVE EditingInv'
  <2> DEFINE w == desk[p]
             new == [row |-> "active", order |-> w.order, good |-> w.qty,
                     goods |-> w.qty, used |-> w.qty, numbered |-> w.qty > 0]
             table == [record EXCEPT ![r] = new]  i == Editing!Idle
  <2>1. /\ Editing!Follow(table, w.order, w) /\ entries' = entries
             /\ desk' = [desk EXCEPT ![p] = i]
    BY <1>2 DEF Editing!CommitRecord, Editing!Done, Editing!Goto
  <2>2. w.order \in Editing!OrderId /\ w.qty \in Nat /\ Editing!TypeOK
    BY DEF EditingInv, Editing!TypeOK, Editing!Work
  <2>3. new \in Editing!Record /\ EditingRowRight(new)
    BY <2>2 DEF Editing!Record, EditingRowRight
  <2>4. record \in [Editing!RecordId -> Editing!Record]
    BY <2>2 DEF Editing!TypeOK
  <2> HIDE DEF new
  <2>5. table = [s \in Editing!RecordId |-> table[s]] /\ \A s \in Editing!RecordId :
          EditingRowRight(table[s])
    BY <2>3, <2>4, EditingRowsRight
  <2>6. i \in Editing!Work /\ i.stage = "idle"
    BY EditingIdle
  <2> HIDE DEF table, w, i
  <2>7. plan' \in Editing!PlanStatus /\ order' \in [Editing!OrderId -> Editing!OrderStatus]
          /\ record' = table
    BY <2>1, <2>2, EditingFollowsTyped
  <2> QED BY <2>1, <2>5, <2>6, <2>7, EditingGoes
<1>3. ASSUME NEW r \in Editing!RecordId, NEW q \in EditingQuantity, Editing!AskEdit(p, r, q)
      PROVE  EditingInv'
  <2> DEFINE o == record[r].order
             w == [Editing!Idle EXCEPT !.stage = "editing", !.record = r, !.order = o,
                                       !.qty = q, !.plan = plan, !.status = order[o]]
             table == [record EXCEPT ![r].good = q]
  <2>1. /\ desk' = [desk EXCEPT ![p] = w] /\ "edit" \in entries
        /\ record' = table /\ UNCHANGED <<plan, order, entries>>
    BY <1>3 DEF Editing!AskEdit, Editing!Starts, Editing!Goto
  <2>2. o \in Editing!OrderId /\ record[r] \in Editing!Record /\ q \in Nat
    BY EditingNumbers DEF EditingInv, Editing!TypeOK, Editing!Record
  <2> HIDE DEF o
  <2>3. w \in Editing!Work /\ w.stage = "editing"
    BY <2>2, EditingIdle DEF Editing!Idle, Editing!Work, EditingInv, Editing!TypeOK
  <2>4. table = [s \in Editing!RecordId |-> table[s]]
    BY DEF EditingInv, Editing!TypeOK
  <2>5. \A s \in Editing!RecordId : EditingRowRight(table[s])
    <3> TAKE s \in Editing!RecordId
    <3>1. EditingRowRight(record[s]) /\ record \in [Editing!RecordId -> Editing!Record]
      BY EditingRowsRight DEF EditingInv, Editing!TypeOK
    <3>2. CASE s # r
      BY <3>1, <3>2
    <3>3. CASE s = r
      <4> DEFINE b == record[r]  d == [b EXCEPT !.good = q]
      <4>1. table[s] = d /\ b \in Editing!Record /\ EditingRowRight(b)
        BY <3>1, <3>3
      <4> HIDE DEF b, table
      <4>2. d \in Editing!Record /\ d.used = b.used /\ d.goods = b.goods
        BY <2>2, <4>1 DEF Editing!Record
      <4> QED BY <2>1, <4>1, <4>2 DEF EditingRowRight
    <3> QED BY <3>2, <3>3
  <2> HIDE DEF w, table
  <2>6. plan' \in Editing!PlanStatus /\ order' \in [Editing!OrderId -> Editing!OrderStatus]
    BY <2>1 DEF EditingInv, Editing!TypeOK
  <2> QED BY <2>1, <2>3, <2>4, <2>5, <2>6, EditingGoes
<1>4. ASSUME Editing!CommitEdit(p) PROVE EditingInv'
  <2> DEFINE w == desk[p]
             r == w.record
             Cleared(s) == IF s = r \/ s \in Editing!Longer(r)
                           THEN [record[s] EXCEPT !.used = 0, !.goods = IF s = r THEN 0 ELSE @]
                           ELSE record[s]
             New(s) == IF s = r THEN [Cleared(s) EXCEPT !.goods = w.qty, !.used = w.qty,
                                                        !.numbered = @ \/ w.qty > 0]
                       ELSE Cleared(s)
             table == [s \in Editing!RecordId |-> New(s)]
             i == Editing!Idle
  <2>1. /\ Editing!At(p, "editing") /\ desk' = [desk EXCEPT ![p] = i] /\ entries' = entries
        /\ UNCHANGED <<plan, order, record>> \/ Editing!Follow(table, w.order, w)
    BY <1>4 DEF Editing!CommitEdit, Editing!Done, Editing!Goto
  <2>2. /\ w.order \in Editing!OrderId /\ w.record \in Editing!RecordId /\ w.qty \in Nat
             /\ Editing!TypeOK
        /\ "edit" \in entries
    BY <2>1 DEF EditingInv, Editing!TypeOK, Editing!Work, EditingEditsAsked
  <2>3. i \in Editing!Work /\ i.stage = "idle"
    BY EditingIdle
  <2>4. CASE UNCHANGED <<plan, order, record>>
    BY <2>1, <2>2, <2>3, <2>4, EditingAsks DEF Editing!TypeOK
  <2>5. CASE Editing!Follow(table, w.order, w)
    <3>1. ASSUME NEW s \in Editing!RecordId PROVE EditingRowRight(New(s))
      <4> DEFINE b == record[s]  c == Cleared(s)
      <4>1. b \in Editing!Record /\ EditingRowRight(b)
        BY <2>2, EditingRowsRight DEF Editing!TypeOK
      <4>2. "longer" \notin entries => Editing!Longer(r) = {}
        BY DEF Editing!Longer
      <4>3. c \in Editing!Record /\ ("longer" \notin entries /\ s # r => c = b)
        <5>1. CASE s = r \/ s \in Editing!Longer(r)
          <6> DEFINE g == IF s = r THEN 0 ELSE b.goods
          <6>1. g \in Nat /\ c = [b EXCEPT !.used = 0, !.goods = g]
            BY <4>1, <5>1 DEF Editing!Record
          <6> HIDE DEF g, b, c
          <6>2. c \in Editing!Record
            BY <4>1, <6>1 DEF Editing!Record
          <6> QED BY <4>2, <5>1, <6>2
        <5>2. CASE ~(s = r \/ s \in Editing!Longer(r))
          BY <4>1, <5>2
        <5> QED BY <5>1, <5>2
      <4> HIDE DEF b, c
      <4>4. CASE s = r
        <5> DEFINE k == w.qty  n == c.numbered \/ k > 0
                   d == [c EXCEPT !.goods = k, !.used = k, !.numbered = n]
        <5>1. New(s) = d
          BY <4>4 DEF c
        <5>2. k \in Nat /\ n \in BOOLEAN
          BY <2>2, <4>3 DEF Editing!Record
        <5> HIDE DEF k, n
        <5>3. d \in Editing!Record /\ d.used = d.goods
          BY <4>3, <5>2 DEF Editing!Record
        <5> HIDE DEF d
        <5> QED BY <2>2, <5>1, <5>3 DEF EditingRowRight
      <4>5. CASE s # r
        <5>1. New(s) = c
          BY <4>5 DEF c
        <5> HIDE DEF New
        <5> QED BY <2>2, <4>1, <4>3, <4>5, <5>1 DEF EditingRowRight
      <4> QED BY <4>4, <4>5
    <3> HIDE DEF New
    <3>2. table = [s \in Editing!RecordId |-> table[s]] /\ \A s \in Editing!RecordId :
            EditingRowRight(table[s])
      BY <3>1
    <3> HIDE DEF table, w, i
    <3>3. plan' \in Editing!PlanStatus /\ order' \in [Editing!OrderId -> Editing!OrderStatus]
            /\ record' = table
      BY <2>2, <2>5, EditingFollowsTyped
    <3> QED BY <2>1, <2>3, <3>2, <3>3, EditingGoes
  <2> QED BY <2>1, <2>4, <2>5
<1> QED BY <1>1, <1>2, <1>3, <1>4 DEF Editing!Recording

\* A cancellation takes back what the records of its orders stand for.
LEMMA EditingCancelledRight ==
    ASSUME EditingInv, NEW os
    PROVE  /\ Editing!Cancelled(os) = [r \in Editing!RecordId |-> Editing!Cancelled(os)[r]]
           /\ \A r \in Editing!RecordId : EditingRowRight(Editing!Cancelled(os)[r])
<1>1. Editing!Cancelled(os) = [r \in Editing!RecordId |-> Editing!Cancelled(os)[r]]
  BY DEF Editing!Cancelled
<1>2. ASSUME NEW r \in Editing!RecordId PROVE EditingRowRight(Editing!Cancelled(os)[r])
  <2>1. EditingRowRight(record[r]) /\ record[r] \in Editing!Record
    BY EditingRowsRight DEF EditingRowRight
  <2>2. EditingRowRight(Editing!Reversed(record[r]))
    BY <2>1 DEF Editing!Reversed, Editing!Record, EditingRowRight
  <2> QED BY <2>1, <2>2 DEF Editing!Cancelled
<1> QED BY <1>1, <1>2

LEMMA EditingForms ==
    ASSUME EditingInv, NEW p \in Session, Editing!Forms(p) \/ Editing!Die(p)
    PROVE  EditingInv'
<1> DEFINE w == desk[p]  i == Editing!Idle
<1>0. /\ plan \in Editing!PlanStatus /\ order \in [Editing!OrderId -> Editing!OrderStatus]
      /\ w \in Editing!Work /\ i \in Editing!Work /\ i.stage = "idle"
  BY EditingIdle DEF EditingInv, Editing!TypeOK
<1>1. ASSUME NEW o \in Editing!OrderId, NEW s \in Chosen \cap Editing!OrderStatus,
             Editing!AskOrder(p, o, s)
      PROVE  EditingInv'
  <2> DEFINE v == [Editing!Idle EXCEPT !.stage = "ordering", !.order = o, !.status = s]
  <2>1. v \in Editing!Work /\ v.stage = "ordering"
    BY EditingIdle DEF Editing!Idle, Editing!Work
  <2>2. desk' = [desk EXCEPT ![p] = v] /\ UNCHANGED <<plan, order, record, entries>>
    BY <1>1 DEF Editing!AskOrder, Editing!Goto
  <2> HIDE DEF v
  <2> QED BY <1>0, <2>1, <2>2, EditingAsks
<1>2. ASSUME NEW s \in Chosen \cap Editing!PlanStatus, Editing!AskPlan(p, s) PROVE EditingInv'
  <2> DEFINE v == [Editing!Idle EXCEPT !.stage = "planning", !.plan = s]
  <2>1. v \in Editing!Work /\ v.stage = "planning"
    BY EditingIdle DEF Editing!Idle, Editing!Work
  <2>2. desk' = [desk EXCEPT ![p] = v] /\ UNCHANGED <<plan, order, record, entries>>
    BY <1>2 DEF Editing!AskPlan, Editing!Goto
  <2> HIDE DEF v
  <2> QED BY <1>0, <2>1, <2>2, EditingAsks
<1>3. ASSUME Editing!CascadeOrder(p) PROVE EditingInv'
  <2> DEFINE v == [w EXCEPT !.stage = "writingOrder"]
  <2>1. v \in Editing!Work /\ v.stage = "writingOrder"
    BY <1>0 DEF Editing!Work
  <2>2. /\ desk' = [desk EXCEPT ![p] = v] /\ UNCHANGED <<plan, order, entries>>
        /\ record' = record \/ record' = Editing!Cancelled({w.order})
    BY <1>3 DEF Editing!CascadeOrder, Editing!Goto
  <2> HIDE DEF v
  <2>3. CASE record' = record
    BY <1>0, <2>1, <2>2, <2>3, EditingAsks
  <2>4. CASE record' = Editing!Cancelled({w.order})
    BY <1>0, <2>1, <2>2, <2>4, EditingCancelledRight, EditingGoes
  <2> QED BY <2>2, <2>3, <2>4
<1>4. ASSUME Editing!CascadePlan(p) PROVE EditingInv'
  <2> DEFINE v == [w EXCEPT !.stage = "writingPlan"]
  <2>1. v \in Editing!Work /\ v.stage = "writingPlan"
    BY <1>0 DEF Editing!Work
  <2>2. /\ desk' = [desk EXCEPT ![p] = v] /\ UNCHANGED <<plan, entries>>
        /\ \/ UNCHANGED <<record, order>>
           \/ record' = Editing!Cancelled(Editing!OrderId)
                /\ order' = [o \in Editing!OrderId |-> "CANCELLED"]
    BY <1>4 DEF Editing!CascadePlan, Editing!Goto
  <2> HIDE DEF v
  <2>3. CASE UNCHANGED <<record, order>>
    BY <1>0, <2>1, <2>2, <2>3, EditingAsks
  <2>4. CASE record' = Editing!Cancelled(Editing!OrderId)
               /\ order' = [o \in Editing!OrderId |-> "CANCELLED"]
    <3>1. order' \in [Editing!OrderId -> Editing!OrderStatus]
      BY <2>4 DEF Editing!OrderStatus
    <3> QED BY <1>0, <2>1, <2>2, <2>4, <3>1, EditingCancelledRight, EditingGoes
  <2> QED BY <2>2, <2>3, <2>4
<1>5. ASSUME Editing!WriteOrder(p) \/ Editing!WritePlan(p) \/ Editing!Die(p) PROVE EditingInv'
  <2>1. desk' = [desk EXCEPT ![p] = i] /\ UNCHANGED <<record, entries>>
    BY <1>5 DEF Editing!WriteOrder, Editing!WritePlan, Editing!Die, Editing!Done, Editing!Goto
  <2>2. plan' \in Editing!PlanStatus /\ order' \in [Editing!OrderId -> Editing!OrderStatus]
    BY <1>0, <1>5 DEF Editing!WriteOrder, Editing!WritePlan, Editing!Die, Editing!Work
  <2> HIDE DEF i
  <2> QED BY <1>0, <2>1, <2>2, EditingAsks DEF i
<1> QED BY <1>1, <1>2, <1>3, <1>4, <1>5 DEF Editing!Forms

LEMMA EditingStarts == Editing!Init => EditingInv
<1> SUFFICES ASSUME Editing!Init PROVE EditingInv
  OBVIOUS
<1>1. Editing!TypeOK
  BY EditingIdle DEF Editing!Init, Editing!TypeOK, Editing!PlanStatus, Editing!OrderStatus
<1>2. \A r \in Editing!RecordId : EditingRowRight(record[r])
  BY EditingIdle DEF Editing!Init
<1>3. Editing!StockFollowsRecords
  BY <1>2 DEF Editing!StockFollowsRecords, EditingRowRight, Editing!Active
<1>4. EditingEditsAsked
  BY EditingIdle DEF Editing!Init, EditingEditsAsked, Editing!At
<1> QED BY <1>1, <1>3, <1>4 DEF EditingInv

LEMMA EditingStep == EditingInv /\ [Editing!Next]_(Editing!vars) => EditingInv'
<1> SUFFICES ASSUME EditingInv, [Editing!Next]_(Editing!vars) PROVE EditingInv'
  OBVIOUS
<1>1. CASE UNCHANGED Editing!vars
  BY <1>1 DEF Editing!vars, EditingInv, Editing!TypeOK, EditingEditsAsked,
     Editing!StockFollowsRecords, Editing!Active, Editing!At
<1>2. ASSUME NEW p \in Session, Editing!Recording(p) \/ Editing!Forms(p) \/ Editing!Die(p)
      PROVE  EditingInv'
  BY <1>2, EditingRecords, EditingForms
<1> QED BY <1>1, <1>2 DEF Editing!Next

-----------------------------------------------------------------------------
(* The money of an order. *)

\* The cardinality of the instance is that of the lemmas.
LEMMA OrderMoneyCardinality == \A S : OrderMoney!Cardinality(S) = Cardinality(S)
BY DEF OrderMoney!Cardinality, Cardinality

\* What the constants of this part are.
LEMMA OrderMoneyNumbers ==
    MoneyTotal \in Nat /\ MoneyFee \in Nat /\ MoneyOpening \in Int /\ MoneyPayments \in Nat
      /\ MoneyFees \in Nat
BY BackOfficeAssumption

-----------------------------------------------------------------------------
(* The invariant. *)

\* Where requests do not pay at once, one is paying.
OnePayer == "payers" \notin entries => \A p, q \in Session : OrderMoney!Pays(desk[p])
  /\ OrderMoney!Pays(desk[q]) => p = q

\* Only a form saves all of an order; where one request pays, the receipts are
\* gone before it records, the order is unpaid still, and what it settles was
\* not disbursed.
MoneyStages ==
    \A p \in Session :
        LET w == desk[p] IN
        /\ w.whole => "edit" \in entries
        /\ "payers" \notin entries =>
              /\ w.stage = "recording" => OrderMoney!Active("receipt") = {}
              /\ w.stage \in {"sweeping", "recording"} /\ "edit" \notin entries => ~order.paid
              /\ w.stage = "settling" /\ w.record # 0 =>
                    \A k \in OrderMoney!Active("fee") : payment[k].of # w.record

\* A disbursement is for a record that was settled.
FeesPaid ==
    /\ \A k \in OrderMoney!Active("fee") :
          payment[k].of \in OrderMoney!FeeId /\ fee[payment[k].of] \in {"SETTLED", "retired"}
    /\ "payers" \notin entries =>
          \A k, i \in OrderMoney!Active("fee") : payment[k].of = payment[i].of => k = i

ReceiptRight ==
    "payers" \notin entries =>
        /\ \A k, i \in OrderMoney!Active("receipt") : k = i
        /\ order.paid /\ "edit" \notin entries => OrderMoney!Active("receipt") # {}

BankRight ==
    "claim" \notin entries =>
        /\ OrderMoney!Active("claim") = {}
        /\ balance = MoneyOpening + Cardinality(OrderMoney!Active("receipt")) * MoneyTotal - Cardinality(OrderMoney!Active("fee")) * MoneyFee

MoneyInv ==
    /\ OrderMoney!TypeOK /\ OnePayer /\ MoneyStages
    /\ FeesPaid /\ ReceiptRight /\ BankRight

-----------------------------------------------------------------------------
(* Requests that move no money. *)

LEMMA MoneyIdle ==
    OrderMoney!Idle \in OrderMoney!Work /\ OrderMoney!Idle.stage = "idle"
      /\ ~OrderMoney!Pays(OrderMoney!Idle) /\ OrderMoney!Idle.whole = FALSE
BY OrderMoneyNumbers DEF OrderMoney!Idle, OrderMoney!Work, OrderMoney!Status, OrderMoney!Pays

LEMMA MoneyGoes ==
    ASSUME MoneyInv, NEW p \in Session, NEW w \in OrderMoney!Work,
           desk' = [desk EXCEPT ![p] = w], entries' = entries,
           payment' = payment, fee' = fee, balance' = balance,
           claim' \in OrderMoney!Claim, order' \in [status: OrderMoney!Status, paid: BOOLEAN],
           order'.paid = order.paid \/ "edit" \in entries,
           OrderMoney!Pays(w) => OrderMoney!Pays(desk[p]) \/ OrderMoney!StartsPaying(p),
           w.whole => "edit" \in entries, w.stage # "recording",
           w.stage = "sweeping" => ~order.paid,
           w.stage = "settling" /\ w.record # 0 /\ "payers" \notin entries =>
              \A k \in OrderMoney!Active("fee") : payment[k].of # w.record
    PROVE  MoneyInv'
<1>1. desk'[p] = w /\ \A q \in Session : q # p => desk'[q] = desk[q]
  BY DEF MoneyInv, OrderMoney!TypeOK
<1>2. OrderMoney!TypeOK'
  <2>1. desk' \in [Session -> OrderMoney!Work]
    BY DEF MoneyInv, OrderMoney!TypeOK
  <2> QED BY <2>1 DEF MoneyInv, OrderMoney!TypeOK
<1>3. OnePayer'
  <2>1. "payers" \notin entries /\ OrderMoney!Pays(w) => \A q \in Session : q # p
          => ~OrderMoney!Pays(desk[q])
    BY DEF MoneyInv, OnePayer, OrderMoney!StartsPaying
  <2> QED BY <1>1, <2>1 DEF MoneyInv, OnePayer
<1>4. \A j : OrderMoney!Active(j)' = OrderMoney!Active(j)
  BY DEF OrderMoney!Active
<1>5. MoneyStages'
  <2> SUFFICES ASSUME NEW q \in Session PROVE MoneyStages!(q)'
    BY DEF MoneyStages
  <2>1. CASE q = p
    BY <2>1, <1>1, <1>4 DEF MoneyInv, MoneyStages
  <2>2. CASE q # p
    BY <2>2, <1>1, <1>4 DEF MoneyInv, MoneyStages
  <2> QED BY <2>1, <2>2
<1>6. FeesPaid' /\ BankRight'
  BY <1>4 DEF MoneyInv, FeesPaid, BankRight
<1>7. ReceiptRight'
  BY <1>4 DEF MoneyInv, ReceiptRight
<1> QED BY <1>2, <1>3, <1>5, <1>6, <1>7 DEF MoneyInv

\* The request is done.
LEMMA MoneyDone ==
    ASSUME MoneyInv, NEW p \in Session, desk' = [desk EXCEPT ![p] = OrderMoney!Idle],
           entries' = entries, payment' = payment, fee' = fee, balance' = balance,
           claim' \in OrderMoney!Claim, order' \in [status: OrderMoney!Status, paid: BOOLEAN],
           order'.paid = order.paid \/ "edit" \in entries
    PROVE  MoneyInv'
BY MoneyIdle, MoneyGoes

\* It goes on to a stage that asks for nothing.
LEMMA MoneySteps ==
    ASSUME MoneyInv, NEW p \in Session, NEW stage, desk' = [desk EXCEPT ![p].stage = stage],
           stage \in {"sweeping", "closing", "feeing", "cancelling", "writing"},
           stage = "sweeping" => ~order.paid /\ OrderMoney!Pays(desk[p]),
           stage = "feeing" => OrderMoney!Pays(desk[p]),
           entries' = entries, payment' = payment, fee' = fee, balance' = balance,
           claim' \in OrderMoney!Claim, order' \in [status: OrderMoney!Status, paid: BOOLEAN],
           order'.paid = order.paid \/ "edit" \in entries
    PROVE  MoneyInv'
<1> DEFINE w == [desk[p] EXCEPT !.stage = stage]
<1>1. w \in OrderMoney!Work /\ w.stage = stage /\ w.whole = desk[p].whole
  BY DEF OrderMoney!Work, MoneyInv, OrderMoney!TypeOK
<1>2. desk' = [desk EXCEPT ![p] = w]
  BY DEF MoneyInv, OrderMoney!TypeOK
<1>3. w.whole => "edit" \in entries
  BY <1>1 DEF MoneyInv, MoneyStages
<1> HIDE DEF w
<1>4. OrderMoney!Pays(w) => OrderMoney!Pays(desk[p])
  BY <1>1 DEF OrderMoney!Pays
<1> QED BY <1>1, <1>2, <1>3, <1>4, MoneyGoes

LEMMA PaymentAsked ==
    ASSUME MoneyInv, NEW p \in Session, OrderMoney!AskPay(p)
    PROVE  MoneyInv'
<1> DEFINE w == [OrderMoney!Idle EXCEPT !.stage = "paying", !.status = order.status]
<1>1. w \in OrderMoney!Work /\ w.stage = "paying" /\ ~w.whole
  BY MoneyIdle DEF OrderMoney!Idle, OrderMoney!Work, MoneyInv, OrderMoney!TypeOK
<1>2. desk' = [desk EXCEPT ![p] = w] /\ OrderMoney!StartsPaying(p)
  BY DEF OrderMoney!AskPay, OrderMoney!Goto
<1>3. claim \in OrderMoney!Claim /\ order \in [status: OrderMoney!Status, paid: BOOLEAN]
  BY DEF MoneyInv, OrderMoney!TypeOK
<1> HIDE DEF w
<1> QED BY <1>1, <1>2, <1>3, MoneyGoes DEF OrderMoney!AskPay

LEMMA Rechecked ==
    ASSUME MoneyInv, NEW p \in Session, OrderMoney!Recheck(p)
    PROVE  MoneyInv'
<1>1. claim \in OrderMoney!Claim /\ order \in [status: OrderMoney!Status, paid: BOOLEAN]
        /\ OrderMoney!Pays(desk[p])
  BY DEF MoneyInv, OrderMoney!TypeOK, OrderMoney!Recheck, OrderMoney!At, OrderMoney!Pays
<1>2. CASE order.paid
  <2>1. desk' = [desk EXCEPT ![p] = OrderMoney!Idle]
    BY <1>2 DEF OrderMoney!Recheck, OrderMoney!Done, OrderMoney!Goto
  <2> QED BY <1>1, <2>1, MoneyDone DEF OrderMoney!Recheck
<1>3. CASE ~order.paid
  <2>1. desk' = [desk EXCEPT ![p].stage = "sweeping"]
    BY <1>3 DEF OrderMoney!Recheck, OrderMoney!Step, OrderMoney!Goto, MoneyInv, OrderMoney!TypeOK
  <2> QED BY <1>1, <1>3, <2>1, MoneySteps DEF OrderMoney!Recheck
<1> QED BY <1>2, <1>3

LEMMA FeeSought ==
    ASSUME MoneyInv, NEW p \in Session, OrderMoney!LookForFee(p)
    PROVE  MoneyInv'
<1> DEFINE known == {f \in OrderMoney!FeeId : fee[f] \in {"PENDING", "SETTLED"}}
           newest == CHOOSE f \in known : \A g \in known : g <= f
<1>1. claim \in OrderMoney!Claim /\ order \in [status: OrderMoney!Status, paid: BOOLEAN]
        /\ OrderMoney!Pays(desk[p])
  BY DEF MoneyInv, OrderMoney!TypeOK, OrderMoney!LookForFee, OrderMoney!At, OrderMoney!Pays
<1>2. UNCHANGED <<order, claim, payment, fee, balance, entries>>
  BY DEF OrderMoney!LookForFee
<1>3. CASE known # {} /\ fee[newest] # "PENDING"
  <2>1. desk' = [desk EXCEPT ![p].stage = "closing"]
    BY <1>3 DEF OrderMoney!LookForFee, OrderMoney!Step, OrderMoney!Goto, MoneyInv,
      OrderMoney!TypeOK
  <2> QED BY <1>1, <1>2, <2>1, MoneySteps
<1>4. ASSUME NEW r \in 0..MoneyFees,
             desk' = [desk EXCEPT ![p] = [desk[p] EXCEPT !.stage = "settling", !.record = r]],
             r # 0 => \A k \in OrderMoney!Active("fee") : payment[k].of # r
      PROVE  MoneyInv'
  <2> DEFINE w == [desk[p] EXCEPT !.stage = "settling", !.record = r]
  <2>1. w \in OrderMoney!Work /\ w.stage = "settling" /\ w.whole = desk[p].whole /\ w.record = r
    BY DEF OrderMoney!Work, MoneyInv, OrderMoney!TypeOK
  <2>2. desk' = [desk EXCEPT ![p] = w]
    BY <1>4
  <2>3. w.whole => "edit" \in entries
    BY <2>1 DEF MoneyInv, MoneyStages
  <2> HIDE DEF w
  <2> QED BY <1>1, <1>2, <1>4, <2>1, <2>2, <2>3, MoneyGoes
<1>5. CASE known = {}
  <2>1. desk' = [desk EXCEPT ![p] = [desk[p] EXCEPT !.stage = "settling", !.record = 0]]
    BY <1>5 DEF OrderMoney!LookForFee, OrderMoney!Goto
  <2>2. 0 \in 0..MoneyFees
    BY OrderMoneyNumbers
  <2> QED BY <1>4, <2>1, <2>2
<1>6. CASE known # {} /\ fee[newest] = "PENDING"
  <2>1. desk' = [desk EXCEPT ![p] = [desk[p] EXCEPT !.stage = "settling", !.record = newest]]
    BY <1>6 DEF OrderMoney!LookForFee, OrderMoney!Goto
  <2>2. newest \in known
    <3>1. known \subseteq 0..MoneyFees /\ MoneyFees \in Nat
      BY OrderMoneyNumbers DEF OrderMoney!FeeId
    <3>2. \E x \in known : \A y \in known : y <= x
      BY <3>1, <1>6, GreatestOne
    <3> QED BY <3>2
  <2> HIDE DEF newest
  <2>3. newest \in 0..MoneyFees
    BY <2>2, OrderMoneyNumbers DEF OrderMoney!FeeId
  <2>4. \A k \in OrderMoney!Active("fee") : payment[k].of # newest
    BY <1>6 DEF MoneyInv, FeesPaid
  <2> QED BY <1>4, <2>1, <2>3, <2>4
<1> QED BY <1>3, <1>5, <1>6

LEMMA OrderClosed ==
    ASSUME MoneyInv, NEW p \in Session, OrderMoney!Close(p)
    PROVE  MoneyInv'
<1>1. /\ desk' = [desk EXCEPT ![p] = OrderMoney!Idle]
           /\ UNCHANGED <<claim, payment, fee, balance, entries>>
      /\ order' = IF desk[p].status = "DELIVERED" /\ order.paid
                  THEN [status |-> "CLOSED", paid |-> order.paid] ELSE order
  BY DEF OrderMoney!Close, OrderMoney!Done, OrderMoney!Goto
<1>2. claim' \in OrderMoney!Claim /\ order' \in [status: OrderMoney!Status, paid: BOOLEAN]
        /\ order'.paid = order.paid
  BY <1>1 DEF MoneyInv, OrderMoney!TypeOK, OrderMoney!Status
<1> QED BY <1>1, <1>2, MoneyDone

LEMMA SettlingAsked ==
    ASSUME MoneyInv, NEW p \in Session, NEW f \in OrderMoney!FeeId, OrderMoney!AskSettle(p, f)
    PROVE  MoneyInv'
<1> DEFINE w == [OrderMoney!Idle EXCEPT !.stage = "settling", !.record = f]
<1>0. f \in 0..MoneyFees
  BY OrderMoneyNumbers DEF OrderMoney!FeeId
<1>1. w \in OrderMoney!Work /\ w.stage = "settling" /\ ~w.whole /\ w.record = f
  BY <1>0, MoneyIdle DEF OrderMoney!Idle, OrderMoney!Work
<1>2. desk' = [desk EXCEPT ![p] = w] /\ OrderMoney!StartsPaying(p) /\ fee[f] = "PENDING"
  BY DEF OrderMoney!AskSettle, OrderMoney!Goto
<1>3. claim \in OrderMoney!Claim /\ order \in [status: OrderMoney!Status, paid: BOOLEAN]
  BY DEF MoneyInv, OrderMoney!TypeOK
<1>4. \A k \in OrderMoney!Active("fee") : payment[k].of # f
  BY <1>2 DEF MoneyInv, FeesPaid
<1> HIDE DEF w
<1> QED BY <1>1, <1>2, <1>3, <1>4, MoneyGoes DEF OrderMoney!AskSettle

LEMMA SavingAsked ==
    ASSUME MoneyInv, NEW p \in Session, OrderMoney!AskEdit(p) \/ \E s \in OrderMoney!Status :
           OrderMoney!AskStatus(p, s)
    PROVE  MoneyInv'
<1>1. UNCHANGED <<order, claim, payment, fee, balance, entries>>
  BY DEF OrderMoney!AskEdit, OrderMoney!AskStatus
<1>2. claim' \in OrderMoney!Claim /\ order' \in [status: OrderMoney!Status, paid: BOOLEAN]
  BY <1>1 DEF MoneyInv, OrderMoney!TypeOK
<1>3. ASSUME NEW w \in OrderMoney!Work, w.stage = "handling", w.whole => "edit" \in entries,
             desk' = [desk EXCEPT ![p] = w]
      PROVE  MoneyInv'
  BY <1>1, <1>2, <1>3, MoneyGoes DEF OrderMoney!Pays
<1>4. CASE OrderMoney!AskEdit(p)
  <2> DEFINE w == [OrderMoney!Idle EXCEPT !.stage = "handling", !.status = order.status,
                                          !.paid = order.paid, !.whole = TRUE]
  <2>1. w \in OrderMoney!Work /\ w.stage = "handling"
    BY MoneyIdle DEF OrderMoney!Idle, OrderMoney!Work, MoneyInv, OrderMoney!TypeOK
  <2>2. desk' = [desk EXCEPT ![p] = w] /\ "edit" \in entries
    BY <1>4 DEF OrderMoney!AskEdit, OrderMoney!Goto
  <2> HIDE DEF w
  <2> QED BY <2>1, <2>2, <1>3
<1>5. ASSUME NEW s \in OrderMoney!Status, OrderMoney!AskStatus(p, s) PROVE MoneyInv'
  <2> DEFINE w == [OrderMoney!Idle EXCEPT !.stage = "handling", !.status = s]
  <2>1. w \in OrderMoney!Work /\ w.stage = "handling" /\ ~w.whole
    BY MoneyIdle DEF OrderMoney!Idle, OrderMoney!Work
  <2>2. desk' = [desk EXCEPT ![p] = w]
    BY <1>5 DEF OrderMoney!AskStatus, OrderMoney!Goto
  <2> HIDE DEF w
  <2> QED BY <2>1, <2>2, <1>3
<1> QED BY <1>4, <1>5

LEMMA OrderHandled ==
    ASSUME MoneyInv, NEW p \in Session, OrderMoney!Handle(p)
    PROVE  MoneyInv'
<1>1. UNCHANGED <<order, payment, fee, balance, entries>>
  BY DEF OrderMoney!Handle
<1>2. claim' \in OrderMoney!Claim /\ order' \in [status: OrderMoney!Status, paid: BOOLEAN]
  BY <1>1 DEF OrderMoney!Handle, OrderMoney!Claim, MoneyInv, OrderMoney!TypeOK
<1>3. \E stage \in {"cancelling", "writing"} : desk' = [desk EXCEPT ![p].stage = stage]
  BY DEF OrderMoney!Handle, OrderMoney!Step, OrderMoney!Goto, MoneyInv, OrderMoney!TypeOK
<1> QED BY <1>1, <1>2, <1>3, MoneySteps

LEMMA OrderWritten ==
    ASSUME MoneyInv, NEW p \in Session, OrderMoney!Write(p)
    PROVE  MoneyInv'
<1>1. /\ desk' = [desk EXCEPT ![p] = OrderMoney!Idle]
           /\ UNCHANGED <<claim, payment, fee, balance, entries>>
      /\ order' = [status |-> desk[p].status,
                   paid |-> IF desk[p].whole THEN desk[p].paid ELSE order.paid]
  BY DEF OrderMoney!Write, OrderMoney!Done, OrderMoney!Goto
<1>2. claim' \in OrderMoney!Claim /\ order' \in [status: OrderMoney!Status, paid: BOOLEAN]
  BY <1>1 DEF MoneyInv, OrderMoney!TypeOK, OrderMoney!Work
<1>3. order'.paid = order.paid \/ "edit" \in entries
  BY <1>1 DEF MoneyInv, MoneyStages
<1> QED BY <1>1, <1>2, <1>3, MoneyDone

LEMMA MoneyDies ==
    ASSUME MoneyInv, NEW p \in Session, OrderMoney!Die(p)
    PROVE  MoneyInv'
<1>1. desk' = [desk EXCEPT ![p] = OrderMoney!Idle]
        /\ UNCHANGED <<order, claim, payment, fee, balance, entries>>
  BY DEF OrderMoney!Die, OrderMoney!Done, OrderMoney!Goto
<1>2. claim' \in OrderMoney!Claim /\ order' \in [status: OrderMoney!Status, paid: BOOLEAN]
  BY <1>1 DEF MoneyInv, OrderMoney!TypeOK
<1> QED BY <1>1, <1>2, MoneyDone

-----------------------------------------------------------------------------
(* Payments. *)

LEMMA PaymentsFinite ==
    ASSUME MoneyInv
    PROVE  \A j : IsFiniteSet(OrderMoney!Active(j)) /\ Cardinality(OrderMoney!Active(j)) \in Nat
             /\ OrderMoney!Active(j) \subseteq OrderMoney!PaymentId
<1>1. IsFiniteSet(OrderMoney!PaymentId)
  BY OrderMoneyNumbers, FS_Interval DEF OrderMoney!PaymentId
<1>2. \A j : OrderMoney!Active(j) \subseteq OrderMoney!PaymentId
  BY DEF OrderMoney!Active
<1> QED BY <1>1, <1>2, FS_Subset, FS_CardinalityType

\* A payment that is registered is in force, and no other changes.
LEMMA Registered ==
    ASSUME MoneyInv, NEW k \in OrderMoney!PaymentId, NEW j \in {"receipt", "claim", "fee"},
           NEW f \in 0..MoneyFees,
           OrderMoney!Register(k, j, f)
    PROVE  /\ payment' \in [OrderMoney!PaymentId -> OrderMoney!Payment] /\ balance' \in Int
           /\ k \notin OrderMoney!Active(j)
                /\ OrderMoney!Active(j)' = OrderMoney!Active(j) \cup {k}
           /\ \A l : l # j => OrderMoney!Active(l)' = OrderMoney!Active(l)
           /\ payment'[k].of = f /\ \A i \in OrderMoney!PaymentId : i # k
                => payment'[i] = payment[i]
           /\ Cardinality(OrderMoney!Active(j)') = Cardinality(OrderMoney!Active(j)) + 1
           /\ balance' = balance + (IF j = "fee" THEN -MoneyFee ELSE MoneyTotal)
<1>1. payment[k].row = "absent"
        /\ payment' = [payment EXCEPT ![k] = [row |-> "active", kind |-> j, of |-> f]]
      /\ balance' = balance + OrderMoney!Signed(j)
  BY DEF OrderMoney!Register
<1>2. OrderMoney!Signed(j) = (IF j = "fee" THEN -MoneyFee ELSE MoneyTotal)
        /\ OrderMoney!Signed(j) \in Int
  BY OrderMoneyNumbers DEF OrderMoney!Signed, OrderMoney!Amount
<1>3. payment' \in [OrderMoney!PaymentId -> OrderMoney!Payment]
  BY <1>1 DEF MoneyInv, OrderMoney!TypeOK, OrderMoney!Payment
<1>4. k \notin OrderMoney!Active(j) /\ OrderMoney!Active(j)' = OrderMoney!Active(j) \cup {k}
      /\ \A l : l # j => OrderMoney!Active(l)' = OrderMoney!Active(l)
      /\ payment'[k].of = f /\ \A i \in OrderMoney!PaymentId : i # k => payment'[i] = payment[i]
  BY <1>1 DEF OrderMoney!Active, MoneyInv, OrderMoney!TypeOK
<1>5. Cardinality(OrderMoney!Active(j)') = Cardinality(OrderMoney!Active(j)) + 1
  BY <1>4, PaymentsFinite, FS_AddElement
<1> QED BY <1>1, <1>2, <1>3, <1>4, <1>5 DEF MoneyInv, OrderMoney!TypeOK

\* Payments that are retired are no more in force, and no other changes.
LEMMA RetiredGone ==
    ASSUME MoneyInv, NEW ks, ks \subseteq OrderMoney!PaymentId, payment' = OrderMoney!Retired(ks)
    PROVE  /\ payment' \in [OrderMoney!PaymentId -> OrderMoney!Payment]
           /\ \A j : OrderMoney!Active(j)' = OrderMoney!Active(j) \ ks
           /\ \A i \in OrderMoney!PaymentId : payment'[i].of = payment[i].of
BY DEF OrderMoney!Retired, OrderMoney!Active, MoneyInv, OrderMoney!TypeOK, OrderMoney!Payment

\* A request that moves money goes on.
LEMMA SessionMoves ==
    ASSUME MoneyInv, NEW p \in Session,
           NEW stage \in {"recording", "feeing", "closing", "writing"},
           desk' = [desk EXCEPT ![p].stage = stage], entries' = entries,
           stage \in {"recording", "feeing"} => OrderMoney!Pays(desk[p])
    PROVE  /\ desk' \in [Session -> OrderMoney!Work] /\ OnePayer'
           /\ desk'[p].stage = stage /\ desk'[p].whole = desk[p].whole
           /\ \A q \in Session : q # p => desk'[q] = desk[q]
           /\ "payers" \notin entries /\ OrderMoney!Pays(desk[p]) => \A q \in Session : q # p
                => ~OrderMoney!Pays(desk[q])
<1>1. desk[p] \in OrderMoney!Work /\ desk \in [Session -> OrderMoney!Work]
  BY DEF MoneyInv, OrderMoney!TypeOK
<1>2. [desk[p] EXCEPT !.stage = stage] \in OrderMoney!Work
  BY <1>1 DEF OrderMoney!Work
<1>3. /\ desk' \in [Session -> OrderMoney!Work]
      /\ desk'[p] = [desk[p] EXCEPT !.stage = stage]
      /\ \A q \in Session : q # p => desk'[q] = desk[q]
  BY <1>1, <1>2
<1>4. desk'[p].stage = stage /\ desk'[p].whole = desk[p].whole
  BY <1>1, <1>3 DEF OrderMoney!Work
<1>5. OnePayer'
  BY <1>3, <1>4 DEF MoneyInv, OnePayer, OrderMoney!Pays
<1> QED BY <1>3, <1>4, <1>5 DEF MoneyInv, OnePayer

LEMMA ReceiptsSwept ==
    ASSUME MoneyInv, NEW p \in Session, OrderMoney!Sweep(p)
    PROVE  MoneyInv'
<1> DEFINE c == Cardinality(OrderMoney!Active("receipt"))
           d == Cardinality(OrderMoney!Active("fee"))
<1>1. /\ desk[p].stage = "sweeping" /\ desk' = [desk EXCEPT ![p].stage = "recording"]
      /\ payment' = OrderMoney!Retired(OrderMoney!Active("receipt"))
           /\ balance' = balance - c * MoneyTotal
      /\ UNCHANGED <<order, claim, fee, entries>>
  BY OrderMoneyCardinality DEF OrderMoney!Sweep, OrderMoney!At, OrderMoney!Step, OrderMoney!Goto,
    OrderMoney!Stale,
     MoneyInv, OrderMoney!TypeOK
<1>2. OrderMoney!Pays(desk[p])
  BY <1>1 DEF OrderMoney!Pays
<1>3. /\ desk' \in [Session -> OrderMoney!Work] /\ OnePayer'
      /\ desk'[p].stage = "recording" /\ desk'[p].whole = desk[p].whole
      /\ \A q \in Session : q # p => desk'[q] = desk[q]
      /\ "payers" \notin entries => \A q \in Session : q # p => ~OrderMoney!Pays(desk[q])
  BY <1>1, <1>2, SessionMoves
<1>4. /\ payment' \in [OrderMoney!PaymentId -> OrderMoney!Payment]
           /\ OrderMoney!Active("receipt")' = {}
      /\ OrderMoney!Active("fee")' = OrderMoney!Active("fee")
           /\ OrderMoney!Active("claim")' = OrderMoney!Active("claim")
      /\ \A i \in OrderMoney!PaymentId : payment'[i].of = payment[i].of
  <2>1. OrderMoney!Active("receipt") \subseteq OrderMoney!PaymentId
    BY PaymentsFinite
  <2>2. /\ payment' \in [OrderMoney!PaymentId -> OrderMoney!Payment] /\ \A j :
             OrderMoney!Active(j)' = OrderMoney!Active(j) \ OrderMoney!Active("receipt")
        /\ \A i \in OrderMoney!PaymentId : payment'[i].of = payment[i].of
    BY <1>1, <2>1, RetiredGone
  <2>3. OrderMoney!Active("fee") \cap OrderMoney!Active("receipt") = {}
          /\ OrderMoney!Active("claim") \cap OrderMoney!Active("receipt") = {}
    BY DEF OrderMoney!Active
  <2> QED BY <2>2, <2>3
<1>5. c \in Nat /\ d \in Nat /\ Cardinality({}) = 0
  BY PaymentsFinite, FS_EmptySet
<1>6. c * MoneyTotal \in Int /\ d * MoneyFee \in Int /\ 0 * MoneyTotal = 0
  BY <1>5, OrderMoneyNumbers
<1>7. OrderMoney!TypeOK'
  BY <1>1, <1>3, <1>4, <1>6 DEF MoneyInv, OrderMoney!TypeOK
<1>8. MoneyStages'
  <2> SUFFICES ASSUME NEW q \in Session PROVE MoneyStages!(q)'
    BY DEF MoneyStages
  <2>1. CASE q = p
    BY <2>1, <1>1, <1>3, <1>4 DEF MoneyInv, MoneyStages
  <2>2. CASE q # p
    BY <2>2, <1>1, <1>3, <1>4 DEF MoneyInv, MoneyStages, OrderMoney!Pays
  <2> QED BY <2>1, <2>2
<1>9. FeesPaid'
  BY <1>1, <1>4 DEF MoneyInv, FeesPaid, OrderMoney!Active
<1>10. ReceiptRight'
  BY <1>1, <1>4 DEF MoneyInv, MoneyStages, ReceiptRight
<1>11. BankRight'
  <2> SUFFICES ASSUME "claim" \notin entries PROVE BankRight'
    BY <1>1 DEF BankRight
  <2>1. OrderMoney!Active("claim") = {} /\ balance = MoneyOpening + c * MoneyTotal - d * MoneyFee
    BY DEF MoneyInv, BankRight
  <2> HIDE DEF c, d
  <2>2. balance - c * MoneyTotal = MoneyOpening + 0 * MoneyTotal - d * MoneyFee
    BY <2>1, <1>6, OrderMoneyNumbers
  <2>3. balance' = MoneyOpening + Cardinality(OrderMoney!Active("receipt")') * MoneyTotal - Cardinality(OrderMoney!Active("fee")') * MoneyFee
    BY <1>1, <1>4, <1>5, <2>2 DEF d
  <2> QED BY <1>4, <2>1, <2>3 DEF BankRight
<1> QED BY <1>3, <1>7, <1>8, <1>9, <1>10, <1>11 DEF MoneyInv

LEMMA PaymentRecorded ==
    ASSUME MoneyInv, NEW p \in Session, NEW k \in OrderMoney!PaymentId, OrderMoney!Record(p, k)
    PROVE  MoneyInv'
<1> DEFINE c == Cardinality(OrderMoney!Active("receipt"))
           d == Cardinality(OrderMoney!Active("fee"))
<1>1. /\ desk[p].stage = "recording" /\ desk' = [desk EXCEPT ![p].stage = "feeing"]
      /\ OrderMoney!Register(k, "receipt", 0) /\ order' = [status |-> order.status, paid |-> TRUE]
      /\ UNCHANGED <<claim, fee, entries>>
  BY DEF OrderMoney!Record, OrderMoney!At, OrderMoney!Step, OrderMoney!Goto, MoneyInv,
     OrderMoney!TypeOK
<1>2. OrderMoney!Pays(desk[p])
  BY <1>1 DEF OrderMoney!Pays
<1>3. /\ desk' \in [Session -> OrderMoney!Work] /\ OnePayer'
      /\ desk'[p].stage = "feeing" /\ desk'[p].whole = desk[p].whole
      /\ \A q \in Session : q # p => desk'[q] = desk[q]
      /\ "payers" \notin entries => \A q \in Session : q # p => ~OrderMoney!Pays(desk[q])
  BY <1>1, <1>2, SessionMoves
<1>4. 0 \in 0..MoneyFees
  BY OrderMoneyNumbers
<1>5. /\ payment' \in [OrderMoney!PaymentId -> OrderMoney!Payment] /\ balance' \in Int
      /\ k \notin OrderMoney!Active("receipt")
           /\ OrderMoney!Active("receipt")' = OrderMoney!Active("receipt") \cup {k}
      /\ \A l : l # "receipt" => OrderMoney!Active(l)' = OrderMoney!Active(l)
      /\ \A i \in OrderMoney!PaymentId : i # k => payment'[i] = payment[i]
      /\ Cardinality(OrderMoney!Active("receipt")') = c + 1 /\ balance' = balance + MoneyTotal
  BY <1>1, <1>4, Registered
<1>6. OrderMoney!Active("fee")' = OrderMoney!Active("fee")
        /\ OrderMoney!Active("claim")' = OrderMoney!Active("claim")
      /\ \A i \in OrderMoney!Active("fee") : payment'[i] = payment[i]
  <2>1. k \notin OrderMoney!Active("fee")
          /\ OrderMoney!Active("fee") \subseteq OrderMoney!PaymentId
    BY <1>1 DEF OrderMoney!Active, OrderMoney!Register
  <2> QED BY <1>5, <2>1
<1>7. OrderMoney!TypeOK'
  BY <1>1, <1>3, <1>5 DEF MoneyInv, OrderMoney!TypeOK
<1>8. MoneyStages'
  <2> SUFFICES ASSUME NEW q \in Session PROVE MoneyStages!(q)'
    BY DEF MoneyStages
  <2>1. CASE q = p
    BY <2>1, <1>1, <1>3 DEF MoneyInv, MoneyStages
  <2>2. CASE q # p
    BY <2>2, <1>1, <1>3 DEF MoneyInv, MoneyStages, OrderMoney!Pays
  <2> QED BY <2>1, <2>2
<1>9. FeesPaid'
  BY <1>1, <1>6 DEF MoneyInv, FeesPaid
<1>10. ReceiptRight'
  BY <1>1, <1>5 DEF MoneyInv, MoneyStages, ReceiptRight
<1>11. BankRight'
  <2> SUFFICES ASSUME "claim" \notin entries PROVE BankRight'
    BY <1>1 DEF BankRight
  <2>1. OrderMoney!Active("claim") = {} /\ balance = MoneyOpening + c * MoneyTotal - d * MoneyFee
    BY DEF MoneyInv, BankRight
  <2>2. c \in Nat /\ d \in Nat
    BY PaymentsFinite
  <2> HIDE DEF c, d
  <2>3. (c + 1) * MoneyTotal = c * MoneyTotal + MoneyTotal /\ c * MoneyTotal \in Int
          /\ d * MoneyFee \in Int
    BY <2>2, OrderMoneyNumbers
  <2>4. balance + MoneyTotal = MoneyOpening + (c + 1) * MoneyTotal - d * MoneyFee
    BY <2>1, <2>3, OrderMoneyNumbers
  <2>5. balance' = MoneyOpening + Cardinality(OrderMoney!Active("receipt")') * MoneyTotal - Cardinality(OrderMoney!Active("fee")') * MoneyFee
    BY <1>5, <1>6, <2>4 DEF d
  <2> QED BY <1>6, <2>1, <2>5 DEF BankRight
<1> QED BY <1>3, <1>7, <1>8, <1>9, <1>10, <1>11 DEF MoneyInv

LEMMA FeeSettled ==
    ASSUME MoneyInv, NEW p \in Session, NEW f \in OrderMoney!FeeId,
           NEW k \in OrderMoney!PaymentId, OrderMoney!Settle(p, f, k)
    PROVE  MoneyInv'
<1> DEFINE c == Cardinality(OrderMoney!Active("receipt"))
           d == Cardinality(OrderMoney!Active("fee"))
<1>1. /\ desk[p].stage = "settling" /\ desk' = [desk EXCEPT ![p].stage = "closing"]
      /\ OrderMoney!Register(k, "fee", f) /\ UNCHANGED <<order, claim, entries>>
      /\ fee' = [fee EXCEPT ![f] = IF @ = "retired" THEN @ ELSE "SETTLED"]
      /\ IF desk[p].record = 0 THEN fee[f] = "absent" ELSE f = desk[p].record
  BY DEF OrderMoney!Settle, OrderMoney!At, OrderMoney!Step, OrderMoney!Goto, MoneyInv,
     OrderMoney!TypeOK
<1>2. OrderMoney!Pays(desk[p])
  BY <1>1 DEF OrderMoney!Pays
<1>3. /\ desk' \in [Session -> OrderMoney!Work] /\ OnePayer'
      /\ desk'[p].stage = "closing" /\ desk'[p].whole = desk[p].whole
      /\ \A q \in Session : q # p => desk'[q] = desk[q]
      /\ "payers" \notin entries => \A q \in Session : q # p => ~OrderMoney!Pays(desk[q])
  BY <1>1, <1>2, SessionMoves
<1>4. f \in 0..MoneyFees
  BY OrderMoneyNumbers DEF OrderMoney!FeeId
<1>5. /\ payment' \in [OrderMoney!PaymentId -> OrderMoney!Payment] /\ balance' \in Int
      /\ k \notin OrderMoney!Active("fee")
           /\ OrderMoney!Active("fee")' = OrderMoney!Active("fee") \cup {k} /\ payment'[k].of = f
      /\ \A l : l # "fee" => OrderMoney!Active(l)' = OrderMoney!Active(l)
      /\ \A i \in OrderMoney!PaymentId : i # k => payment'[i] = payment[i]
      /\ Cardinality(OrderMoney!Active("fee")') = d + 1 /\ balance' = balance + -MoneyFee
  BY <1>1, <1>4, Registered
<1>6. /\ OrderMoney!Active("receipt")' = OrderMoney!Active("receipt")
           /\ OrderMoney!Active("claim")' = OrderMoney!Active("claim")
      /\ \A i \in OrderMoney!Active("fee") : payment'[i] = payment[i]
           /\ payment[i].of \in OrderMoney!FeeId
  <2>1. OrderMoney!Active("fee") \subseteq OrderMoney!PaymentId
    BY DEF OrderMoney!Active
  <2> QED BY <1>5, <2>1 DEF MoneyInv, FeesPaid
<1>7. OrderMoney!TypeOK'
  <2>1. fee' \in [OrderMoney!FeeId -> OrderMoney!FeeStatus]
    BY <1>1 DEF MoneyInv, OrderMoney!TypeOK, OrderMoney!FeeStatus
  <2> QED BY <1>1, <1>3, <1>5, <2>1 DEF MoneyInv, OrderMoney!TypeOK
<1>8. MoneyStages'
  <2> SUFFICES ASSUME NEW q \in Session PROVE MoneyStages!(q)'
    BY DEF MoneyStages
  <2>1. CASE q = p
    BY <2>1, <1>1, <1>3 DEF MoneyInv, MoneyStages
  <2>2. CASE q # p
    BY <2>2, <1>1, <1>3 DEF MoneyInv, MoneyStages, OrderMoney!Pays
  <2> QED BY <2>1, <2>2
<1>9. FeesPaid'
  <2>1. \A g \in OrderMoney!FeeId : fee[g] \in {"SETTLED", "retired"}
          => fee'[g] \in {"SETTLED", "retired"}
    BY <1>1 DEF MoneyInv, OrderMoney!TypeOK
  <2>2. fee'[f] \in {"SETTLED", "retired"}
    BY <1>1 DEF MoneyInv, OrderMoney!TypeOK
  <2>3. "payers" \notin entries => \A i \in OrderMoney!Active("fee") : payment[i].of # f
    BY <1>1 DEF MoneyInv, MoneyStages, FeesPaid
  <2> QED BY <1>1, <1>5, <1>6, <2>1, <2>2, <2>3 DEF MoneyInv, FeesPaid
<1>10. ReceiptRight'
  BY <1>1, <1>6 DEF MoneyInv, ReceiptRight
<1>11. BankRight'
  <2> SUFFICES ASSUME "claim" \notin entries PROVE BankRight'
    BY <1>1 DEF BankRight
  <2>1. OrderMoney!Active("claim") = {} /\ balance = MoneyOpening + c * MoneyTotal - d * MoneyFee
    BY DEF MoneyInv, BankRight
  <2>2. c \in Nat /\ d \in Nat
    BY PaymentsFinite
  <2> HIDE DEF c, d
  <2>3. (d + 1) * MoneyFee = d * MoneyFee + MoneyFee /\ c * MoneyTotal \in Int
          /\ d * MoneyFee \in Int
    BY <2>2, OrderMoneyNumbers
  <2>4. balance + -MoneyFee = MoneyOpening + c * MoneyTotal - (d + 1) * MoneyFee
    BY <2>1, <2>3, OrderMoneyNumbers
  <2>5. balance' = MoneyOpening + Cardinality(OrderMoney!Active("receipt")') * MoneyTotal - Cardinality(OrderMoney!Active("fee")') * MoneyFee
    BY <1>5, <1>6, <2>4 DEF c
  <2> QED BY <1>6, <2>1, <2>5 DEF BankRight
<1> QED BY <1>3, <1>7, <1>8, <1>9, <1>10, <1>11 DEF MoneyInv

LEMMA ClaimPaid ==
    ASSUME MoneyInv, NEW k \in OrderMoney!PaymentId, OrderMoney!PayClaim(k)
    PROVE  MoneyInv'
<1>1. /\ "claim" \in entries /\ OrderMoney!Register(k, "claim", 0)
           /\ UNCHANGED <<order, fee, desk, entries>>
      /\ claim' \in OrderMoney!Claim
  BY DEF OrderMoney!PayClaim, OrderMoney!Claim
<1>2. 0 \in 0..MoneyFees
  BY OrderMoneyNumbers
<1>3. /\ payment' \in [OrderMoney!PaymentId -> OrderMoney!Payment] /\ balance' \in Int
      /\ \A l : l # "claim" => OrderMoney!Active(l)' = OrderMoney!Active(l)
      /\ \A i \in OrderMoney!PaymentId : i # k => payment'[i] = payment[i]
  BY <1>1, <1>2, Registered
<1>4. /\ OrderMoney!Active("receipt")' = OrderMoney!Active("receipt")
           /\ OrderMoney!Active("fee")' = OrderMoney!Active("fee")
      /\ \A i \in OrderMoney!Active("fee") : payment'[i] = payment[i]
  <2>1. k \notin OrderMoney!Active("fee")
          /\ OrderMoney!Active("fee") \subseteq OrderMoney!PaymentId
    BY <1>1 DEF OrderMoney!Active, OrderMoney!Register
  <2> QED BY <1>3, <2>1
<1>5. OrderMoney!TypeOK'
  BY <1>1, <1>3 DEF MoneyInv, OrderMoney!TypeOK
<1>6. OnePayer' /\ ReceiptRight' /\ BankRight'
  BY <1>1, <1>4 DEF MoneyInv, OnePayer, OrderMoney!Pays, ReceiptRight, BankRight
<1>7. MoneyStages'
  BY <1>1, <1>4 DEF MoneyInv, MoneyStages
<1>8. FeesPaid'
  BY <1>1, <1>4 DEF MoneyInv, FeesPaid
<1> QED BY <1>5, <1>6, <1>7, <1>8 DEF MoneyInv

LEMMA FeeAdded ==
    ASSUME MoneyInv, NEW f \in OrderMoney!FeeId, NEW state \in {"PENDING", "SETTLED"},
           OrderMoney!AddFee(f, state)
    PROVE  MoneyInv'
<1>1. fee[f] = "absent" /\ fee' = [fee EXCEPT ![f] = state]
      /\ UNCHANGED <<order, claim, payment, balance, desk, entries>>
  BY DEF OrderMoney!AddFee
<1>2. \A j : OrderMoney!Active(j)' = OrderMoney!Active(j)
  BY <1>1 DEF OrderMoney!Active
<1>3. fee' \in [OrderMoney!FeeId -> OrderMoney!FeeStatus]
  BY <1>1 DEF MoneyInv, OrderMoney!TypeOK, OrderMoney!FeeStatus
<1>4. OrderMoney!TypeOK'
  BY <1>1, <1>3 DEF MoneyInv, OrderMoney!TypeOK
<1>5. OnePayer' /\ ReceiptRight' /\ BankRight' /\ MoneyStages'
  BY <1>1, <1>2 DEF MoneyInv, OnePayer, OrderMoney!Pays, ReceiptRight, BankRight, MoneyStages
<1>6. FeesPaid'
  <2>1. \A g \in OrderMoney!FeeId : g # f => fee'[g] = fee[g]
    BY <1>1 DEF MoneyInv, OrderMoney!TypeOK
  <2> QED BY <1>1, <1>2, <2>1 DEF MoneyInv, FeesPaid
<1> QED BY <1>4, <1>5, <1>6 DEF MoneyInv

LEMMA OrderCancelled ==
    ASSUME MoneyInv, NEW p \in Session, OrderMoney!Cancel(p)
    PROVE  MoneyInv'
<1> DEFINE undone == IF claim.row = "active" /\ claim.paid THEN OrderMoney!Active("claim") ELSE {}
           returned == IF \E f \in OrderMoney!FeeId :
             fee[f] = "SETTLED" THEN OrderMoney!Active("fee") ELSE {}
           c == Cardinality(OrderMoney!Active("receipt"))
           d == Cardinality(OrderMoney!Active("fee"))
<1>1. /\ desk[p].stage = "cancelling" /\ desk' = [desk EXCEPT ![p].stage = "writing"]
      /\ payment' = OrderMoney!Retired(undone \cup returned)
           /\ balance' = balance + Cardinality(returned) * MoneyFee
      /\ fee' = [f \in OrderMoney!FeeId |-> IF fee[f] = "absent" THEN "absent" ELSE "retired"]
      /\ order' = order /\ entries' = entries
  BY OrderMoneyCardinality DEF OrderMoney!Cancel, OrderMoney!At, OrderMoney!Step, OrderMoney!Goto,
    OrderMoney!GivenBack,
     MoneyInv, OrderMoney!TypeOK
<1>2. claim' \in OrderMoney!Claim
  BY DEF OrderMoney!Cancel, OrderMoney!Claim, MoneyInv, OrderMoney!TypeOK
<1>3. /\ desk' \in [Session -> OrderMoney!Work] /\ OnePayer'
      /\ desk'[p].stage = "writing" /\ desk'[p].whole = desk[p].whole
      /\ \A q \in Session : q # p => desk'[q] = desk[q]
  BY <1>1, SessionMoves
<1>4. OrderMoney!Active("claim") \subseteq OrderMoney!PaymentId
        /\ OrderMoney!Active("fee") \subseteq OrderMoney!PaymentId
  BY PaymentsFinite
<1>5. /\ payment' \in [OrderMoney!PaymentId -> OrderMoney!Payment]
      /\ \A j : OrderMoney!Active(j)' = OrderMoney!Active(j) \ (undone \cup returned)
      /\ \A i \in OrderMoney!PaymentId : payment'[i].of = payment[i].of
  <2>1. undone \cup returned \subseteq OrderMoney!PaymentId
    BY <1>4
  <2> HIDE DEF undone, returned
  <2> QED BY <1>1, <2>1, RetiredGone
<1>6. /\ OrderMoney!Active("receipt")' = OrderMoney!Active("receipt")
           /\ OrderMoney!Active("fee")' = OrderMoney!Active("fee") \ returned
      /\ OrderMoney!Active("claim")' \subseteq OrderMoney!Active("claim")
  <2>1. /\ OrderMoney!Active("receipt") \cap OrderMoney!Active("claim") = {}
             /\ OrderMoney!Active("receipt") \cap OrderMoney!Active("fee") = {}
        /\ OrderMoney!Active("fee") \cap OrderMoney!Active("claim") = {}
    BY DEF OrderMoney!Active
  <2> QED BY <1>5, <2>1
<1>7. /\ c \in Nat /\ d \in Nat /\ Cardinality({}) = 0
      /\ (returned = OrderMoney!Active("fee") \/ returned = {})
  BY PaymentsFinite, FS_EmptySet
<1> HIDE DEF returned, undone
<1>8. \/ Cardinality(returned) = d /\ OrderMoney!Active("fee")' = {}
      \/ Cardinality(returned) = 0 /\ OrderMoney!Active("fee")' = OrderMoney!Active("fee")
  BY <1>6, <1>7
<1> HIDE DEF c, d
<1>9. c * MoneyTotal \in Int /\ d * MoneyFee \in Int /\ 0 * MoneyFee = 0
  BY <1>7, OrderMoneyNumbers
<1>10. OrderMoney!TypeOK'
  <2>1. fee' \in [OrderMoney!FeeId -> OrderMoney!FeeStatus]
    BY <1>1 DEF OrderMoney!FeeStatus
  <2>2. balance' \in Int
    BY <1>1, <1>8, <1>9 DEF MoneyInv, OrderMoney!TypeOK
  <2> QED BY <1>1, <1>2, <1>3, <1>5, <2>1, <2>2 DEF MoneyInv, OrderMoney!TypeOK
<1>11. MoneyStages'
  <2>1. \A k \in OrderMoney!Active("fee")' : k \in OrderMoney!Active("fee")
          /\ payment'[k].of = payment[k].of
    BY <1>4, <1>5, <1>6
  <2> SUFFICES ASSUME NEW q \in Session PROVE MoneyStages!(q)'
    BY DEF MoneyStages
  <2>2. CASE q = p
    BY <2>2, <1>1, <1>3 DEF MoneyInv, MoneyStages
  <2>3. CASE q # p
    BY <2>1, <2>3, <1>1, <1>3, <1>6, ZenonT(60) DEF MoneyInv, MoneyStages
  <2> QED BY <2>2, <2>3
<1>12. FeesPaid'
  <2>1. \A k \in OrderMoney!Active("fee")' : k \in OrderMoney!Active("fee")
          /\ payment'[k].of = payment[k].of
    BY <1>4, <1>5, <1>6
  <2>2. \A g \in OrderMoney!FeeId : fee[g] \in {"SETTLED", "retired"} => fee'[g] = "retired"
    BY <1>1
  <2> QED BY <1>1, <2>1, <2>2 DEF MoneyInv, FeesPaid
<1>13. ReceiptRight'
  BY <1>1, <1>6 DEF MoneyInv, ReceiptRight
<1>14. BankRight'
  <2> SUFFICES ASSUME "claim" \notin entries PROVE BankRight'
    BY <1>1 DEF BankRight
  <2>1. OrderMoney!Active("claim") = {} /\ balance = MoneyOpening + c * MoneyTotal - d * MoneyFee
    BY DEF MoneyInv, BankRight, c, d
  <2>2. balance' = MoneyOpening + c * MoneyTotal - Cardinality(OrderMoney!Active("fee")') * MoneyFee
    <3>1. CASE Cardinality(returned) = d /\ OrderMoney!Active("fee")' = {}
      <4>1. Cardinality(OrderMoney!Active("fee")') = 0 /\ balance' = balance + d * MoneyFee
        BY <1>1, <1>7, <3>1
      <4> QED BY <2>1, <1>9, <4>1, OrderMoneyNumbers
    <3>2. CASE Cardinality(returned) = 0 /\ OrderMoney!Active("fee")' = OrderMoney!Active("fee")
      <4>1. Cardinality(OrderMoney!Active("fee")') = d /\ balance' = balance + 0 * MoneyFee
        BY <1>1, <3>2 DEF d
      <4> QED BY <2>1, <1>9, <4>1, OrderMoneyNumbers
    <3> QED BY <1>8, <3>1, <3>2
  <2>3. OrderMoney!Active("claim")' = {} /\ Cardinality(OrderMoney!Active("receipt")') = c
    BY <1>6, <2>1 DEF c
  <2> QED BY <2>2, <2>3 DEF BankRight
<1> QED BY <1>3, <1>10, <1>11, <1>12, <1>13, <1>14 DEF MoneyInv

-----------------------------------------------------------------------------
(* Money in every state. *)

LEMMA MoneyStarts == OrderMoney!Init => MoneyInv
<1> SUFFICES ASSUME OrderMoney!Init PROVE MoneyInv
  OBVIOUS
<1>1. \A j : OrderMoney!Active(j) = {}
  BY DEF OrderMoney!Init, OrderMoney!Active
<1>2. OrderMoney!TypeOK
  BY MoneyIdle, OrderMoneyNumbers DEF OrderMoney!Init, OrderMoney!TypeOK, OrderMoney!Status,
     OrderMoney!Claim, OrderMoney!Payment, OrderMoney!FeeStatus
<1>3. \A p \in Session : desk[p] = OrderMoney!Idle
  BY DEF OrderMoney!Init
<1>4. OnePayer /\ MoneyStages /\ FeesPaid /\ ReceiptRight
  BY <1>1, <1>3, MoneyIdle DEF OrderMoney!Init, OnePayer, MoneyStages, FeesPaid, ReceiptRight
<1>5. BankRight
  <2>1. 0 * MoneyTotal = 0 /\ 0 * MoneyFee = 0
    BY OrderMoneyNumbers
  <2>2. OrderMoney!Active("receipt") = {} /\ OrderMoney!Active("fee") = {}
          /\ OrderMoney!Active("claim") = {}
    BY <1>1
  <2>3. Cardinality(OrderMoney!Active("receipt")) = 0 /\ Cardinality(OrderMoney!Active("fee")) = 0
    BY <2>2, FS_EmptySet
  <2>4. balance = MoneyOpening
    BY DEF OrderMoney!Init
  <2> QED BY <2>1, <2>2, <2>3, <2>4, OrderMoneyNumbers DEF BankRight
<1> QED BY <1>2, <1>4, <1>5 DEF MoneyInv

LEMMA MoneyStep == MoneyInv /\ [OrderMoney!Next]_(OrderMoney!vars) => MoneyInv'
<1> SUFFICES ASSUME MoneyInv, [OrderMoney!Next]_(OrderMoney!vars) PROVE MoneyInv'
  OBVIOUS
<1>1. CASE UNCHANGED OrderMoney!vars
  BY <1>1 DEF OrderMoney!vars, MoneyInv, OrderMoney!TypeOK, OnePayer, OrderMoney!Pays,
    MoneyStages,
     FeesPaid, ReceiptRight, BankRight, OrderMoney!Active
<1>2. ASSUME NEW p \in Session, OrderMoney!Paying(p) PROVE MoneyInv'
  BY <1>2, PaymentAsked, Rechecked, ReceiptsSwept, PaymentRecorded, FeeSought, FeeSettled,
     SettlingAsked, OrderClosed DEF OrderMoney!Paying
<1>3. ASSUME NEW p \in Session, OrderMoney!Saving(p) PROVE MoneyInv'
  BY <1>3, SavingAsked, OrderHandled, OrderCancelled, OrderWritten DEF OrderMoney!Saving
<1> QED BY <1>1, <1>2, <1>3, MoneyDies, ClaimPaid, FeeAdded DEF OrderMoney!Next

LEMMA MoneyKeeps == MoneyInv => OrderMoney!TypeOK /\ OrderMoney!BankAgrees /\ OrderMoney!PaidOnce
<1> SUFFICES ASSUME MoneyInv PROVE OrderMoney!TypeOK /\ OrderMoney!BankAgrees
                    /\ OrderMoney!PaidOnce
  OBVIOUS
<1>1. OrderMoney!BankAgrees
  <2> DEFINE c == Cardinality(OrderMoney!Active("receipt"))
             d == Cardinality(OrderMoney!Active("fee"))
  <2> SUFFICES ASSUME "claim" \notin entries PROVE OrderMoney!BalanceIsPayments
    BY DEF OrderMoney!BankAgrees
  <2>1. OrderMoney!Active("claim") = {} /\ balance = MoneyOpening + c * MoneyTotal - d * MoneyFee
    BY DEF MoneyInv, BankRight
  <2>2. c \in Nat /\ d \in Nat /\ Cardinality({}) = 0
    BY PaymentsFinite, FS_EmptySet
  <2>3. OrderMoney!Banked("receipt") = c * MoneyTotal
          /\ OrderMoney!Banked("fee") = d * (-MoneyFee)
    <3>1. OrderMoney!Signed("receipt") = MoneyTotal /\ OrderMoney!Signed("fee") = -MoneyFee
      BY DEF OrderMoney!Signed, OrderMoney!Amount
    <3> QED BY <3>1, OrderMoneyCardinality DEF OrderMoney!Banked
  <2>4. OrderMoney!Banked("claim") = 0
    <3>1. OrderMoney!Signed("claim") = MoneyTotal /\ 0 * MoneyTotal = 0
      BY OrderMoneyNumbers DEF OrderMoney!Signed, OrderMoney!Amount
    <3> QED BY <2>1, <2>2, <3>1, OrderMoneyCardinality DEF OrderMoney!Banked
  <2> HIDE DEF c, d
  <2>5. d * (-MoneyFee) = -(d * MoneyFee) /\ d * MoneyFee \in Int /\ c * MoneyTotal \in Int
    BY <2>2, OrderMoneyNumbers
  <2> QED BY <2>1, <2>3, <2>4, <2>5, OrderMoneyNumbers DEF OrderMoney!BalanceIsPayments
<1>2. OrderMoney!PaidOnce
  <2> SUFFICES ASSUME "payers" \notin entries PROVE OrderMoney!PaidOnce
    BY OrderMoneyCardinality DEF OrderMoney!PaidOnce
  <2>1. Cardinality(OrderMoney!Active("receipt")) <= 1
    <3>1. CASE OrderMoney!Active("receipt") = {}
      BY <3>1, FS_EmptySet
    <3>2. CASE OrderMoney!Active("receipt") # {}
      <4>1. PICK k \in OrderMoney!Active("receipt") : TRUE
        BY <3>2
      <4>2. OrderMoney!Active("receipt") = {k}
        BY <4>1 DEF MoneyInv, ReceiptRight
      <4>3. Cardinality({k}) = 1
        BY FS_Singleton
      <4> QED BY <4>2, <4>3
    <3> QED BY <3>1, <3>2
  <2> QED BY <2>1, OrderMoneyCardinality DEF MoneyInv, ReceiptRight, FeesPaid, OrderMoney!PaidOnce
<1> QED BY <1>1, <1>2 DEF MoneyInv

-----------------------------------------------------------------------------
(* A company card. *)

\* The sum of the instance is that of the lemmas.
LEMMA CardsSum == \A f, n : Cards!SumTo(f, n) = SumTo(f, n)
BY DEF Cards!SumTo, SumTo

\* What the constants of this part are.
LEMMA CardsNumbers ==
    Transactions \in Nat \ {0}
BY BackOfficeAssumption

-----------------------------------------------------------------------------
(* The invariant. *)

\* What was paid is what the bill says, and a bill is made where there is none.
BillRight ==
    /\ Cards!BillPaidOnce
    /\ bill.status = "absent" => bill = Cards!NoBill
    /\ job.stage = "summed" => bill.status = "absent"

\* A transaction that a request is about was entered; one that is counted has
\* no voucher yet, and one request counts it.
SlipsRight ==
    /\ \A t \in Cards!SlipId :
          ~slip[t].entered => slip[t].voucher = 0 /\ slip[t].reversal = 0 /\ ~slip[t].cancelled
    /\ \A p \in Session :
          LET w == desk[p] IN
          /\ w.stage # "idle" => slip[w.slip].entered
          /\ w.stage = "counting" => slip[w.slip].voucher = 0
    /\ \A p, q \in Session :
          Cards!At(p, "counting") /\ Cards!At(q, "counting") /\ desk[p].slip = desk[q].slip
            => p = q

\* One at a time, what a request loaded is what there is.
SlipLoaded ==
    Cards!OneAtATime => \A p \in Session :
        LET w == desk[p] IN
        w.stage # "idle" =>
            /\ job = Cards!JobIdle
            /\ \A q \in Session : q # p => Cards!At(q, "idle")
            /\ w.stage # "counting" =>
                  /\ w.row.cancelled = slip[w.slip].cancelled
                  /\ w.row.billed = slip[w.slip].billed

\* Where nothing is cancelled, no form says so.
NoneCancelled ==
    "cancel" \notin entries =>
        /\ \A t \in Cards!SlipId : ~slip[t].cancelled
        /\ \A p \in Session : ~desk[p].row.cancelled /\ ~Cards!At(p, "cancelling")

\* Every transaction has its voucher once it was counted, and its reversal if
\* and only if it is cancelled.
EachVouched ==
    "crash" \notin entries /\ ~({"race", "cancel"} \subseteq entries) =>
        \A t \in Cards!SlipId :
            /\ slip[t].reversal = IF slip[t].cancelled THEN 1 ELSE 0
            /\ \/ slip[t].voucher = 1
               \/ ~slip[t].entered
               \/ \E p \in Session : Cards!At(p, "counting") /\ desk[p].slip = t

Billed == {t \in Cards!SlipId : slip[t].billed}

\* What the job knows of the bill it makes.
BillFollows ==
    entries \cap {"race", "crash"} = {} =>
        /\ bill.status = "absent" => Billed = {}
        /\ job = Cards!JobIdle /\ bill.status # "absent" => bill.total = Cards!Total(Billed)
        /\ job.stage = "summed" => job.total = Cards!Total(Cards!Billable)
        /\ job.stage = "created" =>
              bill.status # "absent" /\ Billed = {} /\ bill.total = Cards!Total(Cards!Billable)

CardsInv ==
    /\ Cards!TypeOK /\ BillRight /\ SlipsRight /\ SlipLoaded
    /\ NoneCancelled /\ EachVouched /\ Cards!UsedVouched /\ BillFollows

-----------------------------------------------------------------------------
(* Sums of transactions. *)

LEMMA CardsIdle ==
    /\ Cards!Idle \in Cards!Work /\ Cards!Idle.stage = "idle" /\ Cards!Idle.row.cancelled = FALSE
    /\ Cards!JobIdle \in Cards!Job /\ Cards!NoSlip \in Cards!Slip /\ Cards!NoBill \in Cards!Bill
BY CardsNumbers DEF Cards!Idle, Cards!Work, Cards!JobIdle, Cards!Job, Cards!NoSlip, Cards!Slip,
   Cards!NoBill, Cards!Bill, Cards!BillStatus, Cards!SlipId

LEMMA CardTotalNat ==
    ASSUME NEW S
    PROVE  Cards!Total(S) \in Nat
<1> DEFINE f == [t \in Cards!SlipId |-> IF t \in S THEN t ELSE 0]
<1>1. f \in [1..Transactions -> Nat] /\ Transactions \in Nat /\ Transactions \in 0..Transactions
  BY CardsNumbers DEF Cards!SlipId
<1> HIDE DEF f
<1>2. SumTo(f, Transactions) \in Nat
  BY <1>1, SumToNat
<1> QED BY <1>2, CardsSum DEF f, Cards!Total

LEMMA CardTotalNothing == Cards!Total({}) = 0
<1> DEFINE f == [t \in Cards!SlipId |-> IF t \in {} THEN t ELSE 0]
<1>1. /\ f \in [1..Transactions -> Int] /\ \A i \in 1..Transactions : f[i] = 0
      /\ Transactions \in Nat /\ Transactions \in 0..Transactions
  BY CardsNumbers DEF Cards!SlipId
<1> HIDE DEF f
<1>2. SumTo(f, Transactions) = 0
  BY <1>1, SumToZero
<1> QED BY <1>2, CardsSum DEF f, Cards!Total

\* A voucher or a reversal moves the sum by the amount of its transaction.
LEMMA VouchedMoves ==
    ASSUME Cards!TypeOK, NEW t \in Cards!SlipId, NEW r \in Cards!Slip,
           slip' = [slip EXCEPT ![t] = r],
           used' = used + t * (r.voucher - r.reversal) - t * (slip[t].voucher - slip[t].reversal),
           month' = month, Cards!UsedVouched
    PROVE  Cards!UsedVouched'
<1> DEFINE f == [u \in Cards!SlipId |-> u * (slip[u].voucher - slip[u].reversal)]
           v == t * (r.voucher - r.reversal)
<1>1. \A u \in Cards!SlipId : slip[u].voucher \in Int /\ slip[u].reversal \in Int /\ u \in Int
  BY CardsNumbers DEF Cards!TypeOK, Cards!Slip, Cards!SlipId
<1>2. r.voucher \in Int /\ r.reversal \in Int
  BY DEF Cards!Slip
<1>3. /\ f \in [1..Transactions -> Int] /\ v \in Int /\ t \in 1..Transactions
      /\ Transactions \in Nat /\ Transactions \in 0..Transactions /\ ~(Transactions < t)
  BY <1>1, <1>2, CardsNumbers DEF Cards!SlipId
<1>4. [u \in Cards!SlipId |-> u * (slip'[u].voucher - slip'[u].reversal)] = [f EXCEPT ![t] = v]
  <2>1. /\ slip'[t] = r /\ \A u \in Cards!SlipId : u # t => slip'[u] = slip[u]
    BY DEF Cards!TypeOK
  <2> DEFINE g == [u \in Cards!SlipId |-> u * (slip'[u].voucher - slip'[u].reversal)]
             h == [f EXCEPT ![t] = v]
  <2>2. ASSUME NEW u \in Cards!SlipId PROVE g[u] = h[u]
    <3>1. CASE u = t
      <4>1. g[u] = t * (slip'[t].voucher - slip'[t].reversal) /\ h[u] = v
        BY <3>1
      <4> QED BY <4>1, <2>1
    <3>2. CASE u # t
      <4>1. h[u] = f[u] /\ slip'[u] = slip[u]
        BY <3>2, <2>1
      <4> QED BY <4>1
    <3> QED BY <3>1, <3>2
  <2>3. g \in [Cards!SlipId -> {g[u] : u \in Cards!SlipId}]
          /\ h \in [Cards!SlipId -> {h[u] : u \in Cards!SlipId}]
    OBVIOUS
  <2> HIDE DEF g, h
  <2>4. g = h
    BY <2>2, <2>3
  <2> QED BY <2>4 DEF g, h
<1>5. f[t] = t * (slip[t].voucher - slip[t].reversal)
  OBVIOUS
<1> SUFFICES ASSUME month.now = 1
             PROVE  used' = SumTo([u \in Cards!SlipId |-> u * (slip'[u].voucher - slip'[u].reversal)], Transactions)
  BY CardsSum DEF Cards!UsedVouched
<1>6. used = SumTo(f, Transactions)
  BY CardsSum DEF Cards!UsedVouched
<1>7. used' = used + v - f[t]
  BY <1>5
<1> HIDE DEF f, v
<1>8. SumTo([f EXCEPT ![t] = v], Transactions) = SumTo(f, Transactions) - f[t] + v
  BY <1>3, SumToUpdate
<1>9. SumTo(f, Transactions) \in Int /\ f[t] \in Int
  BY <1>3, SumToStep
<1> QED BY <1>3, <1>4, <1>6, <1>7, <1>8, <1>9

-----------------------------------------------------------------------------
(* Requests. *)

\* A request goes on, and what it says of its transaction holds.
LEMMA CardsGoes ==
    ASSUME CardsInv, NEW p \in Session, NEW w \in Cards!Work, NEW t \in Cards!SlipId,
           NEW r \in Cards!Slip,
           slip' = [slip EXCEPT ![t] = r], desk' = [desk EXCEPT ![p] = w],
           bill' = bill, paid' = paid, month' = month, job' = job, entries' = entries,
           used' = used + t * (r.voucher - r.reversal) - t * (slip[t].voucher - slip[t].reversal),
           ~Cards!At(p, "idle") \/ Cards!Starts(p),
           Cards!At(p, "counting") => desk[p].slip = t,
           slip[t].entered => r.entered,
           ~r.entered => r.voucher = 0 /\ r.reversal = 0 /\ ~r.cancelled,
           w.stage # "idle" => r.entered /\ w.slip = t,
           w.stage = "counting" => r.voucher = 0 /\ ~slip[t].entered,
           r.voucher = slip[t].voucher \/ Cards!At(p, "counting"),
           Cards!OneAtATime => r.billed = slip[t].billed,
           w.stage \notin {"idle", "counting"} =>
              (Cards!OneAtATime => w.row.cancelled = r.cancelled /\ w.row.billed = r.billed),
           "cancel" \notin entries => ~r.cancelled /\ ~w.row.cancelled /\ w.stage # "cancelling",
           "crash" \notin entries /\ ~({"race", "cancel"} \subseteq entries) =>
              /\ r.reversal = IF r.cancelled THEN 1 ELSE 0
              /\ \/ r.voucher = 1
                 \/ w.stage = "counting"
                 \/ r.voucher = slip[t].voucher /\ r.entered = slip[t].entered
                      /\ ~Cards!At(p, "counting")
    PROVE  CardsInv'
<1>1. /\ desk'[p] = w /\ \A q \in Session : q # p => desk'[q] = desk[q]
      /\ slip'[t] = r /\ \A u \in Cards!SlipId : u # t => slip'[u] = slip[u]
  BY DEF CardsInv, Cards!TypeOK
<1>2. Cards!TypeOK'
  <2>1. desk' \in [Session -> Cards!Work] /\ slip' \in [Cards!SlipId -> Cards!Slip]
    BY DEF CardsInv, Cards!TypeOK
  <2>2. used' \in Int
    <3>1. /\ r.voucher \in Int /\ r.reversal \in Int /\ t \in Int /\ used \in Int
          /\ slip[t].voucher \in Int /\ slip[t].reversal \in Int
      BY CardsNumbers DEF CardsInv, Cards!TypeOK, Cards!Slip, Cards!SlipId
    <3> DEFINE a == r.voucher - r.reversal
               b == slip[t].voucher - slip[t].reversal
    <3>2. a \in Int /\ b \in Int /\ used' = used + t * a - t * b
      BY <3>1
    <3> HIDE DEF a, b
    <3>3. t * a \in Int /\ t * b \in Int
      BY <3>1, <3>2
    <3> QED BY <3>1, <3>2, <3>3
  <2> QED BY <2>1, <2>2 DEF CardsInv, Cards!TypeOK
<1>3. BillRight'
  BY DEF CardsInv, BillRight, Cards!BillPaidOnce
<1>4. desk[p].stage # "idle" \/ ((\A q \in Session : Cards!At(q, "idle")) /\ job = Cards!JobIdle)
        \/ "race" \in entries
  BY DEF Cards!Starts, Cards!AtRest, Cards!At
<1>5. Cards!OneAtATime => job = Cards!JobIdle /\ \A q \in Session : q # p
        => desk[q].stage = "idle"
  BY <1>4 DEF CardsInv, SlipLoaded, Cards!OneAtATime, Cards!At
<1>6. \A q \in Session : desk[q].slip \in Cards!SlipId
  BY DEF CardsInv, Cards!TypeOK, Cards!Work
<1>7. SlipsRight'
  <2>1. \A u \in Cards!SlipId : ~slip'[u].entered =>
            slip'[u].voucher = 0 /\ slip'[u].reversal = 0 /\ ~slip'[u].cancelled
    BY <1>1 DEF CardsInv, SlipsRight
  <2>2. ASSUME NEW q \in Session
        PROVE  /\ desk'[q].stage # "idle" => slip'[desk'[q].slip].entered
               /\ desk'[q].stage = "counting" => slip'[desk'[q].slip].voucher = 0
    <3>1. CASE q = p
      BY <3>1, <1>1
    <3>2. CASE q # p
      <4>1. CASE desk[q].slip # t
        BY <3>2, <4>1, <1>1, <1>6 DEF CardsInv, SlipsRight
      <4>2. CASE desk[q].slip = t
        BY <3>2, <4>2, <1>1, <1>6 DEF CardsInv, SlipsRight, Cards!At
      <4> QED BY <4>1, <4>2
    <3> QED BY <3>1, <3>2
  <2>3. ASSUME NEW q \in Session, NEW s \in Session, desk'[q].stage = "counting",
               desk'[s].stage = "counting", desk'[q].slip = desk'[s].slip
        PROVE  q = s
    BY <2>3, <1>1, <1>6 DEF CardsInv, SlipsRight, Cards!At
  <2> QED BY <2>1, <2>2, <2>3 DEF SlipsRight, Cards!At
<1>8. SlipLoaded'
  <2> SUFFICES ASSUME Cards!OneAtATime, NEW q \in Session, desk'[q].stage # "idle"
               PROVE  /\ job = Cards!JobIdle
                      /\ \A s \in Session : s # q => desk'[s].stage = "idle"
                      /\ desk'[q].stage # "counting" =>
                            /\ desk'[q].row.cancelled = slip'[desk'[q].slip].cancelled
                            /\ desk'[q].row.billed = slip'[desk'[q].slip].billed
    BY DEF SlipLoaded, Cards!OneAtATime, Cards!At
  <2>1. q = p
    BY <1>1, <1>5
  <2> QED BY <2>1, <1>1, <1>5
<1>9. NoneCancelled'
  BY <1>1 DEF CardsInv, NoneCancelled, Cards!At
<1>10. EachVouched'
  <2> SUFFICES ASSUME "crash" \notin entries, ~({"race", "cancel"} \subseteq entries),
                      NEW u \in Cards!SlipId
               PROVE  /\ slip'[u].reversal = IF slip'[u].cancelled THEN 1 ELSE 0
                      /\ \/ slip'[u].voucher = 1
                         \/ ~slip'[u].entered
                         \/ \E q \in Session : desk'[q].stage = "counting" /\ desk'[q].slip = u
    BY DEF EachVouched, Cards!At
  <2>1. /\ slip[u].reversal = IF slip[u].cancelled THEN 1 ELSE 0
        /\ \/ slip[u].voucher = 1
           \/ ~slip[u].entered
           \/ \E q \in Session : desk[q].stage = "counting" /\ desk[q].slip = u
    BY DEF CardsInv, EachVouched, Cards!At
  <2>2. CASE u # t
    BY <2>1, <2>2, <1>1 DEF Cards!At
  <2>3. CASE u = t
    <3>1. \/ r.voucher = 1
          \/ w.stage = "counting"
          \/ r.voucher = slip[t].voucher /\ r.entered = slip[t].entered
               /\ ~Cards!At(p, "counting")
      OBVIOUS
    <3>2. w.stage = "counting" => w.slip = t
      OBVIOUS
    <3> QED BY <2>1, <2>3, <3>1, <3>2, <1>1 DEF Cards!At
  <2> QED BY <2>2, <2>3
<1>11. Cards!UsedVouched'
  BY VouchedMoves DEF CardsInv
<1>12. BillFollows'
  <2> SUFFICES ASSUME entries \cap {"race", "crash"} = {} PROVE BillFollows'
    BY DEF BillFollows
  <2>1. Cards!OneAtATime
    BY DEF Cards!OneAtATime
  <2>2. Billed' = Billed
    BY <1>1, <2>1 DEF Billed
  <2>3. job' = Cards!JobIdle /\ Cards!JobIdle.stage = "idle"
    BY <1>5, <2>1 DEF Cards!JobIdle
  <2>4. Cards!Total(Billed)' = Cards!Total(Billed)
    BY <2>2, CardsSum DEF Cards!Total
  <2> QED BY <2>2, <2>3, <2>4 DEF CardsInv, BillFollows
<1> QED BY <1>2, <1>3, <1>7, <1>8, <1>9, <1>10, <1>11, <1>12 DEF CardsInv

LEMMA CardFacts ==
    ASSUME CardsInv, NEW p \in Session
    PROVE  /\ desk[p] \in Cards!Work /\ desk[p].slip \in Cards!SlipId
                /\ desk[p].row \in Cards!Slip
           /\ \A t \in Cards!SlipId :
                 /\ slip[t] \in Cards!Slip
                 /\ [slip EXCEPT ![t] = slip[t]] = slip
                 /\ ~slip[t].entered =>
                       slip[t].voucher = 0 /\ slip[t].reversal = 0 /\ ~slip[t].cancelled
           /\ desk[p].stage # "idle" => slip[desk[p].slip].entered
           /\ used \in Int
BY DEF CardsInv, Cards!TypeOK, Cards!Work, SlipsRight

LEMMA CardSaid ==
    ASSUME CardsInv, NEW p \in Session, NEW t \in Cards!SlipId
    PROVE  /\ "cancel" \notin entries => /\ ~slip[t].cancelled
                                         /\ ~desk[p].row.cancelled /\ desk[p].stage # "cancelling"
           /\ "crash" \notin entries /\ ~({"race", "cancel"} \subseteq entries) =>
                slip[t].reversal = IF slip[t].cancelled THEN 1 ELSE 0
           /\ Cards!OneAtATime /\ desk[p].stage \notin {"idle", "counting"} =>
                /\ desk[p].row.cancelled = slip[desk[p].slip].cancelled
                /\ desk[p].row.billed = slip[desk[p].slip].billed
BY DEF CardsInv, NoneCancelled, EachVouched, SlipLoaded, Cards!At

LEMMA SlipEntered ==
    ASSUME CardsInv, NEW p \in Session, NEW t \in Cards!SlipId, NEW m \in 1..2,
           Cards!Enter(p, t, m)
    PROVE  CardsInv'
<1> DEFINE r == [slip[t] EXCEPT !.entered = TRUE, !.dated = m]
           w == [Cards!Idle EXCEPT !.stage = "counting", !.slip = t]
<1>1. slip[t] \in Cards!Slip /\ ~slip[t].entered /\ slip[t].voucher = 0 /\ slip[t].reversal = 0
      /\ ~slip[t].cancelled /\ used \in Int
  BY CardFacts DEF Cards!Enter
<1>2. r \in Cards!Slip /\ r.entered /\ r.voucher = 0 /\ r.reversal = 0 /\ ~r.cancelled
      /\ r.billed = slip[t].billed
  BY <1>1 DEF Cards!Slip
<1>3. w \in Cards!Work /\ w.stage = "counting" /\ w.slip = t /\ ~w.row.cancelled
  BY CardsIdle DEF Cards!Idle, Cards!Work, Cards!NoSlip, Cards!Slip
<1>4. slip' = [slip EXCEPT ![t] = r]
  BY DEF Cards!Enter, CardsInv, Cards!TypeOK, Cards!Slip
<1>5. desk' = [desk EXCEPT ![p] = w] /\ Cards!At(p, "idle") /\ Cards!Starts(p)
  BY DEF Cards!Enter, Cards!Goto, Cards!Starts
<1>6. /\ bill' = bill /\ paid' = paid /\ month' = month /\ job' = job /\ entries' = entries
      /\ used' = used
  BY DEF Cards!Enter
<1> HIDE DEF r, w
<1>7. used' = used + t * (r.voucher - r.reversal) - t * (slip[t].voucher - slip[t].reversal)
  <2>1. t \in Int /\ t * (0 - 0) = 0
    BY CardsNumbers DEF Cards!SlipId
  <2> QED BY <1>1, <1>2, <1>6, <2>1
<1>8. ~Cards!At(p, "counting")
  BY <1>5 DEF Cards!At
<1> QED BY <1>1, <1>2, <1>3, <1>4, <1>5, <1>6, <1>7, <1>8, CardsGoes

LEMMA SlipCounted ==
    ASSUME CardsInv, NEW p \in Session, Cards!Count(p)
    PROVE  CardsInv'
<1> DEFINE t == desk[p].slip
           r == [slip[t] EXCEPT !.voucher = 1]
<1>1. t \in Cards!SlipId /\ slip[t] \in Cards!Slip /\ slip[t].entered /\ slip[t].voucher = 0
        /\ used \in Int
      /\ desk[p].stage = "counting"
  BY CardFacts DEF Cards!Count, Cards!At, CardsInv, SlipsRight
<1>2. r \in Cards!Slip /\ r.entered /\ r.voucher = 1 /\ r.reversal = slip[t].reversal
      /\ r.cancelled = slip[t].cancelled /\ r.billed = slip[t].billed
  BY <1>1 DEF Cards!Slip
<1>3. slip' = [slip EXCEPT ![t] = r]
  BY DEF Cards!Count, CardsInv, Cards!TypeOK, Cards!Slip
<1>4. desk' = [desk EXCEPT ![p] = Cards!Idle] /\ used' = used + t
      /\ bill' = bill /\ paid' = paid /\ month' = month /\ job' = job /\ entries' = entries
  BY DEF Cards!Count, Cards!Goto, Cards!Done
<1>5. /\ "cancel" \notin entries => ~slip[t].cancelled
      /\ "crash" \notin entries /\ ~({"race", "cancel"} \subseteq entries) =>
                slip[t].reversal = IF slip[t].cancelled THEN 1 ELSE 0
  BY <1>1, CardSaid
<1>6. t \in Int /\ slip[t].reversal \in Int
  BY <1>1, CardsNumbers DEF Cards!SlipId, Cards!Slip
<1> HIDE DEF t, r
<1>7. used' = used + t * (r.voucher - r.reversal) - t * (slip[t].voucher - slip[t].reversal)
  <2>1. t * (1 - slip[t].reversal) = t + t * (0 - slip[t].reversal)
          /\ t * (0 - slip[t].reversal) \in Int
    BY <1>6
  <2> QED BY <1>1, <1>2, <1>4, <1>6, <2>1
<1>8. Cards!At(p, "counting") => desk[p].slip = t
  BY DEF t
<1>9. ~Cards!At(p, "idle") /\ Cards!At(p, "counting")
  BY <1>1 DEF Cards!At
<1> QED BY <1>1, <1>2, <1>3, <1>4, <1>5, <1>7, <1>8, <1>9, CardsIdle, CardsGoes

\* A request that leaves its transaction alone.
LEMMA SlipKept ==
    ASSUME CardsInv, NEW p \in Session, NEW w \in Cards!Work, NEW t \in Cards!SlipId,
           slip' = slip, desk' = [desk EXCEPT ![p] = w], used' = used,
           bill' = bill, paid' = paid, month' = month, job' = job, entries' = entries,
           ~Cards!At(p, "idle") \/ Cards!Starts(p),
           Cards!At(p, "counting") => desk[p].slip = t /\ "crash" \in entries,
           w.stage # "counting",
           w.stage # "idle" =>
              /\ slip[t].entered /\ w.slip = t
              /\ Cards!OneAtATime => w.row.cancelled = slip[t].cancelled
                   /\ w.row.billed = slip[t].billed,
           "cancel" \notin entries => ~w.row.cancelled /\ w.stage # "cancelling"
    PROVE  CardsInv'
<1>1. /\ slip[t] \in Cards!Slip /\ slip' = [slip EXCEPT ![t] = slip[t]] /\ used \in Int
      /\ ~slip[t].entered => slip[t].voucher = 0 /\ slip[t].reversal = 0 /\ ~slip[t].cancelled
  BY CardFacts
<1>2. used' = used + t * (slip[t].voucher - slip[t].reversal) - t * (slip[t].voucher - slip[t].reversal)
  <2>1. t \in Int /\ slip[t].voucher \in Int /\ slip[t].reversal \in Int
    BY <1>1, CardsNumbers DEF Cards!SlipId, Cards!Slip
  <2> DEFINE a == t * (slip[t].voucher - slip[t].reversal)
  <2>2. a \in Int
    BY <2>1
  <2> HIDE DEF a
  <2>3. used' = used + a - a
    BY <1>1, <2>2
  <2> QED BY <2>3 DEF a
<1>3. /\ "cancel" \notin entries => ~slip[t].cancelled
      /\ "crash" \notin entries /\ ~({"race", "cancel"} \subseteq entries) =>
                slip[t].reversal = IF slip[t].cancelled THEN 1 ELSE 0
  BY CardSaid
<1> QED BY <1>1, <1>2, <1>3, CardsGoes, ZenonT(60)

LEMMA SlipLoads ==
    ASSUME CardsInv, NEW p \in Session, NEW t \in Cards!SlipId,
           NEW stage \in {"saving", "cancelling"},
           stage = "cancelling" => "cancel" \in entries, Cards!Starts(p), slip[t].entered,
           Cards!Goto(p, [stage |-> stage, slip |-> t, row |-> slip[t]]),
           UNCHANGED <<used, slip, bill, paid, month, job, entries>>
    PROVE  CardsInv'
<1> DEFINE w == [stage |-> stage, slip |-> t, row |-> slip[t]]
<1>1. w \in Cards!Work /\ w.stage = stage /\ w.slip = t /\ w.row = slip[t]
  BY CardFacts DEF Cards!Work
<1>2. desk' = [desk EXCEPT ![p] = w] /\ ~Cards!At(p, "counting")
  BY DEF Cards!Goto, Cards!Starts, Cards!At
<1>3. "cancel" \notin entries => ~slip[t].cancelled
  BY CardSaid
<1> HIDE DEF w
<1> QED BY <1>1, <1>2, <1>3, SlipKept

LEMMA CardDies ==
    ASSUME CardsInv, NEW p \in Session, Cards!Crash(p)
    PROVE  CardsInv'
<1>1. desk[p].slip \in Cards!SlipId
  BY CardFacts
<1> QED BY <1>1, CardsIdle, SlipKept DEF Cards!Crash, Cards!Done, Cards!Goto

LEMMA SlipSaved ==
    ASSUME CardsInv, NEW p \in Session, Cards!HandleSave(p)
    PROVE  CardsInv'
<1> DEFINE o == desk[p]
           t == o.slip
           w == [o EXCEPT !.stage = "writing"]
           r == [slip[t] EXCEPT !.reversal = @ + 1]
<1>1. /\ t \in Cards!SlipId /\ slip[t] \in Cards!Slip /\ slip[t].entered /\ used \in Int
           /\ o \in Cards!Work
      /\ o.stage = "saving" /\ o.row \in Cards!Slip
  BY CardFacts DEF Cards!HandleSave, Cards!At
<1>2. /\ "cancel" \notin entries => ~slip[t].cancelled /\ ~o.row.cancelled
      /\ "crash" \notin entries /\ ~({"race", "cancel"} \subseteq entries) =>
                slip[t].reversal = IF slip[t].cancelled THEN 1 ELSE 0
      /\ Cards!OneAtATime => o.row.cancelled = slip[t].cancelled /\ o.row.billed = slip[t].billed
  BY <1>1, CardSaid
<1>3. w \in Cards!Work /\ w.stage = "writing" /\ w.slip = t /\ w.row = o.row
  BY <1>1 DEF Cards!Work
<1>4. desk' = [desk EXCEPT ![p] = w] /\ ~Cards!At(p, "idle") /\ ~Cards!At(p, "counting")
      /\ bill' = bill /\ paid' = paid /\ month' = month /\ job' = job /\ entries' = entries
  BY <1>1 DEF Cards!HandleSave, Cards!Goto, Cards!At
<1>5. CASE ~Cards!TakesBack(slip[t], o.row)
  <2>1. slip' = slip /\ used' = used
    BY <1>5 DEF Cards!HandleSave
  <2> HIDE DEF o, t, w, r
  <2> QED BY <1>1, <1>2, <1>3, <1>4, <2>1, SlipKept
<1>6. CASE Cards!TakesBack(slip[t], o.row)
  <2>1. used' = used - t /\ slip' = [slip EXCEPT ![t].reversal = @ + 1]
    BY <1>6 DEF Cards!HandleSave, Cards!Reversed
  <2>2. slip' = [slip EXCEPT ![t] = r]
    BY <2>1
  <2>3. /\ r \in Cards!Slip /\ r.entered /\ r.voucher = slip[t].voucher
        /\ r.reversal = slip[t].reversal + 1 /\ r.cancelled = slip[t].cancelled
             /\ r.billed = slip[t].billed
    BY <1>1 DEF Cards!Slip
  <2>4. ~slip[t].cancelled /\ o.row.cancelled
    BY <1>6 DEF Cards!TakesBack
  <2>5. ~("crash" \notin entries /\ ~({"race", "cancel"} \subseteq entries)) /\ ~Cards!OneAtATime
    BY <1>2, <2>4 DEF Cards!OneAtATime
  <2>6. t \in Int /\ slip[t].reversal \in Int /\ slip[t].voucher \in Int
    BY <1>1, CardsNumbers DEF Cards!SlipId, Cards!Slip
  <2> HIDE DEF o, t, w, r
  <2>7. used' = used + t * (r.voucher - r.reversal) - t * (slip[t].voucher - slip[t].reversal)
    <3>1. \A a, b \in Int : t * (a - (b + 1)) = t * (a - b) - t /\ t * (a - b) \in Int
      BY <2>6
    <3>2. /\ t * (slip[t].voucher - (slip[t].reversal + 1)) = t * (slip[t].voucher - slip[t].reversal) - t
          /\ t * (slip[t].voucher - slip[t].reversal) \in Int
      BY <2>6, <3>1
    <3> QED BY <1>1, <2>1, <2>3, <2>6, <3>2
  <2> QED BY <1>1, <1>2, <1>3, <1>4, <2>2, <2>3, <2>4, <2>5, <2>7, CardsGoes
<1> QED BY <1>5, <1>6

LEMMA SlipWritten ==
    ASSUME CardsInv, NEW p \in Session, Cards!WriteSlip(p)
    PROVE  CardsInv'
<1> DEFINE o == desk[p]
           t == o.slip
           r == [slip[t] EXCEPT !.cancelled = o.row.cancelled, !.billed = o.row.billed]
<1>1. /\ t \in Cards!SlipId /\ slip[t] \in Cards!Slip /\ slip[t].entered /\ used \in Int
           /\ o \in Cards!Work
      /\ o.stage = "writing" /\ o.row \in Cards!Slip
  BY CardFacts DEF Cards!WriteSlip, Cards!At
<1>2. /\ "cancel" \notin entries => ~slip[t].cancelled /\ ~o.row.cancelled
      /\ "crash" \notin entries /\ ~({"race", "cancel"} \subseteq entries) =>
                slip[t].reversal = IF slip[t].cancelled THEN 1 ELSE 0
      /\ Cards!OneAtATime => o.row.cancelled = slip[t].cancelled /\ o.row.billed = slip[t].billed
  BY <1>1, CardSaid
<1>3. r \in Cards!Slip /\ r.entered /\ r.voucher = slip[t].voucher
        /\ r.reversal = slip[t].reversal
      /\ r.cancelled = o.row.cancelled /\ r.billed = o.row.billed /\ r.entered = slip[t].entered
  BY <1>1 DEF Cards!Slip
<1>4. desk' = [desk EXCEPT ![p] = Cards!Idle] /\ ~Cards!At(p, "idle") /\ ~Cards!At(p, "counting")
        /\ used' = used
      /\ bill' = bill /\ paid' = paid /\ month' = month /\ job' = job /\ entries' = entries
  BY <1>1 DEF Cards!WriteSlip, Cards!Goto, Cards!Done, Cards!At
<1>5. slip' = [slip EXCEPT ![t] = r]
  BY DEF Cards!WriteSlip, CardsInv, Cards!TypeOK, Cards!Slip
<1>6. t \in Int /\ slip[t].reversal \in Int /\ slip[t].voucher \in Int
  BY <1>1, CardsNumbers DEF Cards!SlipId, Cards!Slip
<1> HIDE DEF o, t, r
<1>7. used' = used + t * (r.voucher - r.reversal) - t * (slip[t].voucher - slip[t].reversal)
  <2> DEFINE a == t * (slip[t].voucher - slip[t].reversal)
  <2>1. a \in Int /\ t * (r.voucher - r.reversal) = a
    BY <1>3, <1>6
  <2> HIDE DEF a
  <2>2. used' = used + a - a
    BY <1>1, <1>4, <2>1
  <2> QED BY <2>1, <2>2 DEF a
<1>8. "crash" \notin entries /\ ~({"race", "cancel"} \subseteq entries)
        => o.row.cancelled = slip[t].cancelled
  <2>1. slip[t].cancelled \in BOOLEAN /\ o.row.cancelled \in BOOLEAN
    BY <1>1 DEF Cards!Slip
  <2> QED BY <1>2, <2>1 DEF Cards!OneAtATime
<1>9. "crash" \notin entries /\ ~({"race", "cancel"} \subseteq entries) =>
        /\ r.reversal = IF r.cancelled THEN 1 ELSE 0
        /\ r.voucher = slip[t].voucher /\ r.entered = slip[t].entered /\ ~Cards!At(p, "counting")
  BY <1>2, <1>3, <1>4, <1>8
<1>10. /\ Cards!OneAtATime => r.billed = slip[t].billed
       /\ "cancel" \notin entries => ~r.cancelled
  BY <1>2, <1>3
<1> QED BY <1>1, <1>3, <1>4, <1>5, <1>7, <1>9, <1>10, CardsIdle, CardsGoes

LEMMA SlipCancelled ==
    ASSUME CardsInv, NEW p \in Session, Cards!CommitCancel(p)
    PROVE  CardsInv'
<1> DEFINE o == desk[p]
           t == o.slip
           owed == ~o.row.cancelled
           r == [slip[t] EXCEPT !.reversal = IF owed THEN @ + 1 ELSE @,
                                !.cancelled = TRUE, !.billed = o.row.billed]
<1>1. /\ t \in Cards!SlipId /\ slip[t] \in Cards!Slip /\ slip[t].entered /\ used \in Int
           /\ o \in Cards!Work
      /\ o.stage = "cancelling" /\ o.row \in Cards!Slip
  BY CardFacts DEF Cards!CommitCancel, Cards!At
<1>2. /\ "cancel" \in entries
      /\ "crash" \notin entries /\ ~({"race", "cancel"} \subseteq entries) =>
                slip[t].reversal = IF slip[t].cancelled THEN 1 ELSE 0
      /\ Cards!OneAtATime => o.row.cancelled = slip[t].cancelled /\ o.row.billed = slip[t].billed
  BY <1>1, CardSaid
<1>3. r \in Cards!Slip /\ r.entered /\ r.voucher = slip[t].voucher
      /\ r.reversal = (IF owed THEN slip[t].reversal + 1 ELSE slip[t].reversal)
      /\ r.cancelled = TRUE /\ r.billed = o.row.billed /\ r.entered = slip[t].entered
  <2> DEFINE v == IF owed THEN slip[t].reversal + 1 ELSE slip[t].reversal
  <2>1. v \in Nat
          /\ r = [slip[t] EXCEPT !.reversal = v, !.cancelled = TRUE, !.billed = o.row.billed]
    BY <1>1 DEF Cards!Slip
  <2> HIDE DEF v, owed
  <2>2. /\ r \in Cards!Slip /\ r.entered /\ r.voucher = slip[t].voucher /\ r.reversal = v
        /\ r.cancelled = TRUE /\ r.billed = o.row.billed /\ r.entered = slip[t].entered
    BY <1>1, <2>1 DEF Cards!Slip
  <2> QED BY <2>2 DEF v
<1>4. desk' = [desk EXCEPT ![p] = Cards!Idle] /\ ~Cards!At(p, "idle") /\ ~Cards!At(p, "counting")
      /\ bill' = bill /\ paid' = paid /\ month' = month /\ job' = job /\ entries' = entries
  BY <1>1 DEF Cards!CommitCancel, Cards!Goto, Cards!Done, Cards!At
<1>5. Cards!TakesBack(o.row, [o.row EXCEPT !.cancelled = TRUE]) = owed
  BY <1>1 DEF Cards!TakesBack, Cards!Slip
<1>6. used' = IF owed THEN used - t ELSE used
  BY <1>5 DEF Cards!CommitCancel
<1>7. slip' = [IF owed THEN Cards!Reversed(t) ELSE slip EXCEPT
                       ![t].cancelled = TRUE, ![t].billed = o.row.billed]
  BY <1>5 DEF Cards!CommitCancel
<1>8. slip' = [slip EXCEPT ![t] = r]
  <2>1. slip \in [Cards!SlipId -> Cards!Slip]
    BY DEF CardsInv, Cards!TypeOK
  <2>2. CASE owed
    <3>1. slip' = [Cards!Reversed(t) EXCEPT ![t].cancelled = TRUE, ![t].billed = o.row.billed]
      BY <1>7, <2>2
    <3> QED BY <3>1, <2>1, <2>2 DEF Cards!Reversed, Cards!Slip
  <2>3. CASE ~owed
    <3>1. slip' = [slip EXCEPT ![t].cancelled = TRUE, ![t].billed = o.row.billed]
      BY <1>7, <2>3
    <3> QED BY <3>1, <2>1, <2>3 DEF Cards!Slip
  <2> QED BY <2>2, <2>3
<1>9. t \in Int /\ slip[t].reversal \in Int /\ slip[t].voucher \in Int
  BY <1>1, CardsNumbers DEF Cards!SlipId, Cards!Slip
<1>10. "crash" \notin entries /\ ~({"race", "cancel"} \subseteq entries)
         => owed = ~slip[t].cancelled
  BY <1>2 DEF Cards!OneAtATime
<1>11. owed \in BOOLEAN
  BY <1>1 DEF Cards!Slip
<1> HIDE DEF o, t, r, owed
<1>12. used' = used + t * (r.voucher - r.reversal) - t * (slip[t].voucher - slip[t].reversal)
  <2> DEFINE a == t * (slip[t].voucher - slip[t].reversal)
  <2>1. \A b, c \in Int : t * (b - (c + 1)) = t * (b - c) - t
    BY <1>9
  <2>2. a \in Int /\ t * (slip[t].voucher - (slip[t].reversal + 1)) = a - t
    <3>1. t * (slip[t].voucher - (slip[t].reversal + 1)) = t * (slip[t].voucher - slip[t].reversal) - t
      BY <1>9, <2>1
    <3>2. slip[t].voucher - slip[t].reversal \in Int
      BY <1>9
    <3> QED BY <1>9, <3>1, <3>2
  <2>3. t * (r.voucher - r.reversal) = IF owed THEN a - t ELSE a
    BY <1>3, <2>2
  <2> HIDE DEF a
  <2>4. used' = used + (IF owed THEN a - t ELSE a) - a
    BY <1>1, <1>6, <1>9, <2>2
  <2> QED BY <2>3, <2>4 DEF a
<1>13. "crash" \notin entries /\ ~({"race", "cancel"} \subseteq entries) => r.reversal = 1
  <2>1. slip[t].cancelled \in BOOLEAN
    BY <1>1 DEF Cards!Slip
  <2> SUFFICES ASSUME "crash" \notin entries, ~({"race", "cancel"} \subseteq entries)
               PROVE  r.reversal = 1
    OBVIOUS
  <2>2. slip[t].reversal = (IF slip[t].cancelled THEN 1 ELSE 0) /\ owed = ~slip[t].cancelled
    BY <1>2, <1>10
  <2>3. CASE slip[t].cancelled
    BY <1>3, <2>2, <2>3
  <2>4. CASE ~slip[t].cancelled
    <3>1. owed = TRUE /\ slip[t].reversal = 0
      BY <2>2, <2>4
    <3> QED BY <1>3, <3>1
  <2> QED BY <2>1, <2>3, <2>4
<1>14. "crash" \notin entries /\ ~({"race", "cancel"} \subseteq entries) =>
        /\ r.reversal = IF r.cancelled THEN 1 ELSE 0
        /\ r.voucher = slip[t].voucher /\ r.entered = slip[t].entered /\ ~Cards!At(p, "counting")
  BY <1>3, <1>4, <1>13
<1>15. Cards!OneAtATime => r.billed = slip[t].billed
  BY <1>2, <1>3
<1> QED BY <1>1, <1>2, <1>3, <1>4, <1>8, <1>12, <1>14, <1>15, CardsIdle, CardsGoes

-----------------------------------------------------------------------------
(* The bill and the jobs. *)

LEMMA CardRest ==
    ASSUME CardsInv, slip' = slip, desk' = desk, entries' = entries,
           used' \in Int, bill' \in Cards!Bill, paid' \in Nat, job' \in Cards!Job,
           month' \in [now: 1..2, reset: BOOLEAN, billing: BOOLEAN],
           month'.now = 1 => month.now = 1 /\ used' = used,
           BillRight', BillFollows',
           Cards!OneAtATime => job' = Cards!JobIdle \/ \A q \in Session : desk[q].stage = "idle"
    PROVE  CardsInv'
<1>1. Cards!TypeOK'
  BY DEF CardsInv, Cards!TypeOK
<1>2. SlipsRight' /\ NoneCancelled'
  BY DEF CardsInv, SlipsRight, NoneCancelled, Cards!At
<1>3. SlipLoaded'
  BY DEF CardsInv, SlipLoaded, Cards!OneAtATime, Cards!At
<1>4. EachVouched'
  BY DEF CardsInv, EachVouched, Cards!At
<1>5. Cards!UsedVouched'
  BY CardsSum DEF CardsInv, Cards!UsedVouched
<1> QED BY <1>1, <1>2, <1>3, <1>4, <1>5 DEF CardsInv

\* One at a time, the job moves while no request does.
LEMMA JobAlone ==
    ASSUME CardsInv, Cards!OneAtATime, job # Cards!JobIdle \/ Cards!AtRest
    PROVE  \A q \in Session : desk[q].stage = "idle"
BY DEF CardsInv, SlipLoaded, Cards!AtRest, Cards!At

LEMMA CardBillPaid ==
    ASSUME CardsInv, NEW p \in Session, Cards!PayBill(p)
    PROVE  CardsInv'
<1> DEFINE amount == Cards!ToPay(bill)
<1>1. bill \in Cards!Bill /\ paid \in Nat /\ used \in Int /\ job \in Cards!Job
      /\ month \in [now: 1..2, reset: BOOLEAN, billing: BOOLEAN]
      /\ paid = bill.paid /\ paid <= bill.total
  BY DEF CardsInv, Cards!TypeOK, BillRight, Cards!BillPaidOnce
<1>2. bill.status \in {"PENDING", "PARTIAL"} /\ amount = bill.total - bill.paid
      /\ bill.total \in Nat /\ bill.paid \in Nat
  BY <1>1 DEF Cards!PayBill, Cards!ToPay, Cards!Bill
<1>3. bill.paid + amount = bill.total /\ paid + amount = bill.total
  BY <1>1, <1>2
<1>4. paid' = bill.total
  BY <1>3 DEF Cards!PayBill
<1>5. bill' = [bill EXCEPT !.paid = bill.total, !.status = "PAID"]
  <2>1. (bill.paid + amount >= bill.total) = TRUE
    BY <1>2, <1>3
  <2>2. bill' = [bill EXCEPT !.paid = @ + amount,
                             !.status = IF bill.paid + amount >= bill.total THEN "PAID" ELSE "PARTIAL"]
    BY DEF Cards!PayBill
  <2> HIDE DEF amount
  <2> QED BY <1>1, <1>3, <2>1, <2>2
<1>6. bill' \in Cards!Bill /\ bill'.total = bill.total /\ bill'.paid = bill.total
        /\ bill'.status = "PAID"
  BY <1>1, <1>2, <1>5 DEF Cards!Bill, Cards!BillStatus
<1>7. UNCHANGED <<used, slip, month, job, desk, entries>> /\ Cards!Starts(p)
  BY DEF Cards!PayBill
<1>8. job.stage # "summed"
  BY <1>2 DEF CardsInv, BillRight
<1>9. BillRight'
  BY <1>2, <1>4, <1>6, <1>7, <1>8 DEF BillRight, Cards!BillPaidOnce
<1>10. BillFollows'
  <2>1. Cards!Total(Billed)' = Cards!Total(Billed)
          /\ Cards!Total(Cards!Billable)' = Cards!Total(Cards!Billable) /\ Billed' = Billed
    BY <1>7, CardsSum DEF Cards!Total, Billed, Cards!Billable
  <2>2. bill.status # "absent" /\ bill'.status # "absent"
    BY <1>2, <1>6
  <2> HIDE DEF amount
  <2>3. entries \cap {"race", "crash"} = {} =>
            /\ job = Cards!JobIdle => bill.total = Cards!Total(Billed)
            /\ job.stage = "created" => Billed = {} /\ bill.total = Cards!Total(Cards!Billable)
    BY <2>2 DEF CardsInv, BillFollows
  <2>4. bill'.total = bill.total /\ job' = job /\ entries' = entries
    BY <1>6, <1>7
  <2> QED BY <1>8, <2>1, <2>2, <2>3, <2>4 DEF BillFollows
<1>11. Cards!OneAtATime => job' = Cards!JobIdle \/ \A q \in Session : desk[q].stage = "idle"
  BY <1>7, JobAlone
<1> QED BY <1>1, <1>2, <1>4, <1>6, <1>7, <1>9, <1>10, <1>11, CardRest

LEMMA MonthTurned == CardsInv /\ (Cards!TurnMonth \/ Cards!ResetUsed) => CardsInv'
<1> SUFFICES ASSUME CardsInv, Cards!TurnMonth \/ Cards!ResetUsed PROVE CardsInv'
  OBVIOUS
<1>1. /\ UNCHANGED <<slip, bill, paid, job, desk, entries>>
      /\ month' \in [now: 1..2, reset: BOOLEAN, billing: BOOLEAN] /\ month'.now = 2
           /\ used' \in Int
      /\ bill \in Cards!Bill /\ paid \in Nat /\ job \in Cards!Job
  <2>1. /\ month \in [now: 1..2, reset: BOOLEAN, billing: BOOLEAN] /\ used \in Int
        /\ bill \in Cards!Bill /\ paid \in Nat /\ job \in Cards!Job
    BY DEF CardsInv, Cards!TypeOK
  <2>2. CASE Cards!TurnMonth
    BY <2>1, <2>2 DEF Cards!TurnMonth
  <2>3. CASE Cards!ResetUsed
    <3>1. /\ UNCHANGED <<slip, bill, paid, job, desk, entries>> /\ used' = 0
          /\ month.now = 2 /\ month' = [month EXCEPT !.reset = TRUE]
      BY <2>3 DEF Cards!ResetUsed
    <3>2. month'.now = 2 /\ month' \in [now: 1..2, reset: BOOLEAN, billing: BOOLEAN]
      BY <2>1, <3>1
    <3> QED BY <2>1, <3>1, <3>2
  <2> QED BY <2>2, <2>3
<1>2. BillRight'
  BY <1>1 DEF CardsInv, BillRight, Cards!BillPaidOnce
<1>3. BillFollows'
  <2>1. Cards!Total(Billed)' = Cards!Total(Billed)
          /\ Cards!Total(Cards!Billable)' = Cards!Total(Cards!Billable) /\ Billed' = Billed
    BY <1>1, CardsSum DEF Cards!Total, Billed, Cards!Billable
  <2> QED BY <1>1, <2>1 DEF CardsInv, BillFollows
<1>4. Cards!OneAtATime => job' = Cards!JobIdle \/ \A q \in Session : desk[q].stage = "idle"
  BY <1>1, JobAlone
<1> QED BY <1>1, <1>2, <1>3, <1>4, CardRest

LEMMA MonthSummed == CardsInv /\ Cards!SumMonth => CardsInv'
<1> SUFFICES ASSUME CardsInv, Cards!SumMonth PROVE CardsInv'
  OBVIOUS
<1>1. /\ UNCHANGED <<used, slip, bill, paid, desk, entries>> /\ job = Cards!JobIdle
      /\ month' \in [now: 1..2, reset: BOOLEAN, billing: BOOLEAN] /\ month'.now = month.now
      /\ bill \in Cards!Bill /\ paid \in Nat /\ used \in Int
  BY DEF CardsInv, Cards!TypeOK, Cards!SumMonth
<1>2. Cards!Total(Billed)' = Cards!Total(Billed)
        /\ Cards!Total(Cards!Billable)' = Cards!Total(Cards!Billable) /\ Billed' = Billed
      /\ Cards!JobIdle.stage = "idle"
  BY <1>1, CardsSum DEF Cards!Total, Billed, Cards!Billable, Cards!JobIdle
<1>3. Cards!OneAtATime => \A q \in Session : desk[q].stage = "idle"
  BY JobAlone DEF Cards!SumMonth
<1>4. CASE bill.status = "absent" /\ Cards!Billable # {}
  <2>1. job' = [stage |-> "summed", total |-> Cards!Total(Cards!Billable)]
    BY <1>4 DEF Cards!SumMonth
  <2>2. job'.stage = "summed" /\ job'.total = Cards!Total(Cards!Billable) /\ job' \in Cards!Job
          /\ job' # Cards!JobIdle
    BY <2>1, CardTotalNat DEF Cards!Job, Cards!JobIdle
  <2>3. BillRight'
    BY <1>1, <1>4 DEF CardsInv, BillRight, Cards!BillPaidOnce
  <2>4. BillFollows'
    BY <1>1, <1>2, <2>2 DEF CardsInv, BillFollows
  <2> QED BY <1>1, <1>3, <2>2, <2>3, <2>4, CardRest
<1>5. CASE ~(bill.status = "absent" /\ Cards!Billable # {})
  <2>1. job' = Cards!JobIdle
    BY <1>5 DEF Cards!SumMonth
  <2>2. BillRight'
    BY <1>1, <1>2, <2>1 DEF CardsInv, BillRight, Cards!BillPaidOnce
  <2>3. BillFollows'
    BY <1>1, <1>2, <2>1 DEF CardsInv, BillFollows
  <2> QED BY <1>1, <2>1, <2>2, <2>3, CardsIdle, CardRest
<1> QED BY <1>4, <1>5

LEMMA BillCreated == CardsInv /\ Cards!CreateBill => CardsInv'
<1> SUFFICES ASSUME CardsInv, Cards!CreateBill PROVE CardsInv'
  OBVIOUS
<1>1. /\ UNCHANGED <<used, slip, paid, month, desk, entries>> /\ job \in Cards!Job
           /\ job.stage = "summed"
      /\ month \in [now: 1..2, reset: BOOLEAN, billing: BOOLEAN] /\ paid \in Nat /\ used \in Int
  BY DEF CardsInv, Cards!TypeOK, Cards!CreateBill
<1>2. job' \in Cards!Job /\ job'.stage = "created" /\ job'.total = job.total /\ job.total \in Nat
      /\ job' # Cards!JobIdle /\ job # Cards!JobIdle
  BY <1>1 DEF Cards!CreateBill, Cards!Job, Cards!JobIdle
<1>3. bill' \in Cards!Bill /\ bill'.status = "PENDING" /\ bill'.total = job.total
        /\ bill'.paid = 0
  BY <1>2 DEF Cards!CreateBill, Cards!Bill, Cards!NoBill, Cards!BillStatus
<1>4. bill.status = "absent" /\ paid = 0
  BY <1>1 DEF CardsInv, BillRight, Cards!BillPaidOnce, Cards!NoBill
<1>5. BillRight'
  BY <1>1, <1>2, <1>3, <1>4 DEF BillRight, Cards!BillPaidOnce
<1>6. BillFollows'
  <2>1. Cards!Total(Billed)' = Cards!Total(Billed)
          /\ Cards!Total(Cards!Billable)' = Cards!Total(Cards!Billable) /\ Billed' = Billed
    BY <1>1, CardsSum DEF Cards!Total, Billed, Cards!Billable
  <2> QED BY <1>1, <1>2, <1>3, <1>4, <2>1 DEF CardsInv, BillFollows
<1>7. Cards!OneAtATime => \A q \in Session : desk[q].stage = "idle"
  BY <1>2, JobAlone
<1> QED BY <1>1, <1>2, <1>3, <1>5, <1>6, <1>7, CardRest

LEMMA BillingDies == CardsInv /\ Cards!JobDies => CardsInv'
<1> SUFFICES ASSUME CardsInv, Cards!JobDies PROVE CardsInv'
  OBVIOUS
<1>1. /\ UNCHANGED <<used, slip, bill, paid, month, desk, entries>> /\ job' = Cards!JobIdle
      /\ month \in [now: 1..2, reset: BOOLEAN, billing: BOOLEAN] /\ paid \in Nat /\ used \in Int
      /\ "crash" \in entries /\ bill \in Cards!Bill /\ Cards!JobIdle.stage = "idle"
  BY DEF CardsInv, Cards!TypeOK, Cards!JobDies, Cards!JobIdle
<1>2. BillRight'
  BY <1>1 DEF CardsInv, BillRight, Cards!BillPaidOnce
<1>3. BillFollows'
  BY <1>1 DEF BillFollows
<1> QED BY <1>1, <1>2, <1>3, CardsIdle, CardRest

LEMMA SlipsLinked == CardsInv /\ Cards!LinkSlips => CardsInv'
<1> SUFFICES ASSUME CardsInv, Cards!LinkSlips PROVE CardsInv'
  OBVIOUS
<1>1. /\ UNCHANGED <<used, bill, paid, month, desk, entries>> /\ job' = Cards!JobIdle
      /\ job.stage = "created" /\ Cards!JobIdle.stage = "idle" /\ job # Cards!JobIdle
  BY DEF Cards!LinkSlips, Cards!JobIdle
<1>2. \A t \in Cards!SlipId :
         /\ slip'[t] \in Cards!Slip /\ slip'[t].entered = slip[t].entered
              /\ slip'[t].dated = slip[t].dated
         /\ slip'[t].cancelled = slip[t].cancelled /\ slip'[t].voucher = slip[t].voucher
         /\ slip'[t].reversal = slip[t].reversal
         /\ slip'[t].billed = IF t \in Cards!Billable THEN TRUE ELSE slip[t].billed
  <2> SUFFICES ASSUME NEW t \in Cards!SlipId
               PROVE  /\ slip'[t] \in Cards!Slip /\ slip'[t].entered = slip[t].entered
                      /\ slip'[t].dated = slip[t].dated
                      /\ slip'[t].cancelled = slip[t].cancelled
                           /\ slip'[t].voucher = slip[t].voucher
                      /\ slip'[t].reversal = slip[t].reversal
                      /\ slip'[t].billed = IF t \in Cards!Billable THEN TRUE ELSE slip[t].billed
    OBVIOUS
  <2>1. slip[t] \in Cards!Slip
    BY DEF CardsInv, Cards!TypeOK
  <2>2. slip'[t] = IF t \in Cards!Billable THEN [slip[t] EXCEPT !.billed = TRUE] ELSE slip[t]
    BY DEF Cards!LinkSlips
  <2> QED BY <2>1, <2>2 DEF Cards!Slip
<1>3. Cards!TypeOK'
  <2>1. slip' \in [Cards!SlipId -> Cards!Slip]
    BY <1>2 DEF Cards!LinkSlips
  <2> QED BY <1>1, <2>1, CardsIdle DEF CardsInv, Cards!TypeOK
<1>4. BillRight'
  BY <1>1 DEF CardsInv, BillRight, Cards!BillPaidOnce
<1>5. \A q \in Session : desk[q].slip \in Cards!SlipId
  BY DEF CardsInv, Cards!TypeOK, Cards!Work
<1>6. SlipsRight'
  BY <1>1, <1>2, <1>5 DEF CardsInv, SlipsRight, Cards!At
<1>7. Cards!OneAtATime => \A q \in Session : desk[q].stage = "idle"
  BY <1>1, JobAlone
<1>8. SlipLoaded'
  BY <1>1, <1>7 DEF SlipLoaded, Cards!OneAtATime, Cards!At
<1>9. NoneCancelled'
  BY <1>1, <1>2 DEF CardsInv, NoneCancelled, Cards!At
<1>10. EachVouched'
  <2> SUFFICES ASSUME "crash" \notin entries, ~({"race", "cancel"} \subseteq entries),
                      NEW u \in Cards!SlipId
               PROVE  /\ slip'[u].reversal = IF slip'[u].cancelled THEN 1 ELSE 0
                      /\ \/ slip'[u].voucher = 1
                         \/ ~slip'[u].entered
                         \/ \E q \in Session : desk'[q].stage = "counting" /\ desk'[q].slip = u
    BY <1>1 DEF EachVouched, Cards!At
  <2>1. /\ slip[u].reversal = IF slip[u].cancelled THEN 1 ELSE 0
        /\ \/ slip[u].voucher = 1
           \/ ~slip[u].entered
           \/ \E q \in Session : desk[q].stage = "counting" /\ desk[q].slip = u
    BY DEF CardsInv, EachVouched, Cards!At
  <2> QED BY <2>1, <1>1, <1>2
<1>11. Cards!UsedVouched'
  <2>1. [t \in Cards!SlipId |-> t * (slip'[t].voucher - slip'[t].reversal)]
          = [t \in Cards!SlipId |-> t * (slip[t].voucher - slip[t].reversal)]
    BY <1>2
  <2> QED BY <1>1, <2>1, CardsSum DEF CardsInv, Cards!UsedVouched
<1>12. BillFollows'
  <2> SUFFICES ASSUME entries \cap {"race", "crash"} = {} PROVE BillFollows'
    BY <1>1 DEF BillFollows
  <2>1. Billed = {} /\ bill.total = Cards!Total(Cards!Billable) /\ bill.status # "absent"
    BY <1>1, <1>2 DEF CardsInv, BillFollows
  <2>2. Billed' = Cards!Billable
    BY <1>2, <2>1 DEF Billed, Cards!Billable
  <2>3. Cards!Total(Billed)' = Cards!Total(Cards!Billable)
    BY <2>2, CardsSum DEF Cards!Total
  <2> QED BY <1>1, <2>1, <2>3 DEF BillFollows
<1> QED BY <1>3, <1>4, <1>6, <1>8, <1>9, <1>10, <1>11, <1>12 DEF CardsInv

-----------------------------------------------------------------------------
(* Cards in every state. *)

LEMMA CardsStart == Cards!Init => CardsInv
<1> SUFFICES ASSUME Cards!Init PROVE CardsInv
  OBVIOUS
<1>1. /\ \A p \in Session : desk[p] = Cards!Idle
      /\ \A t \in Cards!SlipId : slip[t] = Cards!NoSlip
      /\ Cards!Idle.stage = "idle" /\ ~Cards!Idle.row.cancelled /\ Cards!NoSlip.voucher = 0
           /\ Cards!NoSlip.reversal = 0
      /\ ~Cards!NoSlip.cancelled /\ ~Cards!NoSlip.entered /\ ~Cards!NoSlip.billed
      /\ Cards!JobIdle.stage = "idle" /\ Cards!NoBill.status = "absent" /\ Cards!NoBill.paid = 0
           /\ Cards!NoBill.total = 0
  BY DEF Cards!Init, Cards!Idle, Cards!NoSlip, Cards!JobIdle, Cards!NoBill
<1>2. Cards!TypeOK
  BY CardsIdle DEF Cards!Init, Cards!TypeOK
<1>3. BillRight
  BY <1>1 DEF Cards!Init, BillRight, Cards!BillPaidOnce
<1>4. SlipsRight /\ SlipLoaded /\ NoneCancelled /\ EachVouched
  BY <1>1 DEF Cards!Init, SlipsRight, SlipLoaded, NoneCancelled, EachVouched, Cards!At
<1>5. Cards!UsedVouched
  <2> DEFINE f == [t \in Cards!SlipId |-> t * (slip[t].voucher - slip[t].reversal)]
  <2>1. \A t \in Cards!SlipId : f[t] = 0 /\ t \in Int
    <3> SUFFICES ASSUME NEW t \in Cards!SlipId PROVE t * (slip[t].voucher - slip[t].reversal) = 0
                        /\ t \in Int
      OBVIOUS
    <3>1. t \in Int /\ slip[t].voucher - slip[t].reversal = 0
      BY <1>1, CardsNumbers DEF Cards!SlipId
    <3> QED BY <3>1
  <2>2. /\ f \in [1..Transactions -> Int] /\ \A t \in 1..Transactions : f[t] = 0
        /\ Transactions \in Nat /\ Transactions \in 0..Transactions
    BY <2>1, CardsNumbers DEF Cards!SlipId
  <2> HIDE DEF f
  <2>3. SumTo(f, Transactions) = 0
    BY <2>2, SumToZero
  <2>4. used = 0
    BY DEF Cards!Init
  <2> QED BY <2>3, <2>4, CardsSum DEF Cards!UsedVouched, f
<1>6. BillFollows
  <2>1. Billed = {}
    BY <1>1 DEF Billed
  <2> QED BY <1>1, <2>1 DEF Cards!Init, BillFollows
<1> QED BY <1>2, <1>3, <1>4, <1>5, <1>6 DEF CardsInv

LEMMA CardsStep == CardsInv /\ [Cards!Next]_(Cards!vars) => CardsInv'
<1> SUFFICES ASSUME CardsInv, [Cards!Next]_(Cards!vars) PROVE CardsInv'
  OBVIOUS
<1>1. CASE UNCHANGED Cards!vars
  <2>1. Cards!Total(Billed)' = Cards!Total(Billed)
          /\ Cards!Total(Cards!Billable)' = Cards!Total(Cards!Billable) /\ Billed' = Billed
    BY <1>1, CardsSum DEF Cards!vars, Cards!Total, Billed, Cards!Billable
  <2>2. BillRight' /\ BillFollows'
    BY <1>1, <2>1 DEF Cards!vars, CardsInv, BillRight, Cards!BillPaidOnce, BillFollows
  <2>3. Cards!OneAtATime => job' = Cards!JobIdle \/ \A q \in Session : desk[q].stage = "idle"
    BY <1>1, JobAlone DEF Cards!vars
  <2>4. /\ used \in Int /\ bill \in Cards!Bill /\ paid \in Nat /\ job \in Cards!Job
        /\ month \in [now: 1..2, reset: BOOLEAN, billing: BOOLEAN]
    BY DEF CardsInv, Cards!TypeOK
  <2> QED BY <1>1, <2>2, <2>3, <2>4, CardRest DEF Cards!vars
<1>2. ASSUME NEW p \in Session, NEW t \in Cards!SlipId,
             (\E m \in 1..2 : Cards!Enter(p, t, m)) \/ Cards!AskEdit(p, t)
               \/ Cards!AskCancel(p, t)
      PROVE  CardsInv'
  <2>1. CASE \E m \in 1..2 : Cards!Enter(p, t, m)
    BY <2>1, SlipEntered
  <2>2. CASE Cards!AskEdit(p, t)
    BY <2>2, SlipLoads DEF Cards!AskEdit
  <2>3. CASE Cards!AskCancel(p, t)
    BY <2>3, SlipLoads DEF Cards!AskCancel
  <2> QED BY <1>2, <2>1, <2>2, <2>3
<1>3. ASSUME NEW p \in Session,
             Cards!Count(p) \/ Cards!HandleSave(p) \/ Cards!WriteSlip(p) \/ Cards!CommitCancel(p)
               \/ Cards!PayBill(p) \/ Cards!Crash(p)
      PROVE  CardsInv'
  BY <1>3, SlipCounted, SlipSaved, SlipWritten, SlipCancelled, CardBillPaid, CardDies
<1> QED BY <1>1, <1>2, <1>3, MonthTurned, MonthSummed, BillCreated, SlipsLinked, BillingDies
   DEF Cards!Next

LEMMA CardsKeep == CardsInv => Cards!TypeOK /\ Cards!BillPaidOnce /\ Cards!UsedVouched
    /\ Cards!UsedExact /\ Cards!BillExact
<1> SUFFICES ASSUME CardsInv PROVE Cards!TypeOK /\ Cards!BillPaidOnce /\ Cards!UsedVouched
                    /\ Cards!UsedExact /\ Cards!BillExact
  OBVIOUS
<1>1. Cards!UsedExact
  <2> DEFINE S == {t \in Cards!SlipId : slip[t].entered /\ ~slip[t].cancelled}
             f == [t \in Cards!SlipId |-> t * (slip[t].voucher - slip[t].reversal)]
             g == [t \in Cards!SlipId |-> IF t \in S THEN t ELSE 0]
  <2> SUFFICES ASSUME month.now = 1, Cards!AtRest, "crash" \notin entries,
                      ~({"race", "cancel"} \subseteq entries)
               PROVE  used = Cards!Total(S)
    BY DEF Cards!UsedExact
  <2>1. \A p \in Session : desk[p].stage = "idle"
    BY DEF Cards!AtRest, Cards!At
  <2>2. ASSUME NEW t \in Cards!SlipId PROVE f[t] = g[t]
    <3>1. /\ slip[t].reversal = IF slip[t].cancelled THEN 1 ELSE 0
          /\ slip[t].voucher = 1 \/ ~slip[t].entered
          /\ ~slip[t].entered => slip[t].voucher = 0 /\ slip[t].reversal = 0 /\ ~slip[t].cancelled
      BY <2>1 DEF CardsInv, EachVouched, SlipsRight, Cards!At
    <3>2. t \in Int /\ f[t] = t * (slip[t].voucher - slip[t].reversal)
      BY CardsNumbers DEF Cards!SlipId
    <3>3. CASE t \in S
      <4>1. slip[t].voucher - slip[t].reversal = 1
        BY <3>1, <3>3
      <4> QED BY <3>2, <3>3, <4>1
    <3>4. CASE t \notin S
      <4>1. slip[t].voucher - slip[t].reversal = 0
        BY <3>1, <3>4
      <4> QED BY <3>2, <3>4, <4>1
    <3> QED BY <3>3, <3>4
  <2>3. f = g
    BY <2>2
  <2>4. used = SumTo(f, Transactions)
    BY CardsSum DEF CardsInv, Cards!UsedVouched
  <2> QED BY <2>3, <2>4, CardsSum DEF Cards!Total
<1>2. Cards!BillExact
  BY DEF CardsInv, BillFollows, Cards!BillExact, Billed, Cards!AtRest
<1> QED BY <1>1, <1>2 DEF CardsInv, BillRight

-----------------------------------------------------------------------------
(* Documents that post vouchers by themselves. *)

\* What the constants of this part are.
LEMMA AutoVouchersNumbers ==
    MostPosted \in Nat
BY BackOfficeAssumption

-----------------------------------------------------------------------------
(* The invariant. *)

\* Where requests do not race, one is under way.
OneVoucher == "race" \notin entries => \A p, q \in Session : AutoVouchers!At(p, "idle")
  \/ AutoVouchers!At(q, "idle") \/ p = q

\* What a document posts a voucher on the way to.
Owes(s) ==
    \/ kind = "claim" /\ s = "APPROVED"
    \/ kind = "distribution" /\ s \in {"PENDING", "PAID"}

\* A request is where its document and its status lead it.
VoucherStages ==
    \A p \in Session :
        LET w == desk[p] IN
        /\ w.stage # "idle" => w.to \in AutoVouchers!StatusOf(kind)
        /\ w.stage = "voiding" => kind = "repair" /\ w.to = "CANCELLED"
        /\ w.stage \in {"looking", "posting"} => Owes(w.to)
             \/ (kind = "repair" /\ w.to = "COMPLETED")
        /\ w.stage = "posting" /\ "race" \notin entries => posted[AutoVouchers!Posts(w.to)] = 0

\* The voucher of a status is there or on its way.
Covered(s) ==
    \/ posted[AutoVouchers!Posts(s)] > 0
    \/ \E p \in Session : desk[p].stage \in {"looking", "posting"} /\ desk[p].to = s
\* It is for the status the document has, and for the one a request read it to have.
StatusCovered ==
    "crash" \notin entries =>
        /\ Owes(count) => Covered(count)
        /\ \A p \in Session : AutoVouchers!At(p, "writing") /\ Owes(desk[p].old)
             => Covered(desk[p].old)

\* A repair, one request at a time: what a request read is so, and what it has
\* posted or voided when it writes its row.
RepairRequest(p) ==
    LET w == desk[p] IN
    /\ "patch" \notin entries => w.to = count \/ w.to \in AutoVouchers!RepairMap[count]
    /\ w.stage # "saving" => w.old = count
    /\ w.stage \in {"looking", "posting"} => w.old # "COMPLETED"
    /\ w.stage = "writing" /\ w.to = "COMPLETED" /\ "crash" \notin entries
         => posted["receivable"] > 0
    /\ w.stage = "writing" /\ w.to = "CANCELLED" /\ ~({"patch", "crash"} \subseteq entries)
        => posted["receivable"] = 0
RepairRight ==
    kind = "repair" /\ "race" \notin entries =>
        /\ \A p \in Session : desk[p].stage # "idle" => RepairRequest(p)
        /\ count = "COMPLETED" /\ "crash" \notin entries =>
              \/ posted["receivable"] > 0
              \/ \E p \in Session : desk[p].stage \in {"voiding", "writing"}
                                    /\ desk[p].to = "CANCELLED"
        /\ count = "CANCELLED" /\ ~({"patch", "crash"} \subseteq entries) =>
              \/ posted["receivable"] = 0
              \/ \E p \in Session : AutoVouchers!At(p, "writing") /\ desk[p].to = "COMPLETED"

VouchersInv ==
    /\ AutoVouchers!TypeOK /\ AutoVouchers!PostedOnce
    /\ OneVoucher /\ VoucherStages /\ StatusCovered /\ RepairRight

-----------------------------------------------------------------------------

-----------------------------------------------------------------------------
(* The steps. *)

LEMMA VoucherIdle == AutoVouchers!Idle \in AutoVouchers!Work /\ AutoVouchers!Idle.stage = "idle"
BY DEF AutoVouchers!Idle, AutoVouchers!Work, AutoVouchers!Status, AutoVouchers!StatusOf,
   AutoVouchers!Kind

\* What a request of a document may become.
LEMMA VoucherGoes ==
    ASSUME VouchersInv, NEW p \in Session, NEW w \in AutoVouchers!Work,
           desk' = [desk EXCEPT ![p] = w], entries' = entries, kind' = kind,
           count' \in AutoVouchers!StatusOf(kind), posted' \in [AutoVouchers!Type -> Nat],
           w.stage = "idle" \/ desk[p].stage # "idle" \/ AutoVouchers!Starts(p)
    PROVE  /\ AutoVouchers!TypeOK' /\ OneVoucher'
           /\ desk'[p] = w /\ \A q \in Session : q # p => desk'[q] = desk[q]
           /\ "race" \notin entries => \A q \in Session : q # p => desk[q].stage = "idle"
                \/ w.stage = "idle"
           /\ "race" \notin entries /\ (desk[p].stage # "idle" \/ AutoVouchers!Starts(p)) =>
                 \A q \in Session : q # p => desk[q].stage = "idle"
<1>1. desk'[p] = w /\ \A q \in Session : q # p => desk'[q] = desk[q]
  BY DEF VouchersInv, AutoVouchers!TypeOK
<1>2. AutoVouchers!TypeOK'
  <2>1. desk' \in [Session -> AutoVouchers!Work]
    BY DEF VouchersInv, AutoVouchers!TypeOK
  <2> QED BY <2>1 DEF VouchersInv, AutoVouchers!TypeOK
<1>3. "race" \notin entries => \A q \in Session : q # p => desk[q].stage = "idle"
        \/ w.stage = "idle"
  BY DEF VouchersInv, OneVoucher, AutoVouchers!At, AutoVouchers!Starts, AutoVouchers!AtRest
<1>4. OneVoucher'
  BY <1>1, <1>3 DEF VouchersInv, OneVoucher, AutoVouchers!At
<1>5. "race" \notin entries /\ (desk[p].stage # "idle" \/ AutoVouchers!Starts(p)) =>
         \A q \in Session : q # p => desk[q].stage = "idle"
  BY DEF VouchersInv, OneVoucher, AutoVouchers!At, AutoVouchers!Starts, AutoVouchers!AtRest
<1> QED BY <1>1, <1>2, <1>3, <1>4, <1>5

LEMMA AskVoucher ==
    ASSUME VouchersInv, NEW p \in Session, NEW to \in AutoVouchers!StatusOf(kind),
           AutoVouchers!Ask(p, to)
    PROVE  VouchersInv'
<1> DEFINE w == [stage |-> "saving", old |-> count, to |-> to]
<1>1. /\ desk' = [desk EXCEPT ![p] = w] /\ entries' = entries /\ kind' = kind
      /\ w.stage = "idle" \/ desk[p].stage # "idle" \/ AutoVouchers!Starts(p)
  BY DEF AutoVouchers!Ask, AutoVouchers!Offered, AutoVouchers!ClaimViews, AutoVouchers!Goto,
     AutoVouchers!At, VouchersInv, AutoVouchers!TypeOK, AutoVouchers!Work
<1>2. w \in AutoVouchers!Work
  BY VoucherIdle DEF VouchersInv, AutoVouchers!TypeOK, AutoVouchers!Work, AutoVouchers!Ask,
     AutoVouchers!Offered, AutoVouchers!ClaimViews, AutoVouchers!Status, AutoVouchers!Kind,
     AutoVouchers!At
<1>3. count' \in AutoVouchers!StatusOf(kind) /\ posted' \in [AutoVouchers!Type -> Nat]
  BY DEF VouchersInv, VoucherStages, AutoVouchers!TypeOK, AutoVouchers!Ask, AutoVouchers!Offered,
     AutoVouchers!ClaimViews, AutoVouchers!At, AutoVouchers!Posts, AutoVouchers!Type
<1>4. /\ AutoVouchers!TypeOK' /\ OneVoucher'
      /\ desk'[p] = w /\ \A q \in Session : q # p => desk'[q] = desk[q]
      /\ "race" \notin entries /\ (desk[p].stage # "idle" \/ AutoVouchers!Starts(p)) =>
            \A q \in Session : q # p => desk[q].stage = "idle"
  <2> HIDE DEF w
  <2> QED BY <1>1, <1>2, <1>3, VoucherGoes
<1>w. w.stage = "saving" /\ w.to = to /\ w.old = count /\ kind' = kind /\ posted' = posted
        /\ count' = count
  BY <1>1 DEF AutoVouchers!Ask
<1> HIDE DEF w
<1>5. VoucherStages'
  BY <1>1, <1>4, <1>w DEF VouchersInv, VoucherStages, Owes, AutoVouchers!Posts
<1>6. AutoVouchers!PostedOnce'
  BY <1>1, <1>w DEF VouchersInv, AutoVouchers!PostedOnce
<1>i. desk[p].stage = "idle"
  BY DEF AutoVouchers!Ask, AutoVouchers!Starts, AutoVouchers!At
<1>7. StatusCovered'
  <2>1. ASSUME NEW s, Covered(s) PROVE Covered(s)'
    BY <2>1, <1>4, <1>w, <1>i DEF Covered, AutoVouchers!Posts
  <2>2. \A q \in Session : AutoVouchers!At(q, "writing")' => AutoVouchers!At(q, "writing")
          /\ desk'[q] = desk[q]
    BY <1>4, <1>w DEF AutoVouchers!At
  <2> QED BY <2>1, <2>2, <1>1, <1>w DEF VouchersInv, StatusCovered, Owes
<1>8. RepairRight'
  <2> SUFFICES ASSUME kind = "repair", "race" \notin entries PROVE RepairRight'
    BY <1>1, <1>w DEF RepairRight
  <2>1. \A q \in Session : desk[q].stage = "idle" /\ (q = p \/ desk'[q].stage = "idle")
    BY <1>4, <1>i DEF AutoVouchers!Ask
  <2>2. "patch" \notin entries => to = count \/ to \in AutoVouchers!RepairMap[count]
    BY DEF AutoVouchers!Ask, AutoVouchers!Offered
  <2>3. RepairRequest(p)'
    BY <1>1, <1>4, <1>w, <2>2 DEF RepairRequest
  <2> QED BY <1>1, <1>4, <1>w, <2>1, <2>3 DEF VouchersInv, RepairRight, AutoVouchers!At
<1> QED BY <1>4, <1>5, <1>6, <1>7, <1>8 DEF VouchersInv

LEMMA ReadVoucher ==
    ASSUME VouchersInv, NEW p \in Session, AutoVouchers!ReadOld(p)
    PROVE  VouchersInv'
<1> DEFINE w == [desk[p] EXCEPT !.old = count,
              !.stage = IF AutoVouchers!PostsBefore([desk[p] EXCEPT !.old = count]) THEN "looking"
                        ELSE IF AutoVouchers!Voids([desk[p] EXCEPT !.old = count]) THEN "voiding"
                        ELSE "writing"]
<1>1. /\ desk' = [desk EXCEPT ![p] = w] /\ entries' = entries /\ kind' = kind
      /\ w.stage = "idle" \/ desk[p].stage # "idle" \/ AutoVouchers!Starts(p)
  BY DEF AutoVouchers!ReadOld, AutoVouchers!Goto, AutoVouchers!At
<1>2. w \in AutoVouchers!Work
  <2>1. count \in AutoVouchers!Status
    BY DEF VouchersInv, AutoVouchers!TypeOK, AutoVouchers!Status
  <2> QED BY <2>1 DEF VouchersInv, AutoVouchers!TypeOK, AutoVouchers!Work
<1>3. count' \in AutoVouchers!StatusOf(kind) /\ posted' \in [AutoVouchers!Type -> Nat]
  BY DEF VouchersInv, VoucherStages, AutoVouchers!TypeOK, AutoVouchers!ReadOld,
     AutoVouchers!PostsBefore, AutoVouchers!Voids, AutoVouchers!At, AutoVouchers!Posts,
     AutoVouchers!Type
<1>4. /\ AutoVouchers!TypeOK' /\ OneVoucher'
      /\ desk'[p] = w /\ \A q \in Session : q # p => desk'[q] = desk[q]
      /\ "race" \notin entries /\ (desk[p].stage # "idle" \/ AutoVouchers!Starts(p)) =>
            \A q \in Session : q # p => desk[q].stage = "idle"
  <2> HIDE DEF w
  <2> QED BY <1>1, <1>2, <1>3, VoucherGoes
<1>5. VoucherStages'
  BY <1>1, <1>4 DEF AutoVouchers!ReadOld, AutoVouchers!PostsBefore, AutoVouchers!Voids,
    VouchersInv,
     VoucherStages, AutoVouchers!TypeOK, AutoVouchers!Posts, Owes, AutoVouchers!At,
     AutoVouchers!Idle, AutoVouchers!Work
<1>6. AutoVouchers!PostedOnce'
  BY <1>1, <1>4 DEF AutoVouchers!ReadOld, AutoVouchers!PostsBefore, AutoVouchers!Voids,
    VouchersInv,
     VoucherStages, AutoVouchers!PostedOnce, AutoVouchers!TypeOK, AutoVouchers!Posts,
     AutoVouchers!At
<1>7. StatusCovered'
  BY <1>1, <1>4 DEF AutoVouchers!ReadOld, AutoVouchers!PostsBefore, AutoVouchers!Voids,
    VouchersInv,
     VoucherStages, StatusCovered, Covered, Owes, AutoVouchers!Posts, AutoVouchers!At,
     AutoVouchers!Idle, AutoVouchers!TypeOK, AutoVouchers!Work
<1>8. RepairRight'
  BY <1>1, <1>4 DEF AutoVouchers!ReadOld, AutoVouchers!PostsBefore, AutoVouchers!Voids,
    VouchersInv,
     VoucherStages, RepairRight, RepairRequest, AutoVouchers!RepairMap, AutoVouchers!Posts,
     AutoVouchers!At, AutoVouchers!Idle, AutoVouchers!TypeOK, AutoVouchers!Work
<1> QED BY <1>4, <1>5, <1>6, <1>7, <1>8 DEF VouchersInv

LEMMA VoidVoucher ==
    ASSUME VouchersInv, NEW p \in Session, AutoVouchers!Void(p)
    PROVE  VouchersInv'
<1> DEFINE w == [desk[p] EXCEPT !.stage = "writing"]
<1>1. /\ desk' = [desk EXCEPT ![p] = w] /\ entries' = entries /\ kind' = kind
      /\ w.stage = "idle" \/ desk[p].stage # "idle" \/ AutoVouchers!Starts(p)
  BY DEF AutoVouchers!Void, AutoVouchers!Goto, AutoVouchers!At, VouchersInv, AutoVouchers!TypeOK,
     AutoVouchers!Work
<1>2. w \in AutoVouchers!Work
  BY VoucherIdle DEF VouchersInv, AutoVouchers!TypeOK, AutoVouchers!Work, AutoVouchers!Void,
     AutoVouchers!Status, AutoVouchers!Kind, AutoVouchers!At
<1>3. count' \in AutoVouchers!StatusOf(kind) /\ posted' \in [AutoVouchers!Type -> Nat]
  BY DEF VouchersInv, VoucherStages, AutoVouchers!TypeOK, AutoVouchers!Void, AutoVouchers!At,
     AutoVouchers!Posts, AutoVouchers!Type
<1>4. /\ AutoVouchers!TypeOK' /\ OneVoucher'
      /\ desk'[p] = w /\ \A q \in Session : q # p => desk'[q] = desk[q]
      /\ "race" \notin entries /\ (desk[p].stage # "idle" \/ AutoVouchers!Starts(p)) =>
            \A q \in Session : q # p => desk[q].stage = "idle"
  <2> HIDE DEF w
  <2> QED BY <1>1, <1>2, <1>3, VoucherGoes
<1>5. VoucherStages'
  BY <1>1, <1>4 DEF AutoVouchers!Void, VouchersInv, VoucherStages, AutoVouchers!TypeOK,
     AutoVouchers!Posts, Owes, AutoVouchers!At, AutoVouchers!Idle, AutoVouchers!Work
<1>6. AutoVouchers!PostedOnce'
  BY <1>1, <1>4 DEF AutoVouchers!Void, VouchersInv, VoucherStages, AutoVouchers!PostedOnce,
     AutoVouchers!TypeOK, AutoVouchers!Posts, AutoVouchers!At
<1>7. StatusCovered'
  BY <1>1, <1>4 DEF AutoVouchers!Void, VouchersInv, VoucherStages, StatusCovered, Covered, Owes,
     AutoVouchers!Posts, AutoVouchers!At, AutoVouchers!Idle, AutoVouchers!TypeOK,
       AutoVouchers!Work
<1>8. RepairRight'
  BY <1>1, <1>4 DEF AutoVouchers!Void, VouchersInv, VoucherStages, RepairRight, RepairRequest,
     AutoVouchers!RepairMap, AutoVouchers!Posts, AutoVouchers!At, AutoVouchers!Idle,
     AutoVouchers!TypeOK, AutoVouchers!Work
<1> QED BY <1>4, <1>5, <1>6, <1>7, <1>8 DEF VouchersInv

LEMMA LookVoucher ==
    ASSUME VouchersInv, NEW p \in Session, AutoVouchers!Look(p)
    PROVE  VouchersInv'
<1> DEFINE w == IF AutoVouchers!Found(desk[p].to)
              THEN IF kind = "repair" THEN [desk[p] EXCEPT !.stage = "writing"] ELSE AutoVouchers!Idle
              ELSE [desk[p] EXCEPT !.stage = "posting"]
<1>1. /\ desk' = [desk EXCEPT ![p] = w] /\ entries' = entries /\ kind' = kind
      /\ w.stage = "idle" \/ desk[p].stage # "idle" \/ AutoVouchers!Starts(p)
  BY DEF AutoVouchers!Look, AutoVouchers!Resume, AutoVouchers!Done, AutoVouchers!Found,
     AutoVouchers!Goto, AutoVouchers!At, VouchersInv, AutoVouchers!TypeOK, AutoVouchers!Work
<1>2. w \in AutoVouchers!Work
  BY VoucherIdle DEF VouchersInv, AutoVouchers!TypeOK, AutoVouchers!Work, AutoVouchers!Look,
     AutoVouchers!Resume, AutoVouchers!Done, AutoVouchers!Found, AutoVouchers!Status,
     AutoVouchers!Kind, AutoVouchers!At
<1>3. count' \in AutoVouchers!StatusOf(kind) /\ posted' \in [AutoVouchers!Type -> Nat]
  BY DEF VouchersInv, VoucherStages, AutoVouchers!TypeOK, AutoVouchers!Look, AutoVouchers!Resume,
     AutoVouchers!Done, AutoVouchers!Found, AutoVouchers!At, AutoVouchers!Posts, AutoVouchers!Type
<1>4. /\ AutoVouchers!TypeOK' /\ OneVoucher'
      /\ desk'[p] = w /\ \A q \in Session : q # p => desk'[q] = desk[q]
      /\ "race" \notin entries /\ (desk[p].stage # "idle" \/ AutoVouchers!Starts(p)) =>
            \A q \in Session : q # p => desk[q].stage = "idle"
  <2> HIDE DEF w
  <2> QED BY <1>1, <1>2, <1>3, VoucherGoes
<1>k. kind \in {"claim", "distribution", "repair"} /\ desk[p] \in AutoVouchers!Work
  BY DEF VouchersInv, AutoVouchers!TypeOK, AutoVouchers!Kind
<1>w. /\ posted' = posted /\ count' = count /\ kind' = kind /\ desk[p].stage = "looking"
      /\ w.stage = "posting" => w.to = desk[p].to /\ posted[AutoVouchers!Posts(w.to)] = 0
      /\ w.stage \in {"idle", "posting"}
           \/ (kind = "repair" /\ w.stage = "writing" /\ w.to = desk[p].to)
      /\ w.stage # "posting" => posted[AutoVouchers!Posts(desk[p].to)] > 0
  BY <1>1, <1>k, VoucherIdle DEF AutoVouchers!Look, AutoVouchers!Found, AutoVouchers!At,
     AutoVouchers!Idle, AutoVouchers!Work, VouchersInv, AutoVouchers!TypeOK, AutoVouchers!Posts,
     AutoVouchers!Type
<1>5. VoucherStages'
  <2> HIDE DEF w
  <2> SUFFICES ASSUME NEW q \in Session PROVE VoucherStages!(q)'
    BY DEF VoucherStages
  <2>1. CASE q = p
    BY <2>1, <1>1, <1>4, <1>w DEF VouchersInv, VoucherStages, Owes, AutoVouchers!Posts
  <2>2. CASE q # p
    BY <2>2, <1>1, <1>4, <1>w DEF VouchersInv, VoucherStages, Owes, AutoVouchers!Posts
  <2> QED BY <2>1, <2>2
<1>6. AutoVouchers!PostedOnce'
  <2> HIDE DEF w
  <2> QED BY <1>1, <1>w, <1>4 DEF VouchersInv, VoucherStages, AutoVouchers!PostedOnce
<1>7. StatusCovered'
  <2> HIDE DEF w
  <2>1. CASE kind = "repair"
    BY <2>1, <1>w DEF StatusCovered, Owes
  <2>2. CASE kind # "repair"
    <3>1. ASSUME NEW s, Covered(s), AutoVouchers!Posts(s) \in AutoVouchers!Type PROVE Covered(s)'
      BY <3>1, <2>2, <1>4, <1>w DEF Covered, AutoVouchers!Posts
    <3>2. \A s : AutoVouchers!Posts(s) \in AutoVouchers!Type
      BY <1>k DEF AutoVouchers!Posts, AutoVouchers!Type
    <3>3. \A s : Covered(s) => Covered(s)'
      BY <3>1, <3>2
    <3>4. \A q \in Session : AutoVouchers!At(q, "writing")' => AutoVouchers!At(q, "writing")
            /\ desk'[q] = desk[q]
      BY <2>2, <1>4, <1>w DEF AutoVouchers!At
    <3> QED BY <3>3, <3>4, <1>1, <1>w DEF VouchersInv, StatusCovered, Owes
  <2> QED BY <2>1, <2>2
<1>8. RepairRight'
  <2>1. kind = "repair" => w.old = desk[p].old /\ w.to = desk[p].to
    BY <1>1, <1>k DEF AutoVouchers!Look, AutoVouchers!Found, AutoVouchers!Work
  <2> HIDE DEF w
  <2> SUFFICES ASSUME kind = "repair", "race" \notin entries PROVE RepairRight'
    BY <1>1, <1>w DEF RepairRight
  <2>2. RepairRequest(p)' /\ \A q \in Session : q = p \/ desk'[q].stage = "idle"
    BY <1>1, <1>4, <1>w, <2>1 DEF VouchersInv, VoucherStages, RepairRight, RepairRequest,
       AutoVouchers!Posts, Owes
  <2> QED BY <1>1, <1>4, <1>w, <2>1, <2>2 DEF VouchersInv, VoucherStages, RepairRight,
     AutoVouchers!Posts, Owes, AutoVouchers!At
<1> QED BY <1>4, <1>5, <1>6, <1>7, <1>8 DEF VouchersInv

LEMMA PostVoucher ==
    ASSUME VouchersInv, NEW p \in Session, AutoVouchers!Post(p)
    PROVE  VouchersInv'
<1> DEFINE w == IF kind = "repair" THEN [desk[p] EXCEPT !.stage = "writing"] ELSE AutoVouchers!Idle
<1>1. /\ desk' = [desk EXCEPT ![p] = w] /\ entries' = entries /\ kind' = kind
      /\ w.stage = "idle" \/ desk[p].stage # "idle" \/ AutoVouchers!Starts(p)
  BY DEF AutoVouchers!Post, AutoVouchers!Resume, AutoVouchers!Done, AutoVouchers!Goto,
     AutoVouchers!At
<1>2. w \in AutoVouchers!Work
  <2>1. desk[p] \in AutoVouchers!Work
    BY DEF VouchersInv, AutoVouchers!TypeOK
  <2>2. [desk[p] EXCEPT !.stage = "writing"] \in AutoVouchers!Work
    BY <2>1 DEF AutoVouchers!Work
  <2> QED BY <2>2, VoucherIdle
<1>3. count' \in AutoVouchers!StatusOf(kind) /\ posted' \in [AutoVouchers!Type -> Nat]
  <2>1. count' = count /\ posted' = [posted EXCEPT ![AutoVouchers!Posts(desk[p].to)] = @ + 1]
    BY DEF AutoVouchers!Post
  <2>2. AutoVouchers!Posts(desk[p].to) \in AutoVouchers!Type
    BY DEF VouchersInv, AutoVouchers!TypeOK, AutoVouchers!Kind, AutoVouchers!Posts,
       AutoVouchers!Type
  <2>3. posted \in [AutoVouchers!Type -> Nat]
          /\ posted[AutoVouchers!Posts(desk[p].to)] + 1 \in Nat
    BY <2>2 DEF VouchersInv, AutoVouchers!TypeOK
  <2>4. posted' \in [AutoVouchers!Type -> Nat]
    BY <2>1, <2>3
  <2> QED BY <2>1, <2>4 DEF VouchersInv, AutoVouchers!TypeOK
<1>4. /\ AutoVouchers!TypeOK' /\ OneVoucher'
      /\ desk'[p] = w /\ \A q \in Session : q # p => desk'[q] = desk[q]
      /\ "race" \notin entries /\ (desk[p].stage # "idle" \/ AutoVouchers!Starts(p)) =>
            \A q \in Session : q # p => desk[q].stage = "idle"
  <2> HIDE DEF w
  <2> QED BY <1>1, <1>2, <1>3, VoucherGoes
<1>k. kind \in {"claim", "distribution", "repair"} /\ desk[p] \in AutoVouchers!Work
  BY DEF VouchersInv, AutoVouchers!TypeOK, AutoVouchers!Kind
<1>w. /\ posted' = [posted EXCEPT ![AutoVouchers!Posts(desk[p].to)] = @ + 1] /\ count' = count
           /\ kind' = kind
      /\ w.stage = "idle" \/ (kind = "repair" /\ w.stage = "writing" /\ w.to = desk[p].to)
      /\ desk[p].stage = "posting" /\ AutoVouchers!Posts(desk[p].to) \in AutoVouchers!Type
  BY <1>1, <1>k, VoucherIdle DEF AutoVouchers!Post, AutoVouchers!At, AutoVouchers!Idle,
     AutoVouchers!Work, AutoVouchers!Posts, AutoVouchers!Type
<1>p. /\ posted'[AutoVouchers!Posts(desk[p].to)] = posted[AutoVouchers!Posts(desk[p].to)] + 1
      /\ \A y \in AutoVouchers!Type : posted'[y] = posted[y]
           \/ (y = AutoVouchers!Posts(desk[p].to) /\ posted'[y] = posted[y] + 1)
      /\ \A y \in AutoVouchers!Type : posted[y] \in Nat
  BY <1>w DEF VouchersInv, AutoVouchers!TypeOK
<1>5. VoucherStages'
  <2> HIDE DEF w
  <2> SUFFICES ASSUME NEW q \in Session PROVE VoucherStages!(q)'
    BY DEF VoucherStages
  <2>1. CASE q = p
    BY <2>1, <1>1, <1>4, <1>w DEF VouchersInv, VoucherStages, Owes, AutoVouchers!Posts
  <2>2. CASE q # p
    BY <2>2, <1>1, <1>4, <1>w, <1>p DEF VouchersInv, VoucherStages, Owes, AutoVouchers!Posts
  <2> QED BY <2>1, <2>2
<1>6. AutoVouchers!PostedOnce'
  <2> HIDE DEF w
  <2> QED BY <1>1, <1>w, <1>4, <1>p DEF VouchersInv, VoucherStages, AutoVouchers!PostedOnce
<1>7. StatusCovered'
  <2> HIDE DEF w
  <2>1. CASE kind = "repair"
    BY <2>1, <1>w DEF StatusCovered, Owes
  <2>2. CASE kind # "repair"
    <3>1. ASSUME NEW s, Covered(s), AutoVouchers!Posts(s) \in AutoVouchers!Type PROVE Covered(s)'
      <4>1. CASE posted[AutoVouchers!Posts(s)] > 0
        <5>1. posted'[AutoVouchers!Posts(s)] > 0
          BY <4>1, <3>1, <1>p
        <5> QED BY <5>1, <1>w DEF Covered, AutoVouchers!Posts
      <4>2. ASSUME NEW q \in Session, desk[q].stage \in {"looking", "posting"}, desk[q].to = s
            PROVE  Covered(s)'
        <5>1. CASE q = p
          <6>1. posted'[AutoVouchers!Posts(s)] > 0
            BY <5>1, <4>2, <3>1, <1>p
          <6> QED BY <6>1, <1>w DEF Covered, AutoVouchers!Posts
        <5>2. CASE q # p
          BY <5>2, <4>2, <1>4 DEF Covered
        <5> QED BY <5>1, <5>2
      <4> QED BY <3>1, <4>1, <4>2 DEF Covered
    <3>2. \A s : AutoVouchers!Posts(s) \in AutoVouchers!Type
      BY <1>k DEF AutoVouchers!Posts, AutoVouchers!Type
    <3>3. \A s : Covered(s) => Covered(s)'
      BY <3>1, <3>2
    <3>4. \A q \in Session : AutoVouchers!At(q, "writing")' => AutoVouchers!At(q, "writing")
            /\ desk'[q] = desk[q]
      BY <2>2, <1>4, <1>w DEF AutoVouchers!At
    <3> QED BY <3>3, <3>4, <1>1, <1>w DEF VouchersInv, StatusCovered, Owes
  <2> QED BY <2>1, <2>2
<1>8. RepairRight'
  <2>1. kind = "repair" => w.old = desk[p].old /\ w.to = desk[p].to /\ w.stage = "writing"
    BY <1>1, <1>k DEF AutoVouchers!Work
  <2> HIDE DEF w
  <2> SUFFICES ASSUME kind = "repair", "race" \notin entries PROVE RepairRight'
    BY <1>1, <1>w DEF RepairRight
  <2>2. desk[p].to = "COMPLETED" /\ posted'["receivable"] > 0
    BY <1>1, <1>w, <1>p DEF VouchersInv, VoucherStages, Owes, AutoVouchers!Posts
  <2>3. RepairRequest(p)' /\ \A q \in Session : q = p \/ desk'[q].stage = "idle"
    BY <1>1, <1>4, <1>w, <2>1, <2>2 DEF VouchersInv, RepairRight, RepairRequest
  <2> QED BY <1>1, <1>4, <1>w, <2>1, <2>2, <2>3 DEF RepairRight, AutoVouchers!At
<1> QED BY <1>4, <1>5, <1>6, <1>7, <1>8 DEF VouchersInv

LEMMA WriteVoucher ==
    ASSUME VouchersInv, NEW p \in Session, AutoVouchers!Write(p)
    PROVE  VouchersInv'
<1> DEFINE w == IF AutoVouchers!PostsAfter(desk[p]) THEN [desk[p] EXCEPT !.stage = "looking"] ELSE AutoVouchers!Idle
<1>1. /\ desk' = [desk EXCEPT ![p] = w] /\ entries' = entries /\ kind' = kind
      /\ w.stage = "idle" \/ desk[p].stage # "idle" \/ AutoVouchers!Starts(p)
  BY DEF AutoVouchers!Write, AutoVouchers!PostsAfter, AutoVouchers!Done, AutoVouchers!Goto,
     AutoVouchers!At, VouchersInv, AutoVouchers!TypeOK, AutoVouchers!Work
<1>2. w \in AutoVouchers!Work
  BY VoucherIdle DEF VouchersInv, AutoVouchers!TypeOK, AutoVouchers!Work, AutoVouchers!Write,
     AutoVouchers!PostsAfter, AutoVouchers!Done, AutoVouchers!Status, AutoVouchers!Kind,
     AutoVouchers!At
<1>3. count' \in AutoVouchers!StatusOf(kind) /\ posted' \in [AutoVouchers!Type -> Nat]
  BY DEF VouchersInv, VoucherStages, AutoVouchers!TypeOK, AutoVouchers!Write,
     AutoVouchers!PostsAfter, AutoVouchers!Done, AutoVouchers!At, AutoVouchers!Posts,
     AutoVouchers!Type
<1>4. /\ AutoVouchers!TypeOK' /\ OneVoucher'
      /\ desk'[p] = w /\ \A q \in Session : q # p => desk'[q] = desk[q]
      /\ "race" \notin entries /\ (desk[p].stage # "idle" \/ AutoVouchers!Starts(p)) =>
            \A q \in Session : q # p => desk[q].stage = "idle"
  <2> HIDE DEF w
  <2> QED BY <1>1, <1>2, <1>3, VoucherGoes
<1>5. VoucherStages'
  BY <1>1, <1>4 DEF AutoVouchers!Write, AutoVouchers!PostsAfter, AutoVouchers!Done, VouchersInv,
     VoucherStages, AutoVouchers!TypeOK, AutoVouchers!Posts, Owes, AutoVouchers!At,
     AutoVouchers!Idle, AutoVouchers!Work
<1>6. AutoVouchers!PostedOnce'
  BY <1>1, <1>4 DEF AutoVouchers!Write, AutoVouchers!PostsAfter, AutoVouchers!Done, VouchersInv,
     VoucherStages, AutoVouchers!PostedOnce, AutoVouchers!TypeOK, AutoVouchers!Posts,
     AutoVouchers!At
<1>7. StatusCovered'
  BY <1>1, <1>4 DEF AutoVouchers!Write, AutoVouchers!PostsAfter, AutoVouchers!Done, VouchersInv,
     VoucherStages, StatusCovered, Covered, Owes, AutoVouchers!Posts, AutoVouchers!At,
     AutoVouchers!Idle, AutoVouchers!TypeOK, AutoVouchers!Work
<1>8. RepairRight'
  BY <1>1, <1>4 DEF AutoVouchers!Write, AutoVouchers!PostsAfter, AutoVouchers!Done, VouchersInv,
     VoucherStages, RepairRight, RepairRequest, AutoVouchers!RepairMap, AutoVouchers!Posts,
     AutoVouchers!At, AutoVouchers!Idle, AutoVouchers!TypeOK, AutoVouchers!Work
<1> QED BY <1>4, <1>5, <1>6, <1>7, <1>8 DEF VouchersInv

LEMMA CrashVoucher ==
    ASSUME VouchersInv, NEW p \in Session, AutoVouchers!Crash(p)
    PROVE  VouchersInv'
<1> DEFINE w == AutoVouchers!Idle
<1>1. /\ desk' = [desk EXCEPT ![p] = w] /\ entries' = entries /\ kind' = kind
      /\ w.stage = "idle" \/ desk[p].stage # "idle" \/ AutoVouchers!Starts(p)
  BY DEF AutoVouchers!Crash, AutoVouchers!Done, AutoVouchers!Goto, AutoVouchers!At, VouchersInv,
     AutoVouchers!TypeOK, AutoVouchers!Work
<1>2. w \in AutoVouchers!Work
  BY VoucherIdle DEF VouchersInv, AutoVouchers!TypeOK, AutoVouchers!Work, AutoVouchers!Crash,
     AutoVouchers!Done, AutoVouchers!Status, AutoVouchers!Kind, AutoVouchers!At
<1>3. count' \in AutoVouchers!StatusOf(kind) /\ posted' \in [AutoVouchers!Type -> Nat]
  BY DEF VouchersInv, VoucherStages, AutoVouchers!TypeOK, AutoVouchers!Crash, AutoVouchers!Done,
     AutoVouchers!At, AutoVouchers!Posts, AutoVouchers!Type
<1>4. /\ AutoVouchers!TypeOK' /\ OneVoucher'
      /\ desk'[p] = w /\ \A q \in Session : q # p => desk'[q] = desk[q]
      /\ "race" \notin entries /\ (desk[p].stage # "idle" \/ AutoVouchers!Starts(p)) =>
            \A q \in Session : q # p => desk[q].stage = "idle"
  <2> HIDE DEF w
  <2> QED BY <1>1, <1>2, <1>3, VoucherGoes
<1>5. VoucherStages'
  BY <1>1, <1>4 DEF AutoVouchers!Crash, AutoVouchers!Done, VouchersInv, VoucherStages,
     AutoVouchers!TypeOK, AutoVouchers!Posts, Owes, AutoVouchers!At, AutoVouchers!Idle,
     AutoVouchers!Work
<1>6. AutoVouchers!PostedOnce'
  BY <1>1, <1>4 DEF AutoVouchers!Crash, AutoVouchers!Done, VouchersInv, VoucherStages,
     AutoVouchers!PostedOnce, AutoVouchers!TypeOK, AutoVouchers!Posts, AutoVouchers!At
<1>7. StatusCovered'
  BY <1>1, <1>4 DEF AutoVouchers!Crash, AutoVouchers!Done, VouchersInv, VoucherStages,
     StatusCovered, Covered, Owes, AutoVouchers!Posts, AutoVouchers!At, AutoVouchers!Idle,
     AutoVouchers!TypeOK, AutoVouchers!Work
<1>8. RepairRight'
  BY <1>1, <1>4 DEF AutoVouchers!Crash, AutoVouchers!Done, VouchersInv, VoucherStages,
    RepairRight,
     RepairRequest, AutoVouchers!RepairMap, AutoVouchers!Posts, AutoVouchers!At,
       AutoVouchers!Idle,
     AutoVouchers!TypeOK, AutoVouchers!Work
<1> QED BY <1>4, <1>5, <1>6, <1>7, <1>8 DEF VouchersInv

LEMMA VouchersStarts == AutoVouchers!Init => VouchersInv
<1> SUFFICES ASSUME AutoVouchers!Init PROVE VouchersInv
  OBVIOUS
<1>1. AutoVouchers!TypeOK
  BY VoucherIdle DEF AutoVouchers!Init, AutoVouchers!TypeOK, AutoVouchers!Kind,
    AutoVouchers!First,
     AutoVouchers!StatusOf, AutoVouchers!Type
<1> QED BY <1>1 DEF AutoVouchers!Init, VouchersInv, AutoVouchers!PostedOnce, OneVoucher,
   VoucherStages, StatusCovered, RepairRight,
           AutoVouchers!Idle, AutoVouchers!At, AutoVouchers!Type, Owes, AutoVouchers!First,
              AutoVouchers!Kind

LEMMA VouchersStep == VouchersInv /\ [AutoVouchers!Next]_(AutoVouchers!vars) => VouchersInv'
<1> SUFFICES ASSUME VouchersInv, [AutoVouchers!Next]_(AutoVouchers!vars) PROVE VouchersInv'
  OBVIOUS
<1>1. CASE AutoVouchers!Next
  BY <1>1, AskVoucher, ReadVoucher, VoidVoucher, LookVoucher, PostVoucher, WriteVoucher,
     CrashVoucher DEF AutoVouchers!Next
<1>2. CASE UNCHANGED AutoVouchers!vars
  BY <1>2 DEF AutoVouchers!vars, VouchersInv, AutoVouchers!TypeOK, AutoVouchers!PostedOnce,
     OneVoucher, VoucherStages, StatusCovered,
              RepairRight, RepairRequest, Covered, Owes, AutoVouchers!Posts, AutoVouchers!At
<1> QED BY <1>1, <1>2

LEMMA VouchersKeep ==
    VouchersInv => AutoVouchers!TypeOK /\ AutoVouchers!PostedOnce /\ AutoVouchers!DonePosted
      /\ AutoVouchers!CancelledRepairOwesNothing
<1> SUFFICES ASSUME VouchersInv PROVE AutoVouchers!TypeOK /\ AutoVouchers!PostedOnce
                    /\ AutoVouchers!DonePosted /\ AutoVouchers!CancelledRepairOwesNothing
  OBVIOUS
<1>1. AutoVouchers!DonePosted
  <2> SUFFICES ASSUME "crash" \notin entries, AutoVouchers!AtRest PROVE AutoVouchers!DonePosted
    BY DEF AutoVouchers!DonePosted
  <2>1. Owes(count) => posted[AutoVouchers!Posts(count)] > 0
    BY DEF VouchersInv, StatusCovered, Covered, AutoVouchers!AtRest, AutoVouchers!At
  <2>2. kind = "repair" /\ "race" \notin entries /\ count = "COMPLETED"
          => posted["receivable"] > 0
    BY DEF VouchersInv, RepairRight, AutoVouchers!AtRest, AutoVouchers!At
  <2>3. kind # "repair" => count # "COMPLETED"
    BY DEF VouchersInv, AutoVouchers!TypeOK, AutoVouchers!Kind, AutoVouchers!StatusOf
  <2> QED BY <2>1, <2>2, <2>3 DEF AutoVouchers!DonePosted, Owes, AutoVouchers!Posts
<1>2. AutoVouchers!CancelledRepairOwesNothing
  BY DEF VouchersInv, AutoVouchers!CancelledRepairOwesNothing, RepairRight, AutoVouchers!AtRest,
     AutoVouchers!At
<1> QED BY <1>1, <1>2 DEF VouchersInv

-----------------------------------------------------------------------------
(* The closing of a month over vouchers. *)

\* The sum of the instance is that of the lemmas.
LEMMA ClosedBooksSum == \A f, n : ClosedBooks!SumTo(f, n) = SumTo(f, n)
BY DEF ClosedBooks!SumTo, SumTo

\* What the constants of this part are.
LEMMA ClosedBooksNumbers ==
    /\ BookVouchers \in Nat \ {0} /\ BookForms \subseteq [first: Nat, second: Nat, credit: Nat]
    /\ BookPolicies \subseteq [default: {"DRAFT", "SUBMITTED", "APPROVED", "REJECTED"}, limit: Nat]
BY BackOfficeAssumption

-----------------------------------------------------------------------------
(* The invariant. *)

\* Where requests do not race, one is under way.
OneBooks == "race" \notin entries => \A p, q \in Session : ClosedBooks!At(p, "idle")
  \/ ClosedBooks!At(q, "idle") \/ p = q

Saving(p) == desk[p].stage \in {"saving", "writing"}
InBalance(l) == ClosedBooks!Debit(l) = l.credit

\* What is being saved: a whole row leaves the lines as they were read, or is a
\* new voucher and balances; one request at a time, it stays in its month, unless
\* vouchers are moved, and its month is open when it is written.
SavedRight(p) ==
    LET w == desk[p] IN
    /\ w.row.row \in {"live", "retired"}
    /\ w.saved = "row" =>
          \/ w.row.lines = w.loaded
          \/ voucher[w.voucher].row = "absent" /\ w.loaded = ClosedBooks!NoLines
               /\ InBalance(w.row.lines)
    /\ "race" \notin entries =>
          /\ w.saved = "column" \/ "move" \notin entries =>
                voucher[w.voucher].row = "absent" \/ voucher[w.voucher].month = w.row.month
          /\ w.saved = "column" => voucher[w.voucher].row # "absent"
          /\ w.stage = "writing" => ~closed[w.row.month]

\* A month that was examined, and is to be closed, has nothing that waits.
ExaminedRight(p) ==
    LET w == desk[p] IN
    w.stage = "examined" /\ ~w.was /\ "race" \notin entries => \A v \in ClosedBooks!Of(w.month) :
      ~ClosedBooks!Pending(v)

BookStages == \A p \in Session : (Saving(p) => SavedRight(p)) /\ ExaminedRight(p)

\* A new voucher is of one request.
OneCreates ==
    /\ \A v \in ClosedBooks!VoucherId : voucher[v].row = "absent"
         => voucher[v] = ClosedBooks!NoVoucher
    /\ \A p, q \in Session :
          Saving(p) /\ Saving(q) /\ desk[p].voucher = desk[q].voucher
             /\ voucher[desk[p].voucher].row = "absent" => p = q

MonthsDecided ==
    "race" \notin entries =>
        \A m \in ClosedBooks!Month : closed[m] => \A v \in ClosedBooks!Of(m) :
          voucher[v].status \in {"APPROVED", "REJECTED"}

BooksInv ==
    /\ ClosedBooks!TypeOK /\ OneBooks /\ BookStages /\ OneCreates
    /\ ClosedBooks!Balanced /\ MonthsDecided /\ ClosedBooks!ClosedStays

-----------------------------------------------------------------------------
(* The steps. *)

LEMMA BookIdle ==
    /\ ClosedBooks!Idle \in ClosedBooks!Work /\ ClosedBooks!Idle.stage = "idle"
    /\ ClosedBooks!NoLines \in ClosedBooks!Amounts /\ ClosedBooks!Debit(ClosedBooks!NoLines) = 0
         /\ ClosedBooks!NoLines.credit = 0
    /\ ClosedBooks!NoVoucher \in ClosedBooks!Voucher /\ ClosedBooks!NoVoucher.row = "absent"
         /\ ClosedBooks!NoVoucher.lines = ClosedBooks!NoLines
    /\ ClosedBooks!NoVoucher.month = 1 /\ ClosedBooks!NoVoucher.status = "DRAFT"
<1>1. ClosedBooks!NoLines \in ClosedBooks!Amounts /\ ClosedBooks!Debit(ClosedBooks!NoLines) = 0
        /\ ClosedBooks!NoLines.credit = 0
  BY DEF ClosedBooks!NoLines, ClosedBooks!Amounts, ClosedBooks!Debit
<1>2. 1 \in ClosedBooks!VoucherId /\ 1 \in ClosedBooks!Month
  BY ClosedBooksNumbers DEF ClosedBooks!VoucherId, ClosedBooks!Month
<1>3. ClosedBooks!NoVoucher \in ClosedBooks!Voucher
  BY <1>1, <1>2 DEF ClosedBooks!NoVoucher, ClosedBooks!Voucher, ClosedBooks!Status
<1> QED BY <1>1, <1>2, <1>3 DEF ClosedBooks!Idle, ClosedBooks!Work, ClosedBooks!NoVoucher

\* A request goes on, and the books stay.
LEMMA BookGoes ==
    ASSUME BooksInv, NEW p \in Session, NEW w \in ClosedBooks!Work,
           desk' = [desk EXCEPT ![p] = w], entries' = entries,
           voucher' = voucher, closed' = closed, frozen' = frozen, policy' = policy,
           w.stage = "idle" \/ desk[p].stage # "idle" \/ ClosedBooks!Starts(p),
           Saving(p)' => SavedRight(p)', ExaminedRight(p)',
           Saving(p)' =>
              \/ Saving(p) /\ w.voucher = desk[p].voucher
              \/ voucher[w.voucher].row = "absent" => ClosedBooks!Free(w.voucher)
    PROVE  BooksInv'
<1>1. desk'[p] = w /\ \A q \in Session : q # p => desk'[q] = desk[q]
  BY DEF BooksInv, ClosedBooks!TypeOK
<1>2. ClosedBooks!TypeOK'
  <2>1. desk' \in [Session -> ClosedBooks!Work]
    BY DEF BooksInv, ClosedBooks!TypeOK
  <2> QED BY <2>1 DEF BooksInv, ClosedBooks!TypeOK
<1>3. OneBooks'
  BY <1>1 DEF BooksInv, OneBooks, ClosedBooks!At, ClosedBooks!Starts, ClosedBooks!AtRest
<1>4. BookStages'
  <2> SUFFICES ASSUME NEW q \in Session PROVE (Saving(q)' => SavedRight(q)') /\ ExaminedRight(q)'
    BY DEF BookStages
  <2>1. CASE q = p
    BY <2>1
  <2>2. CASE q # p
    BY <2>2, <1>1 DEF BooksInv, BookStages, Saving, SavedRight, ExaminedRight, ClosedBooks!Of,
       ClosedBooks!Live, ClosedBooks!Pending
  <2> QED BY <2>1, <2>2
<1>5. OneCreates'
  BY <1>1 DEF BooksInv, OneCreates, Saving, ClosedBooks!Free, ClosedBooks!At
<1>6. ClosedBooks!Balanced' /\ MonthsDecided' /\ ClosedBooks!ClosedStays'
  BY ClosedBooksSum DEF BooksInv, ClosedBooks!Balanced, MonthsDecided, ClosedBooks!ClosedStays,
    ClosedBooks!Of,
     ClosedBooks!Live, ClosedBooks!TotalOf
<1> QED BY <1>2, <1>3, <1>4, <1>5, <1>6 DEF BooksInv

\* A request has loaded what it will save.
LEMMA BookSaves ==
    ASSUME BooksInv, NEW p \in Session, NEW saved \in {"form", "row", "column"},
           NEW v \in ClosedBooks!VoucherId,
           NEW row \in ClosedBooks!Voucher, ClosedBooks!Starts(p),
             ClosedBooks!Saves(p, saved, v, row),
           UNCHANGED <<voucher, closed, frozen, policy, entries>>,
           row.row \in {"live", "retired"},
           voucher[v].row = "absent" => ClosedBooks!Free(v),
           saved = "row" => row.lines = voucher[v].lines
             \/ (ClosedBooks!Free(v) /\ InBalance(row.lines)),
           saved = "column" => voucher[v].row # "absent",
           saved = "column" \/ "move" \notin entries => voucher[v].row = "absent"
             \/ voucher[v].month = row.month
    PROVE  BooksInv'
<1> DEFINE w == [ClosedBooks!Idle EXCEPT !.stage = "saving", !.saved = saved, !.voucher = v, !.row = row,
                                         !.loaded = voucher[v].lines]
<1>1. voucher[v].lines \in ClosedBooks!Amounts
  BY DEF BooksInv, ClosedBooks!TypeOK, ClosedBooks!Voucher
<1>2. /\ w \in ClosedBooks!Work /\ w.stage = "saving" /\ w.saved = saved /\ w.voucher = v
           /\ w.row = row
      /\ w.loaded = voucher[v].lines
  BY <1>1, BookIdle DEF ClosedBooks!Idle, ClosedBooks!Work
<1>3. desk' = [desk EXCEPT ![p] = w]
  BY DEF ClosedBooks!Saves, ClosedBooks!Goto
<1> HIDE DEF w
<1>4. desk'[p] = w
  BY <1>3 DEF BooksInv, ClosedBooks!TypeOK
<1>5. ClosedBooks!Free(v) => voucher[v].row = "absent" /\ voucher[v].lines = ClosedBooks!NoLines
  BY BookIdle DEF ClosedBooks!Free, BooksInv, OneCreates
<1>6. SavedRight(p)' /\ ExaminedRight(p)'
  BY <1>2, <1>4, <1>5 DEF SavedRight, ExaminedRight
<1> QED BY <1>2, <1>3, <1>6, BookGoes

LEMMA CreationAsked ==
    ASSUME BooksInv, NEW p \in Session, NEW v \in ClosedBooks!VoucherId,
           NEW m \in ClosedBooks!Month, NEW l \in BookForms,
           ClosedBooks!AskCreate(p, v, m, l),
             UNCHANGED <<voucher, closed, frozen, policy, entries>>
    PROVE  BooksInv'
<1>1. l \in ClosedBooks!Amounts
  BY ClosedBooksNumbers DEF ClosedBooks!Amounts
<1>2. CASE "form" \in entries
           /\ ClosedBooks!Saves(p, "form", v, [row |-> "live", month |-> m, status |-> "DRAFT", lines |-> l])
  <2> DEFINE row == [row |-> "live", month |-> m, status |-> "DRAFT", lines |-> l]
  <2>1. row \in ClosedBooks!Voucher /\ row.row = "live"
    BY <1>1 DEF ClosedBooks!Voucher, ClosedBooks!Status
  <2>2. ClosedBooks!Saves(p, "form", v, row)
    BY <1>2
  <2> HIDE DEF row
  <2> QED BY <2>1, <2>2, BookSaves DEF ClosedBooks!AskCreate, ClosedBooks!Free
<1>3. CASE /\ "auto" \in entries /\ ClosedBooks!Debit(l) = l.credit
           /\ ClosedBooks!Saves(p, "row", v, [row |-> "live", month |-> m, status |-> "APPROVED", lines |-> l])
  <2> DEFINE row == [row |-> "live", month |-> m, status |-> "APPROVED", lines |-> l]
  <2>1. row \in ClosedBooks!Voucher /\ row.row = "live" /\ row.lines = l
    BY <1>1 DEF ClosedBooks!Voucher, ClosedBooks!Status
  <2>2. ClosedBooks!Saves(p, "row", v, row) /\ InBalance(row.lines)
    BY <1>3 DEF InBalance
  <2> HIDE DEF row
  <2> QED BY <2>1, <2>2, BookSaves DEF ClosedBooks!AskCreate, ClosedBooks!Free
<1> QED BY <1>2, <1>3 DEF ClosedBooks!AskCreate

LEMMA EditAsked ==
    ASSUME BooksInv, NEW p \in Session, NEW v \in ClosedBooks!VoucherId,
           NEW m \in ClosedBooks!Month, NEW l \in BookForms,
           ClosedBooks!AskEdit(p, v, m, l), UNCHANGED <<voucher, closed, frozen, policy, entries>>
    PROVE  BooksInv'
<1> DEFINE row == [voucher[v] EXCEPT !.month = m, !.lines = l]
<1>1. row \in ClosedBooks!Voucher /\ row.row = "live" /\ row.month = m /\ voucher[v].row = "live"
  BY ClosedBooksNumbers DEF ClosedBooks!Amounts, ClosedBooks!Voucher, BooksInv,
    ClosedBooks!TypeOK,
     ClosedBooks!AskEdit, ClosedBooks!Live
<1>2. ClosedBooks!Saves(p, "form", v, row) /\ ClosedBooks!Starts(p)
        /\ (m = voucher[v].month \/ "move" \in entries)
  BY DEF ClosedBooks!AskEdit
<1> HIDE DEF row
<1> QED BY <1>1, <1>2, BookSaves

LEMMA PatchAsked ==
    ASSUME BooksInv, NEW p \in Session, NEW v \in ClosedBooks!VoucherId,
           NEW m \in ClosedBooks!Month, NEW s \in ClosedBooks!Status,
           ClosedBooks!AskPatch(p, v, m, s),
             UNCHANGED <<voucher, closed, frozen, policy, entries>>
    PROVE  BooksInv'
<1>1. CASE /\ ClosedBooks!Free(v)
           /\ ClosedBooks!Saves(p, "row", v, [ClosedBooks!NoVoucher EXCEPT !.row = "live", !.month = m, !.status = s])
  <2> DEFINE row == [ClosedBooks!NoVoucher EXCEPT !.row = "live", !.month = m, !.status = s]
  <2>1. row \in ClosedBooks!Voucher /\ row.row = "live" /\ row.lines = ClosedBooks!NoLines
    BY BookIdle DEF ClosedBooks!Voucher
  <2>2. ClosedBooks!Saves(p, "row", v, row) /\ ClosedBooks!Starts(p) /\ InBalance(row.lines)
    BY <1>1, <2>1, BookIdle DEF ClosedBooks!AskPatch, InBalance
  <2> HIDE DEF row
  <2> QED BY <1>1, <2>1, <2>2, BookSaves DEF ClosedBooks!Free
<1>2. CASE /\ ClosedBooks!Live(v) /\ (m = voucher[v].month \/ "move" \in entries)
           /\ ClosedBooks!Saves(p, "row", v, [voucher[v] EXCEPT !.month = m, !.status = s])
  <2> DEFINE row == [voucher[v] EXCEPT !.month = m, !.status = s]
  <2>1. /\ row \in ClosedBooks!Voucher /\ row.row = "live" /\ row.month = m
             /\ voucher[v].row = "live"
        /\ row.lines = voucher[v].lines
    BY <1>2 DEF ClosedBooks!Voucher, BooksInv, ClosedBooks!TypeOK, ClosedBooks!Live
  <2>2. ClosedBooks!Saves(p, "row", v, row) /\ ClosedBooks!Starts(p)
    BY <1>2 DEF ClosedBooks!AskPatch
  <2> HIDE DEF row
  <2> QED BY <1>2, <2>1, <2>2, BookSaves
<1> QED BY <1>1, <1>2 DEF ClosedBooks!AskPatch

LEMMA RetirementAsked ==
    ASSUME BooksInv, NEW p \in Session, NEW v \in ClosedBooks!VoucherId,
           ClosedBooks!AskRetire(p, v) \/ ClosedBooks!AskRestore(p, v),
           UNCHANGED <<voucher, closed, frozen, policy, entries>>
    PROVE  BooksInv'
<1>1. PICK r \in {"live", "retired"} :
        ClosedBooks!Saves(p, "column", v, [voucher[v] EXCEPT !.row = r])
  BY DEF ClosedBooks!AskRetire, ClosedBooks!AskRestore
<1>2. ClosedBooks!Starts(p) /\ voucher[v].row # "absent"
  BY DEF ClosedBooks!AskRetire, ClosedBooks!AskRestore, ClosedBooks!Live
<1> DEFINE row == [voucher[v] EXCEPT !.row = r]
<1>3. row \in ClosedBooks!Voucher /\ row.row = r /\ row.month = voucher[v].month
  BY DEF ClosedBooks!Voucher, BooksInv, ClosedBooks!TypeOK
<1>4. ClosedBooks!Saves(p, "column", v, row)
  BY <1>1
<1> HIDE DEF row
<1> QED BY <1>2, <1>3, <1>4, BookSaves

LEMMA BooksAsked ==
    ASSUME BooksInv, NEW p \in Session, ClosedBooks!Ask(p)
    PROVE  BooksInv'
BY CreationAsked, EditAsked, PatchAsked, RetirementAsked DEF ClosedBooks!Ask

LEMMA MonthChecked ==
    ASSUME BooksInv, NEW p \in Session, ClosedBooks!Check(p)
    PROVE  BooksInv'
<1>1. CASE ClosedBooks!Blocked(desk[p])
  <2>1. desk' = [desk EXCEPT ![p] = ClosedBooks!Idle]
    BY <1>1 DEF ClosedBooks!Check, ClosedBooks!Done, ClosedBooks!Goto
  <2>2. ~Saving(p)' /\ ExaminedRight(p)'
    BY <2>1, BookIdle DEF BooksInv, ClosedBooks!TypeOK, Saving, ExaminedRight
  <2> QED BY <2>1, <2>2, BookIdle, BookGoes DEF ClosedBooks!Check
<1>2. CASE ~ClosedBooks!Blocked(desk[p])
  <2> DEFINE w == [desk[p] EXCEPT !.stage = "writing"]
  <2>1. desk' = [desk EXCEPT ![p] = w] /\ ClosedBooks!At(p, "saving")
    BY <1>2 DEF ClosedBooks!Check, ClosedBooks!Goto
  <2>2. /\ w \in ClosedBooks!Work /\ w.stage = "writing" /\ w.saved = desk[p].saved
             /\ w.voucher = desk[p].voucher
        /\ w.row = desk[p].row /\ w.loaded = desk[p].loaded
    BY DEF ClosedBooks!Work, BooksInv, ClosedBooks!TypeOK
  <2> HIDE DEF w
  <2>3. desk'[p] = w /\ Saving(p)
    BY <2>1 DEF BooksInv, ClosedBooks!TypeOK, ClosedBooks!At, Saving
  <2>4. UNCHANGED <<voucher, closed, frozen, policy, entries>>
    BY DEF ClosedBooks!Check
  <2>5. SavedRight(p)' /\ ExaminedRight(p)'
    BY <2>2, <2>3, <2>4, <1>2 DEF BooksInv, BookStages, SavedRight, ExaminedRight,
       ClosedBooks!Blocked
  <2> QED BY <2>1, <2>2, <2>3, <2>4, <2>5, BookGoes DEF ClosedBooks!At
<1> QED BY <1>1, <1>2

LEMMA ClosingAsked ==
    ASSUME BooksInv, NEW p \in Session, NEW m \in ClosedBooks!Month, ClosedBooks!AskClose(p, m)
    PROVE  BooksInv'
<1> DEFINE w == [ClosedBooks!Idle EXCEPT !.stage = "closing", !.month = m, !.was = closed[m]]
<1>1. w \in ClosedBooks!Work /\ w.stage = "closing"
  BY BookIdle DEF ClosedBooks!Idle, ClosedBooks!Work, BooksInv, ClosedBooks!TypeOK
<1>2. desk' = [desk EXCEPT ![p] = w] /\ ClosedBooks!Starts(p)
  BY DEF ClosedBooks!AskClose, ClosedBooks!Goto
<1> HIDE DEF w
<1>3. ~Saving(p)' /\ ExaminedRight(p)'
  BY <1>1, <1>2 DEF BooksInv, ClosedBooks!TypeOK, Saving, ExaminedRight
<1> QED BY <1>1, <1>2, <1>3, BookGoes DEF ClosedBooks!AskClose

LEMMA MonthExamined ==
    ASSUME BooksInv, NEW p \in Session, ClosedBooks!Examine(p)
    PROVE  BooksInv'
<1>1. CASE ~desk[p].was /\ \E v \in ClosedBooks!Of(desk[p].month) : ClosedBooks!Pending(v)
  <2>1. desk' = [desk EXCEPT ![p] = ClosedBooks!Idle]
    BY <1>1 DEF ClosedBooks!Examine, ClosedBooks!Done, ClosedBooks!Goto
  <2>2. ~Saving(p)' /\ ExaminedRight(p)'
    BY <2>1, BookIdle DEF BooksInv, ClosedBooks!TypeOK, Saving, ExaminedRight
  <2> QED BY <2>1, <2>2, BookIdle, BookGoes DEF ClosedBooks!Examine
<1>2. CASE ~(~desk[p].was /\ \E v \in ClosedBooks!Of(desk[p].month) : ClosedBooks!Pending(v))
  <2> DEFINE w == [desk[p] EXCEPT !.stage = "examined"]
  <2>1. desk' = [desk EXCEPT ![p] = w] /\ ClosedBooks!At(p, "closing")
    BY <1>2 DEF ClosedBooks!Examine, ClosedBooks!Goto
  <2>2. w \in ClosedBooks!Work /\ w.stage = "examined" /\ w.was = desk[p].was
          /\ w.month = desk[p].month
    BY DEF ClosedBooks!Work, BooksInv, ClosedBooks!TypeOK
  <2> HIDE DEF w
  <2>3. desk'[p] = w
    BY <2>1 DEF BooksInv, ClosedBooks!TypeOK
  <2>4. UNCHANGED <<voucher, closed, frozen, policy, entries>>
    BY DEF ClosedBooks!Examine
  <2>5. ~Saving(p)' /\ ExaminedRight(p)'
    BY <2>2, <2>3, <2>4, <1>2 DEF Saving, ExaminedRight, ClosedBooks!Of, ClosedBooks!Live,
       ClosedBooks!Pending
  <2> QED BY <2>1, <2>2, <2>4, <2>5, BookGoes DEF ClosedBooks!At
<1> QED BY <1>1, <1>2

-----------------------------------------------------------------------------
(* What is written. *)

LEMMA WrittenRight ==
    ASSUME NEW w \in ClosedBooks!Work, NEW old \in ClosedBooks!Voucher, policy \in BookPolicies
    PROVE  /\ ClosedBooks!Written(w, old) \in ClosedBooks!Voucher
           /\ w.saved = "column" => ClosedBooks!Written(w, old) = [old EXCEPT !.row = w.row.row]
           /\ w.saved # "column" =>
                 /\ ClosedBooks!Written(w, old).row = w.row.row
                      /\ ClosedBooks!Written(w, old).month = w.row.month
                 /\ ClosedBooks!Written(w, old).lines = ClosedBooks!Merged(old.lines, w.loaded, w.row.lines)
<1>1. CASE w.saved = "column"
  <2>1. ClosedBooks!Written(w, old) = [old EXCEPT !.row = w.row.row]
    BY <1>1 DEF ClosedBooks!Written
  <2> QED BY <1>1, <2>1 DEF ClosedBooks!Voucher, ClosedBooks!Work
<1>2. CASE w.saved # "column"
  <2> DEFINE lines == ClosedBooks!Merged(old.lines, w.loaded, w.row.lines)
             added == \E f \in DOMAIN lines : old.lines[f] = 0 /\ lines[f] > 0
             early == IF ClosedBooks!Debit(old.lines) = 0 THEN lines.first ELSE ClosedBooks!Debit(lines)
             state == IF added THEN ClosedBooks!Policed(w.row.status, early, ClosedBooks!Debit(lines)) ELSE w.row.status
  <2>1. ClosedBooks!Written(w, old) = [w.row EXCEPT !.lines = lines, !.status = state]
    BY <1>2 DEF ClosedBooks!Written
  <2>2. w.row \in ClosedBooks!Voucher /\ w.loaded \in ClosedBooks!Amounts
          /\ w.row.lines \in ClosedBooks!Amounts /\ old.lines \in ClosedBooks!Amounts
    BY DEF ClosedBooks!Work, ClosedBooks!Voucher
  <2>3. lines \in ClosedBooks!Amounts
    <3>1. \A x, y, z \in Nat : ClosedBooks!Kept(x, y, z) \in Nat
      BY DEF ClosedBooks!Kept
    <3>2. \A l \in ClosedBooks!Amounts : l.first \in Nat /\ l.second \in Nat /\ l.credit \in Nat
      BY DEF ClosedBooks!Amounts
    <3> QED BY <2>2, <3>1, <3>2 DEF ClosedBooks!Merged, ClosedBooks!Amounts
  <2>4. state \in ClosedBooks!Status
    <3>1. policy.default \in ClosedBooks!Status
      BY ClosedBooksNumbers DEF ClosedBooks!Status
    <3>2. \A x, y : ClosedBooks!Policed(w.row.status, x, y) \in ClosedBooks!Status
      <4>1. w.row.status \in ClosedBooks!Status /\ "SUBMITTED" \in ClosedBooks!Status
        BY <2>2 DEF ClosedBooks!Voucher, ClosedBooks!Status
      <4> QED BY <3>1, <4>1 DEF ClosedBooks!Policed
    <3>3. w.row.status \in ClosedBooks!Status
      BY <2>2 DEF ClosedBooks!Voucher
    <3> HIDE DEF early, added, lines
    <3> QED BY <3>2, <3>3
  <2> HIDE DEF state, lines
  <2>5. ClosedBooks!Written(w, old) \in ClosedBooks!Voucher
    BY <2>1, <2>2, <2>3, <2>4 DEF ClosedBooks!Voucher
  <2>6. ClosedBooks!Written(w, old).lines = lines /\ ClosedBooks!Written(w, old).row = w.row.row
          /\ ClosedBooks!Written(w, old).month = w.row.month
    BY <2>1, <2>2 DEF ClosedBooks!Voucher
  <2> QED BY <1>2, <2>5, <2>6 DEF lines
<1> QED BY <1>1, <1>2

\* A voucher is written; the requests under way stay right, or are done.
LEMMA BookWrites ==
    ASSUME BooksInv, NEW v \in ClosedBooks!VoucherId, NEW new \in ClosedBooks!Voucher,
           voucher' = [voucher EXCEPT ![v] = new],
           closed' = closed, frozen' = frozen, policy' = policy, entries' = entries,
           new.row # "absent",
           "admin" \notin entries => InBalance(new.lines),
           "race" \notin entries /\ new.row = "live" /\ closed[new.month] =>
              new.status \in {"APPROVED", "REJECTED"},
           entries \cap {"race", "move", "erase"} = {} =>
              /\ voucher[v].row = "live" => ~closed[voucher[v].month]
              /\ new.row = "live" => ~closed[new.month],
           desk' \in [Session -> ClosedBooks!Work],
           \A q \in Session :
              \/ desk'[q] = ClosedBooks!Idle
              \/ desk'[q] = desk[q] /\ (Saving(q) => SavedRight(q)') /\ ExaminedRight(q)'
    PROVE  BooksInv'
<1>1. voucher'[v] = new /\ \A u \in ClosedBooks!VoucherId : u # v => voucher'[u] = voucher[u]
  BY DEF BooksInv, ClosedBooks!TypeOK
<1>2. ClosedBooks!TypeOK'
  <2>1. voucher' \in [ClosedBooks!VoucherId -> ClosedBooks!Voucher]
    BY DEF BooksInv, ClosedBooks!TypeOK
  <2> QED BY <2>1 DEF BooksInv, ClosedBooks!TypeOK
<1>3. OneBooks'
  BY BookIdle DEF BooksInv, OneBooks, ClosedBooks!At
<1>4. BookStages'
  <2> SUFFICES ASSUME NEW q \in Session PROVE (Saving(q)' => SavedRight(q)') /\ ExaminedRight(q)'
    BY DEF BookStages
  <2>1. CASE desk'[q] = ClosedBooks!Idle
    BY <2>1, BookIdle DEF Saving, ExaminedRight
  <2>2. CASE desk'[q] = desk[q] /\ (Saving(q) => SavedRight(q)') /\ ExaminedRight(q)'
    BY <2>2 DEF Saving
  <2> QED BY <2>1, <2>2
<1>5. OneCreates'
  <2>1. \A q \in Session : Saving(q)' => Saving(q) /\ desk'[q] = desk[q]
    BY BookIdle DEF Saving
  <2>2. \A u \in ClosedBooks!VoucherId : voucher'[u].row = "absent" => voucher'[u] = voucher[u]
    BY <1>1
  <2>3. \A q \in Session : desk[q].voucher \in ClosedBooks!VoucherId
    BY DEF BooksInv, ClosedBooks!TypeOK, ClosedBooks!Work
  <2> QED BY <2>1, <2>2, <2>3 DEF BooksInv, OneCreates
<1>6. ClosedBooks!Balanced'
  BY <1>1 DEF BooksInv, ClosedBooks!Balanced, InBalance
<1>7. MonthsDecided'
  BY <1>1 DEF BooksInv, MonthsDecided, ClosedBooks!Of, ClosedBooks!Live
<1>8. ClosedBooks!ClosedStays'
  <2> SUFFICES ASSUME entries \cap {"race", "move", "erase"} = {}, NEW m \in ClosedBooks!Month,
                      closed[m]
               PROVE  ClosedBooks!TotalOf(m)' = frozen[m]
    BY DEF ClosedBooks!ClosedStays
  <2>1. \A u \in ClosedBooks!VoucherId : u \in ClosedBooks!Of(m)' <=> u \in ClosedBooks!Of(m)
    BY <1>1 DEF ClosedBooks!Of, ClosedBooks!Live
  <2>2. \A u \in ClosedBooks!Of(m) : voucher'[u] = voucher[u]
    BY <1>1 DEF ClosedBooks!Of, ClosedBooks!Live
  <2>3. [u \in ClosedBooks!VoucherId |-> IF u \in ClosedBooks!Of(m)' THEN ClosedBooks!Debit(voucher'[u].lines) ELSE 0]
        = [u \in ClosedBooks!VoucherId |-> IF u \in ClosedBooks!Of(m) THEN ClosedBooks!Debit(voucher[u].lines) ELSE 0]
    BY <2>1, <2>2
  <2>4. ClosedBooks!TotalOf(m)' = ClosedBooks!TotalOf(m)
    BY <2>3, ClosedBooksSum DEF ClosedBooks!TotalOf
  <2> QED BY <2>4 DEF BooksInv, ClosedBooks!ClosedStays
<1> QED BY <1>2, <1>3, <1>4, <1>5, <1>6, <1>7, <1>8 DEF BooksInv

LEMMA SaveCommitted ==
    ASSUME BooksInv, NEW p \in Session, ClosedBooks!CommitSave(p)
    PROVE  BooksInv'
<1> DEFINE w == desk[p]
           v == w.voucher
           old == voucher[v]
           new == ClosedBooks!Written(w, old)
<1>1. /\ ClosedBooks!At(p, "writing") /\ desk' = [desk EXCEPT ![p] = ClosedBooks!Idle]
      /\ UNCHANGED <<closed, frozen, policy, entries>>
  BY DEF ClosedBooks!CommitSave, ClosedBooks!Done, ClosedBooks!Goto
<1>2. CASE w.saved = "form" /\ ~ClosedBooks!IsBalanced(w, new.lines)
  <2>1. voucher' = voucher
    BY <1>2 DEF ClosedBooks!CommitSave
  <2>2. ~Saving(p)' /\ ExaminedRight(p)'
    BY <1>1, BookIdle DEF BooksInv, ClosedBooks!TypeOK, Saving, ExaminedRight
  <2> QED BY <1>1, <2>1, <2>2, BookIdle, BookGoes
<1>3. CASE ~(w.saved = "form" /\ ~ClosedBooks!IsBalanced(w, new.lines))
  <2>1. voucher' = [voucher EXCEPT ![v] = new]
    BY <1>3 DEF ClosedBooks!CommitSave
  <2>2. w \in ClosedBooks!Work /\ v \in ClosedBooks!VoucherId /\ old \in ClosedBooks!Voucher
          /\ policy \in BookPolicies /\ Saving(p)
    BY <1>1 DEF BooksInv, ClosedBooks!TypeOK, ClosedBooks!Work, Saving, ClosedBooks!At
  <2>3. /\ new \in ClosedBooks!Voucher
        /\ w.saved = "column" => new = [old EXCEPT !.row = w.row.row]
        /\ w.saved # "column" => /\ new.row = w.row.row /\ new.month = w.row.month
                                 /\ new.lines = ClosedBooks!Merged(old.lines, w.loaded, w.row.lines)
    BY <2>2, WrittenRight
  <2>4. SavedRight(p)
    BY <2>2 DEF BooksInv, BookStages
  <2>5. w.saved = "column" => new.row = w.row.row /\ new.month = old.month
          /\ new.lines = old.lines
    BY <2>2, <2>3 DEF ClosedBooks!Voucher
  <2>6. new.row # "absent"
    BY <2>3, <2>4, <2>5, <2>2 DEF SavedRight, ClosedBooks!Work
  <2>7. "admin" \notin entries => InBalance(new.lines)
    <3> SUFFICES ASSUME "admin" \notin entries PROVE InBalance(new.lines)
      OBVIOUS
    <3>1. InBalance(old.lines)
      BY <2>2 DEF BooksInv, ClosedBooks!Balanced, InBalance
    <3>2. CASE w.saved = "column"
      BY <2>5, <3>1, <3>2
    <3>3. CASE w.saved = "form"
      BY <1>3, <3>3 DEF ClosedBooks!IsBalanced, InBalance
    <3>4. CASE w.saved = "row"
      <4>1. new.lines = ClosedBooks!Merged(old.lines, w.loaded, w.row.lines)
        BY <2>3, <3>4
      <4>2. \A l \in ClosedBooks!Amounts :
              l = [first |-> l.first, second |-> l.second, credit |-> l.credit]
        BY DEF ClosedBooks!Amounts
      <4>3. old.lines \in ClosedBooks!Amounts /\ w.loaded \in ClosedBooks!Amounts
              /\ w.row.lines \in ClosedBooks!Amounts
        BY <2>2 DEF ClosedBooks!Voucher, ClosedBooks!Work
      <4>4. CASE w.row.lines = w.loaded
        <5>1. ClosedBooks!Merged(old.lines, w.loaded, w.loaded) = old.lines
          BY <4>2, <4>3 DEF ClosedBooks!Merged, ClosedBooks!Kept
        <5> QED BY <4>1, <4>4, <5>1, <3>1
      <4>5. CASE old.row = "absent" /\ w.loaded = ClosedBooks!NoLines /\ InBalance(w.row.lines)
        <5>1. old.lines = w.loaded
          BY <4>5, <2>2, BookIdle DEF BooksInv, OneCreates
        <5>2. ClosedBooks!Merged(w.loaded, w.loaded, w.row.lines) = w.row.lines
          BY <4>2, <4>3 DEF ClosedBooks!Merged, ClosedBooks!Kept
        <5> QED BY <4>1, <4>5, <5>1, <5>2
      <4> QED BY <4>4, <4>5, <3>4, <2>4 DEF SavedRight
    <3> QED BY <3>2, <3>3, <3>4, <2>2 DEF ClosedBooks!Work
  <2>8. "race" \notin entries => ~closed[new.month]
    BY <1>1, <2>3, <2>4, <2>5 DEF SavedRight, ClosedBooks!At
  <2>9. entries \cap {"race", "move", "erase"} = {} => (old.row = "live" => ~closed[old.month])
    BY <1>1, <2>4 DEF SavedRight, ClosedBooks!At
  <2>10. desk' \in [Session -> ClosedBooks!Work]
    BY <1>1, BookIdle DEF BooksInv, ClosedBooks!TypeOK
  <2>11. ASSUME NEW q \in Session, q # p
         PROVE  \/ desk'[q] = ClosedBooks!Idle
                \/ desk'[q] = desk[q] /\ (Saving(q) => SavedRight(q)') /\ ExaminedRight(q)'
    <3>1. desk'[q] = desk[q] /\ desk[q].voucher \in ClosedBooks!VoucherId
      BY <1>1, <2>11 DEF BooksInv, ClosedBooks!TypeOK, ClosedBooks!Work
    <3>2. "race" \notin entries => desk[q].stage = "idle"
      BY <1>1, <2>11 DEF BooksInv, OneBooks, ClosedBooks!At
    <3>3. ExaminedRight(q)'
      BY <1>1, <3>1, <3>2 DEF ExaminedRight
    <3>4. ASSUME Saving(q) PROVE SavedRight(q)'
      <4>1. SavedRight(q) /\ "race" \in entries
        BY <3>2, <3>4 DEF BooksInv, BookStages, Saving
      <4>2. desk[q].voucher = v => old.row # "absent"
        BY <3>4, <2>2, <2>11 DEF BooksInv, OneCreates
      <4>3. desk[q].voucher # v => voucher'[desk[q].voucher] = voucher[desk[q].voucher]
        BY <2>1, <3>1 DEF BooksInv, ClosedBooks!TypeOK
      <4> HIDE DEF new, old
      <4> QED BY <1>1, <3>1, <4>1, <4>2, <4>3 DEF SavedRight, old
    <3> QED BY <3>1, <3>3, <3>4
  <2>12. desk'[p] = ClosedBooks!Idle
    BY <1>1 DEF BooksInv, ClosedBooks!TypeOK
  <2>13. old = voucher[v]
    OBVIOUS
  <2> HIDE DEF new, old, v, w
  <2> QED BY <1>1, <2>1, <2>2, <2>3, <2>6, <2>7, <2>8, <2>9, <2>10, <2>11, <2>12, <2>13,
            BookWrites
<1> QED BY <1>2, <1>3

LEMMA Administered ==
    ASSUME BooksInv, NEW v \in ClosedBooks!VoucherId, NEW l \in BookForms,
           ClosedBooks!Administer(v, l)
    PROVE  BooksInv'
<1> DEFINE new == [voucher[v] EXCEPT !.lines = l]
<1>1. /\ new \in ClosedBooks!Voucher /\ new.row = "live" /\ new.month = voucher[v].month
           /\ new.status = voucher[v].status
      /\ voucher[v].row = "live" /\ ~closed[voucher[v].month]
  BY ClosedBooksNumbers DEF ClosedBooks!Amounts, ClosedBooks!Voucher, BooksInv,
    ClosedBooks!TypeOK,
     ClosedBooks!Administer, ClosedBooks!Live
<1>2. /\ voucher' = [voucher EXCEPT ![v] = new]
           /\ UNCHANGED <<closed, frozen, policy, desk, entries>>
      /\ "admin" \in entries
  BY <1>1 DEF ClosedBooks!Administer, BooksInv, ClosedBooks!TypeOK, ClosedBooks!Voucher
<1> HIDE DEF new
<1>3. \A u \in ClosedBooks!VoucherId : /\ voucher'[u].row = voucher[u].row
                                            /\ voucher'[u].month = voucher[u].month
                                      /\ voucher'[u].status = voucher[u].status
  BY <1>1, <1>2 DEF BooksInv, ClosedBooks!TypeOK
<1>4. ASSUME NEW q \in Session PROVE (Saving(q) => SavedRight(q)') /\ ExaminedRight(q)'
  <2>1. desk[q].voucher \in ClosedBooks!VoucherId
    BY DEF BooksInv, ClosedBooks!TypeOK, ClosedBooks!Work
  <2>2. (Saving(q) => SavedRight(q)) /\ ExaminedRight(q)
    BY DEF BooksInv, BookStages
  <2>3. Saving(q) => SavedRight(q)'
    BY <1>2, <1>3, <2>1, <2>2 DEF SavedRight
  <2>4. ExaminedRight(q)'
    BY <1>2, <1>3, <2>2 DEF ExaminedRight, ClosedBooks!Of, ClosedBooks!Live, ClosedBooks!Pending
  <2> QED BY <2>3, <2>4
<1>5. desk' \in [Session -> ClosedBooks!Work] /\ \A q \in Session : desk'[q] = desk[q]
  BY <1>2 DEF BooksInv, ClosedBooks!TypeOK
<1> QED BY <1>1, <1>2, <1>4, <1>5, BookWrites

LEMMA Erased ==
    ASSUME BooksInv, NEW v \in ClosedBooks!VoucherId, ClosedBooks!Erase(v)
    PROVE  BooksInv'
<1> DEFINE new == [ClosedBooks!NoVoucher EXCEPT !.row = "erased"]
<1>1. new \in ClosedBooks!Voucher /\ new.row = "erased" /\ new.lines = ClosedBooks!NoLines
  BY BookIdle DEF ClosedBooks!Voucher
<1>2. /\ voucher' = [voucher EXCEPT ![v] = new]
           /\ UNCHANGED <<closed, frozen, policy, desk, entries>>
      /\ "erase" \in entries /\ ClosedBooks!AtRest
  BY DEF ClosedBooks!Erase
<1> HIDE DEF new
<1>3. InBalance(new.lines)
  BY <1>1, BookIdle DEF InBalance
<1>4. ASSUME NEW q \in Session
      PROVE  desk'[q] = desk[q] /\ (Saving(q) => SavedRight(q)') /\ ExaminedRight(q)'
  BY <1>2 DEF ClosedBooks!AtRest, ClosedBooks!At, Saving, ExaminedRight
<1>5. desk' \in [Session -> ClosedBooks!Work]
  BY <1>2 DEF BooksInv, ClosedBooks!TypeOK
<1> QED BY <1>1, <1>2, <1>3, <1>4, <1>5, BookWrites

LEMMA TotalNat ==
    ASSUME BooksInv, NEW m \in ClosedBooks!Month
    PROVE  ClosedBooks!TotalOf(m) \in Nat
<1> DEFINE f == [v \in ClosedBooks!VoucherId |-> IF v \in ClosedBooks!Of(m) THEN ClosedBooks!Debit(voucher[v].lines) ELSE 0]
<1>1. \A v \in ClosedBooks!VoucherId : ClosedBooks!Debit(voucher[v].lines) \in Nat
  <2>1. \A l \in ClosedBooks!Amounts : ClosedBooks!Debit(l) \in Nat
    BY DEF ClosedBooks!Amounts, ClosedBooks!Debit
  <2> QED BY <2>1 DEF BooksInv, ClosedBooks!TypeOK, ClosedBooks!Voucher
<1>2. f \in [1..BookVouchers -> Nat] /\ BookVouchers \in Nat
  BY <1>1, ClosedBooksNumbers DEF ClosedBooks!VoucherId
<1> HIDE DEF f
<1>3. SumTo(f, BookVouchers) \in Nat
  BY <1>2, SumToNat
<1> QED BY <1>3, ClosedBooksSum DEF f, ClosedBooks!TotalOf

LEMMA ClosingCommitted ==
    ASSUME BooksInv, NEW p \in Session, ClosedBooks!CommitClose(p)
    PROVE  BooksInv'
<1> DEFINE w == desk[p]
           m == w.month
           total == IF w.was THEN 0 ELSE ClosedBooks!TotalOf(m)
<1>1. /\ ClosedBooks!At(p, "examined") /\ desk' = [desk EXCEPT ![p] = ClosedBooks!Idle]
      /\ closed' = [closed EXCEPT ![m] = ~w.was] /\ frozen' = [frozen EXCEPT ![m] = total]
      /\ UNCHANGED <<voucher, policy, entries>>
  BY DEF ClosedBooks!CommitClose, ClosedBooks!Done, ClosedBooks!Goto
<1>2. m \in ClosedBooks!Month /\ w.was \in BOOLEAN
  BY DEF BooksInv, ClosedBooks!TypeOK, ClosedBooks!Work
<1>3. total \in Nat
  BY <1>2, TotalNat
<1> HIDE DEF total
<1>4. desk'[p] = ClosedBooks!Idle /\ \A q \in Session : q # p => desk'[q] = desk[q]
  BY <1>1 DEF BooksInv, ClosedBooks!TypeOK
<1>5. ClosedBooks!TypeOK'
  <2>1. desk' \in [Session -> ClosedBooks!Work]
    BY <1>1, BookIdle DEF BooksInv, ClosedBooks!TypeOK
  <2>2. closed' \in [ClosedBooks!Month -> BOOLEAN]
    BY <1>1, <1>2 DEF BooksInv, ClosedBooks!TypeOK
  <2>3. frozen' \in [ClosedBooks!Month -> Nat]
    BY <1>1, <1>2, <1>3 DEF BooksInv, ClosedBooks!TypeOK
  <2>4. voucher' = voucher /\ policy' = policy /\ entries' = entries
    BY <1>1
  <2> QED BY <2>1, <2>2, <2>3, <2>4 DEF BooksInv, ClosedBooks!TypeOK
<1>6. "race" \notin entries => \A q \in Session : desk'[q].stage = "idle"
  BY <1>1, <1>4, BookIdle DEF BooksInv, OneBooks, ClosedBooks!At
<1>7. OneBooks'
  BY <1>1, <1>6 DEF OneBooks, ClosedBooks!At
<1>8. BookStages'
  <2>1. \A q \in Session : ExaminedRight(q)'
    BY <1>1, <1>6 DEF ExaminedRight
  <2>2. \A q \in Session : Saving(q)' => SavedRight(q)'
    BY <1>1, <1>4, <1>6, BookIdle DEF Saving, SavedRight, BooksInv, BookStages
  <2> QED BY <2>1, <2>2 DEF BookStages
<1>9. OneCreates' /\ ClosedBooks!Balanced'
  BY <1>1, <1>4, BookIdle DEF BooksInv, OneCreates, Saving, ClosedBooks!Balanced
<1>10. \A x \in ClosedBooks!Month : x # m => closed'[x] = closed[x] /\ frozen'[x] = frozen[x]
  BY <1>1 DEF BooksInv, ClosedBooks!TypeOK
<1>11. closed'[m] = ~w.was /\ frozen'[m] = total
  BY <1>1, <1>2 DEF BooksInv, ClosedBooks!TypeOK
<1>12. MonthsDecided'
  <2>1. "race" \notin entries /\ ~w.was => \A v \in ClosedBooks!Of(m) :
          voucher[v].status \in {"APPROVED", "REJECTED"}
    <3>1. ExaminedRight(p)
      BY DEF BooksInv, BookStages
    <3>2. \A v \in ClosedBooks!VoucherId : voucher[v].status \in ClosedBooks!Status
      BY DEF BooksInv, ClosedBooks!TypeOK, ClosedBooks!Voucher
    <3> QED BY <1>1, <3>1, <3>2 DEF ExaminedRight, ClosedBooks!At, ClosedBooks!Pending,
       ClosedBooks!Of, ClosedBooks!Status
  <2> HIDE DEF m
  <2> QED BY <1>1, <1>10, <1>11, <2>1 DEF BooksInv, MonthsDecided, ClosedBooks!Of,
            ClosedBooks!Live
<1>13. ClosedBooks!ClosedStays'
  <2>1. ~w.was => total = ClosedBooks!TotalOf(m)
    BY DEF total
  <2>2. \A x : ClosedBooks!TotalOf(x)' = ClosedBooks!TotalOf(x)
    BY <1>1, ClosedBooksSum DEF ClosedBooks!TotalOf, ClosedBooks!Of, ClosedBooks!Live
  <2> HIDE DEF m, w
  <2> QED BY <1>1, <1>10, <1>11, <2>1, <2>2 DEF BooksInv, ClosedBooks!ClosedStays
<1> QED BY <1>5, <1>7, <1>8, <1>9, <1>12, <1>13 DEF BooksInv

LEMMA BooksStart == ClosedBooks!Init => BooksInv
<1> SUFFICES ASSUME ClosedBooks!Init PROVE BooksInv
  OBVIOUS
<1>1. ClosedBooks!TypeOK
  BY BookIdle DEF ClosedBooks!Init, ClosedBooks!TypeOK
<1>2. \A p \in Session : desk[p].stage = "idle"
  BY BookIdle DEF ClosedBooks!Init
<1>3. \A v \in ClosedBooks!VoucherId : voucher[v] = ClosedBooks!NoVoucher
  BY DEF ClosedBooks!Init
<1> QED BY <1>1, <1>2, <1>3, BookIdle DEF ClosedBooks!Init, BooksInv, OneBooks, BookStages,
   OneCreates, ClosedBooks!Balanced,
           MonthsDecided, ClosedBooks!ClosedStays, ClosedBooks!At, Saving, ExaminedRight

LEMMA BooksStep == BooksInv /\ [ClosedBooks!Next]_(ClosedBooks!vars) => BooksInv'
<1> SUFFICES ASSUME BooksInv, [ClosedBooks!Next]_(ClosedBooks!vars) PROVE BooksInv'
  OBVIOUS
<1>1. CASE UNCHANGED ClosedBooks!vars
  BY <1>1, ClosedBooksSum DEF ClosedBooks!vars, BooksInv, ClosedBooks!TypeOK, OneBooks,
    BookStages, OneCreates,
     ClosedBooks!Balanced,
     MonthsDecided, ClosedBooks!ClosedStays, ClosedBooks!At, Saving, SavedRight, ExaminedRight,
        ClosedBooks!Of, ClosedBooks!Live, ClosedBooks!Pending, ClosedBooks!TotalOf
<1> QED BY <1>1, BooksAsked, MonthChecked, SaveCommitted, ClosingAsked, MonthExamined,
   ClosingCommitted,
           Erased, Administered DEF ClosedBooks!Next

LEMMA BooksKeep == BooksInv => ClosedBooks!TypeOK /\ ClosedBooks!Balanced
    /\ ClosedBooks!ClosedDecided /\ ClosedBooks!ClosedStays
BY DEF BooksInv, MonthsDecided, ClosedBooks!ClosedDecided

-----------------------------------------------------------------------------
(* The settlement of orders. *)

\* The cardinality of the instance is that of the lemmas.
LEMMA SettlementsCardinality == \A S : Settlements!Cardinality(S) = Cardinality(S)
BY DEF Settlements!Cardinality, Cardinality

\* The sum of the instance is that of the lemmas.
LEMMA SettlementsSum == \A f, n : Settlements!SumTo(f, n) = SumTo(f, n)
BY DEF Settlements!SumTo, SumTo

\* What the constants of this part are.
LEMMA SettlementsNumbers ==
    /\ SettledOrders \in Nat /\ Platform \subseteq 1..SettledOrders /\ Settled \in Nat \ {0}
    /\ Rates \subseteq Nat /\ Rates # {} /\ SettlementOpening \in Int
BY BackOfficeAssumption

-----------------------------------------------------------------------------
(* The invariant. *)

\* Where requests do not race, one is under way.
OneSettles == "race" \notin entries => \A p, q \in Session : Settlements!At(p, "idle")
  \/ Settlements!At(q, "idle") \/ p = q

\* What is paid or marked is a settlement; where requests do not race, what is
\* gathered is unsettled still, what is paid was not, and the voucher read is
\* the one there is.
SettlementStages ==
    \A p \in Session :
        LET w == desk[p] IN
        /\ w.stage \in {"paying", "marking"} => settlement[w.settlement].by # "none"
        /\ "race" \notin entries =>
              /\ w.stage \in {"creating", "gathering"} => \A o \in w.orders : ~order[o]
              /\ w.stage = "paying" => settlement[w.settlement].payouts = 0
              /\ w.stage = "marking" => w.voucher = settlement[w.settlement].voucher

\* A row that is not there is empty; one that a form made knows its voucher.
SettlementRows ==
    \A s \in Settlements!SettlementId :
        /\ settlement[s].by = "none" => settlement[s] = Settlements!NoSettlement
        /\ settlement[s].by = "form" /\ settlement[s].voucher = "none" /\ "race" \notin entries =>
              settlement[s].vouchers = 0
MonthOpen == "closing" \notin entries => ~closed

\* In which settlements an order is.
Homes(o) == {s \in Settlements!SettlementId : settlement[s].by # "none" /\ o \in settlement[s].orders}
SettledWell ==
    \A o \in Settlements!OrderId :
        /\ order[o] <=> Homes(o) # {}
        /\ "race" \notin entries => \A s, t \in Homes(o) : s = t

PaidOut == [s \in Settlements!SettlementId |-> settlement[s].payouts * settlement[s].commission]
PayoutsRight ==
    /\ balance = SettlementOpening - SumTo(PaidOut, Settled)
    /\ \A s \in Settlements!SettlementId :
        /\ settlement[s].payouts > 0 => settlement[s].paid /\ settlement[s].payable
        /\ "race" \notin entries => settlement[s].payouts <= 1

SettlementsInv ==
    /\ Settlements!TypeOK /\ OneSettles /\ SettlementStages /\ SettlementRows /\ MonthOpen
    /\ SettledWell /\ PayoutsRight /\ Settlements!KeptPosted

-----------------------------------------------------------------------------
(* The steps. *)

LEMMA SettlementIdle ==
    Settlements!Idle \in Settlements!Work /\ Settlements!Idle.stage = "idle"
      /\ Settlements!NoSettlement \in Settlements!Settlement
           /\ Settlements!NoSettlement.by = "none"
BY SettlementsNumbers DEF Settlements!Idle, Settlements!Work, Settlements!SettlementId,
   Settlements!Link, Settlements!NoSettlement, Settlements!Settlement

\* A request goes on, and the rows stay.
LEMMA SettlementAsks ==
    ASSUME SettlementsInv, NEW p \in Session, NEW w \in Settlements!Work,
           desk' = [desk EXCEPT ![p] = w], entries' = entries,
           order' = order, settlement' = settlement, balance' = balance, closed' = closed,
           w.stage = "idle" \/ Settlements!MayAsk(p),
           w.stage \in {"paying", "marking"} => settlement[w.settlement].by # "none",
           "race" \notin entries =>
              /\ w.stage \in {"creating", "gathering"} => \A o \in w.orders : ~order[o]
              /\ w.stage = "paying" => settlement[w.settlement].payouts = 0
              /\ w.stage = "marking" => w.voucher = settlement[w.settlement].voucher
    PROVE  SettlementsInv'
<1>1. desk'[p] = w /\ \A q \in Session : q # p => desk'[q] = desk[q]
  BY DEF SettlementsInv, Settlements!TypeOK
<1>2. Settlements!TypeOK'
  <2>1. desk' \in [Session -> Settlements!Work]
    BY DEF SettlementsInv, Settlements!TypeOK
  <2> QED BY <2>1 DEF SettlementsInv, Settlements!TypeOK
<1>3. OneSettles'
  BY <1>1 DEF SettlementsInv, OneSettles, Settlements!At, Settlements!MayAsk
<1>4. SettlementStages'
  BY <1>1 DEF SettlementsInv, SettlementStages
<1>5. SettlementRows' /\ MonthOpen' /\ SettledWell' /\ PayoutsRight' /\ Settlements!KeptPosted'
  BY DEF SettlementsInv, SettlementRows, MonthOpen, SettledWell, Homes, PayoutsRight, PaidOut,
     Settlements!KeptPosted
<1> QED BY <1>2, <1>3, <1>4, <1>5 DEF SettlementsInv

\* What a committed settlement holds.
DocRight(doc) ==
    /\ doc \in Settlements!Settlement /\ doc.by # "none"
    /\ doc.by = "form" /\ doc.voucher = "none" /\ "race" \notin entries => doc.vouchers = 0
    /\ doc.payouts > 0 => doc.paid /\ doc.payable
    /\ "race" \notin entries => doc.payouts <= 1
    /\ doc.by = "form" =>
          /\ "race" \notin entries => doc.vouchers <= 1
          /\ "closing" \notin entries /\ Settlements!Kept(doc.orders) > 0 => doc.vouchers >= 1

\* The request is done, and one settlement is written: a new one with its
\* orders marked, or one that keeps its orders.
LEMMA SettlementCommits ==
    ASSUME SettlementsInv, NEW p \in Session, ~Settlements!At(p, "idle"),
           NEW s \in Settlements!SettlementId, NEW doc,
           desk' = [desk EXCEPT ![p] = Settlements!Idle], entries' = entries, closed' = closed,
           settlement' = [settlement EXCEPT ![s] = doc], DocRight(doc),
           NEW b \in Int, balance' = b,
           b = balance + settlement[s].payouts * settlement[s].commission - doc.payouts * doc.commission,
           \/ order' = order /\ doc.orders = settlement[s].orders /\ settlement[s].by # "none"
           \/ /\ settlement[s].by = "none" /\ order' = Settlements!Marked(doc.orders)
              /\ "race" \notin entries => \A o \in doc.orders : ~order[o]
    PROVE  SettlementsInv'
<1>1. desk'[p] = Settlements!Idle /\ \A q \in Session : q # p => desk'[q] = desk[q]
  BY DEF SettlementsInv, Settlements!TypeOK
<1>2. settlement'[s] = doc /\ \A t \in Settlements!SettlementId : t # s
        => settlement'[t] = settlement[t]
  BY DEF SettlementsInv, Settlements!TypeOK
<1>3. Settlements!TypeOK'
  <2>1. desk' \in [Session -> Settlements!Work]
    BY SettlementIdle DEF SettlementsInv, Settlements!TypeOK
  <2>2. settlement' \in [Settlements!SettlementId -> Settlements!Settlement]
    BY DEF SettlementsInv, Settlements!TypeOK, DocRight
  <2>3. order' \in [Settlements!OrderId -> BOOLEAN]
    <3>1. order \in [Settlements!OrderId -> BOOLEAN]
            /\ Settlements!Marked(doc.orders) \in [Settlements!OrderId -> BOOLEAN]
      BY DEF Settlements!Marked, SettlementsInv, Settlements!TypeOK
    <3> QED BY <3>1
  <2> QED BY <2>1, <2>2, <2>3 DEF SettlementsInv, Settlements!TypeOK
<1>4. OneSettles'
  BY <1>1, SettlementIdle DEF SettlementsInv, OneSettles, Settlements!At
<1>5. SettlementStages'
  <2>1. "race" \notin entries => \A q \in Session : desk'[q].stage = "idle"
    BY <1>1, SettlementIdle DEF SettlementsInv, OneSettles, Settlements!At
  <2>2. \A t \in Settlements!SettlementId : settlement[t].by # "none"
          => settlement'[t].by # "none"
    BY <1>2 DEF DocRight
  <2>3. \A q \in Session : desk[q].settlement \in Settlements!SettlementId
    BY DEF SettlementsInv, Settlements!TypeOK, Settlements!Work
  <2> QED BY <1>1, <2>1, <2>2, <2>3, SettlementIdle DEF SettlementsInv, SettlementStages
<1>6. SettlementRows' /\ Settlements!KeptPosted'
  BY <1>2 DEF SettlementsInv, SettlementRows, Settlements!KeptPosted, DocRight
<1>7. MonthOpen'
  BY DEF SettlementsInv, MonthOpen
<1>8. SettledWell'
  <2>1. CASE order' = order /\ doc.orders = settlement[s].orders /\ settlement[s].by # "none"
    <3>1. \A o : Homes(o)' = Homes(o)
      BY <1>2, <2>1 DEF Homes, DocRight
    <3> QED BY <3>1, <2>1 DEF SettlementsInv, SettledWell
  <2>2. CASE /\ settlement[s].by = "none" /\ order' = Settlements!Marked(doc.orders)
             /\ "race" \notin entries => \A o \in doc.orders : ~order[o]
    <3> SUFFICES ASSUME NEW o \in Settlements!OrderId
                 PROVE  /\ order'[o] <=> Homes(o)' # {}
                        /\ "race" \notin entries => \A x, y \in Homes(o)' : x = y
      BY DEF SettledWell
    <3>1. Homes(o)' = IF o \in doc.orders THEN Homes(o) \cup {s} ELSE Homes(o)
      BY <1>2, <2>2 DEF Homes, DocRight
    <3>2. order'[o] <=> order[o] \/ o \in doc.orders
      BY <2>2 DEF Settlements!Marked, SettlementsInv, Settlements!TypeOK
    <3> QED BY <3>1, <3>2, <2>2 DEF SettlementsInv, SettledWell
  <2> QED BY <2>1, <2>2
<1>9. PayoutsRight'
  <2> DEFINE v == doc.payouts * doc.commission
             f == PaidOut
  <2>1. f \in [1..Settled -> Int] /\ v \in Int /\ s \in 1..Settled /\ Settled \in Nat
    <3>1. \A t \in Settlements!SettlementId : settlement[t] \in Settlements!Settlement
      BY DEF SettlementsInv, Settlements!TypeOK
    <3>2. \A d \in Settlements!Settlement : d.payouts * d.commission \in Int
      BY DEF Settlements!Settlement
    <3>3. \A t \in Settlements!SettlementId :
            settlement[t].payouts * settlement[t].commission \in Int
      BY <3>1, <3>2
    <3>4. v \in Int
      BY <3>2 DEF DocRight
    <3>5. Settlements!SettlementId = 1..Settled /\ Settled \in Nat
      BY SettlementsNumbers DEF Settlements!SettlementId
    <3>6. PaidOut \in [Settlements!SettlementId -> Int]
      BY <3>3 DEF PaidOut
    <3>7. PaidOut \in [1..Settled -> Int]
      BY <3>6 DEF Settlements!SettlementId
    <3>8. s \in 1..Settled
      BY DEF Settlements!SettlementId
    <3> HIDE DEF v
    <3> QED BY <3>4, <3>5, <3>7, <3>8
  <2>2. PaidOut' = [f EXCEPT ![s] = v]
    <3>1. PaidOut' = [t \in Settlements!SettlementId |-> settlement'[t].payouts * settlement'[t].commission]
      BY DEF PaidOut
    <3>2. \A t \in Settlements!SettlementId : settlement'[t].payouts * settlement'[t].commission
                                              = IF t = s THEN v ELSE PaidOut[t]
      BY <1>2 DEF PaidOut
    <3>3. PaidOut' = [t \in Settlements!SettlementId |-> IF t = s THEN v ELSE PaidOut[t]]
      BY <3>1, <3>2
    <3>4. PaidOut = [t \in Settlements!SettlementId |-> PaidOut[t]]
      BY DEF PaidOut
    <3> HIDE DEF v
    <3> QED BY <3>3, <3>4
  <2>3. f[s] = settlement[s].payouts * settlement[s].commission /\ f[s] \in Int
    BY <2>1 DEF PaidOut
  <2> HIDE DEF f, v
  <2>4. /\ SumTo([f EXCEPT ![s] = v], Settled) = SumTo(f, Settled) - f[s] + v
        /\ SumTo(f, Settled) \in Int
    <3>1. Settled \in 0..Settled /\ ~(Settled < s)
      BY <2>1
    <3>2. \A n \in 0..Settled : SumTo([f EXCEPT ![s] = v], n)
             = IF n < s THEN SumTo(f, n) ELSE SumTo(f, n) - f[s] + v
      BY <2>1, SumToUpdate
    <3> QED BY <2>1, <3>1, <3>2, SumToStep
  <2>5. balance = SettlementOpening - SumTo(f, Settled) /\ b = balance + f[s] - v
    BY <2>3 DEF SettlementsInv, PayoutsRight, f, v
  <2>6. b = SettlementOpening - SumTo(PaidOut', Settled)
    BY <2>1, <2>2, <2>3, <2>4, <2>5, SettlementsNumbers
  <2>7. \A t \in Settlements!SettlementId :
           /\ settlement'[t].payouts > 0 => settlement'[t].paid /\ settlement'[t].payable
           /\ "race" \notin entries => settlement'[t].payouts <= 1
    BY <1>2 DEF SettlementsInv, PayoutsRight, DocRight
  <2> QED BY <2>6, <2>7 DEF PayoutsRight
<1> QED BY <1>3, <1>4, <1>5, <1>6, <1>7, <1>8, <1>9 DEF SettlementsInv

-----------------------------------------------------------------------------
(* One lemma for each action. *)

\* What the save of a settlement leaves of it.
LEMMA SaveSettlement ==
    ASSUME NEW doc \in Settlements!Settlement, NEW link
    PROVE  /\ Settlements!Saved(doc, link) \in Settlements!Settlement
           /\ Settlements!Saved(doc, link).by = doc.by
                /\ Settlements!Saved(doc, link).orders = doc.orders
           /\ Settlements!Saved(doc, link).payouts = doc.payouts
                /\ Settlements!Saved(doc, link).commission = doc.commission
           /\ Settlements!Saved(doc, link).paid = doc.paid
                /\ Settlements!Saved(doc, link).payable = doc.payable
           /\ Settlements!Posts(doc, link) =>
                 Settlements!Saved(doc, link).voucher = "auto"
                   /\ Settlements!Saved(doc, link).vouchers = doc.vouchers + 1
           /\ ~Settlements!Posts(doc, link) => Settlements!Saved(doc, link) = doc
<1>1. CASE ~Settlements!Posts(doc, link)
  BY <1>1 DEF Settlements!Saved
<1>2. CASE Settlements!Posts(doc, link)
  <2>1. Settlements!Saved(doc, link) = [doc EXCEPT !.voucher = "auto", !.vouchers = @ + 1]
    BY <1>2 DEF Settlements!Saved
  <2>2. doc.vouchers + 1 \in Nat /\ "auto" \in Settlements!Link
    BY DEF Settlements!Settlement, Settlements!Link
  <2> QED BY <1>2, <2>1, <2>2 DEF Settlements!Settlement
<1> QED BY <1>1, <1>2

LEMMA CreateAsked ==
    ASSUME SettlementsInv, NEW p \in Session, NEW S \in SUBSET Settlements!OrderId,
           NEW r \in Rates, Settlements!AskCreate(p, S, r)
    PROVE  SettlementsInv'
<1> DEFINE w == [Settlements!Idle EXCEPT !.stage = "creating", !.orders = Settlements!Unsettled(S), !.rate = r]
<1>1. Settlements!Unsettled(S) \subseteq Settlements!OrderId
        /\ \A o \in Settlements!Unsettled(S) : ~order[o]
  BY DEF Settlements!Unsettled
<1>2. w \in Settlements!Work /\ w.stage = "creating" /\ w.orders = Settlements!Unsettled(S)
  BY <1>1, SettlementIdle DEF Settlements!Work, Settlements!Idle
<1>3. desk' = [desk EXCEPT ![p] = w] /\ Settlements!MayAsk(p)
  BY DEF Settlements!AskCreate, Settlements!Goto
<1> HIDE DEF w
<1> QED BY <1>1, <1>2, <1>3, SettlementAsks DEF Settlements!AskCreate

LEMMA JobStarted ==
    ASSUME SettlementsInv, NEW p \in Session, Settlements!StartJob(p)
    PROVE  SettlementsInv'
<1> DEFINE gathered == {o \in Settlements!Unsettled(Platform) : \A s \in Settlements!Existing : o \notin settlement[s].orders}
           w == [Settlements!Idle EXCEPT !.stage = "gathering", !.orders = gathered]
<1>1. gathered \subseteq Settlements!OrderId /\ \A o \in gathered : ~order[o]
  BY SettlementsNumbers DEF Settlements!Unsettled, Settlements!OrderId
<1>2. desk' = [desk EXCEPT ![p] = w] /\ Settlements!MayAsk(p)
  BY DEF Settlements!StartJob, Settlements!Goto
<1> HIDE DEF gathered
<1>3. w \in Settlements!Work /\ w.stage = "gathering" /\ w.orders = gathered
  BY <1>1, SettlementIdle DEF Settlements!Work, Settlements!Idle
<1> HIDE DEF w
<1> QED BY <1>1, <1>2, <1>3, SettlementAsks DEF Settlements!StartJob

LEMMA SettlementAsked ==
    ASSUME SettlementsInv, NEW p \in Session, NEW s \in Settlements!SettlementId,
           Settlements!AskPay(p, s) \/ Settlements!AskManual(p, s)
    PROVE  SettlementsInv'
<1>1. PICK stage \in {"paying", "marking"} : Settlements!Ask(p, s, stage)
  BY DEF Settlements!AskPay, Settlements!AskManual
<1> DEFINE w == [Settlements!Idle EXCEPT !.stage = stage, !.settlement = s, !.voucher = settlement[s].voucher]
<1>2. w \in Settlements!Work /\ w.stage = stage /\ w.settlement = s
        /\ w.voucher = settlement[s].voucher
  BY SettlementIdle DEF Settlements!Work, Settlements!Idle, SettlementsInv, Settlements!TypeOK,
     Settlements!Settlement
<1>3. desk' = [desk EXCEPT ![p] = w] /\ Settlements!MayAsk(p) /\ settlement[s].by # "none"
  BY <1>1 DEF Settlements!Ask, Settlements!Goto, Settlements!Existing
<1>4. settlement[s].payouts = 0
  BY <1>1 DEF Settlements!Ask, Settlements!MayPay, SettlementsInv, PayoutsRight,
    Settlements!TypeOK,
     Settlements!Settlement
<1> HIDE DEF w
<1> QED BY <1>1, <1>2, <1>3, <1>4, SettlementAsks DEF Settlements!Ask

LEMMA SettlementCreated ==
    ASSUME SettlementsInv, NEW p \in Session, NEW s \in Settlements!SettlementId,
           Settlements!CommitCreate(p, s)
    PROVE  SettlementsInv'
<1> DEFINE S == desk[p].orders
           c == desk[p].rate * Cardinality(S)
           new == [Settlements!NoSettlement EXCEPT !.by = "form", !.orders = S, !.commission = c]
           doc == Settlements!Saved(new, "none")
<1>1. /\ Settlements!At(p, "creating") /\ desk' = [desk EXCEPT ![p] = Settlements!Idle]
           /\ settlement[s].by = "none"
      /\ settlement' = [settlement EXCEPT ![s] = doc] /\ order' = Settlements!Marked(S)
      /\ balance' = balance /\ closed' = closed /\ entries' = entries
  BY SettlementsCardinality DEF Settlements!CommitCreate, Settlements!Done, Settlements!Goto,
    Settlements!Set,
     Settlements!Existing
<1>2. S \subseteq Settlements!OrderId /\ desk[p].rate \in Nat
  BY SettlementsNumbers DEF SettlementsInv, Settlements!TypeOK, Settlements!Work
<1>3. Cardinality(S) \in Nat
  <2>1. IsFiniteSet(Settlements!OrderId)
    BY SettlementsNumbers, FS_Interval DEF Settlements!OrderId
  <2> QED BY <1>2, <2>1, FS_Subset, FS_CardinalityType
<1>4. c \in Nat
  BY <1>2, <1>3
<1> HIDE DEF c
<1>5. new \in Settlements!Settlement /\ new.by = "form" /\ new.orders = S /\ new.payouts = 0
        /\ new.vouchers = 0
      /\ new.voucher = "none"
  BY <1>2, <1>4, SettlementIdle DEF Settlements!NoSettlement, Settlements!Settlement
<1> HIDE DEF new
<1>6. /\ doc \in Settlements!Settlement /\ doc.by = "form" /\ doc.orders = S /\ doc.payouts = 0
           /\ doc.commission \in Nat
      /\ Settlements!Posts(new, "none") => doc.voucher = "auto" /\ doc.vouchers = 1
      /\ ~Settlements!Posts(new, "none") => doc.vouchers = 0
  BY <1>5, SaveSettlement DEF Settlements!Settlement
<1> HIDE DEF doc
<1>7. DocRight(doc)
  <2>1. "closing" \notin entries /\ Settlements!Kept(S) > 0 => Settlements!Posts(new, "none")
    BY <1>5 DEF Settlements!Posts, SettlementsInv, MonthOpen
  <2> QED BY <1>6, <2>1 DEF DocRight
<1>8. /\ balance \in Int /\ settlement[s].payouts * settlement[s].commission = 0
      /\ doc.payouts * doc.commission = 0
  <2>1. settlement[s] = Settlements!NoSettlement
    BY <1>1 DEF SettlementsInv, SettlementRows
  <2> QED BY <2>1, <1>6 DEF SettlementsInv, Settlements!TypeOK, Settlements!NoSettlement
<1>9. balance = balance + settlement[s].payouts * settlement[s].commission - doc.payouts * doc.commission
  BY <1>8
<1>10. "race" \notin entries => \A o \in doc.orders : ~order[o]
  BY <1>1, <1>6 DEF SettlementsInv, SettlementStages, Settlements!At
<1>11. order' = Settlements!Marked(doc.orders) /\ ~Settlements!At(p, "idle")
  BY <1>1, <1>6 DEF Settlements!At
<1> HIDE DEF S
<1> QED BY <1>1, <1>7, <1>8, <1>9, <1>10, <1>11, SettlementCommits

LEMMA JobCommitted ==
    ASSUME SettlementsInv, NEW p \in Session, NEW s \in Settlements!SettlementId,
           Settlements!CommitJob(p, s)
    PROVE  SettlementsInv'
<1> DEFINE S == desk[p].orders
           new == [Settlements!NoSettlement EXCEPT !.by = "job", !.orders = S]
           once == Settlements!Saved(new, "none")
           doc == Settlements!Saved(once, "none")
<1>1. /\ Settlements!At(p, "gathering") /\ desk' = [desk EXCEPT ![p] = Settlements!Idle]
           /\ settlement[s].by = "none"
      /\ settlement' = [settlement EXCEPT ![s] = doc] /\ order' = Settlements!Marked(S)
      /\ balance' = balance /\ closed' = closed /\ entries' = entries
  BY DEF Settlements!CommitJob, Settlements!Done, Settlements!Goto, Settlements!Set,
     Settlements!Existing
<1>2. S \subseteq Settlements!OrderId
  BY DEF SettlementsInv, Settlements!TypeOK, Settlements!Work
<1>3. new \in Settlements!Settlement /\ new.by = "job" /\ new.orders = S /\ new.payouts = 0
  BY <1>2, SettlementIdle DEF Settlements!NoSettlement, Settlements!Settlement
<1> HIDE DEF new
<1>4. once \in Settlements!Settlement /\ once.by = "job" /\ once.orders = S /\ once.payouts = 0
  BY <1>3, SaveSettlement
<1> HIDE DEF once
<1>5. doc \in Settlements!Settlement /\ doc.by = "job" /\ doc.orders = S /\ doc.payouts = 0
        /\ doc.commission \in Nat
  BY <1>4, SaveSettlement DEF Settlements!Settlement
<1> HIDE DEF doc
<1>6. DocRight(doc)
  BY <1>5 DEF DocRight
<1>7. /\ balance \in Int /\ settlement[s].payouts * settlement[s].commission = 0
      /\ doc.payouts * doc.commission = 0
  <2>1. settlement[s] = Settlements!NoSettlement
    BY <1>1 DEF SettlementsInv, SettlementRows
  <2> QED BY <2>1, <1>5 DEF SettlementsInv, Settlements!TypeOK, Settlements!NoSettlement
<1>8. balance = balance + settlement[s].payouts * settlement[s].commission - doc.payouts * doc.commission
  BY <1>7
<1>9. "race" \notin entries => \A o \in doc.orders : ~order[o]
  BY <1>1, <1>5 DEF SettlementsInv, SettlementStages, Settlements!At
<1>10. order' = Settlements!Marked(doc.orders) /\ ~Settlements!At(p, "idle")
  BY <1>1, <1>5 DEF Settlements!At
<1> HIDE DEF S
<1> QED BY <1>1, <1>6, <1>7, <1>8, <1>9, <1>10, SettlementCommits

LEMMA CommissionPaid ==
    ASSUME SettlementsInv, NEW p \in Session, Settlements!CommitPay(p)
    PROVE  SettlementsInv'
<1> DEFINE s == desk[p].settlement
           old == settlement[s]
           doc == [old EXCEPT !.payouts = @ + 1, !.payable = TRUE, !.paid = TRUE, !.voucher = "payment"]
<1>1. /\ Settlements!At(p, "paying") /\ desk' = [desk EXCEPT ![p] = Settlements!Idle]
      /\ order' = order /\ closed' = closed /\ entries' = entries
  BY DEF Settlements!CommitPay, Settlements!Done, Settlements!Goto
<1>2. CASE closed
  <2>1. settlement' = settlement /\ balance' = balance
    BY <1>2 DEF Settlements!CommitPay
  <2> QED BY <1>1, <2>1, SettlementIdle, SettlementAsks
<1>3. CASE ~closed
  <2>1. settlement' = [settlement EXCEPT ![s] = doc] /\ balance' = balance - old.commission
    BY <1>3 DEF Settlements!CommitPay, Settlements!Set, Settlements!Doc
  <2>2. s \in Settlements!SettlementId /\ old \in Settlements!Settlement /\ old.by # "none"
          /\ balance \in Int
    BY <1>1 DEF SettlementsInv, Settlements!TypeOK, Settlements!Work, SettlementStages,
       Settlements!At
  <2>3. "race" \notin entries => old.payouts = 0
    BY <1>1 DEF SettlementsInv, SettlementStages, Settlements!At
  <2>4. "race" \notin entries /\ old.by = "form" => old.vouchers <= 1
    BY <2>2 DEF SettlementsInv, Settlements!KeptPosted
  <2>5. "closing" \notin entries /\ Settlements!Kept(old.orders) > 0 /\ old.by = "form"
          => old.vouchers >= 1
    BY <2>2 DEF SettlementsInv, Settlements!KeptPosted
  <2>6. old.payouts \in Nat /\ old.commission \in Nat
    BY <2>2 DEF Settlements!Settlement
  <2> HIDE DEF old
  <2>7. /\ doc \in Settlements!Settlement /\ doc.by = old.by /\ doc.orders = old.orders
             /\ doc.payouts = old.payouts + 1
        /\ doc.vouchers = old.vouchers /\ doc.commission = old.commission /\ doc.paid
             /\ doc.payable
        /\ doc.voucher = "payment"
    <3>1. old.payouts + 1 \in Nat /\ "payment" \in Settlements!Link
      BY <2>6 DEF Settlements!Link
    <3> QED BY <2>2, <3>1 DEF Settlements!Settlement
  <2> HIDE DEF doc, s
  <2>8. DocRight(doc)
    BY <2>2, <2>3, <2>4, <2>5, <2>6, <2>7 DEF DocRight
  <2>9. (old.payouts + 1) * old.commission = old.payouts * old.commission + old.commission
        /\ old.payouts * old.commission \in Int
    BY <2>6
  <2>10. balance - old.commission = balance + old.payouts * old.commission - doc.payouts * doc.commission
         /\ balance - old.commission \in Int
    <3> DEFINE x == old.payouts * old.commission
    <3>1. doc.payouts * doc.commission = x + old.commission /\ x \in Int
      BY <2>7, <2>9
    <3> HIDE DEF x
    <3>2. balance - old.commission = balance + x - doc.payouts * doc.commission
      BY <3>1, <2>2, <2>6
    <3> QED BY <3>2, <2>2, <2>6 DEF x
  <2>11. ~Settlements!At(p, "idle") /\ old = settlement[s]
    BY <1>1 DEF Settlements!At, old, s
  <2> HIDE DEF old
  <2> QED BY <1>1, <2>1, <2>2, <2>7, <2>8, <2>10, <2>11, SettlementCommits
<1> QED BY <1>2, <1>3

LEMMA CommissionMarked ==
    ASSUME SettlementsInv, NEW p \in Session, Settlements!CommitManual(p)
    PROVE  SettlementsInv'
<1> DEFINE s == desk[p].settlement
           link == desk[p].voucher
           old == settlement[s]
           new == [old EXCEPT !.paid = TRUE, !.voucher = link]
           doc == Settlements!Saved(new, link)
<1>1. /\ Settlements!At(p, "marking") /\ desk' = [desk EXCEPT ![p] = Settlements!Idle]
      /\ order' = order /\ closed' = closed /\ entries' = entries /\ balance' = balance
      /\ settlement' = [settlement EXCEPT ![s] = doc]
  BY DEF Settlements!CommitManual, Settlements!Done, Settlements!Goto, Settlements!Set,
     Settlements!Doc
<1>2. s \in Settlements!SettlementId /\ old \in Settlements!Settlement /\ old.by # "none"
        /\ balance \in Int /\ link \in Settlements!Link
  BY <1>1 DEF SettlementsInv, Settlements!TypeOK, Settlements!Work, SettlementStages,
    Settlements!At
<1>3. "race" \notin entries => link = old.voucher
  BY <1>1 DEF SettlementsInv, SettlementStages, Settlements!At
<1>4. /\ old.payouts > 0 => old.payable
      /\ "race" \notin entries => old.payouts <= 1
  BY <1>2 DEF SettlementsInv, PayoutsRight
<1>5. old.by = "form" =>
         /\ "race" \notin entries => old.vouchers <= 1
         /\ "closing" \notin entries /\ Settlements!Kept(old.orders) > 0 => old.vouchers >= 1
         /\ "race" \notin entries /\ old.voucher = "none" => old.vouchers = 0
  BY <1>2 DEF SettlementsInv, Settlements!KeptPosted, SettlementRows
<1>6. ~Settlements!At(p, "idle") /\ old = settlement[s]
  BY <1>1 DEF Settlements!At
<1> HIDE DEF old, s, link
<1>7. /\ new \in Settlements!Settlement /\ new.by = old.by /\ new.orders = old.orders
           /\ new.payouts = old.payouts
      /\ new.vouchers = old.vouchers /\ new.commission = old.commission /\ new.paid
      /\ new.payable = old.payable /\ new.voucher = link
  BY <1>2 DEF Settlements!Settlement
<1> HIDE DEF new
<1>8. /\ doc \in Settlements!Settlement /\ doc.by = old.by /\ doc.orders = old.orders
           /\ doc.payouts = old.payouts
      /\ doc.commission = old.commission /\ doc.paid /\ doc.payable = old.payable
      /\ Settlements!Posts(new, link) => doc.voucher = "auto" /\ doc.vouchers = old.vouchers + 1
      /\ ~Settlements!Posts(new, link) => doc.voucher = link /\ doc.vouchers = old.vouchers
  BY <1>7, SaveSettlement
<1>9. Settlements!Posts(new, link) => link = "none"
  BY DEF Settlements!Posts
<1> HIDE DEF doc
<1>10. old.vouchers \in Nat /\ old.payouts \in Nat /\ old.commission \in Nat
  BY <1>2 DEF Settlements!Settlement
<1>11. DocRight(doc)
  BY <1>2, <1>3, <1>4, <1>5, <1>8, <1>9, <1>10 DEF DocRight
<1>12. balance = balance + old.payouts * old.commission - doc.payouts * doc.commission
  <2> DEFINE x == old.payouts * old.commission
  <2>1. doc.payouts * doc.commission = x /\ x \in Int
    BY <1>8, <1>10
  <2> HIDE DEF x
  <2>2. balance = balance + x - doc.payouts * doc.commission
    BY <2>1, <1>2
  <2> QED BY <2>2 DEF x
<1> QED BY <1>1, <1>2, <1>6, <1>8, <1>11, <1>12, SettlementCommits

LEMMA SettlementsStart == Settlements!Init => SettlementsInv
<1> SUFFICES ASSUME Settlements!Init PROVE SettlementsInv
  OBVIOUS
<1>1. Settlements!TypeOK
  BY SettlementIdle, SettlementsNumbers DEF Settlements!Init, Settlements!TypeOK
<1>2. \A p \in Session : desk[p].stage = "idle"
  BY SettlementIdle DEF Settlements!Init
<1>3. \A s \in Settlements!SettlementId : settlement[s] = Settlements!NoSettlement
        /\ settlement[s].by = "none" /\ settlement[s].payouts = 0
  BY DEF Settlements!Init, Settlements!NoSettlement
<1>4. OneSettles /\ SettlementStages /\ SettlementRows /\ MonthOpen /\ Settlements!KeptPosted
  BY <1>2, <1>3 DEF Settlements!Init, OneSettles, SettlementStages, SettlementRows, MonthOpen,
     Settlements!KeptPosted, Settlements!At
<1>5. SettledWell
  BY <1>3 DEF Settlements!Init, SettledWell, Homes
<1>6. PayoutsRight
  <2>1. PaidOut = [s \in Settlements!SettlementId |-> 0]
    <3>1. \A s \in Settlements!SettlementId : settlement[s].payouts * settlement[s].commission = 0
      BY <1>3 DEF Settlements!NoSettlement
    <3> QED BY <3>1 DEF PaidOut
  <2> DEFINE f == [s \in Settlements!SettlementId |-> 0]
  <2>2. f \in [1..Settled -> Int] /\ Settled \in Nat /\ \A s \in 1..Settled : f[s] = 0
    BY SettlementsNumbers DEF Settlements!SettlementId
  <2> HIDE DEF f
  <2>3. SumTo(f, Settled) = 0
    BY <2>2, SumToZero
  <2>4. SumTo(PaidOut, Settled) = 0
    BY <2>1, <2>3 DEF f
  <2> QED BY <2>4, <1>3, SettlementsNumbers DEF PayoutsRight, Settlements!Init
<1> QED BY <1>1, <1>4, <1>5, <1>6 DEF SettlementsInv

LEMMA SettlementsStep == SettlementsInv /\ [Settlements!Next]_(Settlements!vars)
    => SettlementsInv'
<1> SUFFICES ASSUME SettlementsInv, [Settlements!Next]_(Settlements!vars) PROVE SettlementsInv'
  OBVIOUS
<1>1. CASE Settlements!Close
  BY <1>1 DEF Settlements!Close, SettlementsInv, Settlements!TypeOK, OneSettles, SettlementStages,
     SettlementRows, MonthOpen,
     SettledWell, Homes, PayoutsRight, PaidOut, Settlements!KeptPosted, Settlements!At
<1>2. ASSUME NEW p \in Session, Settlements!Crash(p) PROVE SettlementsInv'
  BY <1>2, SettlementIdle, SettlementAsks DEF Settlements!Crash, Settlements!Done,
    Settlements!Goto
<1>3. CASE UNCHANGED Settlements!vars
  BY <1>3 DEF Settlements!vars, SettlementsInv, Settlements!TypeOK, OneSettles, SettlementStages,
     SettlementRows, MonthOpen,
     SettledWell, Homes, PayoutsRight, PaidOut, Settlements!KeptPosted, Settlements!At
<1> QED BY <1>1, <1>2, <1>3, CreateAsked, JobStarted, SettlementAsked, SettlementCreated,
   JobCommitted,
           CommissionPaid, CommissionMarked DEF Settlements!Next

LEMMA SettlementsKeep == SettlementsInv => Settlements!TypeOK /\ Settlements!SettledOnce
    /\ Settlements!PayoutsExact /\ Settlements!KeptPosted
<1> SUFFICES ASSUME SettlementsInv PROVE Settlements!TypeOK /\ Settlements!SettledOnce
                    /\ Settlements!PayoutsExact /\ Settlements!KeptPosted
  OBVIOUS
<1>1. Settlements!SettledOnce
  <2> SUFFICES ASSUME NEW o \in Settlements!OrderId
               PROVE  /\ order[o] <=> Homes(o) # {}
                      /\ "race" \notin entries => Cardinality(Homes(o)) <= 1
    BY SettlementsCardinality DEF Settlements!SettledOnce, Homes, Settlements!Existing
  <2>1. ASSUME "race" \notin entries PROVE Cardinality(Homes(o)) <= 1
    <3>1. CASE Homes(o) = {}
      BY <3>1, FS_EmptySet
    <3>2. CASE Homes(o) # {}
      <4>1. PICK s \in Homes(o) : TRUE
        BY <3>2
      <4>2. Homes(o) = {s}
        BY <4>1, <2>1 DEF SettlementsInv, SettledWell
      <4>3. Cardinality({s}) = 1
        BY FS_Singleton
      <4> QED BY <4>2, <4>3
    <3> QED BY <3>1, <3>2
  <2> QED BY <2>1 DEF SettlementsInv, SettledWell
<1>2. Settlements!PayoutsExact
  BY SettlementsSum DEF SettlementsInv, PayoutsRight, PaidOut, Settlements!PayoutsExact
<1> QED BY <1>1, <1>2 DEF SettlementsInv

-----------------------------------------------------------------------------
(* Electronic tax invoices. *)

\* The cardinality of the instance is that of the lemmas.
LEMMA EInvoicesCardinality == \A S : EInvoices!Cardinality(S) = Cardinality(S)
BY DEF EInvoices!Cardinality, Cardinality

\* What the constants of this part are.
LEMMA EInvoicesNumbers ==
    InvoiceCount \in Nat \ {0} /\ TaxDocuments \in Nat /\ Threshold \in Nat \ {0}
BY BackOfficeAssumption

-----------------------------------------------------------------------------
(* The invariant. *)

Busy(p) == desk[p].stage # "idle"
CancelledAt(i) == \E d \in EInvoices!DocumentId : nts[d] = [owner |-> i, status |-> "CANCELLED"]

\* Documents are numbered as they come in, and one that an invoice names is its
\* own.
Filed ==
    /\ \E k \in 0..TaxDocuments : EInvoices!Sent = 1..k
    /\ \A d \in EInvoices!DocumentId : nts[d].owner = 0 <=> nts[d].status = "NONE"
    /\ \A i \in EInvoices!InvoiceId :
          /\ invoiced[i].document # 0 => nts[invoiced[i].document].owner = i
          /\ invoiced[i].status = "CANCELLED" => CancelledAt(i)
          /\ "edit" \notin entries /\ invoiced[i].status # "NONE" => invoiced[i].document # 0

\* What a request keeps of an invoice is no less true.
Right(w, x) ==
    /\ x.document # 0 => nts[x.document].owner = x.invoice
    /\ x.status = "CANCELLED" => CancelledAt(x.invoice)
    /\ w.act \in {"query", "cancel"} =>
          /\ x.document # 0
          /\ "edit" \notin entries => invoiced[x.invoice].document # 0
Helds ==
    \A p \in Session :
        LET w == desk[p] IN
        w.stage # "idle" =>
            /\ Right(w, w.item) /\ \A x \in w.rest : Right(w, x)
            /\ w.stage = "editing" <=> w.act = "edit"
            /\ w.act = "edit" => "edit" \in entries
            /\ w.stage = "saving" => w.item.document # 0

\* One at a time, no other request is there, each invoice is kept once, and its
\* number is the one it has, until a new number is to be saved.
Apart(w) ==
    /\ \A x \in w.rest : x.invoice # w.item.invoice /\ invoiced[x.invoice].document = x.document
    /\ \A x, y \in w.rest : x.invoice = y.invoice => x = y
    /\ w.stage # "saving" \/ w.act # "issue"
         => invoiced[w.item.invoice].document = w.item.document
OneFiles ==
    "race" \notin entries => \A p \in Session :
        Busy(p) => Apart(desk[p]) /\ \A q \in Session : q # p => ~Busy(q)

\* An invoice without a number has no document, but one whose number is about
\* to be saved.
Quiet == entries \cap {"race", "lost", "crash"} = {}
OneFiled ==
    Quiet =>
        /\ \A d, e \in EInvoices!DocumentId : nts[d].owner # 0 /\ nts[d].owner = nts[e].owner
             => d = e
        /\ \A i \in EInvoices!InvoiceId :
              invoiced[i].document = 0 =>
                  \/ \A d \in EInvoices!DocumentId : nts[d].owner # i
                  \/ \E p \in Session :
                        EInvoices!At(p, "saving") /\ desk[p].act = "issue"
                          /\ desk[p].item.invoice = i

FilingInv ==
    /\ EInvoices!TypeOK /\ EInvoices!ClosedBelowThreshold
    /\ Filed /\ Helds /\ OneFiles /\ OneFiled

-----------------------------------------------------------------------------
(* The breaker, the documents and what a request keeps. *)

LEMMA FilingIdle ==
    EInvoices!Idle \in EInvoices!Work /\ EInvoices!Idle.stage = "idle"
BY EInvoicesNumbers DEF EInvoices!Idle, EInvoices!Work, EInvoices!NoItem, EInvoices!Item,
   EInvoices!InvoiceId, EInvoices!Status

LEMMA BreakerCounts ==
    ASSUME NEW b \in EInvoices!Breaker, b.state = "closed" => b.failures < Threshold
    PROVE  /\ EInvoices!Looked(b) \in EInvoices!Breaker
                /\ (EInvoices!Looked(b).state = "closed" => EInvoices!Looked(b).failures < Threshold)
           /\ EInvoices!Succeeded(b) \in EInvoices!Breaker
                /\ (EInvoices!Succeeded(b).state = "closed" => EInvoices!Succeeded(b).failures < Threshold)
           /\ EInvoices!Failed(b) \in EInvoices!Breaker
                /\ (EInvoices!Failed(b).state = "closed" => EInvoices!Failed(b).failures < Threshold)
<1>1. EInvoices!Looked(b) \in EInvoices!Breaker
        /\ (EInvoices!Looked(b).state = "closed" => EInvoices!Looked(b).failures < Threshold)
  BY DEF EInvoices!Looked, EInvoices!Breaker
<1>2. EInvoices!Succeeded(b) \in EInvoices!Breaker
        /\ (EInvoices!Succeeded(b).state = "closed" => EInvoices!Succeeded(b).failures < Threshold)
  <2> DEFINE s == IF b.state = "half_open" THEN "closed" ELSE b.state
  <2>1. s \in {"closed", "open", "half_open"}
          /\ EInvoices!Succeeded(b) = [b EXCEPT !.failures = 0, !.state = s]
    BY DEF EInvoices!Succeeded, EInvoices!Breaker
  <2> HIDE DEF s
  <2>2. /\ [b EXCEPT !.failures = 0, !.state = s] \in EInvoices!Breaker
        /\ [b EXCEPT !.failures = 0, !.state = s].failures = 0
    BY <2>1 DEF EInvoices!Breaker
  <2>3. EInvoices!Succeeded(b) \in EInvoices!Breaker /\ EInvoices!Succeeded(b).failures = 0
    BY <2>1, <2>2
  <2> QED BY <2>3, EInvoicesNumbers
<1>3. EInvoices!Failed(b) \in EInvoices!Breaker
        /\ (EInvoices!Failed(b).state = "closed" => EInvoices!Failed(b).failures < Threshold)
  <2> DEFINE m == IF b.failures < Threshold THEN b.failures + 1 ELSE b.failures
             s == IF b.failures + 1 >= Threshold THEN "open" ELSE b.state
  <2>1. m \in Nat /\ s \in {"closed", "open", "half_open"} /\ (s = "closed" => m < Threshold)
    BY EInvoicesNumbers DEF EInvoices!Breaker
  <2>2. EInvoices!Failed(b) = [b EXCEPT !.failures = m, !.cooled = FALSE, !.state = s]
    BY DEF EInvoices!Failed, EInvoices!Breaker
  <2> HIDE DEF m, s
  <2> QED BY <2>1, <2>2 DEF EInvoices!Breaker
<1> QED BY <1>1, <1>2, <1>3

LEMMA FirstIn ==
    ASSUME NEW items \in SUBSET EInvoices!Item, items # {}
    PROVE  EInvoices!First(items) \in items
<1> DEFINE T == {x.invoice : x \in items}
<1>1. T \subseteq Nat /\ T # {}
  BY EInvoicesNumbers DEF EInvoices!Item, EInvoices!InvoiceId
<1>2. PICK n \in T : \A m \in T : n <= m
  BY <1>1, LeastOne
<1>3. PICK x \in items : x.invoice = n
  BY <1>2
<1>4. \E y \in items : \A z \in items : y.invoice <= z.invoice
  BY <1>2, <1>3
<1> QED BY <1>4 DEF EInvoices!First

LEMMA FilingFacts ==
    ASSUME FilingInv, NEW p \in Session
    PROVE  /\ desk[p] \in EInvoices!Work /\ desk[p].item \in EInvoices!Item
                /\ desk[p].rest \in SUBSET EInvoices!Item
           /\ desk[p].item.invoice \in EInvoices!InvoiceId
           /\ desk[p].item.document \in 0..TaxDocuments
           /\ breaker \in EInvoices!Breaker
                /\ (breaker.state = "closed" => breaker.failures < Threshold)
BY DEF FilingInv, EInvoices!TypeOK, EInvoices!ClosedBelowThreshold, EInvoices!Work, EInvoices!Item

LEMMA NextRight ==
    ASSUME NEW w \in EInvoices!Work
    PROVE  \/ EInvoices!NextItem(w) = EInvoices!Idle
           \/ /\ EInvoices!NextItem(w) \in EInvoices!Work
                /\ EInvoices!NextItem(w).stage = "checking" /\ EInvoices!NextItem(w).act = w.act
              /\ EInvoices!NextItem(w).item \in w.rest
                   /\ EInvoices!NextItem(w).rest = w.rest \ {EInvoices!NextItem(w).item}
<1> SUFFICES ASSUME w.rest # {} PROVE
              /\ EInvoices!NextItem(w) \in EInvoices!Work
                   /\ EInvoices!NextItem(w).stage = "checking"
                        /\ EInvoices!NextItem(w).act = w.act
              /\ EInvoices!NextItem(w).item \in w.rest
                   /\ EInvoices!NextItem(w).rest = w.rest \ {EInvoices!NextItem(w).item}
  BY DEF EInvoices!NextItem
<1> DEFINE x == EInvoices!First(w.rest)
           r == w.rest \ {x}
<1>1. w.rest \in SUBSET EInvoices!Item
  BY DEF EInvoices!Work
<1>2. x \in w.rest /\ x \in EInvoices!Item /\ r \in SUBSET EInvoices!Item
  BY <1>1, FirstIn
<1>3. EInvoices!NextItem(w) = [w EXCEPT !.stage = "checking", !.item = x, !.rest = r]
  BY DEF EInvoices!NextItem, EInvoices!Work
<1>4. r = w.rest \ {x}
  OBVIOUS
<1> HIDE DEF x, r
<1> QED BY <1>2, <1>3, <1>4 DEF EInvoices!Work

LEMMA FilingMoves ==
    ASSUME FilingInv, NEW p \in Session, NEW w \in EInvoices!Work, desk' = [desk EXCEPT ![p] = w],
           entries' = entries, breaker' \in EInvoices!Breaker, EInvoices!ClosedBelowThreshold',
           nts' \in [EInvoices!DocumentId -> EInvoices!Document],
             invoiced' \in [EInvoices!InvoiceId -> EInvoices!Invoice], Filed', OneFiled',
           \A d \in EInvoices!DocumentId : nts[d].owner # 0 =>
              nts'[d].owner = nts[d].owner /\ (nts[d].status = "CANCELLED" => nts'[d] = nts[d]),
           "edit" \notin entries =>
              \A i \in EInvoices!InvoiceId : invoiced[i].document # 0
                => invoiced'[i].document # 0,
           w.stage # "idle" =>
              /\ Right(w, w.item)' /\ \A x \in w.rest : Right(w, x)'
              /\ w.stage = "editing" <=> w.act = "edit"
              /\ w.act = "edit" => "edit" \in entries
              /\ w.stage = "saving" => w.item.document # 0,
           "race" \notin entries =>
              /\ w.stage # "idle" => Apart(w)'
              /\ \A q \in Session : q # p => ~Busy(q)
    PROVE  FilingInv'
<1>1. desk'[p] = w /\ \A q \in Session : q # p => desk'[q] = desk[q]
  BY DEF FilingInv, EInvoices!TypeOK
<1>2. EInvoices!TypeOK'
  <2>1. desk' \in [Session -> EInvoices!Work]
    BY DEF FilingInv, EInvoices!TypeOK
  <2> QED BY <2>1 DEF FilingInv, EInvoices!TypeOK
<1>3. ASSUME NEW o \in EInvoices!Work, NEW x \in EInvoices!Item, Right(o, x) PROVE Right(o, x)'
  <2>1. x.document \in 0..TaxDocuments /\ x.invoice \in EInvoices!InvoiceId /\ x.invoice # 0
    BY EInvoicesNumbers DEF EInvoices!Item, EInvoices!InvoiceId
  <2>2. x.document # 0 => nts'[x.document].owner = x.invoice
    BY <1>3, <2>1, EInvoicesNumbers DEF Right, EInvoices!DocumentId
  <2>3. x.status = "CANCELLED" => CancelledAt(x.invoice)'
    <3> SUFFICES ASSUME x.status = "CANCELLED" PROVE CancelledAt(x.invoice)'
      OBVIOUS
    <3>1. PICK d \in EInvoices!DocumentId : nts[d] = [owner |-> x.invoice, status |-> "CANCELLED"]
      BY <1>3 DEF Right, CancelledAt
    <3>2. nts'[d] = nts[d]
      BY <2>1, <3>1
    <3> QED BY <3>1, <3>2 DEF CancelledAt
  <2> QED BY <1>3, <2>1, <2>2, <2>3 DEF Right
<1>4. Helds'
  <2> SUFFICES ASSUME NEW q \in Session PROVE Helds!(q)'
    BY DEF Helds
  <2>1. CASE q = p
    BY <2>1, <1>1
  <2>2. CASE q # p
    <3> SUFFICES ASSUME desk[q].stage # "idle" PROVE Helds!(q)'
      BY <1>1, <2>2
    <3>1. /\ Right(desk[q], desk[q].item) /\ \A x \in desk[q].rest : Right(desk[q], x)
          /\ desk[q].stage = "editing" <=> desk[q].act = "edit"
          /\ desk[q].act = "edit" => "edit" \in entries
          /\ desk[q].stage = "saving" => desk[q].item.document # 0
      BY DEF FilingInv, Helds
    <3>2. desk[q] \in EInvoices!Work /\ desk[q].item \in EInvoices!Item
            /\ desk[q].rest \in SUBSET EInvoices!Item
      BY FilingFacts
    <3>3. PICK u : u = desk[q]
      OBVIOUS
    <3>4. Right(u, u.item)' /\ \A x \in u.rest : Right(u, x)'
      BY <3>1, <3>2, <3>3, <1>3
    <3>5. desk'[q] = u
      BY <1>1, <2>2, <3>3
    <3> QED BY <3>1, <3>3, <3>4, <3>5
  <2> QED BY <2>1, <2>2
<1>5. OneFiles'
  <2> SUFFICES ASSUME "race" \notin entries, NEW q \in Session, desk'[q].stage # "idle"
               PROVE  Apart(desk[q])' /\ \A r \in Session : r # q => desk'[r].stage = "idle"
    BY DEF OneFiles, Busy
  <2>1. q = p
    BY <1>1 DEF Busy
  <2> QED BY <2>1, <1>1 DEF Busy
<1> QED BY <1>2, <1>4, <1>5 DEF FilingInv

\* A request that leaves invoices and documents alone.
LEMMA FilingGoes ==
    ASSUME FilingInv, NEW p \in Session, NEW w \in EInvoices!Work, desk' = [desk EXCEPT ![p] = w],
           UNCHANGED <<invoiced, nts, entries>>, breaker' \in EInvoices!Breaker,
             EInvoices!ClosedBelowThreshold',
           EInvoices!At(p, "saving") => "crash" \in entries,
           Busy(p) \/ EInvoices!MayAsk(p),
           w.stage # "idle" =>
              /\ Right(w, w.item) /\ \A x \in w.rest : Right(w, x)
              /\ w.stage = "editing" <=> w.act = "edit"
              /\ w.act = "edit" => "edit" \in entries
              /\ w.stage # "saving",
           "race" \notin entries /\ w.stage # "idle" => Apart(w)
    PROVE  FilingInv'
<1>1. desk'[p] = w /\ \A q \in Session : q # p => desk'[q] = desk[q]
  BY DEF FilingInv, EInvoices!TypeOK
<1>2. nts' \in [EInvoices!DocumentId -> EInvoices!Document]
        /\ invoiced' \in [EInvoices!InvoiceId -> EInvoices!Invoice]
  BY DEF FilingInv, EInvoices!TypeOK
<1>3. Filed'
  BY DEF FilingInv, Filed, EInvoices!Sent, CancelledAt
<1>4. OneFiled'
  <2> SUFFICES ASSUME Quiet PROVE OneFiled'
    BY DEF OneFiled, Quiet
  <2>1. ~EInvoices!At(p, "saving")
    BY DEF Quiet
  <2>2. \A q \in Session : EInvoices!At(q, "saving") => desk'[q] = desk[q]
    BY <1>1, <2>1
  <2> QED BY <2>2 DEF FilingInv, OneFiled, EInvoices!At
<1>5. "race" \notin entries => \A q \in Session : q # p => ~Busy(q)
  BY DEF FilingInv, OneFiles, EInvoices!MayAsk, Busy, EInvoices!At
<1>6. /\ \A x : Right(w, x) => Right(w, x)'
      /\ Apart(w) => Apart(w)'
  BY DEF Right, Apart, CancelledAt
<1> QED BY <1>2, <1>3, <1>4, <1>5, <1>6, FilingMoves

\* What a request keeps, by the parts of the invariant.
LEMMA FilingKept ==
    ASSUME FilingInv, NEW p \in Session, Busy(p)
    PROVE  /\ Right(desk[p], desk[p].item)
           /\ \A x \in desk[p].rest : Right(desk[p], x)
           /\ desk[p].stage = "editing" <=> desk[p].act = "edit"
           /\ desk[p].act = "edit" => "edit" \in entries
           /\ desk[p].stage = "saving" => desk[p].item.document # 0
           /\ "race" \notin entries =>
                 Apart(desk[p]) /\ \A q \in Session : q # p => ~Busy(q)
BY DEF FilingInv, Helds, OneFiles, Busy

LEMMA FilingSteps ==
    ASSUME FilingInv, NEW p \in Session, NEW stage, NEW token \in BOOLEAN,
           stage \in {"entering", "authenticating", "sending"},
           desk' = [desk EXCEPT ![p] = [desk[p] EXCEPT !.stage = stage, !.token = token]],
           UNCHANGED <<invoiced, nts, entries>>, breaker' \in EInvoices!Breaker,
             EInvoices!ClosedBelowThreshold',
           desk[p].stage \in {"checking", "entering", "authenticating"}
    PROVE  FilingInv'
<1> DEFINE o == desk[p]
           w == [o EXCEPT !.stage = stage, !.token = token]
<1>1. /\ w \in EInvoices!Work /\ w.stage = stage /\ w.act = o.act /\ w.item = o.item
           /\ w.rest = o.rest
      /\ o.stage \notin {"idle", "editing", "saving"}
  BY FilingFacts DEF EInvoices!Work
<1>2. Busy(p) /\ ~EInvoices!At(p, "saving")
  BY DEF Busy, EInvoices!At
<1>3. /\ Right(o, o.item) /\ \A x \in o.rest : Right(o, x)
      /\ o.act # "edit" /\ ("race" \notin entries => Apart(o))
  BY <1>1, <1>2, FilingKept
<1>4. desk' = [desk EXCEPT ![p] = w]
  OBVIOUS
<1> HIDE DEF o, w
<1>5. /\ \A x : Right(o, x) => Right(w, x)
      /\ Apart(o) => Apart(w)
  BY <1>1 DEF Right, Apart
<1> QED BY <1>1, <1>2, <1>3, <1>4, <1>5, FilingGoes

\* A call that fails is given up.
LEMMA FilingFails ==
    ASSUME FilingInv, NEW p \in Session,
           desk' = [desk EXCEPT ![p] = EInvoices!OnFailure(desk[p])],
           UNCHANGED <<invoiced, nts, entries>>, breaker' \in EInvoices!Breaker,
             EInvoices!ClosedBelowThreshold',
           desk[p].stage \in {"checking", "entering", "authenticating", "sending"}
    PROVE  FilingInv'
<1> DEFINE o == desk[p]
           w == EInvoices!NextItem(o)
<1>1. o \in EInvoices!Work /\ o.stage \notin {"idle", "editing", "saving"}
        /\ desk' = [desk EXCEPT ![p] = w]
  BY FilingFacts DEF EInvoices!OnFailure
<1>2. Busy(p) /\ ~EInvoices!At(p, "saving")
  BY DEF Busy, EInvoices!At
<1>3. /\ Right(o, o.item) /\ \A x \in o.rest : Right(o, x)
      /\ o.act # "edit" /\ ("race" \notin entries => Apart(o))
  BY <1>1, <1>2, FilingKept
<1>4. \/ w = EInvoices!Idle
      \/ /\ w \in EInvoices!Work /\ w.stage = "checking" /\ w.act = o.act
         /\ w.item \in o.rest /\ w.rest = o.rest \ {w.item}
  BY <1>1, NextRight
<1> HIDE DEF o, w
<1>5. CASE w = EInvoices!Idle
  BY <1>1, <1>2, <1>5, FilingIdle, FilingGoes
<1>6. CASE /\ w \in EInvoices!Work /\ w.stage = "checking" /\ w.act = o.act
           /\ w.item \in o.rest /\ w.rest = o.rest \ {w.item}
  <2>1. Right(w, w.item) /\ \A x \in w.rest : Right(w, x)
    BY <1>3, <1>6 DEF Right
  <2>2. Apart(o) => Apart(w)
    BY <1>6 DEF Apart
  <2> QED BY <1>1, <1>2, <1>3, <1>6, <2>1, <2>2, FilingGoes
<1> QED BY <1>4, <1>5, <1>6

LEMMA FilingDies ==
    ASSUME FilingInv, NEW p \in Session, EInvoices!Crash(p)
    PROVE  FilingInv'
<1>1. desk' = [desk EXCEPT ![p] = EInvoices!Idle] /\ Busy(p) /\ "crash" \in entries
  BY DEF EInvoices!Crash, EInvoices!Done, EInvoices!Goto, Busy, EInvoices!At
<1>2. breaker' \in EInvoices!Breaker /\ EInvoices!ClosedBelowThreshold'
  BY EInvoicesNumbers DEF EInvoices!Crash, EInvoices!Breaker, EInvoices!ClosedBelowThreshold
<1> QED BY <1>1, <1>2, FilingIdle, FilingGoes DEF EInvoices!Crash

-----------------------------------------------------------------------------
(* What is asked for. *)

\* What is read of an invoice is right.
LEMMA ReadRight ==
    ASSUME FilingInv, NEW i \in EInvoices!InvoiceId
    PROVE  /\ EInvoices!Read(i) \in EInvoices!Item /\ EInvoices!Read(i).invoice = i
           /\ EInvoices!Read(i).document = invoiced[i].document
                /\ EInvoices!Read(i).status = invoiced[i].status
           /\ \A w : w.act \notin {"query", "cancel"} \/ invoiced[i].document # 0
                => Right(w, EInvoices!Read(i))
<1>1. invoiced[i] \in EInvoices!Invoice
  BY DEF FilingInv, EInvoices!TypeOK
<1>2. /\ invoiced[i].document # 0 => nts[invoiced[i].document].owner = i
      /\ invoiced[i].status = "CANCELLED" => CancelledAt(i)
  BY DEF FilingInv, Filed
<1>3. /\ EInvoices!Read(i) \in EInvoices!Item /\ EInvoices!Read(i).invoice = i
      /\ EInvoices!Read(i).document = invoiced[i].document
           /\ EInvoices!Read(i).status = invoiced[i].status
  BY <1>1 DEF EInvoices!Read, EInvoices!Item, EInvoices!Invoice
<1> QED BY <1>2, <1>3 DEF Right

LEMMA FilingAsks ==
    ASSUME FilingInv, NEW p \in Session, NEW act \in {"issue", "query", "cancel", "edit"},
           NEW I \in SUBSET EInvoices!InvoiceId, I # {}, NEW stage,
           stage = IF act = "edit" THEN "editing" ELSE "checking",
           EInvoices!MayAsk(p), EInvoices!Ask(p, act, {EInvoices!Read(i) : i \in I}, stage),
             act = "edit" => "edit" \in entries,
           act \in {"query", "cancel"} => \A i \in I : invoiced[i].document # 0,
           UNCHANGED <<invoiced, nts, breaker, entries>>
    PROVE  FilingInv'
<1> DEFINE items == {EInvoices!Read(i) : i \in I}
           x1 == EInvoices!First(items)
           w == [stage |-> stage, act |-> act, item |-> x1, rest |-> items \ {x1}, token |-> FALSE]
<1>1. items \in SUBSET EInvoices!Item /\ items # {}
  BY ReadRight
<1>2. x1 \in items
  BY <1>1, FirstIn
<1>3. w \in EInvoices!Work /\ w.stage = stage /\ w.act = act /\ w.item = x1
        /\ w.rest = items \ {x1}
  BY <1>1, <1>2 DEF EInvoices!Work
<1>4. desk' = [desk EXCEPT ![p] = w]
  BY DEF EInvoices!Ask, EInvoices!Goto
<1>5. \A x \in items : x.invoice \in I /\ x = EInvoices!Read(x.invoice)
  BY ReadRight
<1>6. \A x \in items : x.document = invoiced[x.invoice].document
  BY <1>5, ReadRight
<1>7. /\ breaker' \in EInvoices!Breaker /\ EInvoices!ClosedBelowThreshold'
  BY DEF FilingInv, EInvoices!TypeOK, EInvoices!ClosedBelowThreshold
<1>8. ~EInvoices!At(p, "saving")
  BY DEF EInvoices!MayAsk, EInvoices!At
<1> HIDE DEF items, x1, w
<1>9. \A x \in items : Right(w, x)
  BY <1>3, <1>5, ReadRight
<1>10. Apart(w)
  BY <1>2, <1>3, <1>5, <1>6 DEF Apart
<1> QED BY <1>2, <1>3, <1>4, <1>7, <1>8, <1>9, <1>10, FilingGoes

LEMMA InvoiceAsked ==
    ASSUME FilingInv, NEW p \in Session, NEW i \in EInvoices!InvoiceId,
           EInvoices!AskIssue(p, i) \/ EInvoices!AskQuery(p, i) \/ EInvoices!AskCancel(p, i)
             \/ EInvoices!AskEdit(p, i)
    PROVE  FilingInv'
<1>1. {EInvoices!Read(j) : j \in {i}} = {EInvoices!Read(i)} /\ {i} \in SUBSET EInvoices!InvoiceId
        /\ {i} # {}
  OBVIOUS
<1>2. CASE EInvoices!AskIssue(p, i)
  <2>1. EInvoices!MayAsk(p)
          /\ EInvoices!Ask(p, "issue", {EInvoices!Read(j) : j \in {i}}, "checking")
        /\ UNCHANGED <<invoiced, nts, breaker, entries>>
    BY <1>1, <1>2 DEF EInvoices!AskIssue
  <2> QED BY <1>1, <2>1, FilingAsks
<1>3. CASE EInvoices!AskQuery(p, i)
  <2>1. EInvoices!MayAsk(p)
          /\ EInvoices!Ask(p, "query", {EInvoices!Read(j) : j \in {i}}, "checking")
               /\ invoiced[i].document # 0
        /\ UNCHANGED <<invoiced, nts, breaker, entries>>
    BY <1>1, <1>3 DEF EInvoices!AskQuery
  <2> QED BY <1>1, <2>1, FilingAsks
<1>4. CASE EInvoices!AskCancel(p, i)
  <2>1. EInvoices!MayAsk(p)
          /\ EInvoices!Ask(p, "cancel", {EInvoices!Read(j) : j \in {i}}, "checking")
               /\ invoiced[i].document # 0
        /\ UNCHANGED <<invoiced, nts, breaker, entries>>
    BY <1>1, <1>4 DEF EInvoices!AskCancel
  <2> QED BY <1>1, <2>1, FilingAsks
<1>5. CASE EInvoices!AskEdit(p, i)
  <2>1. EInvoices!MayAsk(p)
          /\ EInvoices!Ask(p, "edit", {EInvoices!Read(j) : j \in {i}}, "editing")
               /\ "edit" \in entries
        /\ UNCHANGED <<invoiced, nts, breaker, entries>>
    BY <1>1, <1>5 DEF EInvoices!AskEdit
  <2> QED BY <1>1, <2>1, FilingAsks
<1> QED BY <1>2, <1>3, <1>4, <1>5

LEMMA BatchAsked ==
    ASSUME FilingInv, NEW p \in Session, EInvoices!AskBatch(p)
    PROVE  FilingInv'
<1>1. PICK I \in SUBSET EInvoices!InvoiceId :
        /\ I # {} /\ EInvoices!MayAsk(p)
             /\ EInvoices!Ask(p, "issue", {EInvoices!Read(i) : i \in I}, "checking")
        /\ UNCHANGED <<invoiced, nts, breaker, entries>>
  BY DEF EInvoices!AskBatch
<1> QED BY <1>1, FilingAsks

LEMMA BreakerLooked ==
    ASSUME FilingInv, NEW p \in Session, EInvoices!Check(p) \/ EInvoices!Enter(p)
           \/ EInvoices!Authenticate(p)
    PROVE  FilingInv'
<1>1. /\ desk[p] \in EInvoices!Work /\ breaker' \in EInvoices!Breaker
           /\ EInvoices!ClosedBelowThreshold'
      /\ UNCHANGED <<invoiced, nts, entries>>
      /\ desk[p].stage \in {"checking", "entering", "authenticating"}
  <2>1. breaker' \in {EInvoices!Looked(breaker), EInvoices!Succeeded(breaker), EInvoices!Failed(breaker)}
    BY DEF EInvoices!Check, EInvoices!Enter, EInvoices!Authenticate
  <2>2. desk[p] \in EInvoices!Work /\ breaker \in EInvoices!Breaker
          /\ (breaker.state = "closed" => breaker.failures < Threshold)
    BY FilingFacts
  <2>3. breaker' \in EInvoices!Breaker /\ EInvoices!ClosedBelowThreshold'
    BY <2>1, <2>2, BreakerCounts DEF EInvoices!ClosedBelowThreshold
  <2> QED BY <2>2, <2>3 DEF EInvoices!Check, EInvoices!Enter, EInvoices!Authenticate, EInvoices!At
<1>2. \/ desk' = [desk EXCEPT ![p] = EInvoices!OnFailure(desk[p])]
      \/ \E stage \in {"entering", "authenticating", "sending"}, token \in BOOLEAN :
            desk' = [desk EXCEPT ![p] = [desk[p] EXCEPT !.stage = stage, !.token = token]]
  <2>1. desk[p].token \in BOOLEAN
    BY <1>1 DEF EInvoices!Work
  <2>2. \A stage : [desk[p] EXCEPT !.stage = stage]
                      = [desk[p] EXCEPT !.stage = stage, !.token = desk[p].token]
    BY <1>1 DEF EInvoices!Work
  <2>3. ASSUME NEW stage \in {"entering", "authenticating", "sending"}, EInvoices!Step(p, stage)
        PROVE  desk' = [desk EXCEPT ![p] =
                           [desk[p] EXCEPT !.stage = stage, !.token = desk[p].token]]
    BY <2>2, <2>3 DEF EInvoices!Step, EInvoices!Goto
  <2>4. CASE EInvoices!Check(p)
    BY <2>1, <2>3, <2>4 DEF EInvoices!Check, EInvoices!Goto
  <2>5. CASE EInvoices!Enter(p)
    BY <2>1, <2>3, <2>5 DEF EInvoices!Enter, EInvoices!Goto
  <2>6. CASE EInvoices!Authenticate(p)
    BY <2>6 DEF EInvoices!Authenticate, EInvoices!Goto
  <2> QED BY <2>4, <2>5, <2>6
<1> QED BY <1>1, <1>2, FilingFails, FilingSteps

-----------------------------------------------------------------------------
(* The call and what is saved of it. *)

\* What the tax office has after it receives a call.
LEMMA CallReceived ==
    ASSUME FilingInv, NEW w \in EInvoices!Work, NEW d, w.act \in {"issue", "query", "cancel"},
           Right(w, w.item),
             d = IF w.act = "issue" THEN EInvoices!Draw(w.item) ELSE w.item.document,
           d <= TaxDocuments, nts' = EInvoices!Received(w.act, w.item, d)
    PROVE  /\ d \in EInvoices!DocumentId /\ nts' \in [EInvoices!DocumentId -> EInvoices!Document]
           /\ nts'[d].owner = w.item.invoice /\ nts'[d].status # "NONE"
           /\ \A e \in EInvoices!DocumentId : e # d => nts'[e] = nts[e]
           /\ nts[d].owner = 0 \/ nts[d].owner = w.item.invoice
           /\ nts[d].owner = 0 => w.item.document = 0 /\ w.act = "issue"
                /\ \A k \in 0..TaxDocuments : EInvoices!Sent = 1..k => d = k + 1
           /\ nts[d].status = "CANCELLED" => nts'[d] = nts[d]
           /\ w.act = "cancel" => nts'[d].status = "CANCELLED"
           /\ w.act = "query" => nts' = nts
<1> DEFINE v == w.item
           i == v.invoice
<1>1. /\ v \in EInvoices!Item /\ i \in EInvoices!InvoiceId /\ v.document \in 0..TaxDocuments
           /\ i \in 0..InvoiceCount /\ i # 0
      /\ nts \in [EInvoices!DocumentId -> EInvoices!Document]
  BY EInvoicesNumbers DEF EInvoices!Work, EInvoices!Item, EInvoices!InvoiceId, FilingInv,
     EInvoices!TypeOK
<1>2. v.document # 0 => nts[v.document].owner = i
  BY DEF Right
<1>3. PICK k \in 0..TaxDocuments : EInvoices!Sent = 1..k
  BY DEF FilingInv, Filed
<1>4. Cardinality(EInvoices!Sent) = k
  BY <1>3, FS_Interval
<1>5. \A e \in EInvoices!DocumentId : nts[e].owner = 0 <=> nts[e].status = "NONE"
  BY DEF FilingInv, Filed
<1>6. d = IF w.act = "issue" /\ v.document = 0 THEN k + 1 ELSE v.document
  BY <1>4, EInvoicesCardinality DEF EInvoices!Draw
<1>7. w.act \in {"query", "cancel"} => v.document # 0
  BY DEF Right
<1>8. d \in EInvoices!DocumentId
  BY <1>1, <1>6, <1>7, EInvoicesNumbers DEF EInvoices!DocumentId
<1>9. nts[d] \in EInvoices!Document /\ nts[d].owner \in 0..InvoiceCount
  BY <1>1, <1>8 DEF EInvoices!Document
<1>10. d \notin EInvoices!Sent <=> nts[d].owner = 0
  BY <1>8 DEF EInvoices!Sent
<1>11. v.document = 0 /\ w.act = "issue" => nts[d].owner = 0 /\ nts[d].status = "NONE"
  <2>1. k + 1 \notin 1..k
    OBVIOUS
  <2> QED BY <1>3, <1>5, <1>6, <1>8, <1>10, <2>1
<1>12. nts[d].owner = 0 \/ nts[d].owner = i
  BY <1>2, <1>6, <1>7, <1>11
<1>13. nts[d].owner = 0 => v.document = 0 /\ w.act = "issue" /\ \A m \in 0..TaxDocuments :
         EInvoices!Sent = 1..m => d = m + 1
  <2> SUFFICES ASSUME nts[d].owner = 0
               PROVE  v.document = 0 /\ w.act = "issue" /\ \A m \in 0..TaxDocuments :
                        EInvoices!Sent = 1..m => d = m + 1
    OBVIOUS
  <2>1. v.document = 0 /\ w.act = "issue"
    BY <1>1, <1>2, <1>6, <1>7
  <2>2. ASSUME NEW m \in 0..TaxDocuments, EInvoices!Sent = 1..m PROVE d = m + 1
    <3>1. Cardinality(EInvoices!Sent) = m
      BY <2>2, FS_Interval
    <3> QED BY <3>1, <1>4, <1>6, <2>1
  <2> QED BY <2>1, <2>2
<1> HIDE DEF v, i
<1>14. CASE w.act = "issue" /\ nts[d].status \in {"NONE", "REJECTED"}
  <2>1. nts' = [nts EXCEPT ![d] = [owner |-> i, status |-> "ISSUED"]]
    BY <1>14 DEF EInvoices!Received, v, i
  <2>2. [owner |-> i, status |-> "ISSUED"] \in EInvoices!Document
    BY <1>1 DEF EInvoices!Document, EInvoices!Status
  <2> QED BY <1>1, <1>8, <1>12, <1>13, <1>14, <2>1, <2>2 DEF v, i
<1>15. CASE w.act = "cancel"
  <2>1. nts' = [nts EXCEPT ![d].status = "CANCELLED"]
    BY <1>15 DEF EInvoices!Received
  <2>2. nts[d].owner = i
    BY <1>12, <1>13, <1>15
  <2>3. /\ [nts[d] EXCEPT !.status = "CANCELLED"] \in EInvoices!Document
        /\ [nts[d] EXCEPT !.status = "CANCELLED"].owner = nts[d].owner
        /\ [nts[d] EXCEPT !.status = "CANCELLED"].status = "CANCELLED"
        /\ nts[d].status = "CANCELLED" => [nts[d] EXCEPT !.status = "CANCELLED"] = nts[d]
    BY <1>9 DEF EInvoices!Document, EInvoices!Status
  <2>4. nts' = [nts EXCEPT ![d] = [nts[d] EXCEPT !.status = "CANCELLED"]]
    BY <2>1
  <2> QED BY <1>1, <1>8, <1>12, <1>13, <1>15, <2>2, <2>3, <2>4 DEF v, i
<1>16. CASE ~(w.act = "issue" /\ nts[d].status \in {"NONE", "REJECTED"}) /\ w.act # "cancel"
  <2>1. nts' = nts
    BY <1>16 DEF EInvoices!Received
  <2>2. nts[d].status # "NONE" /\ nts[d].owner # 0
    BY <1>5, <1>8, <1>13, <1>16
  <2> QED BY <1>1, <1>8, <1>12, <1>13, <1>16, <2>1, <2>2 DEF v, i
<1> QED BY <1>14, <1>15, <1>16

\* The documents are filed still.
LEMMA FiledStill ==
    ASSUME FilingInv, NEW d \in EInvoices!DocumentId, NEW i \in EInvoices!InvoiceId,
           nts' \in [EInvoices!DocumentId -> EInvoices!Document], UNCHANGED <<invoiced, entries>>,
           nts'[d].owner = i, nts'[d].status # "NONE",
           \A e \in EInvoices!DocumentId : e # d => nts'[e] = nts[e],
           nts[d].owner = 0 \/ nts[d].owner = i,
           nts[d].owner = 0 => \A k \in 0..TaxDocuments : EInvoices!Sent = 1..k => d = k + 1,
           nts[d].status = "CANCELLED" => nts'[d] = nts[d]
    PROVE  /\ Filed'
           /\ \A e \in EInvoices!DocumentId : nts[e].owner # 0 =>
                 nts'[e].owner = nts[e].owner /\ (nts[e].status = "CANCELLED" => nts'[e] = nts[e])
<1>1. i # 0 /\ i \in Nat
  BY EInvoicesNumbers DEF EInvoices!InvoiceId
<1>2. \A e \in EInvoices!DocumentId : nts[e].owner # 0 =>
         nts'[e].owner = nts[e].owner /\ (nts[e].status = "CANCELLED" => nts'[e] = nts[e])
  OBVIOUS
<1>3. \E k \in 0..TaxDocuments : EInvoices!Sent' = 1..k
  <2>1. PICK k \in 0..TaxDocuments : EInvoices!Sent = 1..k
    BY DEF FilingInv, Filed
  <2>2. EInvoices!Sent' = EInvoices!Sent \cup {d}
    BY <1>1 DEF EInvoices!Sent
  <2>3. CASE d \in EInvoices!Sent
    BY <2>1, <2>2, <2>3
  <2>4. CASE d \notin EInvoices!Sent
    <3>1. d = k + 1 /\ k + 1 \in 0..TaxDocuments
      BY <2>1, <2>4, EInvoicesNumbers DEF EInvoices!Sent, EInvoices!DocumentId
    <3>2. 1..(k + 1) = 1..k \cup {k + 1}
      OBVIOUS
    <3> QED BY <2>1, <2>2, <3>1, <3>2
  <2> QED BY <2>3, <2>4
<1>4. \A e \in EInvoices!DocumentId : nts'[e].owner = 0 <=> nts'[e].status = "NONE"
  BY <1>1 DEF FilingInv, Filed
<1>5. ASSUME NEW j \in EInvoices!InvoiceId
      PROVE  /\ invoiced[j].document # 0 => nts'[invoiced[j].document].owner = j
             /\ invoiced[j].status = "CANCELLED" => CancelledAt(j)'
  <2>1. invoiced[j].document # 0 => nts[invoiced[j].document].owner = j
    BY DEF FilingInv, Filed
  <2>2. invoiced[j].document \in 0..TaxDocuments /\ j # 0
    BY EInvoicesNumbers DEF FilingInv, EInvoices!TypeOK, EInvoices!Invoice, EInvoices!InvoiceId
  <2>3. invoiced[j].document # 0 => invoiced[j].document \in EInvoices!DocumentId
    BY <2>2, EInvoicesNumbers DEF EInvoices!DocumentId
  <2>4. invoiced[j].status = "CANCELLED" => CancelledAt(j)'
    <3> SUFFICES ASSUME invoiced[j].status = "CANCELLED" PROVE CancelledAt(j)'
      OBVIOUS
    <3>1. PICK e \in EInvoices!DocumentId : nts[e] = [owner |-> j, status |-> "CANCELLED"]
      BY DEF FilingInv, Filed, CancelledAt
    <3>2. nts'[e] = nts[e]
      BY <1>2, <2>2, <3>1
    <3> QED BY <3>1, <3>2 DEF CancelledAt
  <2> QED BY <1>2, <2>1, <2>2, <2>3, <2>4
<1>6. Filed'
  BY <1>3, <1>4, <1>5 DEF FilingInv, Filed
<1> QED BY <1>2, <1>6

LEMMA InvoiceSent ==
    ASSUME FilingInv, NEW p \in Session, EInvoices!Send(p)
    PROVE  FilingInv'
<1>a. PICK o : o = desk[p]
  OBVIOUS
<1>b. PICK i : i = o.item.invoice
  OBVIOUS
<1>c. PICK d : d = IF o.act = "issue" THEN EInvoices!Draw(o.item) ELSE o.item.document
  OBVIOUS
<1>d. PICK answer : answer = CASE o.act = "issue" -> "ISSUED"
                              [] o.act = "query" -> nts[d].status
                              [] o.act = "cancel" -> "CANCELLED"
  OBVIOUS
<1>e. PICK w : w = [o EXCEPT !.stage = "saving", !.item.document = d, !.item.status = answer]
  OBVIOUS
<1>1. /\ o \in EInvoices!Work /\ o.item \in EInvoices!Item /\ o.rest \in SUBSET EInvoices!Item
           /\ i \in EInvoices!InvoiceId
      /\ o.stage = "sending" /\ breaker \in EInvoices!Breaker
           /\ (breaker.state = "closed" => breaker.failures < Threshold)
  BY <1>a, <1>b, FilingFacts DEF EInvoices!Send, EInvoices!At
<1>2. Busy(p) /\ ~EInvoices!At(p, "saving") /\ ~EInvoices!At(p, "idle")
  BY <1>a, <1>1 DEF Busy, EInvoices!At
<1>3. /\ Right(o, o.item) /\ o.act # "edit"
      /\ \A x \in o.rest : Right(o, x)
      /\ "race" \notin entries => Apart(o) /\ \A q \in Session : q # p => ~Busy(q)
  <2>1. /\ Right(desk[p], desk[p].item)
        /\ \A x \in desk[p].rest : Right(desk[p], x)
        /\ desk[p].stage = "editing" <=> desk[p].act = "edit"
        /\ "race" \notin entries =>
              Apart(desk[p]) /\ \A q \in Session : q # p => ~Busy(q)
    BY <1>2, FilingKept
  <2> QED BY <1>a, <1>1, <2>1
<1>4. o.act \in {"issue", "query", "cancel"}
  BY <1>1, <1>3 DEF EInvoices!Work
<1>5. /\ UNCHANGED <<invoiced, entries>> /\ d <= TaxDocuments
      /\ \/ /\ nts' = EInvoices!Received(o.act, o.item, d)
           /\ breaker' = EInvoices!Succeeded(breaker)
            /\ desk' = [desk EXCEPT ![p] = w]
         \/ /\ "lost" \in entries /\ nts' = EInvoices!Received(o.act, o.item, d)
            /\ breaker' = EInvoices!Failed(breaker)
                 /\ desk' = [desk EXCEPT ![p] = EInvoices!OnFailure(o)]
         \/ /\ UNCHANGED nts
            /\ breaker' = EInvoices!Failed(breaker)
                 /\ desk' = [desk EXCEPT ![p] = EInvoices!OnFailure(o)]
  BY <1>a, <1>c, <1>d, <1>e DEF EInvoices!Send, EInvoices!Goto
<1>6. breaker' \in EInvoices!Breaker /\ EInvoices!ClosedBelowThreshold'
  <2>1. breaker' \in {EInvoices!Succeeded(breaker), EInvoices!Failed(breaker)}
    BY <1>5
  <2> QED BY <1>1, <2>1, BreakerCounts DEF EInvoices!ClosedBelowThreshold
<1>7. invoiced' \in [EInvoices!InvoiceId -> EInvoices!Invoice]
        /\ nts \in [EInvoices!DocumentId -> EInvoices!Document]
  BY <1>5 DEF FilingInv, EInvoices!TypeOK
<1>8. CASE nts' = EInvoices!Received(o.act, o.item, d)
  <2>1. /\ d \in EInvoices!DocumentId /\ nts' \in [EInvoices!DocumentId -> EInvoices!Document]
        /\ nts'[d].owner = i /\ nts'[d].status # "NONE"
        /\ \A e \in EInvoices!DocumentId : e # d => nts'[e] = nts[e]
        /\ nts[d].owner = 0 \/ nts[d].owner = i
        /\ nts[d].owner = 0 => o.item.document = 0 /\ o.act = "issue"
             /\ \A k \in 0..TaxDocuments : EInvoices!Sent = 1..k => d = k + 1
        /\ nts[d].status = "CANCELLED" => nts'[d] = nts[d]
        /\ o.act = "cancel" => nts'[d].status = "CANCELLED"
        /\ o.act = "query" => nts' = nts
    BY <1>b, <1>c, <1>1, <1>3, <1>4, <1>5, <1>8, CallReceived
  <2>2. /\ Filed'
        /\ \A e \in EInvoices!DocumentId : nts[e].owner # 0 =>
              nts'[e].owner = nts[e].owner /\ (nts[e].status = "CANCELLED" => nts'[e] = nts[e])
    <3> QED BY <1>1, <1>5, <2>1, FiledStill
  <2>3. ASSUME NEW x \in EInvoices!Item, NEW u \in EInvoices!Work, u.act = o.act, Right(o, x)
        PROVE  Right(u, x)'
    <3>1. x.document \in 0..TaxDocuments /\ x.invoice \in EInvoices!InvoiceId /\ x.invoice # 0
      BY EInvoicesNumbers DEF EInvoices!Item, EInvoices!InvoiceId
    <3>2. x.document # 0 => nts'[x.document].owner = x.invoice
      BY <2>2, <2>3, <3>1, EInvoicesNumbers DEF Right, EInvoices!DocumentId
    <3>3. x.status = "CANCELLED" => CancelledAt(x.invoice)'
      <4> SUFFICES ASSUME x.status = "CANCELLED" PROVE CancelledAt(x.invoice)'
        OBVIOUS
      <4>1. PICK e \in EInvoices!DocumentId :
              nts[e] = [owner |-> x.invoice, status |-> "CANCELLED"]
        BY <2>3 DEF Right, CancelledAt
      <4>2. nts'[e] = nts[e]
        BY <2>2, <3>1, <4>1
      <4> QED BY <4>1, <4>2 DEF CancelledAt
    <3> QED BY <1>5, <2>3, <3>1, <3>2, <3>3 DEF Right
  <2>4. CASE desk' = [desk EXCEPT ![p] = w]
    <3>1. d \in 0..TaxDocuments /\ d # 0 /\ i # 0
      BY <1>1, <2>1, EInvoicesNumbers DEF EInvoices!DocumentId, EInvoices!InvoiceId
    <3>2. answer \in EInvoices!Status /\ nts[d] \in EInvoices!Document
            /\ nts'[d] \in EInvoices!Document
      <4>1. nts[d] \in EInvoices!Document /\ nts'[d] \in EInvoices!Document
        BY <1>7, <2>1
      <4>2. nts[d].status \in EInvoices!Status
        BY <4>1 DEF EInvoices!Document
      <4> QED BY <1>d, <1>4, <4>1, <4>2 DEF EInvoices!Status
    <3>3. answer = "CANCELLED" => nts'[d].status = "CANCELLED"
      BY <1>d, <1>4, <2>1
    <3>4. /\ w \in EInvoices!Work /\ w.stage = "saving" /\ w.act = o.act /\ w.rest = o.rest
          /\ w.item = [o.item EXCEPT !.document = d, !.status = answer]
      <4>1. [o.item EXCEPT !.document = d, !.status = answer] \in EInvoices!Item
        BY <1>1, <3>1, <3>2 DEF EInvoices!Item
      <4>2. w = [o EXCEPT !.stage = "saving", !.item = [o.item EXCEPT !.document = d, !.status = answer]]
        BY <1>e, <1>1 DEF EInvoices!Work, EInvoices!Item
      <4> QED BY <1>1, <4>1, <4>2 DEF EInvoices!Work
    <3>5. w.item.invoice = i /\ w.item.document = d /\ w.item.status = answer
      <4> QED BY <1>b, <1>1, <3>4 DEF EInvoices!Item
    <3>6. Right(w, w.item)'
      <4>1. answer = "CANCELLED" => CancelledAt(i)'
        <5> SUFFICES ASSUME answer = "CANCELLED" PROVE CancelledAt(i)'
          OBVIOUS
        <5>1. nts'[d] = [owner |-> i, status |-> "CANCELLED"]
          BY <2>1, <3>2, <3>3 DEF EInvoices!Document
        <5> QED BY <2>1, <5>1 DEF CancelledAt
      <4>2. w.act \in {"query", "cancel"} /\ "edit" \notin entries' => invoiced'[i].document # 0
        BY <1>b, <1>3, <1>5, <3>4 DEF Right
      <4> QED BY <2>1, <3>1, <3>4, <3>5, <4>1, <4>2 DEF Right
    <3>7. \A x \in w.rest : Right(w, x)'
      <4>1. w \in EInvoices!Work /\ w.act = o.act /\ w.rest = o.rest
        BY <3>4
      <4> QED BY <1>1, <1>3, <2>3, <4>1
    <3>8. Apart(o) => Apart(w)'
      BY <1>b, <1>c, <1>1, <1>5, <3>4, <3>5 DEF Apart
    <3>9. desk'[p] = w /\ \A q \in Session : q # p => desk'[q] = desk[q]
      BY <2>4 DEF FilingInv, EInvoices!TypeOK
    <3>10. OneFiled'
      <4> SUFFICES ASSUME Quiet PROVE OneFiled'
        BY <1>5 DEF OneFiled, Quiet
      <4>1. "race" \notin entries
        BY DEF Quiet
      <4>2. \A j \in EInvoices!InvoiceId :
               invoiced[j].document = 0 => \A e \in EInvoices!DocumentId : nts[e].owner # j
        BY <1>a, <1>2, <1>3, <4>1 DEF FilingInv, OneFiled, Busy, EInvoices!At
      <4>3. invoiced[i].document = o.item.document
        BY <1>b, <1>1, <1>3, <4>1 DEF Apart
      <4>4. nts[d].owner = 0 => \A e \in EInvoices!DocumentId : nts[e].owner # i
        BY <1>1, <2>1, <4>2, <4>3
      <4>5. \A e, f \in EInvoices!DocumentId : nts[e].owner # 0 /\ nts[e].owner = nts[f].owner
              => e = f
        BY DEF FilingInv, OneFiled
      <4>6. \A e, f \in EInvoices!DocumentId : nts'[e].owner # 0 /\ nts'[e].owner = nts'[f].owner
              => e = f
        BY <2>1, <3>1, <4>4, <4>5
      <4>7. ASSUME NEW j \in EInvoices!InvoiceId, invoiced'[j].document = 0
            PROVE  \/ \A e \in EInvoices!DocumentId : nts'[e].owner # j
                   \/ desk'[p].stage = "saving" /\ desk'[p].act = "issue"
                        /\ desk'[p].item.invoice = j
        <5>1. CASE j = i
          <6>1. o.item.document = 0
            BY <4>3, <4>7, <5>1, <1>5
          <6>2. o.act = "issue"
            BY <1>3, <1>4, <6>1 DEF Right
          <6> QED BY <3>4, <3>5, <3>9, <5>1, <6>2
        <5>2. CASE j # i
          BY <1>5, <2>1, <4>2, <4>7, <5>2
        <5> QED BY <5>1, <5>2
      <4> QED BY <4>6, <4>7 DEF OneFiled, EInvoices!At
    <3>11. /\ w.act # "edit" /\ w.item.document # 0
           /\ entries' = entries /\ nts' \in [EInvoices!DocumentId -> EInvoices!Document]
           /\ \A j \in EInvoices!InvoiceId : invoiced[j].document # 0 => invoiced'[j].document # 0
      BY <1>3, <1>5, <2>1, <3>1, <3>4, <3>5
    <3>12. "race" \notin entries =>
              /\ w.stage # "idle" => Apart(w)'
              /\ \A q \in Session : q # p => ~Busy(q)
      BY <1>3, <3>8
    <3> QED BY <1>6, <1>7, <2>2, <2>4, <3>4, <3>6, <3>7, <3>10, <3>11, <3>12, FilingMoves
  <2>5. CASE "lost" \in entries /\ desk' = [desk EXCEPT ![p] = EInvoices!OnFailure(o)]
    <3>n. PICK n : n = EInvoices!NextItem(o)
      OBVIOUS
    <3>1. \/ n = EInvoices!Idle
          \/ /\ n \in EInvoices!Work /\ n.stage = "checking" /\ n.act = o.act
             /\ n.item \in o.rest /\ n.rest = o.rest \ {n.item}
      BY <3>n, <1>1, NextRight
    <3>2. desk' = [desk EXCEPT ![p] = n]
      BY <3>n, <2>5 DEF EInvoices!OnFailure
    <3>3. OneFiled'
      BY <1>5, <2>5 DEF OneFiled, Quiet
    <3>4. CASE n = EInvoices!Idle
      <4> QED BY <1>3, <1>5, <1>6, <1>7, <2>1, <2>2, <3>2, <3>3, <3>4, FilingIdle, FilingMoves
    <3>5. CASE /\ n \in EInvoices!Work /\ n.stage = "checking" /\ n.act = o.act
               /\ n.item \in o.rest /\ n.rest = o.rest \ {n.item}
      <4>1. Right(n, n.item)' /\ \A x \in n.rest : Right(n, x)'
        BY <1>1, <1>3, <2>3, <3>5
      <4>2. Apart(o) => Apart(n)'
        BY <1>5, <3>5 DEF Apart
      <4> QED BY <1>3, <1>5, <1>6, <1>7, <2>1, <2>2, <3>2, <3>3, <3>5, <4>1, <4>2, FilingMoves
    <3> QED BY <3>1, <3>4, <3>5
  <2>6. CASE UNCHANGED nts /\ desk' = [desk EXCEPT ![p] = EInvoices!OnFailure(o)]
    BY <1>1, <1>5, <1>6, <2>6, <1>a, FilingFails
  <2> QED BY <1>5, <2>4, <2>5, <2>6
<1>9. CASE UNCHANGED nts /\ desk' = [desk EXCEPT ![p] = EInvoices!OnFailure(o)]
  BY <1>1, <1>5, <1>6, <1>9, <1>a, FilingFails
<1> QED BY <1>5, <1>8, <1>9

\* An invoice is written: what it says of its document is right.
LEMMA FiledWritten ==
    ASSUME FilingInv, NEW i \in EInvoices!InvoiceId, NEW r \in EInvoices!Invoice,
           UNCHANGED <<nts, entries>>,
           invoiced' = [invoiced EXCEPT ![i] = r],
           r.document # 0 => nts[r.document].owner = i,
           r.status = "CANCELLED" => CancelledAt(i),
           "edit" \notin entries => r.document # 0
    PROVE  Filed'
<1>1. invoiced'[i] = r /\ \A j \in EInvoices!InvoiceId : j # i => invoiced'[j] = invoiced[j]
  BY DEF FilingInv, EInvoices!TypeOK
<1>2. (\A j : CancelledAt(j)' <=> CancelledAt(j)) /\ EInvoices!Sent' = EInvoices!Sent
  BY DEF CancelledAt, EInvoices!Sent
<1>3. ASSUME NEW j \in EInvoices!InvoiceId
      PROVE  /\ invoiced'[j].document # 0 => nts[invoiced'[j].document].owner = j
             /\ invoiced'[j].status = "CANCELLED" => CancelledAt(j)
             /\ "edit" \notin entries /\ invoiced'[j].status # "NONE" => invoiced'[j].document # 0
  <2>1. CASE j = i
    BY <2>1, <1>1
  <2>2. CASE j # i
    BY <2>2, <1>1 DEF FilingInv, Filed
  <2> QED BY <2>1, <2>2
<1> QED BY <1>2, <1>3 DEF FilingInv, Filed

LEMMA InvoiceSaved ==
    ASSUME FilingInv, NEW p \in Session, EInvoices!Save(p)
    PROVE  FilingInv'
<1>a. PICK o : o = desk[p]
  OBVIOUS
<1>b. PICK i : i = o.item.invoice
  OBVIOUS
<1>c. PICK n : n = EInvoices!NextItem(o)
  OBVIOUS
<1> DEFINE m == IF o.act = "issue" THEN o.item.document ELSE invoiced[i].document
           r == [invoiced[i] EXCEPT !.status = o.item.status, !.document = m]
<1>1. /\ o \in EInvoices!Work /\ o.item \in EInvoices!Item /\ o.rest \in SUBSET EInvoices!Item
           /\ i \in EInvoices!InvoiceId
      /\ o.stage = "saving" /\ breaker \in EInvoices!Breaker
           /\ (breaker.state = "closed" => breaker.failures < Threshold)
  BY <1>a, <1>b, FilingFacts DEF EInvoices!Save, EInvoices!At
<1>2. Busy(p)
  BY <1>a, <1>1 DEF Busy
<1>3. /\ Right(o, o.item) /\ o.act # "edit" /\ o.item.document # 0
      /\ \A x \in o.rest : Right(o, x)
      /\ "race" \notin entries => Apart(o) /\ \A q \in Session : q # p => ~Busy(q)
  <2>1. /\ Right(desk[p], desk[p].item)
        /\ \A x \in desk[p].rest : Right(desk[p], x)
        /\ desk[p].stage = "editing" <=> desk[p].act = "edit"
        /\ desk[p].stage = "saving" => desk[p].item.document # 0
        /\ "race" \notin entries =>
              Apart(desk[p]) /\ \A q \in Session : q # p => ~Busy(q)
    BY <1>2, FilingKept
  <2> QED BY <1>a, <1>1, <2>1
<1>4. o.act \in {"issue", "query", "cancel"}
  BY <1>1, <1>3 DEF EInvoices!Work
<1>5. invoiced[i] \in EInvoices!Invoice /\ m \in 0..TaxDocuments
  BY <1>1 DEF FilingInv, EInvoices!TypeOK, EInvoices!Invoice, EInvoices!Item
<1>6. /\ UNCHANGED <<nts, breaker, entries>> /\ desk' = [desk EXCEPT ![p] = n]
      /\ invoiced' = [invoiced EXCEPT ![i] = r]
  BY <1>a, <1>b, <1>c DEF EInvoices!Save, EInvoices!Goto
<1>7. /\ breaker' \in EInvoices!Breaker /\ EInvoices!ClosedBelowThreshold'
           /\ nts' \in [EInvoices!DocumentId -> EInvoices!Document]
  BY <1>1, <1>6 DEF EInvoices!ClosedBelowThreshold, FilingInv, EInvoices!TypeOK
<1>8. m = (IF o.act = "issue" THEN o.item.document ELSE invoiced[i].document)
  OBVIOUS
<1>9. r \in EInvoices!Invoice /\ r.document = m /\ r.status = o.item.status
  <2> HIDE DEF m
  <2> QED BY <1>1, <1>5 DEF EInvoices!Invoice, EInvoices!Item
<1> HIDE DEF m, r
<1>10. /\ m # 0 => nts[m].owner = i
       /\ o.item.status = "CANCELLED" => CancelledAt(i)
       /\ "edit" \notin entries => m # 0
  <2>1. invoiced[i].document # 0 => nts[invoiced[i].document].owner = i
    BY <1>1 DEF FilingInv, Filed
  <2> QED BY <1>b, <1>3, <1>4, <1>8, <2>1 DEF Right
<1>11. Filed'
  BY <1>1, <1>6, <1>9, <1>10, FiledWritten
<1>12. invoiced' \in [EInvoices!InvoiceId -> EInvoices!Invoice] /\ invoiced'[i] = r
       /\ \A j \in EInvoices!InvoiceId : j # i => invoiced'[j] = invoiced[j]
  BY <1>1, <1>6, <1>9 DEF FilingInv, EInvoices!TypeOK
<1>13. ASSUME "edit" \notin entries, NEW j \in EInvoices!InvoiceId, invoiced[j].document # 0
       PROVE  invoiced'[j].document # 0
  BY <1>9, <1>10, <1>12, <1>13
<1>14. OneFiled'
  <2> SUFFICES ASSUME Quiet PROVE OneFiled'
    BY <1>6 DEF OneFiled, Quiet
  <2>1. "race" \notin entries
    BY DEF Quiet
  <2>2. ASSUME NEW j \in EInvoices!InvoiceId, invoiced'[j].document = 0,
               NEW e \in EInvoices!DocumentId
        PROVE  nts[e].owner # j
    <3>1. invoiced[j].document = 0
      BY <1>8, <1>9, <1>12, <2>2, <1>3
    <3>2. ~(o.act = "issue" /\ i = j)
      BY <1>3, <1>8, <1>9, <1>12, <2>2
    <3>3. \A q \in Session :
             ~(EInvoices!At(q, "saving") /\ desk[q].act = "issue" /\ desk[q].item.invoice = j)
      BY <1>a, <1>b, <1>3, <2>1, <3>2 DEF Busy, EInvoices!At
    <3> QED BY <3>1, <3>3 DEF FilingInv, OneFiled
  <2>3. \A d, e \in EInvoices!DocumentId : nts[d].owner # 0 /\ nts[d].owner = nts[e].owner
          => d = e
    BY DEF FilingInv, OneFiled
  <2> QED BY <1>6, <2>2, <2>3 DEF OneFiled
<1>15. \/ n = EInvoices!Idle
       \/ /\ n \in EInvoices!Work /\ n.stage = "checking" /\ n.act = o.act
          /\ n.item \in o.rest /\ n.rest = o.rest \ {n.item}
  BY <1>c, <1>1, NextRight
<1>16. CASE n = EInvoices!Idle
  BY <1>3, <1>6, <1>7, <1>11, <1>12, <1>13, <1>14, <1>16, FilingIdle, FilingMoves
<1>17. CASE /\ n \in EInvoices!Work /\ n.stage = "checking" /\ n.act = o.act
            /\ n.item \in o.rest /\ n.rest = o.rest \ {n.item}
  <2>1. ASSUME NEW x \in o.rest PROVE Right(n, x)'
    <3>1. Right(o, x) /\ x \in EInvoices!Item /\ x.invoice \in EInvoices!InvoiceId
      BY <1>1, <1>3 DEF EInvoices!Item
    <3>2. CancelledAt(x.invoice)' <=> CancelledAt(x.invoice)
      BY <1>6 DEF CancelledAt
    <3>3. "edit" \notin entries /\ invoiced[x.invoice].document # 0
            => invoiced'[x.invoice].document # 0
      BY <1>13, <3>1
    <3> QED BY <1>6, <1>17, <3>1, <3>2, <3>3 DEF Right
  <2>2. Right(n, n.item)' /\ \A x \in n.rest : Right(n, x)'
    BY <1>17, <2>1
  <2>3. Apart(o) => Apart(n)'
    <3>1. \A x \in o.rest : x.invoice \in EInvoices!InvoiceId
      BY <1>1 DEF EInvoices!Item
    <3> QED BY <1>b, <1>12, <1>17, <3>1 DEF Apart
  <2>4. /\ n.act # "edit" /\ n.stage # "editing" /\ n.stage # "saving"
        /\ "race" \notin entries =>
              /\ n.stage # "idle" => Apart(n)'
              /\ \A q \in Session : q # p => ~Busy(q)
    BY <1>3, <1>17, <2>3
  <2> QED BY <1>6, <1>7, <1>11, <1>12, <1>13, <1>14, <1>17, <2>2, <2>4, FilingMoves
<1> QED BY <1>15, <1>16, <1>17

LEMMA EditSaved ==
    ASSUME FilingInv, NEW p \in Session, EInvoices!SaveEdit(p)
    PROVE  FilingInv'
<1>a. PICK o : o = desk[p]
  OBVIOUS
<1>b. PICK i : i = o.item.invoice
  OBVIOUS
<1> DEFINE r == [status |-> o.item.status, document |-> o.item.document, active |-> TRUE]
<1>1. /\ o \in EInvoices!Work /\ o.item \in EInvoices!Item /\ i \in EInvoices!InvoiceId
      /\ o.stage = "editing" /\ breaker \in EInvoices!Breaker
           /\ (breaker.state = "closed" => breaker.failures < Threshold)
  BY <1>a, <1>b, FilingFacts DEF EInvoices!SaveEdit, EInvoices!At
<1>2. Busy(p)
  BY <1>a, <1>1 DEF Busy
<1>3. /\ Right(o, o.item) /\ o.act = "edit" /\ "edit" \in entries
      /\ "race" \notin entries => Apart(o) /\ \A q \in Session : q # p => ~Busy(q)
  <2>1. /\ Right(desk[p], desk[p].item)
        /\ desk[p].stage = "editing" <=> desk[p].act = "edit"
        /\ desk[p].act = "edit" => "edit" \in entries
        /\ "race" \notin entries =>
              Apart(desk[p]) /\ \A q \in Session : q # p => ~Busy(q)
    BY <1>2, FilingKept
  <2> QED BY <1>a, <1>1, <2>1
<1>4. r \in EInvoices!Invoice /\ r.document = o.item.document /\ r.status = o.item.status
  BY <1>1 DEF EInvoices!Invoice, EInvoices!Item
<1>5. /\ UNCHANGED <<nts, breaker, entries>> /\ desk' = [desk EXCEPT ![p] = EInvoices!Idle]
      /\ invoiced' = [invoiced EXCEPT ![i] = r]
  BY <1>a, <1>b DEF EInvoices!SaveEdit, EInvoices!Done, EInvoices!Goto
<1> HIDE DEF r
<1>6. /\ breaker' \in EInvoices!Breaker /\ EInvoices!ClosedBelowThreshold'
           /\ nts' \in [EInvoices!DocumentId -> EInvoices!Document]
  BY <1>1, <1>5 DEF EInvoices!ClosedBelowThreshold, FilingInv, EInvoices!TypeOK
<1>7. /\ r.document # 0 => nts[r.document].owner = i
      /\ r.status = "CANCELLED" => CancelledAt(i)
  BY <1>b, <1>3, <1>4 DEF Right
<1>8. Filed'
  BY <1>1, <1>3, <1>4, <1>5, <1>7, FiledWritten
<1>9. invoiced' \in [EInvoices!InvoiceId -> EInvoices!Invoice] /\ invoiced'[i] = r
       /\ \A j \in EInvoices!InvoiceId : j # i => invoiced'[j] = invoiced[j]
  BY <1>1, <1>4, <1>5 DEF FilingInv, EInvoices!TypeOK
<1>10. OneFiled'
  <2> SUFFICES ASSUME Quiet PROVE OneFiled'
    BY <1>5 DEF OneFiled, Quiet
  <2>1. "race" \notin entries
    BY DEF Quiet
  <2>2. r.document = invoiced[i].document
    BY <1>b, <1>1, <1>3, <1>4, <2>1 DEF Apart
  <2>3. ASSUME NEW j \in EInvoices!InvoiceId, invoiced'[j].document = 0,
               NEW e \in EInvoices!DocumentId
        PROVE  nts[e].owner # j
    <3>1. invoiced[j].document = 0
      BY <1>9, <2>2, <2>3
    <3>2. \A q \in Session :
             ~(EInvoices!At(q, "saving") /\ desk[q].act = "issue" /\ desk[q].item.invoice = j)
      BY <1>a, <1>1, <1>3, <2>1 DEF Busy, EInvoices!At
    <3> QED BY <3>1, <3>2 DEF FilingInv, OneFiled
  <2>4. \A d, e \in EInvoices!DocumentId : nts[d].owner # 0 /\ nts[d].owner = nts[e].owner
          => d = e
    BY DEF FilingInv, OneFiled
  <2> QED BY <1>5, <2>3, <2>4 DEF OneFiled
<1> QED BY <1>3, <1>5, <1>6, <1>8, <1>9, <1>10, FilingIdle, FilingMoves

-----------------------------------------------------------------------------
(* What no request does. *)

LEMMA FilingStays ==
    ASSUME FilingInv, desk' = desk, entries' = entries,
           breaker' \in EInvoices!Breaker, EInvoices!ClosedBelowThreshold',
           nts' \in [EInvoices!DocumentId -> EInvoices!Document],
             invoiced' \in [EInvoices!InvoiceId -> EInvoices!Invoice],
           \A d \in EInvoices!DocumentId :
              /\ nts'[d].owner = nts[d].owner
              /\ nts[d].status = "CANCELLED" => nts'[d] = nts[d]
              /\ nts'[d].status = "NONE" <=> nts[d].status = "NONE",
           \A i \in EInvoices!InvoiceId :
              invoiced'[i].document = invoiced[i].document
                /\ invoiced'[i].status = invoiced[i].status
    PROVE  FilingInv'
<1>1. EInvoices!TypeOK'
  BY DEF FilingInv, EInvoices!TypeOK
<1>2. \A j : CancelledAt(j) => CancelledAt(j)'
  <2> SUFFICES ASSUME NEW j, CancelledAt(j) PROVE CancelledAt(j)'
    OBVIOUS
  <2>1. PICK d \in EInvoices!DocumentId : nts[d] = [owner |-> j, status |-> "CANCELLED"]
    BY DEF CancelledAt
  <2>2. nts'[d] = nts[d]
    BY <2>1
  <2> QED BY <2>1, <2>2 DEF CancelledAt
<1>3. \A i \in EInvoices!InvoiceId : invoiced[i].document # 0
        => invoiced[i].document \in EInvoices!DocumentId
  BY EInvoicesNumbers DEF FilingInv, EInvoices!TypeOK, EInvoices!Invoice, EInvoices!DocumentId
<1>4. Filed'
  <2>1. EInvoices!Sent' = EInvoices!Sent
    BY DEF EInvoices!Sent
  <2>2. ASSUME NEW i \in EInvoices!InvoiceId
        PROVE  /\ invoiced'[i].document # 0 => nts'[invoiced'[i].document].owner = i
               /\ invoiced'[i].status = "CANCELLED" => CancelledAt(i)'
               /\ "edit" \notin entries /\ invoiced'[i].status # "NONE"
                    => invoiced'[i].document # 0
    BY <1>2, <1>3 DEF FilingInv, Filed
  <2>3. \A d \in EInvoices!DocumentId : nts'[d].owner = 0 <=> nts'[d].status = "NONE"
    BY DEF FilingInv, Filed
  <2> QED BY <2>1, <2>2, <2>3 DEF FilingInv, Filed
<1>5. ASSUME NEW o \in EInvoices!Work, NEW x \in EInvoices!Item, Right(o, x) PROVE Right(o, x)'
  <2>1. x.document # 0 => x.document \in EInvoices!DocumentId
    BY EInvoicesNumbers DEF EInvoices!Item, EInvoices!DocumentId
  <2>2. x.invoice \in EInvoices!InvoiceId
    BY DEF EInvoices!Item
  <2> QED BY <1>2, <1>5, <2>1, <2>2 DEF Right
<1>6. Helds'
  <2> SUFFICES ASSUME NEW q \in Session, desk[q].stage # "idle" PROVE Helds!(q)'
    BY DEF Helds
  <2>1. /\ Right(desk[q], desk[q].item) /\ \A x \in desk[q].rest : Right(desk[q], x)
        /\ desk[q].stage = "editing" <=> desk[q].act = "edit"
        /\ desk[q].act = "edit" => "edit" \in entries
        /\ desk[q].stage = "saving" => desk[q].item.document # 0
    BY DEF FilingInv, Helds
  <2>2. desk[q] \in EInvoices!Work /\ desk[q].item \in EInvoices!Item
          /\ desk[q].rest \in SUBSET EInvoices!Item
    BY FilingFacts
  <2>3. PICK u : u = desk[q]
    OBVIOUS
  <2>4. Right(u, u.item)' /\ \A x \in u.rest : Right(u, x)'
    BY <2>1, <2>2, <2>3, <1>5
  <2>5. desk'[q] = u
    BY <2>3
  <2> QED BY <2>1, <2>3, <2>4, <2>5
<1>7. OneFiles'
  <2> SUFFICES ASSUME "race" \notin entries, NEW q \in Session, desk[q].stage # "idle"
               PROVE  Apart(desk[q])' /\ \A p \in Session : p # q => desk[p].stage = "idle"
    BY DEF OneFiles, Busy
  <2>1. Apart(desk[q]) /\ \A p \in Session : p # q => desk[p].stage = "idle"
    BY DEF FilingInv, OneFiles, Busy
  <2>2. desk[q].item.invoice \in EInvoices!InvoiceId /\ \A x \in desk[q].rest :
          x.invoice \in EInvoices!InvoiceId
    BY DEF FilingInv, EInvoices!TypeOK, EInvoices!Work, EInvoices!Item
  <2> QED BY <2>1, <2>2 DEF Apart
<1>8. OneFiled'
  BY DEF FilingInv, OneFiled, Quiet, EInvoices!At
<1> QED BY <1>1, <1>4, <1>6, <1>7, <1>8 DEF FilingInv

LEMMA FilingRest ==
    ASSUME FilingInv, (\E i \in EInvoices!InvoiceId : EInvoices!Retire(i))
           \/ (\E d \in EInvoices!DocumentId : EInvoices!Decide(d)) \/ EInvoices!Cool
    PROVE  FilingInv'
<1>1. /\ breaker \in EInvoices!Breaker /\ EInvoices!ClosedBelowThreshold
           /\ nts \in [EInvoices!DocumentId -> EInvoices!Document]
      /\ invoiced \in [EInvoices!InvoiceId -> EInvoices!Invoice]
  BY DEF FilingInv, EInvoices!TypeOK
<1>2. ASSUME NEW i \in EInvoices!InvoiceId, EInvoices!Retire(i) PROVE FilingInv'
  <2>1. /\ [invoiced[i] EXCEPT !.active = FALSE] \in EInvoices!Invoice
        /\ [invoiced[i] EXCEPT !.active = FALSE].document = invoiced[i].document
        /\ [invoiced[i] EXCEPT !.active = FALSE].status = invoiced[i].status
    BY <1>1 DEF EInvoices!Invoice
  <2>2. /\ invoiced' = [invoiced EXCEPT ![i] = [invoiced[i] EXCEPT !.active = FALSE]]
        /\ UNCHANGED <<nts, breaker, desk, entries>>
    BY <1>2 DEF EInvoices!Retire
  <2>3. invoiced' \in [EInvoices!InvoiceId -> EInvoices!Invoice] /\ \A j \in EInvoices!InvoiceId :
           invoiced'[j].document = invoiced[j].document
             /\ invoiced'[j].status = invoiced[j].status
    BY <1>1, <2>1, <2>2
  <2>4. EInvoices!ClosedBelowThreshold'
    BY <1>1, <2>2 DEF EInvoices!ClosedBelowThreshold
  <2> QED BY <1>1, <2>2, <2>3, <2>4, FilingStays
<1>3. ASSUME NEW d \in EInvoices!DocumentId, EInvoices!Decide(d) PROVE FilingInv'
  <2>1. PICK s \in {"ACCEPTED", "REJECTED"} :
          nts' = [nts EXCEPT ![d] = [nts[d] EXCEPT !.status = s]]
    BY <1>3 DEF EInvoices!Decide
  <2>2. /\ [nts[d] EXCEPT !.status = s] \in EInvoices!Document
        /\ [nts[d] EXCEPT !.status = s].owner = nts[d].owner
             /\ [nts[d] EXCEPT !.status = s].status = s
    BY <1>1 DEF EInvoices!Document, EInvoices!Status
  <2>3. nts[d].status = "ISSUED" /\ UNCHANGED <<invoiced, breaker, desk, entries>>
    BY <1>3 DEF EInvoices!Decide
  <2>4. /\ nts' \in [EInvoices!DocumentId -> EInvoices!Document]
        /\ \A e \in EInvoices!DocumentId :
              /\ nts'[e].owner = nts[e].owner
              /\ nts[e].status = "CANCELLED" => nts'[e] = nts[e]
              /\ nts'[e].status = "NONE" <=> nts[e].status = "NONE"
    BY <1>1, <2>1, <2>2, <2>3
  <2>5. EInvoices!ClosedBelowThreshold'
    BY <1>1, <2>3 DEF EInvoices!ClosedBelowThreshold
  <2> QED BY <1>1, <2>3, <2>4, <2>5, FilingStays
<1>4. CASE EInvoices!Cool
  <2>1. breaker' \in EInvoices!Breaker /\ EInvoices!ClosedBelowThreshold'
          /\ UNCHANGED <<invoiced, nts, desk, entries>>
    BY <1>1, <1>4 DEF EInvoices!Cool, EInvoices!Breaker, EInvoices!ClosedBelowThreshold
  <2> QED BY <1>1, <2>1, FilingStays
<1> QED BY <1>2, <1>3, <1>4

-----------------------------------------------------------------------------
(* Filings in every state. *)

LEMMA FilingStarts == EInvoices!Init => FilingInv
<1> SUFFICES ASSUME EInvoices!Init PROVE FilingInv
  OBVIOUS
<1>1. \A p \in Session : desk[p].stage = "idle"
  BY FilingIdle DEF EInvoices!Init
<1>2. EInvoices!TypeOK /\ EInvoices!ClosedBelowThreshold
  BY FilingIdle, EInvoicesNumbers
     DEF EInvoices!Init, EInvoices!TypeOK, EInvoices!ClosedBelowThreshold, EInvoices!Invoice,
        EInvoices!Document, EInvoices!Breaker, EInvoices!Status
<1>3. Filed
  <2>1. EInvoices!Sent = {} /\ 0 \in 0..TaxDocuments /\ 1..0 = {}
    BY EInvoicesNumbers DEF EInvoices!Init, EInvoices!Sent
  <2>2. \E k \in 0..TaxDocuments : EInvoices!Sent = 1..k
    BY <2>1
  <2> QED BY <2>2 DEF EInvoices!Init, Filed
<1>4. Helds /\ OneFiles
  BY <1>1 DEF Helds, OneFiles, Busy
<1>5. OneFiled
  <2>1. \A d \in EInvoices!DocumentId : nts[d].owner = 0
    BY DEF EInvoices!Init
  <2>2. \A i \in EInvoices!InvoiceId : i # 0
    BY EInvoicesNumbers DEF EInvoices!InvoiceId
  <2> QED BY <2>1, <2>2 DEF OneFiled
<1> QED BY <1>2, <1>3, <1>4, <1>5 DEF FilingInv

LEMMA FilingStep == FilingInv /\ [EInvoices!Next]_(EInvoices!vars) => FilingInv'
<1> SUFFICES ASSUME FilingInv, [EInvoices!Next]_(EInvoices!vars) PROVE FilingInv'
  OBVIOUS
<1>1. CASE UNCHANGED EInvoices!vars
  <2>1. /\ breaker' \in EInvoices!Breaker /\ EInvoices!ClosedBelowThreshold'
             /\ nts' \in [EInvoices!DocumentId -> EInvoices!Document]
        /\ invoiced' \in [EInvoices!InvoiceId -> EInvoices!Invoice]
             /\ UNCHANGED <<invoiced, nts, desk, entries>>
    BY <1>1 DEF EInvoices!vars, FilingInv, EInvoices!TypeOK, EInvoices!ClosedBelowThreshold
  <2> QED BY <2>1, FilingStays
<1>2. ASSUME NEW p \in Session,
             \/ \E i \in EInvoices!InvoiceId : EInvoices!AskIssue(p, i)
                  \/ EInvoices!AskQuery(p, i) \/ EInvoices!AskCancel(p, i)
                       \/ EInvoices!AskEdit(p, i)
             \/ EInvoices!AskBatch(p) \/ EInvoices!SaveEdit(p) \/ EInvoices!Check(p)
                  \/ EInvoices!Enter(p) \/ EInvoices!Authenticate(p)
             \/ EInvoices!Send(p) \/ EInvoices!Save(p) \/ EInvoices!Crash(p)
      PROVE  FilingInv'
  BY <1>2, InvoiceAsked, BatchAsked, EditSaved, BreakerLooked, InvoiceSent, InvoiceSaved,
    FilingDies
<1> QED BY <1>1, <1>2, FilingRest DEF EInvoices!Next

LEMMA FilingKeeps ==
    FilingInv => EInvoices!TypeOK /\ EInvoices!IssuedKnown /\ EInvoices!CancelledThere
      /\ EInvoices!OneDocument /\ EInvoices!ClosedBelowThreshold
<1> SUFFICES ASSUME FilingInv
             PROVE  EInvoices!TypeOK /\ EInvoices!IssuedKnown /\ EInvoices!CancelledThere
                      /\ EInvoices!OneDocument /\ EInvoices!ClosedBelowThreshold
  OBVIOUS
<1>1. EInvoices!IssuedKnown /\ EInvoices!CancelledThere
  BY DEF FilingInv, Filed, CancelledAt, EInvoices!IssuedKnown, EInvoices!CancelledThere
<1>2. EInvoices!OneDocument
  <2> SUFFICES ASSUME Quiet, NEW i \in EInvoices!InvoiceId
               PROVE  Cardinality({d \in EInvoices!DocumentId : nts[d].owner = i}) <= 1
    BY EInvoicesCardinality DEF EInvoices!OneDocument, Quiet
  <2> DEFINE D == {d \in EInvoices!DocumentId : nts[d].owner = i}
  <2>1. i # 0
    BY EInvoicesNumbers DEF EInvoices!InvoiceId
  <2>2. CASE D = {}
    <3>1. Cardinality({}) = 0
      BY FS_EmptySet
    <3> QED BY <2>2, <3>1
  <2>3. CASE D # {}
    <3>1. PICK e \in D : TRUE
      BY <2>3
    <3>2. D = {e}
      BY <2>1, <3>1 DEF FilingInv, OneFiled
    <3>3. Cardinality({e}) = 1
      BY FS_Singleton
    <3> HIDE DEF D
    <3> QED BY <3>2, <3>3 DEF D
  <2> QED BY <2>2, <2>3
<1> QED BY <1>1, <1>2 DEF FilingInv

-----------------------------------------------------------------------------
(* Electronic tax invoices issued in a batch. *)

\* The cardinality of the instance is that of the lemmas.
LEMMA BatchesCardinality == \A S : Batches!Cardinality(S) = Cardinality(S)
BY DEF Batches!Cardinality, Cardinality

\* What the constants of this part are.
LEMMA BatchesNumbers ==
    BatchCount \in Nat \ {0} /\ TaxDocuments \in Nat /\ Threshold \in Nat \ {0}
BY BackOfficeAssumption

-----------------------------------------------------------------------------
(* The invariant. *)

BatchBusy(p) == desk[p].stage # "idle"
BatchCancelledAt(i) == \E d \in Batches!DocumentId :
  nts[d] = [owner |-> i, status |-> "CANCELLED"]

\* Documents are numbered as they come in, and one that an invoice names is its
\* own.
BatchFiled ==
    /\ \E k \in 0..TaxDocuments : Batches!Sent = 1..k
    /\ \A d \in Batches!DocumentId : nts[d].owner = 0 <=> nts[d].status = "NONE"
    /\ \A i \in Batches!InvoiceId :
          /\ invoiced[i].document # 0 => nts[invoiced[i].document].owner = i
          /\ invoiced[i].status = "CANCELLED" => BatchCancelledAt(i)
          /\ "edit" \notin entries /\ invoiced[i].status # "NONE" => invoiced[i].document # 0

\* What a request keeps of an invoice is no less true.
BatchRight(w, x) ==
    /\ x.document # 0 => nts[x.document].owner = x.invoice
    /\ x.status = "CANCELLED" => BatchCancelledAt(x.invoice)
    /\ w.act \in {"query", "cancel"} =>
          /\ x.document # 0
          /\ "edit" \notin entries => invoiced[x.invoice].document # 0
BatchHelds ==
    \A p \in Session :
        LET w == desk[p] IN
        w.stage # "idle" =>
            /\ BatchRight(w, w.item) /\ \A x \in w.rest : BatchRight(w, x)
            /\ w.stage = "editing" <=> w.act = "edit"
            /\ w.act = "edit" => "edit" \in entries
            /\ w.stage = "saving" => w.item.document # 0

\* One at a time, no other request is there, each invoice is kept once, and its
\* number is the one it has, until a new number is to be saved.
BatchApart(w) ==
    /\ \A x \in w.rest : x.invoice # w.item.invoice /\ invoiced[x.invoice].document = x.document
    /\ \A x, y \in w.rest : x.invoice = y.invoice => x = y
    /\ w.stage # "saving" \/ w.act # "issue"
         => invoiced[w.item.invoice].document = w.item.document
BatchOneFiles ==
    "race" \notin entries => \A p \in Session :
        BatchBusy(p) => BatchApart(desk[p]) /\ \A q \in Session : q # p => ~BatchBusy(q)

\* An invoice without a number has no document, but one whose number is about
\* to be saved.
BatchQuiet == entries \cap {"race", "lost", "crash"} = {}
BatchOneFiled ==
    BatchQuiet =>
        /\ \A d, e \in Batches!DocumentId : nts[d].owner # 0 /\ nts[d].owner = nts[e].owner
             => d = e
        /\ \A i \in Batches!InvoiceId :
              invoiced[i].document = 0 =>
                  \/ \A d \in Batches!DocumentId : nts[d].owner # i
                  \/ \E p \in Session :
                        Batches!At(p, "saving") /\ desk[p].act = "issue"
                          /\ desk[p].item.invoice = i

BatchInv ==
    /\ Batches!TypeOK /\ Batches!ClosedBelowThreshold
    /\ BatchFiled /\ BatchHelds /\ BatchOneFiles /\ BatchOneFiled

-----------------------------------------------------------------------------
(* The breaker, the documents and what a request keeps. *)

LEMMA BatchIdle ==
    Batches!Idle \in Batches!Work /\ Batches!Idle.stage = "idle"
BY BatchesNumbers DEF Batches!Idle, Batches!Work, Batches!NoItem, Batches!Item, Batches!InvoiceId,
   Batches!Status

LEMMA BatchBreakerCounts ==
    ASSUME NEW b \in Batches!Breaker, b.state = "closed" => b.failures < Threshold
    PROVE  /\ Batches!Looked(b) \in Batches!Breaker
                /\ (Batches!Looked(b).state = "closed" => Batches!Looked(b).failures < Threshold)
           /\ Batches!Succeeded(b) \in Batches!Breaker
                /\ (Batches!Succeeded(b).state = "closed" => Batches!Succeeded(b).failures < Threshold)
           /\ Batches!Failed(b) \in Batches!Breaker
                /\ (Batches!Failed(b).state = "closed" => Batches!Failed(b).failures < Threshold)
<1>1. Batches!Looked(b) \in Batches!Breaker
        /\ (Batches!Looked(b).state = "closed" => Batches!Looked(b).failures < Threshold)
  BY DEF Batches!Looked, Batches!Breaker
<1>2. Batches!Succeeded(b) \in Batches!Breaker
        /\ (Batches!Succeeded(b).state = "closed" => Batches!Succeeded(b).failures < Threshold)
  <2> DEFINE s == IF b.state = "half_open" THEN "closed" ELSE b.state
  <2>1. s \in {"closed", "open", "half_open"}
          /\ Batches!Succeeded(b) = [b EXCEPT !.failures = 0, !.state = s]
    BY DEF Batches!Succeeded, Batches!Breaker
  <2> HIDE DEF s
  <2>2. /\ [b EXCEPT !.failures = 0, !.state = s] \in Batches!Breaker
        /\ [b EXCEPT !.failures = 0, !.state = s].failures = 0
    BY <2>1 DEF Batches!Breaker
  <2>3. Batches!Succeeded(b) \in Batches!Breaker /\ Batches!Succeeded(b).failures = 0
    BY <2>1, <2>2
  <2> QED BY <2>3, BatchesNumbers
<1>3. Batches!Failed(b) \in Batches!Breaker
        /\ (Batches!Failed(b).state = "closed" => Batches!Failed(b).failures < Threshold)
  <2> DEFINE m == IF b.failures < Threshold THEN b.failures + 1 ELSE b.failures
             s == IF b.failures + 1 >= Threshold THEN "open" ELSE b.state
  <2>1. m \in Nat /\ s \in {"closed", "open", "half_open"} /\ (s = "closed" => m < Threshold)
    BY BatchesNumbers DEF Batches!Breaker
  <2>2. Batches!Failed(b) = [b EXCEPT !.failures = m, !.cooled = FALSE, !.state = s]
    BY DEF Batches!Failed, Batches!Breaker
  <2> HIDE DEF m, s
  <2> QED BY <2>1, <2>2 DEF Batches!Breaker
<1> QED BY <1>1, <1>2, <1>3

LEMMA BatchFirstIn ==
    ASSUME NEW items \in SUBSET Batches!Item, items # {}
    PROVE  Batches!First(items) \in items
<1> DEFINE T == {x.invoice : x \in items}
<1>1. T \subseteq Nat /\ T # {}
  BY BatchesNumbers DEF Batches!Item, Batches!InvoiceId
<1>2. PICK n \in T : \A m \in T : n <= m
  BY <1>1, LeastOne
<1>3. PICK x \in items : x.invoice = n
  BY <1>2
<1>4. \E y \in items : \A z \in items : y.invoice <= z.invoice
  BY <1>2, <1>3
<1> QED BY <1>4 DEF Batches!First

LEMMA BatchFacts ==
    ASSUME BatchInv, NEW p \in Session
    PROVE  /\ desk[p] \in Batches!Work /\ desk[p].item \in Batches!Item
                /\ desk[p].rest \in SUBSET Batches!Item
           /\ desk[p].item.invoice \in Batches!InvoiceId
           /\ desk[p].item.document \in 0..TaxDocuments
           /\ breaker \in Batches!Breaker
                /\ (breaker.state = "closed" => breaker.failures < Threshold)
BY DEF BatchInv, Batches!TypeOK, Batches!ClosedBelowThreshold, Batches!Work, Batches!Item

LEMMA BatchNextRight ==
    ASSUME NEW w \in Batches!Work
    PROVE  \/ Batches!NextItem(w) = Batches!Idle
           \/ /\ Batches!NextItem(w) \in Batches!Work /\ Batches!NextItem(w).stage = "checking"
                /\ Batches!NextItem(w).act = w.act
              /\ Batches!NextItem(w).item \in w.rest
                   /\ Batches!NextItem(w).rest = w.rest \ {Batches!NextItem(w).item}
<1> SUFFICES ASSUME w.rest # {} PROVE
              /\ Batches!NextItem(w) \in Batches!Work /\ Batches!NextItem(w).stage = "checking"
                   /\ Batches!NextItem(w).act = w.act
              /\ Batches!NextItem(w).item \in w.rest
                   /\ Batches!NextItem(w).rest = w.rest \ {Batches!NextItem(w).item}
  BY DEF Batches!NextItem
<1> DEFINE x == Batches!First(w.rest)
           r == w.rest \ {x}
<1>1. w.rest \in SUBSET Batches!Item
  BY DEF Batches!Work
<1>2. x \in w.rest /\ x \in Batches!Item /\ r \in SUBSET Batches!Item
  BY <1>1, BatchFirstIn
<1>3. Batches!NextItem(w) = [w EXCEPT !.stage = "checking", !.item = x, !.rest = r]
  BY DEF Batches!NextItem, Batches!Work
<1>4. r = w.rest \ {x}
  OBVIOUS
<1> HIDE DEF x, r
<1> QED BY <1>2, <1>3, <1>4 DEF Batches!Work

LEMMA BatchMoves ==
    ASSUME BatchInv, NEW p \in Session, NEW w \in Batches!Work, desk' = [desk EXCEPT ![p] = w],
           entries' = entries, breaker' \in Batches!Breaker, Batches!ClosedBelowThreshold',
           nts' \in [Batches!DocumentId -> Batches!Document],
             invoiced' \in [Batches!InvoiceId -> Batches!Invoice], BatchFiled', BatchOneFiled',
           \A d \in Batches!DocumentId : nts[d].owner # 0 =>
              nts'[d].owner = nts[d].owner /\ (nts[d].status = "CANCELLED" => nts'[d] = nts[d]),
           "edit" \notin entries =>
              \A i \in Batches!InvoiceId : invoiced[i].document # 0 => invoiced'[i].document # 0,
           w.stage # "idle" =>
              /\ BatchRight(w, w.item)' /\ \A x \in w.rest : BatchRight(w, x)'
              /\ w.stage = "editing" <=> w.act = "edit"
              /\ w.act = "edit" => "edit" \in entries
              /\ w.stage = "saving" => w.item.document # 0,
           "race" \notin entries =>
              /\ w.stage # "idle" => BatchApart(w)'
              /\ \A q \in Session : q # p => ~BatchBusy(q)
    PROVE  BatchInv'
<1>1. desk'[p] = w /\ \A q \in Session : q # p => desk'[q] = desk[q]
  BY DEF BatchInv, Batches!TypeOK
<1>2. Batches!TypeOK'
  <2>1. desk' \in [Session -> Batches!Work]
    BY DEF BatchInv, Batches!TypeOK
  <2> QED BY <2>1 DEF BatchInv, Batches!TypeOK
<1>3. ASSUME NEW o \in Batches!Work, NEW x \in Batches!Item, BatchRight(o, x)
      PROVE  BatchRight(o, x)'
  <2>1. x.document \in 0..TaxDocuments /\ x.invoice \in Batches!InvoiceId /\ x.invoice # 0
    BY BatchesNumbers DEF Batches!Item, Batches!InvoiceId
  <2>2. x.document # 0 => nts'[x.document].owner = x.invoice
    BY <1>3, <2>1, BatchesNumbers DEF BatchRight, Batches!DocumentId
  <2>3. x.status = "CANCELLED" => BatchCancelledAt(x.invoice)'
    <3> SUFFICES ASSUME x.status = "CANCELLED" PROVE BatchCancelledAt(x.invoice)'
      OBVIOUS
    <3>1. PICK d \in Batches!DocumentId : nts[d] = [owner |-> x.invoice, status |-> "CANCELLED"]
      BY <1>3 DEF BatchRight, BatchCancelledAt
    <3>2. nts'[d] = nts[d]
      BY <2>1, <3>1
    <3> QED BY <3>1, <3>2 DEF BatchCancelledAt
  <2> QED BY <1>3, <2>1, <2>2, <2>3 DEF BatchRight
<1>4. BatchHelds'
  <2> SUFFICES ASSUME NEW q \in Session PROVE BatchHelds!(q)'
    BY DEF BatchHelds
  <2>1. CASE q = p
    BY <2>1, <1>1
  <2>2. CASE q # p
    <3> SUFFICES ASSUME desk[q].stage # "idle" PROVE BatchHelds!(q)'
      BY <1>1, <2>2
    <3>1. /\ BatchRight(desk[q], desk[q].item) /\ \A x \in desk[q].rest : BatchRight(desk[q], x)
          /\ desk[q].stage = "editing" <=> desk[q].act = "edit"
          /\ desk[q].act = "edit" => "edit" \in entries
          /\ desk[q].stage = "saving" => desk[q].item.document # 0
      BY DEF BatchInv, BatchHelds
    <3>2. desk[q] \in Batches!Work /\ desk[q].item \in Batches!Item
            /\ desk[q].rest \in SUBSET Batches!Item
      BY BatchFacts
    <3>3. PICK u : u = desk[q]
      OBVIOUS
    <3>4. BatchRight(u, u.item)' /\ \A x \in u.rest : BatchRight(u, x)'
      BY <3>1, <3>2, <3>3, <1>3
    <3>5. desk'[q] = u
      BY <1>1, <2>2, <3>3
    <3> QED BY <3>1, <3>3, <3>4, <3>5
  <2> QED BY <2>1, <2>2
<1>5. BatchOneFiles'
  <2> SUFFICES ASSUME "race" \notin entries, NEW q \in Session, desk'[q].stage # "idle"
               PROVE  BatchApart(desk[q])' /\ \A r \in Session : r # q => desk'[r].stage = "idle"
    BY DEF BatchOneFiles, BatchBusy
  <2>1. q = p
    BY <1>1 DEF BatchBusy
  <2> QED BY <2>1, <1>1 DEF BatchBusy
<1> QED BY <1>2, <1>4, <1>5 DEF BatchInv

\* A request that leaves invoices and documents alone.
LEMMA BatchGoes ==
    ASSUME BatchInv, NEW p \in Session, NEW w \in Batches!Work, desk' = [desk EXCEPT ![p] = w],
           UNCHANGED <<invoiced, nts, entries>>, breaker' \in Batches!Breaker,
             Batches!ClosedBelowThreshold',
           Batches!At(p, "saving") => "crash" \in entries,
           BatchBusy(p) \/ Batches!MayAsk(p),
           w.stage # "idle" =>
              /\ BatchRight(w, w.item) /\ \A x \in w.rest : BatchRight(w, x)
              /\ w.stage = "editing" <=> w.act = "edit"
              /\ w.act = "edit" => "edit" \in entries
              /\ w.stage # "saving",
           "race" \notin entries /\ w.stage # "idle" => BatchApart(w)
    PROVE  BatchInv'
<1>1. desk'[p] = w /\ \A q \in Session : q # p => desk'[q] = desk[q]
  BY DEF BatchInv, Batches!TypeOK
<1>2. nts' \in [Batches!DocumentId -> Batches!Document]
        /\ invoiced' \in [Batches!InvoiceId -> Batches!Invoice]
  BY DEF BatchInv, Batches!TypeOK
<1>3. BatchFiled'
  BY DEF BatchInv, BatchFiled, Batches!Sent, BatchCancelledAt
<1>4. BatchOneFiled'
  <2> SUFFICES ASSUME BatchQuiet PROVE BatchOneFiled'
    BY DEF BatchOneFiled, BatchQuiet
  <2>1. ~Batches!At(p, "saving")
    BY DEF BatchQuiet
  <2>2. \A q \in Session : Batches!At(q, "saving") => desk'[q] = desk[q]
    BY <1>1, <2>1
  <2> QED BY <2>2 DEF BatchInv, BatchOneFiled, Batches!At
<1>5. "race" \notin entries => \A q \in Session : q # p => ~BatchBusy(q)
  BY DEF BatchInv, BatchOneFiles, Batches!MayAsk, BatchBusy, Batches!At
<1>6. /\ \A x : BatchRight(w, x) => BatchRight(w, x)'
      /\ BatchApart(w) => BatchApart(w)'
  BY DEF BatchRight, BatchApart, BatchCancelledAt
<1> QED BY <1>2, <1>3, <1>4, <1>5, <1>6, BatchMoves

\* What a request keeps, by the parts of the invariant.
LEMMA BatchKept ==
    ASSUME BatchInv, NEW p \in Session, BatchBusy(p)
    PROVE  /\ BatchRight(desk[p], desk[p].item)
           /\ \A x \in desk[p].rest : BatchRight(desk[p], x)
           /\ desk[p].stage = "editing" <=> desk[p].act = "edit"
           /\ desk[p].act = "edit" => "edit" \in entries
           /\ desk[p].stage = "saving" => desk[p].item.document # 0
           /\ "race" \notin entries =>
                 BatchApart(desk[p]) /\ \A q \in Session : q # p => ~BatchBusy(q)
BY DEF BatchInv, BatchHelds, BatchOneFiles, BatchBusy

LEMMA BatchSteps ==
    ASSUME BatchInv, NEW p \in Session, NEW stage, NEW token \in BOOLEAN,
           stage \in {"entering", "authenticating", "sending"},
           desk' = [desk EXCEPT ![p] = [desk[p] EXCEPT !.stage = stage, !.token = token]],
           UNCHANGED <<invoiced, nts, entries>>, breaker' \in Batches!Breaker,
             Batches!ClosedBelowThreshold',
           desk[p].stage \in {"checking", "entering", "authenticating"}
    PROVE  BatchInv'
<1> DEFINE o == desk[p]
           w == [o EXCEPT !.stage = stage, !.token = token]
<1>1. /\ w \in Batches!Work /\ w.stage = stage /\ w.act = o.act /\ w.item = o.item
           /\ w.rest = o.rest
      /\ o.stage \notin {"idle", "editing", "saving"}
  BY BatchFacts DEF Batches!Work
<1>2. BatchBusy(p) /\ ~Batches!At(p, "saving")
  BY DEF BatchBusy, Batches!At
<1>3. /\ BatchRight(o, o.item) /\ \A x \in o.rest : BatchRight(o, x)
      /\ o.act # "edit" /\ ("race" \notin entries => BatchApart(o))
  BY <1>1, <1>2, BatchKept
<1>4. desk' = [desk EXCEPT ![p] = w]
  OBVIOUS
<1> HIDE DEF o, w
<1>5. /\ \A x : BatchRight(o, x) => BatchRight(w, x)
      /\ BatchApart(o) => BatchApart(w)
  BY <1>1 DEF BatchRight, BatchApart
<1> QED BY <1>1, <1>2, <1>3, <1>4, <1>5, BatchGoes

\* A call that fails is given up.
LEMMA BatchFails ==
    ASSUME BatchInv, NEW p \in Session, desk' = [desk EXCEPT ![p] = Batches!OnFailure(desk[p])],
           UNCHANGED <<invoiced, nts, entries>>, breaker' \in Batches!Breaker,
             Batches!ClosedBelowThreshold',
           desk[p].stage \in {"checking", "entering", "authenticating", "sending"}
    PROVE  BatchInv'
<1> DEFINE o == desk[p]
           w == Batches!NextItem(o)
<1>1. o \in Batches!Work /\ o.stage \notin {"idle", "editing", "saving"}
        /\ desk' = [desk EXCEPT ![p] = w]
  BY BatchFacts DEF Batches!OnFailure
<1>2. BatchBusy(p) /\ ~Batches!At(p, "saving")
  BY DEF BatchBusy, Batches!At
<1>3. /\ BatchRight(o, o.item) /\ \A x \in o.rest : BatchRight(o, x)
      /\ o.act # "edit" /\ ("race" \notin entries => BatchApart(o))
  BY <1>1, <1>2, BatchKept
<1>4. \/ w = Batches!Idle
      \/ /\ w \in Batches!Work /\ w.stage = "checking" /\ w.act = o.act
         /\ w.item \in o.rest /\ w.rest = o.rest \ {w.item}
  BY <1>1, BatchNextRight
<1> HIDE DEF o, w
<1>5. CASE w = Batches!Idle
  BY <1>1, <1>2, <1>5, BatchIdle, BatchGoes
<1>6. CASE /\ w \in Batches!Work /\ w.stage = "checking" /\ w.act = o.act
           /\ w.item \in o.rest /\ w.rest = o.rest \ {w.item}
  <2>1. BatchRight(w, w.item) /\ \A x \in w.rest : BatchRight(w, x)
    BY <1>3, <1>6 DEF BatchRight
  <2>2. BatchApart(o) => BatchApart(w)
    BY <1>6 DEF BatchApart
  <2> QED BY <1>1, <1>2, <1>3, <1>6, <2>1, <2>2, BatchGoes
<1> QED BY <1>4, <1>5, <1>6

LEMMA BatchDies ==
    ASSUME BatchInv, NEW p \in Session, Batches!Crash(p)
    PROVE  BatchInv'
<1>1. desk' = [desk EXCEPT ![p] = Batches!Idle] /\ BatchBusy(p) /\ "crash" \in entries
  BY DEF Batches!Crash, Batches!Done, Batches!Goto, BatchBusy, Batches!At
<1>2. breaker' \in Batches!Breaker /\ Batches!ClosedBelowThreshold'
  BY BatchesNumbers DEF Batches!Crash, Batches!Breaker, Batches!ClosedBelowThreshold
<1> QED BY <1>1, <1>2, BatchIdle, BatchGoes DEF Batches!Crash

-----------------------------------------------------------------------------
(* What is asked for. *)

\* What is read of an invoice is right.
LEMMA BatchReadRight ==
    ASSUME BatchInv, NEW i \in Batches!InvoiceId
    PROVE  /\ Batches!Read(i) \in Batches!Item /\ Batches!Read(i).invoice = i
           /\ Batches!Read(i).document = invoiced[i].document
                /\ Batches!Read(i).status = invoiced[i].status
           /\ \A w : w.act \notin {"query", "cancel"} \/ invoiced[i].document # 0
                => BatchRight(w, Batches!Read(i))
<1>1. invoiced[i] \in Batches!Invoice
  BY DEF BatchInv, Batches!TypeOK
<1>2. /\ invoiced[i].document # 0 => nts[invoiced[i].document].owner = i
      /\ invoiced[i].status = "CANCELLED" => BatchCancelledAt(i)
  BY DEF BatchInv, BatchFiled
<1>3. /\ Batches!Read(i) \in Batches!Item /\ Batches!Read(i).invoice = i
      /\ Batches!Read(i).document = invoiced[i].document
           /\ Batches!Read(i).status = invoiced[i].status
  BY <1>1 DEF Batches!Read, Batches!Item, Batches!Invoice
<1> QED BY <1>2, <1>3 DEF BatchRight

LEMMA BatchAsks ==
    ASSUME BatchInv, NEW p \in Session, NEW act \in {"issue", "query", "cancel", "edit"},
           NEW I \in SUBSET Batches!InvoiceId, I # {}, NEW stage,
           stage = IF act = "edit" THEN "editing" ELSE "checking",
           Batches!MayAsk(p), Batches!Ask(p, act, {Batches!Read(i) : i \in I}, stage),
             act = "edit" => "edit" \in entries,
           act \in {"query", "cancel"} => \A i \in I : invoiced[i].document # 0,
           UNCHANGED <<invoiced, nts, breaker, entries>>
    PROVE  BatchInv'
<1> DEFINE items == {Batches!Read(i) : i \in I}
           x1 == Batches!First(items)
           w == [stage |-> stage, act |-> act, item |-> x1, rest |-> items \ {x1}, token |-> FALSE]
<1>1. items \in SUBSET Batches!Item /\ items # {}
  BY BatchReadRight
<1>2. x1 \in items
  BY <1>1, BatchFirstIn
<1>3. w \in Batches!Work /\ w.stage = stage /\ w.act = act /\ w.item = x1 /\ w.rest = items \ {x1}
  BY <1>1, <1>2 DEF Batches!Work
<1>4. desk' = [desk EXCEPT ![p] = w]
  BY DEF Batches!Ask, Batches!Goto
<1>5. \A x \in items : x.invoice \in I /\ x = Batches!Read(x.invoice)
  BY BatchReadRight
<1>6. \A x \in items : x.document = invoiced[x.invoice].document
  BY <1>5, BatchReadRight
<1>7. /\ breaker' \in Batches!Breaker /\ Batches!ClosedBelowThreshold'
  BY DEF BatchInv, Batches!TypeOK, Batches!ClosedBelowThreshold
<1>8. ~Batches!At(p, "saving")
  BY DEF Batches!MayAsk, Batches!At
<1> HIDE DEF items, x1, w
<1>9. \A x \in items : BatchRight(w, x)
  BY <1>3, <1>5, BatchReadRight
<1>10. BatchApart(w)
  BY <1>2, <1>3, <1>5, <1>6 DEF BatchApart
<1> QED BY <1>2, <1>3, <1>4, <1>7, <1>8, <1>9, <1>10, BatchGoes

LEMMA BatchInvoiceAsked ==
    ASSUME BatchInv, NEW p \in Session, NEW i \in Batches!InvoiceId,
           Batches!AskIssue(p, i) \/ Batches!AskQuery(p, i) \/ Batches!AskCancel(p, i)
             \/ Batches!AskEdit(p, i)
    PROVE  BatchInv'
<1>1. {Batches!Read(j) : j \in {i}} = {Batches!Read(i)} /\ {i} \in SUBSET Batches!InvoiceId
        /\ {i} # {}
  OBVIOUS
<1>2. CASE Batches!AskIssue(p, i)
  <2>1. Batches!MayAsk(p) /\ Batches!Ask(p, "issue", {Batches!Read(j) : j \in {i}}, "checking")
        /\ UNCHANGED <<invoiced, nts, breaker, entries>>
    BY <1>1, <1>2 DEF Batches!AskIssue
  <2> QED BY <1>1, <2>1, BatchAsks
<1>3. CASE Batches!AskQuery(p, i)
  <2>1. Batches!MayAsk(p) /\ Batches!Ask(p, "query", {Batches!Read(j) : j \in {i}}, "checking")
          /\ invoiced[i].document # 0
        /\ UNCHANGED <<invoiced, nts, breaker, entries>>
    BY <1>1, <1>3 DEF Batches!AskQuery
  <2> QED BY <1>1, <2>1, BatchAsks
<1>4. CASE Batches!AskCancel(p, i)
  <2>1. Batches!MayAsk(p) /\ Batches!Ask(p, "cancel", {Batches!Read(j) : j \in {i}}, "checking")
          /\ invoiced[i].document # 0
        /\ UNCHANGED <<invoiced, nts, breaker, entries>>
    BY <1>1, <1>4 DEF Batches!AskCancel
  <2> QED BY <1>1, <2>1, BatchAsks
<1>5. CASE Batches!AskEdit(p, i)
  <2>1. Batches!MayAsk(p) /\ Batches!Ask(p, "edit", {Batches!Read(j) : j \in {i}}, "editing")
          /\ "edit" \in entries
        /\ UNCHANGED <<invoiced, nts, breaker, entries>>
    BY <1>1, <1>5 DEF Batches!AskEdit
  <2> QED BY <1>1, <2>1, BatchAsks
<1> QED BY <1>2, <1>3, <1>4, <1>5

LEMMA BatchBatchAsked ==
    ASSUME BatchInv, NEW p \in Session, Batches!AskBatch(p)
    PROVE  BatchInv'
<1>1. PICK I \in SUBSET Batches!InvoiceId :
        /\ I # {} /\ Batches!MayAsk(p)
             /\ Batches!Ask(p, "issue", {Batches!Read(i) : i \in I}, "checking")
        /\ UNCHANGED <<invoiced, nts, breaker, entries>>
  BY DEF Batches!AskBatch
<1> QED BY <1>1, BatchAsks

LEMMA BatchBreakerLooked ==
    ASSUME BatchInv, NEW p \in Session, Batches!Check(p) \/ Batches!Enter(p)
           \/ Batches!Authenticate(p)
    PROVE  BatchInv'
<1>1. /\ desk[p] \in Batches!Work /\ breaker' \in Batches!Breaker /\ Batches!ClosedBelowThreshold'
      /\ UNCHANGED <<invoiced, nts, entries>>
      /\ desk[p].stage \in {"checking", "entering", "authenticating"}
  <2>1. breaker' \in {Batches!Looked(breaker), Batches!Succeeded(breaker), Batches!Failed(breaker)}
    BY DEF Batches!Check, Batches!Enter, Batches!Authenticate
  <2>2. desk[p] \in Batches!Work /\ breaker \in Batches!Breaker
          /\ (breaker.state = "closed" => breaker.failures < Threshold)
    BY BatchFacts
  <2>3. breaker' \in Batches!Breaker /\ Batches!ClosedBelowThreshold'
    BY <2>1, <2>2, BatchBreakerCounts DEF Batches!ClosedBelowThreshold
  <2> QED BY <2>2, <2>3 DEF Batches!Check, Batches!Enter, Batches!Authenticate, Batches!At
<1>2. \/ desk' = [desk EXCEPT ![p] = Batches!OnFailure(desk[p])]
      \/ \E stage \in {"entering", "authenticating", "sending"}, token \in BOOLEAN :
            desk' = [desk EXCEPT ![p] = [desk[p] EXCEPT !.stage = stage, !.token = token]]
  <2>1. desk[p].token \in BOOLEAN
    BY <1>1 DEF Batches!Work
  <2>2. \A stage : [desk[p] EXCEPT !.stage = stage]
                      = [desk[p] EXCEPT !.stage = stage, !.token = desk[p].token]
    BY <1>1 DEF Batches!Work
  <2>3. ASSUME NEW stage \in {"entering", "authenticating", "sending"}, Batches!Step(p, stage)
        PROVE  desk' = [desk EXCEPT ![p] =
                           [desk[p] EXCEPT !.stage = stage, !.token = desk[p].token]]
    BY <2>2, <2>3 DEF Batches!Step, Batches!Goto
  <2>4. CASE Batches!Check(p)
    BY <2>1, <2>3, <2>4 DEF Batches!Check, Batches!Goto
  <2>5. CASE Batches!Enter(p)
    BY <2>1, <2>3, <2>5 DEF Batches!Enter, Batches!Goto
  <2>6. CASE Batches!Authenticate(p)
    BY <2>6 DEF Batches!Authenticate, Batches!Goto
  <2> QED BY <2>4, <2>5, <2>6
<1> QED BY <1>1, <1>2, BatchFails, BatchSteps

-----------------------------------------------------------------------------
(* The call and what is saved of it. *)

\* What the tax office has after it receives a call.
LEMMA BatchCallReceived ==
    ASSUME BatchInv, NEW w \in Batches!Work, NEW d, w.act \in {"issue", "query", "cancel"},
           BatchRight(w, w.item),
             d = IF w.act = "issue" THEN Batches!Draw(w.item) ELSE w.item.document,
           d <= TaxDocuments, nts' = Batches!Received(w.act, w.item, d)
    PROVE  /\ d \in Batches!DocumentId /\ nts' \in [Batches!DocumentId -> Batches!Document]
           /\ nts'[d].owner = w.item.invoice /\ nts'[d].status # "NONE"
           /\ \A e \in Batches!DocumentId : e # d => nts'[e] = nts[e]
           /\ nts[d].owner = 0 \/ nts[d].owner = w.item.invoice
           /\ nts[d].owner = 0 => w.item.document = 0 /\ w.act = "issue"
                /\ \A k \in 0..TaxDocuments : Batches!Sent = 1..k => d = k + 1
           /\ nts[d].status = "CANCELLED" => nts'[d] = nts[d]
           /\ w.act = "cancel" => nts'[d].status = "CANCELLED"
           /\ w.act = "query" => nts' = nts
<1> DEFINE v == w.item
           i == v.invoice
<1>1. /\ v \in Batches!Item /\ i \in Batches!InvoiceId /\ v.document \in 0..TaxDocuments
           /\ i \in 0..BatchCount /\ i # 0
      /\ nts \in [Batches!DocumentId -> Batches!Document]
  BY BatchesNumbers DEF Batches!Work, Batches!Item, Batches!InvoiceId, BatchInv, Batches!TypeOK
<1>2. v.document # 0 => nts[v.document].owner = i
  BY DEF BatchRight
<1>3. PICK k \in 0..TaxDocuments : Batches!Sent = 1..k
  BY DEF BatchInv, BatchFiled
<1>4. Cardinality(Batches!Sent) = k
  BY <1>3, FS_Interval
<1>5. \A e \in Batches!DocumentId : nts[e].owner = 0 <=> nts[e].status = "NONE"
  BY DEF BatchInv, BatchFiled
<1>6. d = IF w.act = "issue" /\ v.document = 0 THEN k + 1 ELSE v.document
  BY <1>4, BatchesCardinality DEF Batches!Draw
<1>7. w.act \in {"query", "cancel"} => v.document # 0
  BY DEF BatchRight
<1>8. d \in Batches!DocumentId
  BY <1>1, <1>6, <1>7, BatchesNumbers DEF Batches!DocumentId
<1>9. nts[d] \in Batches!Document /\ nts[d].owner \in 0..BatchCount
  BY <1>1, <1>8 DEF Batches!Document
<1>10. d \notin Batches!Sent <=> nts[d].owner = 0
  BY <1>8 DEF Batches!Sent
<1>11. v.document = 0 /\ w.act = "issue" => nts[d].owner = 0 /\ nts[d].status = "NONE"
  <2>1. k + 1 \notin 1..k
    OBVIOUS
  <2> QED BY <1>3, <1>5, <1>6, <1>8, <1>10, <2>1
<1>12. nts[d].owner = 0 \/ nts[d].owner = i
  BY <1>2, <1>6, <1>7, <1>11
<1>13. nts[d].owner = 0 => v.document = 0 /\ w.act = "issue" /\ \A m \in 0..TaxDocuments :
         Batches!Sent = 1..m => d = m + 1
  <2> SUFFICES ASSUME nts[d].owner = 0
               PROVE  v.document = 0 /\ w.act = "issue" /\ \A m \in 0..TaxDocuments :
                        Batches!Sent = 1..m => d = m + 1
    OBVIOUS
  <2>1. v.document = 0 /\ w.act = "issue"
    BY <1>1, <1>2, <1>6, <1>7
  <2>2. ASSUME NEW m \in 0..TaxDocuments, Batches!Sent = 1..m PROVE d = m + 1
    <3>1. Cardinality(Batches!Sent) = m
      BY <2>2, FS_Interval
    <3> QED BY <3>1, <1>4, <1>6, <2>1
  <2> QED BY <2>1, <2>2
<1> HIDE DEF v, i
<1>14. CASE w.act = "issue" /\ nts[d].status \in {"NONE", "REJECTED"}
  <2>1. nts' = [nts EXCEPT ![d] = [owner |-> i, status |-> "ISSUED"]]
    BY <1>14 DEF Batches!Received, v, i
  <2>2. [owner |-> i, status |-> "ISSUED"] \in Batches!Document
    BY <1>1 DEF Batches!Document, Batches!Status
  <2> QED BY <1>1, <1>8, <1>12, <1>13, <1>14, <2>1, <2>2 DEF v, i
<1>15. CASE w.act = "cancel"
  <2>1. nts' = [nts EXCEPT ![d].status = "CANCELLED"]
    BY <1>15 DEF Batches!Received
  <2>2. nts[d].owner = i
    BY <1>12, <1>13, <1>15
  <2>3. /\ [nts[d] EXCEPT !.status = "CANCELLED"] \in Batches!Document
        /\ [nts[d] EXCEPT !.status = "CANCELLED"].owner = nts[d].owner
        /\ [nts[d] EXCEPT !.status = "CANCELLED"].status = "CANCELLED"
        /\ nts[d].status = "CANCELLED" => [nts[d] EXCEPT !.status = "CANCELLED"] = nts[d]
    BY <1>9 DEF Batches!Document, Batches!Status
  <2>4. nts' = [nts EXCEPT ![d] = [nts[d] EXCEPT !.status = "CANCELLED"]]
    BY <2>1
  <2> QED BY <1>1, <1>8, <1>12, <1>13, <1>15, <2>2, <2>3, <2>4 DEF v, i
<1>16. CASE ~(w.act = "issue" /\ nts[d].status \in {"NONE", "REJECTED"}) /\ w.act # "cancel"
  <2>1. nts' = nts
    BY <1>16 DEF Batches!Received
  <2>2. nts[d].status # "NONE" /\ nts[d].owner # 0
    BY <1>5, <1>8, <1>13, <1>16
  <2> QED BY <1>1, <1>8, <1>12, <1>13, <1>16, <2>1, <2>2 DEF v, i
<1> QED BY <1>14, <1>15, <1>16

\* The documents are filed still.
LEMMA BatchFiledStill ==
    ASSUME BatchInv, NEW d \in Batches!DocumentId, NEW i \in Batches!InvoiceId,
           nts' \in [Batches!DocumentId -> Batches!Document], UNCHANGED <<invoiced, entries>>,
           nts'[d].owner = i, nts'[d].status # "NONE",
           \A e \in Batches!DocumentId : e # d => nts'[e] = nts[e],
           nts[d].owner = 0 \/ nts[d].owner = i,
           nts[d].owner = 0 => \A k \in 0..TaxDocuments : Batches!Sent = 1..k => d = k + 1,
           nts[d].status = "CANCELLED" => nts'[d] = nts[d]
    PROVE  /\ BatchFiled'
           /\ \A e \in Batches!DocumentId : nts[e].owner # 0 =>
                 nts'[e].owner = nts[e].owner /\ (nts[e].status = "CANCELLED" => nts'[e] = nts[e])
<1>1. i # 0 /\ i \in Nat
  BY BatchesNumbers DEF Batches!InvoiceId
<1>2. \A e \in Batches!DocumentId : nts[e].owner # 0 =>
         nts'[e].owner = nts[e].owner /\ (nts[e].status = "CANCELLED" => nts'[e] = nts[e])
  OBVIOUS
<1>3. \E k \in 0..TaxDocuments : Batches!Sent' = 1..k
  <2>1. PICK k \in 0..TaxDocuments : Batches!Sent = 1..k
    BY DEF BatchInv, BatchFiled
  <2>2. Batches!Sent' = Batches!Sent \cup {d}
    BY <1>1 DEF Batches!Sent
  <2>3. CASE d \in Batches!Sent
    BY <2>1, <2>2, <2>3
  <2>4. CASE d \notin Batches!Sent
    <3>1. d = k + 1 /\ k + 1 \in 0..TaxDocuments
      BY <2>1, <2>4, BatchesNumbers DEF Batches!Sent, Batches!DocumentId
    <3>2. 1..(k + 1) = 1..k \cup {k + 1}
      OBVIOUS
    <3> QED BY <2>1, <2>2, <3>1, <3>2
  <2> QED BY <2>3, <2>4
<1>4. \A e \in Batches!DocumentId : nts'[e].owner = 0 <=> nts'[e].status = "NONE"
  BY <1>1 DEF BatchInv, BatchFiled
<1>5. ASSUME NEW j \in Batches!InvoiceId
      PROVE  /\ invoiced[j].document # 0 => nts'[invoiced[j].document].owner = j
             /\ invoiced[j].status = "CANCELLED" => BatchCancelledAt(j)'
  <2>1. invoiced[j].document # 0 => nts[invoiced[j].document].owner = j
    BY DEF BatchInv, BatchFiled
  <2>2. invoiced[j].document \in 0..TaxDocuments /\ j # 0
    BY BatchesNumbers DEF BatchInv, Batches!TypeOK, Batches!Invoice, Batches!InvoiceId
  <2>3. invoiced[j].document # 0 => invoiced[j].document \in Batches!DocumentId
    BY <2>2, BatchesNumbers DEF Batches!DocumentId
  <2>4. invoiced[j].status = "CANCELLED" => BatchCancelledAt(j)'
    <3> SUFFICES ASSUME invoiced[j].status = "CANCELLED" PROVE BatchCancelledAt(j)'
      OBVIOUS
    <3>1. PICK e \in Batches!DocumentId : nts[e] = [owner |-> j, status |-> "CANCELLED"]
      BY DEF BatchInv, BatchFiled, BatchCancelledAt
    <3>2. nts'[e] = nts[e]
      BY <1>2, <2>2, <3>1
    <3> QED BY <3>1, <3>2 DEF BatchCancelledAt
  <2> QED BY <1>2, <2>1, <2>2, <2>3, <2>4
<1>6. BatchFiled'
  BY <1>3, <1>4, <1>5 DEF BatchInv, BatchFiled
<1> QED BY <1>2, <1>6

LEMMA BatchInvoiceSent ==
    ASSUME BatchInv, NEW p \in Session, Batches!Send(p)
    PROVE  BatchInv'
<1>a. PICK o : o = desk[p]
  OBVIOUS
<1>b. PICK i : i = o.item.invoice
  OBVIOUS
<1>c. PICK d : d = IF o.act = "issue" THEN Batches!Draw(o.item) ELSE o.item.document
  OBVIOUS
<1>d. PICK answer : answer = CASE o.act = "issue" -> "ISSUED"
                              [] o.act = "query" -> nts[d].status
                              [] o.act = "cancel" -> "CANCELLED"
  OBVIOUS
<1>e. PICK w : w = [o EXCEPT !.stage = "saving", !.item.document = d, !.item.status = answer]
  OBVIOUS
<1>1. /\ o \in Batches!Work /\ o.item \in Batches!Item /\ o.rest \in SUBSET Batches!Item
           /\ i \in Batches!InvoiceId
      /\ o.stage = "sending" /\ breaker \in Batches!Breaker
           /\ (breaker.state = "closed" => breaker.failures < Threshold)
  BY <1>a, <1>b, BatchFacts DEF Batches!Send, Batches!At
<1>2. BatchBusy(p) /\ ~Batches!At(p, "saving") /\ ~Batches!At(p, "idle")
  BY <1>a, <1>1 DEF BatchBusy, Batches!At
<1>3. /\ BatchRight(o, o.item) /\ o.act # "edit"
      /\ \A x \in o.rest : BatchRight(o, x)
      /\ "race" \notin entries => BatchApart(o) /\ \A q \in Session : q # p => ~BatchBusy(q)
  <2>1. /\ BatchRight(desk[p], desk[p].item)
        /\ \A x \in desk[p].rest : BatchRight(desk[p], x)
        /\ desk[p].stage = "editing" <=> desk[p].act = "edit"
        /\ "race" \notin entries =>
              BatchApart(desk[p]) /\ \A q \in Session : q # p => ~BatchBusy(q)
    BY <1>2, BatchKept
  <2> QED BY <1>a, <1>1, <2>1
<1>4. o.act \in {"issue", "query", "cancel"}
  BY <1>1, <1>3 DEF Batches!Work
<1>5. /\ UNCHANGED <<invoiced, entries>> /\ d <= TaxDocuments
      /\ \/ /\ nts' = Batches!Received(o.act, o.item, d) /\ breaker' = Batches!Succeeded(breaker)
            /\ desk' = [desk EXCEPT ![p] = w]
         \/ /\ "lost" \in entries /\ nts' = Batches!Received(o.act, o.item, d)
            /\ breaker' = Batches!Failed(breaker)
                 /\ desk' = [desk EXCEPT ![p] = Batches!OnFailure(o)]
         \/ /\ UNCHANGED nts
            /\ breaker' = Batches!Failed(breaker)
                 /\ desk' = [desk EXCEPT ![p] = Batches!OnFailure(o)]
  BY <1>a, <1>c, <1>d, <1>e DEF Batches!Send, Batches!Goto
<1>6. breaker' \in Batches!Breaker /\ Batches!ClosedBelowThreshold'
  <2>1. breaker' \in {Batches!Succeeded(breaker), Batches!Failed(breaker)}
    BY <1>5
  <2> QED BY <1>1, <2>1, BatchBreakerCounts DEF Batches!ClosedBelowThreshold
<1>7. invoiced' \in [Batches!InvoiceId -> Batches!Invoice]
        /\ nts \in [Batches!DocumentId -> Batches!Document]
  BY <1>5 DEF BatchInv, Batches!TypeOK
<1>8. CASE nts' = Batches!Received(o.act, o.item, d)
  <2>1. /\ d \in Batches!DocumentId /\ nts' \in [Batches!DocumentId -> Batches!Document]
        /\ nts'[d].owner = i /\ nts'[d].status # "NONE"
        /\ \A e \in Batches!DocumentId : e # d => nts'[e] = nts[e]
        /\ nts[d].owner = 0 \/ nts[d].owner = i
        /\ nts[d].owner = 0 => o.item.document = 0 /\ o.act = "issue"
             /\ \A k \in 0..TaxDocuments : Batches!Sent = 1..k => d = k + 1
        /\ nts[d].status = "CANCELLED" => nts'[d] = nts[d]
        /\ o.act = "cancel" => nts'[d].status = "CANCELLED"
        /\ o.act = "query" => nts' = nts
    BY <1>b, <1>c, <1>1, <1>3, <1>4, <1>5, <1>8, BatchCallReceived
  <2>2. /\ BatchFiled'
        /\ \A e \in Batches!DocumentId : nts[e].owner # 0 =>
              nts'[e].owner = nts[e].owner /\ (nts[e].status = "CANCELLED" => nts'[e] = nts[e])
    <3> QED BY <1>1, <1>5, <2>1, BatchFiledStill
  <2>3. ASSUME NEW x \in Batches!Item, NEW u \in Batches!Work, u.act = o.act, BatchRight(o, x)
        PROVE  BatchRight(u, x)'
    <3>1. x.document \in 0..TaxDocuments /\ x.invoice \in Batches!InvoiceId /\ x.invoice # 0
      BY BatchesNumbers DEF Batches!Item, Batches!InvoiceId
    <3>2. x.document # 0 => nts'[x.document].owner = x.invoice
      BY <2>2, <2>3, <3>1, BatchesNumbers DEF BatchRight, Batches!DocumentId
    <3>3. x.status = "CANCELLED" => BatchCancelledAt(x.invoice)'
      <4> SUFFICES ASSUME x.status = "CANCELLED" PROVE BatchCancelledAt(x.invoice)'
        OBVIOUS
      <4>1. PICK e \in Batches!DocumentId : nts[e] = [owner |-> x.invoice, status |-> "CANCELLED"]
        BY <2>3 DEF BatchRight, BatchCancelledAt
      <4>2. nts'[e] = nts[e]
        BY <2>2, <3>1, <4>1
      <4> QED BY <4>1, <4>2 DEF BatchCancelledAt
    <3> QED BY <1>5, <2>3, <3>1, <3>2, <3>3 DEF BatchRight
  <2>4. CASE desk' = [desk EXCEPT ![p] = w]
    <3>1. d \in 0..TaxDocuments /\ d # 0 /\ i # 0
      BY <1>1, <2>1, BatchesNumbers DEF Batches!DocumentId, Batches!InvoiceId
    <3>2. answer \in Batches!Status /\ nts[d] \in Batches!Document /\ nts'[d] \in Batches!Document
      <4>1. nts[d] \in Batches!Document /\ nts'[d] \in Batches!Document
        BY <1>7, <2>1
      <4>2. nts[d].status \in Batches!Status
        BY <4>1 DEF Batches!Document
      <4> QED BY <1>d, <1>4, <4>1, <4>2 DEF Batches!Status
    <3>3. answer = "CANCELLED" => nts'[d].status = "CANCELLED"
      BY <1>d, <1>4, <2>1
    <3>4. /\ w \in Batches!Work /\ w.stage = "saving" /\ w.act = o.act /\ w.rest = o.rest
          /\ w.item = [o.item EXCEPT !.document = d, !.status = answer]
      <4>1. [o.item EXCEPT !.document = d, !.status = answer] \in Batches!Item
        BY <1>1, <3>1, <3>2 DEF Batches!Item
      <4>2. w = [o EXCEPT !.stage = "saving", !.item = [o.item EXCEPT !.document = d, !.status = answer]]
        BY <1>e, <1>1 DEF Batches!Work, Batches!Item
      <4> QED BY <1>1, <4>1, <4>2 DEF Batches!Work
    <3>5. w.item.invoice = i /\ w.item.document = d /\ w.item.status = answer
      <4> QED BY <1>b, <1>1, <3>4 DEF Batches!Item
    <3>6. BatchRight(w, w.item)'
      <4>1. answer = "CANCELLED" => BatchCancelledAt(i)'
        <5> SUFFICES ASSUME answer = "CANCELLED" PROVE BatchCancelledAt(i)'
          OBVIOUS
        <5>1. nts'[d] = [owner |-> i, status |-> "CANCELLED"]
          BY <2>1, <3>2, <3>3 DEF Batches!Document
        <5> QED BY <2>1, <5>1 DEF BatchCancelledAt
      <4>2. w.act \in {"query", "cancel"} /\ "edit" \notin entries' => invoiced'[i].document # 0
        BY <1>b, <1>3, <1>5, <3>4 DEF BatchRight
      <4> QED BY <2>1, <3>1, <3>4, <3>5, <4>1, <4>2 DEF BatchRight
    <3>7. \A x \in w.rest : BatchRight(w, x)'
      <4>1. w \in Batches!Work /\ w.act = o.act /\ w.rest = o.rest
        BY <3>4
      <4> QED BY <1>1, <1>3, <2>3, <4>1
    <3>8. BatchApart(o) => BatchApart(w)'
      BY <1>b, <1>c, <1>1, <1>5, <3>4, <3>5 DEF BatchApart
    <3>9. desk'[p] = w /\ \A q \in Session : q # p => desk'[q] = desk[q]
      BY <2>4 DEF BatchInv, Batches!TypeOK
    <3>10. BatchOneFiled'
      <4> SUFFICES ASSUME BatchQuiet PROVE BatchOneFiled'
        BY <1>5 DEF BatchOneFiled, BatchQuiet
      <4>1. "race" \notin entries
        BY DEF BatchQuiet
      <4>2. \A j \in Batches!InvoiceId :
               invoiced[j].document = 0 => \A e \in Batches!DocumentId : nts[e].owner # j
        BY <1>a, <1>2, <1>3, <4>1 DEF BatchInv, BatchOneFiled, BatchBusy, Batches!At
      <4>3. invoiced[i].document = o.item.document
        BY <1>b, <1>1, <1>3, <4>1 DEF BatchApart
      <4>4. nts[d].owner = 0 => \A e \in Batches!DocumentId : nts[e].owner # i
        BY <1>1, <2>1, <4>2, <4>3
      <4>5. \A e, f \in Batches!DocumentId : nts[e].owner # 0 /\ nts[e].owner = nts[f].owner
              => e = f
        BY DEF BatchInv, BatchOneFiled
      <4>6. \A e, f \in Batches!DocumentId : nts'[e].owner # 0 /\ nts'[e].owner = nts'[f].owner
              => e = f
        BY <2>1, <3>1, <4>4, <4>5
      <4>7. ASSUME NEW j \in Batches!InvoiceId, invoiced'[j].document = 0
            PROVE  \/ \A e \in Batches!DocumentId : nts'[e].owner # j
                   \/ desk'[p].stage = "saving" /\ desk'[p].act = "issue"
                        /\ desk'[p].item.invoice = j
        <5>1. CASE j = i
          <6>1. o.item.document = 0
            BY <4>3, <4>7, <5>1, <1>5
          <6>2. o.act = "issue"
            BY <1>3, <1>4, <6>1 DEF BatchRight
          <6> QED BY <3>4, <3>5, <3>9, <5>1, <6>2
        <5>2. CASE j # i
          BY <1>5, <2>1, <4>2, <4>7, <5>2
        <5> QED BY <5>1, <5>2
      <4> QED BY <4>6, <4>7 DEF BatchOneFiled, Batches!At
    <3>11. /\ w.act # "edit" /\ w.item.document # 0
           /\ entries' = entries /\ nts' \in [Batches!DocumentId -> Batches!Document]
           /\ \A j \in Batches!InvoiceId : invoiced[j].document # 0 => invoiced'[j].document # 0
      BY <1>3, <1>5, <2>1, <3>1, <3>4, <3>5
    <3>12. "race" \notin entries =>
              /\ w.stage # "idle" => BatchApart(w)'
              /\ \A q \in Session : q # p => ~BatchBusy(q)
      BY <1>3, <3>8
    <3> QED BY <1>6, <1>7, <2>2, <2>4, <3>4, <3>6, <3>7, <3>10, <3>11, <3>12, BatchMoves
  <2>5. CASE "lost" \in entries /\ desk' = [desk EXCEPT ![p] = Batches!OnFailure(o)]
    <3>n. PICK n : n = Batches!NextItem(o)
      OBVIOUS
    <3>1. \/ n = Batches!Idle
          \/ /\ n \in Batches!Work /\ n.stage = "checking" /\ n.act = o.act
             /\ n.item \in o.rest /\ n.rest = o.rest \ {n.item}
      BY <3>n, <1>1, BatchNextRight
    <3>2. desk' = [desk EXCEPT ![p] = n]
      BY <3>n, <2>5 DEF Batches!OnFailure
    <3>3. BatchOneFiled'
      BY <1>5, <2>5 DEF BatchOneFiled, BatchQuiet
    <3>4. CASE n = Batches!Idle
      <4> QED BY <1>3, <1>5, <1>6, <1>7, <2>1, <2>2, <3>2, <3>3, <3>4, BatchIdle, BatchMoves
    <3>5. CASE /\ n \in Batches!Work /\ n.stage = "checking" /\ n.act = o.act
               /\ n.item \in o.rest /\ n.rest = o.rest \ {n.item}
      <4>1. BatchRight(n, n.item)' /\ \A x \in n.rest : BatchRight(n, x)'
        BY <1>1, <1>3, <2>3, <3>5
      <4>2. BatchApart(o) => BatchApart(n)'
        BY <1>5, <3>5 DEF BatchApart
      <4> QED BY <1>3, <1>5, <1>6, <1>7, <2>1, <2>2, <3>2, <3>3, <3>5, <4>1, <4>2, BatchMoves
    <3> QED BY <3>1, <3>4, <3>5
  <2>6. CASE UNCHANGED nts /\ desk' = [desk EXCEPT ![p] = Batches!OnFailure(o)]
    BY <1>1, <1>5, <1>6, <2>6, <1>a, BatchFails
  <2> QED BY <1>5, <2>4, <2>5, <2>6
<1>9. CASE UNCHANGED nts /\ desk' = [desk EXCEPT ![p] = Batches!OnFailure(o)]
  BY <1>1, <1>5, <1>6, <1>9, <1>a, BatchFails
<1> QED BY <1>5, <1>8, <1>9

\* An invoice is written: what it says of its document is right.
LEMMA BatchFiledWritten ==
    ASSUME BatchInv, NEW i \in Batches!InvoiceId, NEW r \in Batches!Invoice,
           UNCHANGED <<nts, entries>>,
           invoiced' = [invoiced EXCEPT ![i] = r],
           r.document # 0 => nts[r.document].owner = i,
           r.status = "CANCELLED" => BatchCancelledAt(i),
           "edit" \notin entries => r.document # 0
    PROVE  BatchFiled'
<1>1. invoiced'[i] = r /\ \A j \in Batches!InvoiceId : j # i => invoiced'[j] = invoiced[j]
  BY DEF BatchInv, Batches!TypeOK
<1>2. (\A j : BatchCancelledAt(j)' <=> BatchCancelledAt(j)) /\ Batches!Sent' = Batches!Sent
  BY DEF BatchCancelledAt, Batches!Sent
<1>3. ASSUME NEW j \in Batches!InvoiceId
      PROVE  /\ invoiced'[j].document # 0 => nts[invoiced'[j].document].owner = j
             /\ invoiced'[j].status = "CANCELLED" => BatchCancelledAt(j)
             /\ "edit" \notin entries /\ invoiced'[j].status # "NONE" => invoiced'[j].document # 0
  <2>1. CASE j = i
    BY <2>1, <1>1
  <2>2. CASE j # i
    BY <2>2, <1>1 DEF BatchInv, BatchFiled
  <2> QED BY <2>1, <2>2
<1> QED BY <1>2, <1>3 DEF BatchInv, BatchFiled

LEMMA BatchInvoiceSaved ==
    ASSUME BatchInv, NEW p \in Session, Batches!Save(p)
    PROVE  BatchInv'
<1>a. PICK o : o = desk[p]
  OBVIOUS
<1>b. PICK i : i = o.item.invoice
  OBVIOUS
<1>c. PICK n : n = Batches!NextItem(o)
  OBVIOUS
<1> DEFINE m == IF o.act = "issue" THEN o.item.document ELSE invoiced[i].document
           r == [invoiced[i] EXCEPT !.status = o.item.status, !.document = m]
<1>1. /\ o \in Batches!Work /\ o.item \in Batches!Item /\ o.rest \in SUBSET Batches!Item
           /\ i \in Batches!InvoiceId
      /\ o.stage = "saving" /\ breaker \in Batches!Breaker
           /\ (breaker.state = "closed" => breaker.failures < Threshold)
  BY <1>a, <1>b, BatchFacts DEF Batches!Save, Batches!At
<1>2. BatchBusy(p)
  BY <1>a, <1>1 DEF BatchBusy
<1>3. /\ BatchRight(o, o.item) /\ o.act # "edit" /\ o.item.document # 0
      /\ \A x \in o.rest : BatchRight(o, x)
      /\ "race" \notin entries => BatchApart(o) /\ \A q \in Session : q # p => ~BatchBusy(q)
  <2>1. /\ BatchRight(desk[p], desk[p].item)
        /\ \A x \in desk[p].rest : BatchRight(desk[p], x)
        /\ desk[p].stage = "editing" <=> desk[p].act = "edit"
        /\ desk[p].stage = "saving" => desk[p].item.document # 0
        /\ "race" \notin entries =>
              BatchApart(desk[p]) /\ \A q \in Session : q # p => ~BatchBusy(q)
    BY <1>2, BatchKept
  <2> QED BY <1>a, <1>1, <2>1
<1>4. o.act \in {"issue", "query", "cancel"}
  BY <1>1, <1>3 DEF Batches!Work
<1>5. invoiced[i] \in Batches!Invoice /\ m \in 0..TaxDocuments
  BY <1>1 DEF BatchInv, Batches!TypeOK, Batches!Invoice, Batches!Item
<1>6. /\ UNCHANGED <<nts, breaker, entries>> /\ desk' = [desk EXCEPT ![p] = n]
      /\ invoiced' = [invoiced EXCEPT ![i] = r]
  BY <1>a, <1>b, <1>c DEF Batches!Save, Batches!Goto
<1>7. /\ breaker' \in Batches!Breaker /\ Batches!ClosedBelowThreshold'
           /\ nts' \in [Batches!DocumentId -> Batches!Document]
  BY <1>1, <1>6 DEF Batches!ClosedBelowThreshold, BatchInv, Batches!TypeOK
<1>8. m = (IF o.act = "issue" THEN o.item.document ELSE invoiced[i].document)
  OBVIOUS
<1>9. r \in Batches!Invoice /\ r.document = m /\ r.status = o.item.status
  <2> HIDE DEF m
  <2> QED BY <1>1, <1>5 DEF Batches!Invoice, Batches!Item
<1> HIDE DEF m, r
<1>10. /\ m # 0 => nts[m].owner = i
       /\ o.item.status = "CANCELLED" => BatchCancelledAt(i)
       /\ "edit" \notin entries => m # 0
  <2>1. invoiced[i].document # 0 => nts[invoiced[i].document].owner = i
    BY <1>1 DEF BatchInv, BatchFiled
  <2> QED BY <1>b, <1>3, <1>4, <1>8, <2>1 DEF BatchRight
<1>11. BatchFiled'
  BY <1>1, <1>6, <1>9, <1>10, BatchFiledWritten
<1>12. invoiced' \in [Batches!InvoiceId -> Batches!Invoice] /\ invoiced'[i] = r
       /\ \A j \in Batches!InvoiceId : j # i => invoiced'[j] = invoiced[j]
  BY <1>1, <1>6, <1>9 DEF BatchInv, Batches!TypeOK
<1>13. ASSUME "edit" \notin entries, NEW j \in Batches!InvoiceId, invoiced[j].document # 0
       PROVE  invoiced'[j].document # 0
  BY <1>9, <1>10, <1>12, <1>13
<1>14. BatchOneFiled'
  <2> SUFFICES ASSUME BatchQuiet PROVE BatchOneFiled'
    BY <1>6 DEF BatchOneFiled, BatchQuiet
  <2>1. "race" \notin entries
    BY DEF BatchQuiet
  <2>2. ASSUME NEW j \in Batches!InvoiceId, invoiced'[j].document = 0,
               NEW e \in Batches!DocumentId
        PROVE  nts[e].owner # j
    <3>1. invoiced[j].document = 0
      BY <1>8, <1>9, <1>12, <2>2, <1>3
    <3>2. ~(o.act = "issue" /\ i = j)
      BY <1>3, <1>8, <1>9, <1>12, <2>2
    <3>3. \A q \in Session :
             ~(Batches!At(q, "saving") /\ desk[q].act = "issue" /\ desk[q].item.invoice = j)
      BY <1>a, <1>b, <1>3, <2>1, <3>2 DEF BatchBusy, Batches!At
    <3> QED BY <3>1, <3>3 DEF BatchInv, BatchOneFiled
  <2>3. \A d, e \in Batches!DocumentId : nts[d].owner # 0 /\ nts[d].owner = nts[e].owner => d = e
    BY DEF BatchInv, BatchOneFiled
  <2> QED BY <1>6, <2>2, <2>3 DEF BatchOneFiled
<1>15. \/ n = Batches!Idle
       \/ /\ n \in Batches!Work /\ n.stage = "checking" /\ n.act = o.act
          /\ n.item \in o.rest /\ n.rest = o.rest \ {n.item}
  BY <1>c, <1>1, BatchNextRight
<1>16. CASE n = Batches!Idle
  BY <1>3, <1>6, <1>7, <1>11, <1>12, <1>13, <1>14, <1>16, BatchIdle, BatchMoves
<1>17. CASE /\ n \in Batches!Work /\ n.stage = "checking" /\ n.act = o.act
            /\ n.item \in o.rest /\ n.rest = o.rest \ {n.item}
  <2>1. ASSUME NEW x \in o.rest PROVE BatchRight(n, x)'
    <3>1. BatchRight(o, x) /\ x \in Batches!Item /\ x.invoice \in Batches!InvoiceId
      BY <1>1, <1>3 DEF Batches!Item
    <3>2. BatchCancelledAt(x.invoice)' <=> BatchCancelledAt(x.invoice)
      BY <1>6 DEF BatchCancelledAt
    <3>3. "edit" \notin entries /\ invoiced[x.invoice].document # 0
            => invoiced'[x.invoice].document # 0
      BY <1>13, <3>1
    <3> QED BY <1>6, <1>17, <3>1, <3>2, <3>3 DEF BatchRight
  <2>2. BatchRight(n, n.item)' /\ \A x \in n.rest : BatchRight(n, x)'
    BY <1>17, <2>1
  <2>3. BatchApart(o) => BatchApart(n)'
    <3>1. \A x \in o.rest : x.invoice \in Batches!InvoiceId
      BY <1>1 DEF Batches!Item
    <3> QED BY <1>b, <1>12, <1>17, <3>1 DEF BatchApart
  <2>4. /\ n.act # "edit" /\ n.stage # "editing" /\ n.stage # "saving"
        /\ "race" \notin entries =>
              /\ n.stage # "idle" => BatchApart(n)'
              /\ \A q \in Session : q # p => ~BatchBusy(q)
    BY <1>3, <1>17, <2>3
  <2> QED BY <1>6, <1>7, <1>11, <1>12, <1>13, <1>14, <1>17, <2>2, <2>4, BatchMoves
<1> QED BY <1>15, <1>16, <1>17

LEMMA BatchEditSaved ==
    ASSUME BatchInv, NEW p \in Session, Batches!SaveEdit(p)
    PROVE  BatchInv'
<1>a. PICK o : o = desk[p]
  OBVIOUS
<1>b. PICK i : i = o.item.invoice
  OBVIOUS
<1> DEFINE r == [status |-> o.item.status, document |-> o.item.document, active |-> TRUE]
<1>1. /\ o \in Batches!Work /\ o.item \in Batches!Item /\ i \in Batches!InvoiceId
      /\ o.stage = "editing" /\ breaker \in Batches!Breaker
           /\ (breaker.state = "closed" => breaker.failures < Threshold)
  BY <1>a, <1>b, BatchFacts DEF Batches!SaveEdit, Batches!At
<1>2. BatchBusy(p)
  BY <1>a, <1>1 DEF BatchBusy
<1>3. /\ BatchRight(o, o.item) /\ o.act = "edit" /\ "edit" \in entries
      /\ "race" \notin entries => BatchApart(o) /\ \A q \in Session : q # p => ~BatchBusy(q)
  <2>1. /\ BatchRight(desk[p], desk[p].item)
        /\ desk[p].stage = "editing" <=> desk[p].act = "edit"
        /\ desk[p].act = "edit" => "edit" \in entries
        /\ "race" \notin entries =>
              BatchApart(desk[p]) /\ \A q \in Session : q # p => ~BatchBusy(q)
    BY <1>2, BatchKept
  <2> QED BY <1>a, <1>1, <2>1
<1>4. r \in Batches!Invoice /\ r.document = o.item.document /\ r.status = o.item.status
  BY <1>1 DEF Batches!Invoice, Batches!Item
<1>5. /\ UNCHANGED <<nts, breaker, entries>> /\ desk' = [desk EXCEPT ![p] = Batches!Idle]
      /\ invoiced' = [invoiced EXCEPT ![i] = r]
  BY <1>a, <1>b DEF Batches!SaveEdit, Batches!Done, Batches!Goto
<1> HIDE DEF r
<1>6. /\ breaker' \in Batches!Breaker /\ Batches!ClosedBelowThreshold'
           /\ nts' \in [Batches!DocumentId -> Batches!Document]
  BY <1>1, <1>5 DEF Batches!ClosedBelowThreshold, BatchInv, Batches!TypeOK
<1>7. /\ r.document # 0 => nts[r.document].owner = i
      /\ r.status = "CANCELLED" => BatchCancelledAt(i)
  BY <1>b, <1>3, <1>4 DEF BatchRight
<1>8. BatchFiled'
  BY <1>1, <1>3, <1>4, <1>5, <1>7, BatchFiledWritten
<1>9. invoiced' \in [Batches!InvoiceId -> Batches!Invoice] /\ invoiced'[i] = r
       /\ \A j \in Batches!InvoiceId : j # i => invoiced'[j] = invoiced[j]
  BY <1>1, <1>4, <1>5 DEF BatchInv, Batches!TypeOK
<1>10. BatchOneFiled'
  <2> SUFFICES ASSUME BatchQuiet PROVE BatchOneFiled'
    BY <1>5 DEF BatchOneFiled, BatchQuiet
  <2>1. "race" \notin entries
    BY DEF BatchQuiet
  <2>2. r.document = invoiced[i].document
    BY <1>b, <1>1, <1>3, <1>4, <2>1 DEF BatchApart
  <2>3. ASSUME NEW j \in Batches!InvoiceId, invoiced'[j].document = 0,
               NEW e \in Batches!DocumentId
        PROVE  nts[e].owner # j
    <3>1. invoiced[j].document = 0
      BY <1>9, <2>2, <2>3
    <3>2. \A q \in Session :
             ~(Batches!At(q, "saving") /\ desk[q].act = "issue" /\ desk[q].item.invoice = j)
      BY <1>a, <1>1, <1>3, <2>1 DEF BatchBusy, Batches!At
    <3> QED BY <3>1, <3>2 DEF BatchInv, BatchOneFiled
  <2>4. \A d, e \in Batches!DocumentId : nts[d].owner # 0 /\ nts[d].owner = nts[e].owner => d = e
    BY DEF BatchInv, BatchOneFiled
  <2> QED BY <1>5, <2>3, <2>4 DEF BatchOneFiled
<1> QED BY <1>3, <1>5, <1>6, <1>8, <1>9, <1>10, BatchIdle, BatchMoves

-----------------------------------------------------------------------------
(* What no request does. *)

LEMMA BatchStays ==
    ASSUME BatchInv, desk' = desk, entries' = entries,
           breaker' \in Batches!Breaker, Batches!ClosedBelowThreshold',
           nts' \in [Batches!DocumentId -> Batches!Document],
             invoiced' \in [Batches!InvoiceId -> Batches!Invoice],
           \A d \in Batches!DocumentId :
              /\ nts'[d].owner = nts[d].owner
              /\ nts[d].status = "CANCELLED" => nts'[d] = nts[d]
              /\ nts'[d].status = "NONE" <=> nts[d].status = "NONE",
           \A i \in Batches!InvoiceId :
              invoiced'[i].document = invoiced[i].document
                /\ invoiced'[i].status = invoiced[i].status
    PROVE  BatchInv'
<1>1. Batches!TypeOK'
  BY DEF BatchInv, Batches!TypeOK
<1>2. \A j : BatchCancelledAt(j) => BatchCancelledAt(j)'
  <2> SUFFICES ASSUME NEW j, BatchCancelledAt(j) PROVE BatchCancelledAt(j)'
    OBVIOUS
  <2>1. PICK d \in Batches!DocumentId : nts[d] = [owner |-> j, status |-> "CANCELLED"]
    BY DEF BatchCancelledAt
  <2>2. nts'[d] = nts[d]
    BY <2>1
  <2> QED BY <2>1, <2>2 DEF BatchCancelledAt
<1>3. \A i \in Batches!InvoiceId : invoiced[i].document # 0
        => invoiced[i].document \in Batches!DocumentId
  BY BatchesNumbers DEF BatchInv, Batches!TypeOK, Batches!Invoice, Batches!DocumentId
<1>4. BatchFiled'
  <2>1. Batches!Sent' = Batches!Sent
    BY DEF Batches!Sent
  <2>2. ASSUME NEW i \in Batches!InvoiceId
        PROVE  /\ invoiced'[i].document # 0 => nts'[invoiced'[i].document].owner = i
               /\ invoiced'[i].status = "CANCELLED" => BatchCancelledAt(i)'
               /\ "edit" \notin entries /\ invoiced'[i].status # "NONE"
                    => invoiced'[i].document # 0
    BY <1>2, <1>3 DEF BatchInv, BatchFiled
  <2>3. \A d \in Batches!DocumentId : nts'[d].owner = 0 <=> nts'[d].status = "NONE"
    BY DEF BatchInv, BatchFiled
  <2> QED BY <2>1, <2>2, <2>3 DEF BatchInv, BatchFiled
<1>5. ASSUME NEW o \in Batches!Work, NEW x \in Batches!Item, BatchRight(o, x)
      PROVE  BatchRight(o, x)'
  <2>1. x.document # 0 => x.document \in Batches!DocumentId
    BY BatchesNumbers DEF Batches!Item, Batches!DocumentId
  <2>2. x.invoice \in Batches!InvoiceId
    BY DEF Batches!Item
  <2> QED BY <1>2, <1>5, <2>1, <2>2 DEF BatchRight
<1>6. BatchHelds'
  <2> SUFFICES ASSUME NEW q \in Session, desk[q].stage # "idle" PROVE BatchHelds!(q)'
    BY DEF BatchHelds
  <2>1. /\ BatchRight(desk[q], desk[q].item) /\ \A x \in desk[q].rest : BatchRight(desk[q], x)
        /\ desk[q].stage = "editing" <=> desk[q].act = "edit"
        /\ desk[q].act = "edit" => "edit" \in entries
        /\ desk[q].stage = "saving" => desk[q].item.document # 0
    BY DEF BatchInv, BatchHelds
  <2>2. desk[q] \in Batches!Work /\ desk[q].item \in Batches!Item
          /\ desk[q].rest \in SUBSET Batches!Item
    BY BatchFacts
  <2>3. PICK u : u = desk[q]
    OBVIOUS
  <2>4. BatchRight(u, u.item)' /\ \A x \in u.rest : BatchRight(u, x)'
    BY <2>1, <2>2, <2>3, <1>5
  <2>5. desk'[q] = u
    BY <2>3
  <2> QED BY <2>1, <2>3, <2>4, <2>5
<1>7. BatchOneFiles'
  <2> SUFFICES ASSUME "race" \notin entries, NEW q \in Session, desk[q].stage # "idle"
               PROVE  BatchApart(desk[q])' /\ \A p \in Session : p # q => desk[p].stage = "idle"
    BY DEF BatchOneFiles, BatchBusy
  <2>1. BatchApart(desk[q]) /\ \A p \in Session : p # q => desk[p].stage = "idle"
    BY DEF BatchInv, BatchOneFiles, BatchBusy
  <2>2. desk[q].item.invoice \in Batches!InvoiceId /\ \A x \in desk[q].rest :
          x.invoice \in Batches!InvoiceId
    BY DEF BatchInv, Batches!TypeOK, Batches!Work, Batches!Item
  <2> QED BY <2>1, <2>2 DEF BatchApart
<1>8. BatchOneFiled'
  BY DEF BatchInv, BatchOneFiled, BatchQuiet, Batches!At
<1> QED BY <1>1, <1>4, <1>6, <1>7, <1>8 DEF BatchInv

LEMMA BatchRest ==
    ASSUME BatchInv, (\E i \in Batches!InvoiceId : Batches!Retire(i))
           \/ (\E d \in Batches!DocumentId : Batches!Decide(d)) \/ Batches!Cool
    PROVE  BatchInv'
<1>1. /\ breaker \in Batches!Breaker /\ Batches!ClosedBelowThreshold
           /\ nts \in [Batches!DocumentId -> Batches!Document]
      /\ invoiced \in [Batches!InvoiceId -> Batches!Invoice]
  BY DEF BatchInv, Batches!TypeOK
<1>2. ASSUME NEW i \in Batches!InvoiceId, Batches!Retire(i) PROVE BatchInv'
  <2>1. /\ [invoiced[i] EXCEPT !.active = FALSE] \in Batches!Invoice
        /\ [invoiced[i] EXCEPT !.active = FALSE].document = invoiced[i].document
        /\ [invoiced[i] EXCEPT !.active = FALSE].status = invoiced[i].status
    BY <1>1 DEF Batches!Invoice
  <2>2. /\ invoiced' = [invoiced EXCEPT ![i] = [invoiced[i] EXCEPT !.active = FALSE]]
        /\ UNCHANGED <<nts, breaker, desk, entries>>
    BY <1>2 DEF Batches!Retire
  <2>3. invoiced' \in [Batches!InvoiceId -> Batches!Invoice] /\ \A j \in Batches!InvoiceId :
           invoiced'[j].document = invoiced[j].document
             /\ invoiced'[j].status = invoiced[j].status
    BY <1>1, <2>1, <2>2
  <2>4. Batches!ClosedBelowThreshold'
    BY <1>1, <2>2 DEF Batches!ClosedBelowThreshold
  <2> QED BY <1>1, <2>2, <2>3, <2>4, BatchStays
<1>3. ASSUME NEW d \in Batches!DocumentId, Batches!Decide(d) PROVE BatchInv'
  <2>1. PICK s \in {"ACCEPTED", "REJECTED"} :
          nts' = [nts EXCEPT ![d] = [nts[d] EXCEPT !.status = s]]
    BY <1>3 DEF Batches!Decide
  <2>2. /\ [nts[d] EXCEPT !.status = s] \in Batches!Document
        /\ [nts[d] EXCEPT !.status = s].owner = nts[d].owner
             /\ [nts[d] EXCEPT !.status = s].status = s
    BY <1>1 DEF Batches!Document, Batches!Status
  <2>3. nts[d].status = "ISSUED" /\ UNCHANGED <<invoiced, breaker, desk, entries>>
    BY <1>3 DEF Batches!Decide
  <2>4. /\ nts' \in [Batches!DocumentId -> Batches!Document]
        /\ \A e \in Batches!DocumentId :
              /\ nts'[e].owner = nts[e].owner
              /\ nts[e].status = "CANCELLED" => nts'[e] = nts[e]
              /\ nts'[e].status = "NONE" <=> nts[e].status = "NONE"
    BY <1>1, <2>1, <2>2, <2>3
  <2>5. Batches!ClosedBelowThreshold'
    BY <1>1, <2>3 DEF Batches!ClosedBelowThreshold
  <2> QED BY <1>1, <2>3, <2>4, <2>5, BatchStays
<1>4. CASE Batches!Cool
  <2>1. breaker' \in Batches!Breaker /\ Batches!ClosedBelowThreshold'
          /\ UNCHANGED <<invoiced, nts, desk, entries>>
    BY <1>1, <1>4 DEF Batches!Cool, Batches!Breaker, Batches!ClosedBelowThreshold
  <2> QED BY <1>1, <2>1, BatchStays
<1> QED BY <1>2, <1>3, <1>4

-----------------------------------------------------------------------------
(* Filings in every state. *)

LEMMA BatchStarts == Batches!Init => BatchInv
<1> SUFFICES ASSUME Batches!Init PROVE BatchInv
  OBVIOUS
<1>1. \A p \in Session : desk[p].stage = "idle"
  BY BatchIdle DEF Batches!Init
<1>2. Batches!TypeOK /\ Batches!ClosedBelowThreshold
  BY BatchIdle, BatchesNumbers
     DEF Batches!Init, Batches!TypeOK, Batches!ClosedBelowThreshold, Batches!Invoice,
        Batches!Document, Batches!Breaker, Batches!Status
<1>3. BatchFiled
  <2>1. Batches!Sent = {} /\ 0 \in 0..TaxDocuments /\ 1..0 = {}
    BY BatchesNumbers DEF Batches!Init, Batches!Sent
  <2>2. \E k \in 0..TaxDocuments : Batches!Sent = 1..k
    BY <2>1
  <2> QED BY <2>2 DEF Batches!Init, BatchFiled
<1>4. BatchHelds /\ BatchOneFiles
  BY <1>1 DEF BatchHelds, BatchOneFiles, BatchBusy
<1>5. BatchOneFiled
  <2>1. \A d \in Batches!DocumentId : nts[d].owner = 0
    BY DEF Batches!Init
  <2>2. \A i \in Batches!InvoiceId : i # 0
    BY BatchesNumbers DEF Batches!InvoiceId
  <2> QED BY <2>1, <2>2 DEF BatchOneFiled
<1> QED BY <1>2, <1>3, <1>4, <1>5 DEF BatchInv

LEMMA BatchStep == BatchInv /\ [Batches!Next]_(Batches!vars) => BatchInv'
<1> SUFFICES ASSUME BatchInv, [Batches!Next]_(Batches!vars) PROVE BatchInv'
  OBVIOUS
<1>1. CASE UNCHANGED Batches!vars
  <2>1. /\ breaker' \in Batches!Breaker /\ Batches!ClosedBelowThreshold'
             /\ nts' \in [Batches!DocumentId -> Batches!Document]
        /\ invoiced' \in [Batches!InvoiceId -> Batches!Invoice]
             /\ UNCHANGED <<invoiced, nts, desk, entries>>
    BY <1>1 DEF Batches!vars, BatchInv, Batches!TypeOK, Batches!ClosedBelowThreshold
  <2> QED BY <2>1, BatchStays
<1>2. ASSUME NEW p \in Session,
             \/ \E i \in Batches!InvoiceId : Batches!AskIssue(p, i) \/ Batches!AskQuery(p, i)
                  \/ Batches!AskCancel(p, i) \/ Batches!AskEdit(p, i)
             \/ Batches!AskBatch(p) \/ Batches!SaveEdit(p) \/ Batches!Check(p) \/ Batches!Enter(p)
                  \/ Batches!Authenticate(p)
             \/ Batches!Send(p) \/ Batches!Save(p) \/ Batches!Crash(p)
      PROVE  BatchInv'
  BY <1>2, BatchInvoiceAsked, BatchBatchAsked, BatchEditSaved, BatchBreakerLooked,
    BatchInvoiceSent,
     BatchInvoiceSaved, BatchDies
<1> QED BY <1>1, <1>2, BatchRest DEF Batches!Next

LEMMA BatchKeeps ==
    BatchInv => Batches!TypeOK /\ Batches!IssuedKnown /\ Batches!CancelledThere
      /\ Batches!OneDocument /\ Batches!ClosedBelowThreshold
<1> SUFFICES ASSUME BatchInv
             PROVE  Batches!TypeOK /\ Batches!IssuedKnown /\ Batches!CancelledThere
                      /\ Batches!OneDocument /\ Batches!ClosedBelowThreshold
  OBVIOUS
<1>1. Batches!IssuedKnown /\ Batches!CancelledThere
  BY DEF BatchInv, BatchFiled, BatchCancelledAt, Batches!IssuedKnown, Batches!CancelledThere
<1>2. Batches!OneDocument
  <2> SUFFICES ASSUME BatchQuiet, NEW i \in Batches!InvoiceId
               PROVE  Cardinality({d \in Batches!DocumentId : nts[d].owner = i}) <= 1
    BY BatchesCardinality DEF Batches!OneDocument, BatchQuiet
  <2> DEFINE D == {d \in Batches!DocumentId : nts[d].owner = i}
  <2>1. i # 0
    BY BatchesNumbers DEF Batches!InvoiceId
  <2>2. CASE D = {}
    <3>1. Cardinality({}) = 0
      BY FS_EmptySet
    <3> QED BY <2>2, <3>1
  <2>3. CASE D # {}
    <3>1. PICK e \in D : TRUE
      BY <2>3
    <3>2. D = {e}
      BY <2>1, <3>1 DEF BatchInv, BatchOneFiled
    <3>3. Cardinality({e}) = 1
      BY FS_Singleton
    <3> HIDE DEF D
    <3> QED BY <3>2, <3>3 DEF D
  <2> QED BY <2>2, <2>3
<1> QED BY <1>1, <1>2 DEF BatchInv

-----------------------------------------------------------------------------
(* The back office. *)

\* The part chosen at the start is the one that moves.
LEMMA PartStarts ==
    ASSUME BackOfficeInit
    PROVE  /\ part = "production" => Production!Init
           /\ part = "editing" => Editing!Init
           /\ part = "money" => OrderMoney!Init
           /\ part = "cards" => Cards!Init
           /\ part = "vouchers" => AutoVouchers!Init
           /\ part = "closing" => ClosedBooks!Init
           /\ part = "settlements" => Settlements!Init
           /\ part = "invoices" => EInvoices!Init
           /\ part = "batches" => Batches!Init
BY DEF BackOfficeInit

LEMMA PartMoves ==
    ASSUME [BackOfficeNext]_backoffice
    PROVE  /\ part' = part
           /\ part = "production" => [Production!Next]_(Production!vars)
           /\ part = "editing" => [Editing!Next]_(Editing!vars)
           /\ part = "money" => [OrderMoney!Next]_(OrderMoney!vars)
           /\ part = "cards" => [Cards!Next]_(Cards!vars)
           /\ part = "vouchers" => [AutoVouchers!Next]_(AutoVouchers!vars)
           /\ part = "closing" => [ClosedBooks!Next]_(ClosedBooks!vars)
           /\ part = "settlements" => [Settlements!Next]_(Settlements!vars)
           /\ part = "invoices" => [EInvoices!Next]_(EInvoices!vars)
           /\ part = "batches" => [Batches!Next]_(Batches!vars)
BY DEF BackOfficeNext, backoffice, Production!vars, Editing!vars, OrderMoney!vars, Cards!vars,
       AutoVouchers!vars, ClosedBooks!vars, Settlements!vars, EInvoices!vars, Batches!vars

MoneyPartsInv ==
    /\ part = "production" => ProductionInv /\ CompletionInv
    /\ part = "editing" => EditingInv
    /\ part = "money" => MoneyInv
    /\ part = "cards" => CardsInv
    /\ part = "vouchers" => VouchersInv
    /\ part = "closing" => BooksInv
    /\ part = "settlements" => SettlementsInv
    /\ part = "invoices" => FilingInv
    /\ part = "batches" => BatchInv

LEMMA MoneyPartsInvariant == BackOfficeSpec => []MoneyPartsInv
<1>1. BackOfficeInit => MoneyPartsInv
  BY PartStarts, ProductionStarts, CompletionStarts, EditingStarts, MoneyStarts, CardsStart,
     VouchersStarts, BooksStart, SettlementsStart, FilingStarts, BatchStarts DEF MoneyPartsInv
<1>2. MoneyPartsInv /\ [BackOfficeNext]_backoffice => MoneyPartsInv'
  <2> SUFFICES ASSUME MoneyPartsInv, [BackOfficeNext]_backoffice PROVE MoneyPartsInv'
    OBVIOUS
  <2>1. part = "production" => ProductionInv' /\ CompletionInv'
    BY PartMoves, ProductionStep, CompletionStep DEF MoneyPartsInv
  <2>2. part = "editing" => EditingInv'
    BY PartMoves, EditingStep DEF MoneyPartsInv
  <2>3. part = "money" => MoneyInv'
    BY PartMoves, MoneyStep DEF MoneyPartsInv
  <2>4. part = "cards" => CardsInv'
    BY PartMoves, CardsStep DEF MoneyPartsInv
  <2>5. part = "vouchers" => VouchersInv'
    BY PartMoves, VouchersStep DEF MoneyPartsInv
  <2>6. part = "closing" => BooksInv'
    BY PartMoves, BooksStep DEF MoneyPartsInv
  <2>7. part = "settlements" => SettlementsInv'
    BY PartMoves, SettlementsStep DEF MoneyPartsInv
  <2>8. part = "invoices" => FilingInv'
    BY PartMoves, FilingStep DEF MoneyPartsInv
  <2>9. part = "batches" => BatchInv'
    BY PartMoves, BatchStep DEF MoneyPartsInv
  <2> QED BY <2>1, <2>2, <2>3, <2>4, <2>5, <2>6, <2>7, <2>8, <2>9, PartMoves DEF MoneyPartsInv
<1> QED BY <1>1, <1>2, PTL DEF BackOfficeSpec

\* Material and goods follow the production records, and orders and plans
\* complete exactly when enough is made.
THEOREM ProductionRight == BackOfficeSpec => [](part # "costs" => ProductionKept)
<1>1. MoneyPartsInv => (part # "costs" => ProductionKept)
  <2> SUFFICES ASSUME MoneyPartsInv, part # "costs" PROVE ProductionKept
    OBVIOUS
  <2>1. part = "production" => /\ Production!TypeOK /\ Production!StockFollowsRecords
                               /\ Production!CompletionNoticed
    BY CompletionKeeps DEF MoneyPartsInv, ProductionInv
  <2>2. part = "editing" => Editing!TypeOK /\ Editing!StockFollowsRecords
    BY DEF MoneyPartsInv, EditingInv
  <2> QED BY <2>1, <2>2 DEF ProductionKept
<1> QED BY <1>1, MoneyPartsInvariant, PTL

\* The money of an order, of a card, of the vouchers, of a closed month and of
\* a settlement adds up, each posted or paid once; what an invoice says of the tax
\* office is so there.
THEOREM MoneyRightly == BackOfficeSpec => []MoneyKept
<1>1. MoneyPartsInv => MoneyKept
  <2> SUFFICES ASSUME MoneyPartsInv PROVE MoneyKept
    OBVIOUS
  <2>1. part = "money" => OrderMoney!TypeOK /\ OrderMoney!BankAgrees /\ OrderMoney!PaidOnce
    BY MoneyKeeps DEF MoneyPartsInv
  <2>2. part = "cards" => /\ Cards!TypeOK /\ Cards!BillPaidOnce /\ Cards!UsedVouched
                          /\ Cards!UsedExact /\ Cards!BillExact
    BY CardsKeep DEF MoneyPartsInv
  <2>3. part = "vouchers" => /\ AutoVouchers!TypeOK /\ AutoVouchers!PostedOnce
                             /\ AutoVouchers!DonePosted
                             /\ AutoVouchers!CancelledRepairOwesNothing
    BY VouchersKeep DEF MoneyPartsInv
  <2>4. part = "closing" => /\ ClosedBooks!TypeOK /\ ClosedBooks!Balanced
                            /\ ClosedBooks!ClosedDecided /\ ClosedBooks!ClosedStays
    BY BooksKeep DEF MoneyPartsInv
  <2>5. part = "settlements" => /\ Settlements!TypeOK /\ Settlements!SettledOnce
                                /\ Settlements!PayoutsExact /\ Settlements!KeptPosted
    BY SettlementsKeep DEF MoneyPartsInv
  <2>6. part = "invoices" => /\ EInvoices!TypeOK /\ EInvoices!IssuedKnown
                             /\ EInvoices!CancelledThere /\ EInvoices!OneDocument
                             /\ EInvoices!ClosedBelowThreshold
    BY FilingKeeps DEF MoneyPartsInv
  <2>7. part = "batches" => /\ Batches!TypeOK /\ Batches!IssuedKnown
                            /\ Batches!CancelledThere /\ Batches!OneDocument
                            /\ Batches!ClosedBelowThreshold
    BY BatchKeeps DEF MoneyPartsInv
  <2> QED BY <2>1, <2>2, <2>3, <2>4, <2>5, <2>6, <2>7 DEF MoneyKept
<1> QED BY <1>1, MoneyPartsInvariant, PTL
=============================================================================
