------------------------- MODULE Purchasing_proofs -------------------------
(***************************************************************************)
(* A purchase order and its receipts, for any number of lines, items and    *)
(* requests, any quantities and scenes.                                     *)
(***************************************************************************)
EXTENDS Purchasing, Sums_proofs

-----------------------------------------------------------------------------
(* Types. *)

Stages == {"idle", "saving", "cancelling", "writing", "inserting", "handling",
           "scanned", "removing", "editing", "lining"}

LEMMA Numbers ==
    /\ Lines \in Nat /\ Items \in Nat /\ 1 \in LineId /\ 1 \in ItemId
    /\ Ordered \in Nat
    /\ \A q \in Quantity : q \in Nat /\ q > 0
    /\ \A q \in Edited : q \in Nat
BY PurchasingAssumption DEF LineId, ItemId

LEMMA FirstTypes == Idle \in Work /\ NoItem \in Item
BY Numbers DEF Idle, Work, NoItem, Item, Line, Status

\* What a request becomes is a request.
LEMMA WorkTypes ==
    ASSUME NEW w \in Work
    PROVE  /\ w.line \in LineId /\ w.item \in ItemId /\ w.qty \in Nat /\ w.new \in Status
           /\ w.copy \in Line /\ w.copy.received \in Nat
           /\ \A stage \in Stages :
                 /\ Then(w, stage) \in Work
                 /\ \A i \in ItemId : [Then(w, stage) EXCEPT !.item = i] \in Work
                 /\ \A s \in Status : ToStatus(w, stage, s) \in Work
BY DEF Work, Then, ToStatus, Stages, Line

LEMMA LineTypes ==
    ASSUME line \in [LineId -> Line], NEW l \in LineId
    PROVE  line[l].ordered \in Nat /\ line[l].received \in Nat /\ line[l] \in Line
BY DEF Line

LEMMA ItemTypes ==
    ASSUME item \in [ItemId -> Item], NEW i \in ItemId
    PROVE  /\ item[i].line \in LineId /\ item[i].qty \in Nat
           /\ item[i].row \in {"absent", "active", "retired"}
           /\ item[i].moved \in {"none", "active", "reversed"}
BY DEF Item

LEMMA QtyType ==
    ASSUME item \in [ItemId -> Item]
    PROVE  \A i \in ItemId, l \in LineId : QtyOn(i, l) \in Nat
BY ItemTypes DEF QtyOn

LEMMA ReceivedType ==
    ASSUME item \in [ItemId -> Item], NEW l \in LineId
    PROVE  Received(l) \in Nat
<1> DEFINE F == [i \in 1..Items |-> QtyOn(i, l)]
<1>1. F \in [1..Items -> Nat] /\ Items \in Nat /\ Items \in 0..Items
  BY QtyType, Numbers DEF ItemId
<1>2. Received(l) = SumTo(F, Items)
  BY DEF Received, ItemId
<1> HIDE DEF F
<1>3. \A n \in 0..Items : SumTo(F, n) \in Nat
  BY <1>1, SumToNat
<1> QED BY <1>1, <1>2, <1>3

LEMMA GotoType ==
    ASSUME session \in [Session -> Work], NEW p \in Session, NEW w \in Work, Goto(p, w)
    PROVE  session' \in [Session -> Work]
BY DEF Goto

\* The status forms keep the types.
LEMMA StatusFormsType == ASSUME TypeOK, NEW p \in Session, StatusForms(p) PROVE TypeOK'
<1> USE DEF TypeOK
<1> DEFINE w == session[p]
<1>0. /\ w \in Work /\ w.line \in LineId /\ w.qty \in Nat /\ w.new \in Status
      /\ w.copy.received \in Nat /\ Idle \in Work
  BY WorkTypes, FirstTypes
<1>a. \A stage \in Stages, s \in Status :
         Then(w, stage) \in Work /\ ToStatus(w, stage, s) \in Work
         /\ ToStatus(Idle, stage, s) \in Work
  BY <1>0, WorkTypes
<1> HIDE DEF w
<1>1. ASSUME NEW new \in Status, AskStatus(p, new) PROVE TypeOK'
  BY <1>1, <1>a, GotoType DEF AskStatus, Stages
<1>2. ASSUME BeginSave(p) PROVE TypeOK'
  BY <1>0, <1>2, <1>a, GotoType DEF BeginSave, Stages, w
<1>3. ASSUME CancelPayables(p) PROVE TypeOK'
  BY <1>3, <1>a, GotoType DEF CancelPayables, Stages, w
<1>4. ASSUME WriteStatus(p) PROVE TypeOK'
  BY <1>0, <1>4, GotoType DEF WriteStatus, Done, w
<1>5. ASSUME DeleteDraft(p) PROVE TypeOK'
  BY <1>5 DEF DeleteDraft
<1>6. ASSUME NEW l \in LineId, NEW q \in Edited, AskEdit(p, l, q) PROVE TypeOK'
  <2>1. [Idle EXCEPT !.stage = "editing", !.line = l, !.qty = q, !.new = status,
                     !.copy = line[l]] \in Work
    BY <1>0, Numbers, LineTypes DEF Work
  <2> QED BY <1>6, <2>1, GotoType DEF AskEdit
<1>7. ASSUME EditOrder(p) PROVE TypeOK'
  BY <1>0, <1>7, <1>a, GotoType DEF EditOrder, Stages, w
<1>8. ASSUME EditLine(p) PROVE TypeOK'
  <2>1. [ordered |-> w.qty, received |-> w.copy.received] \in Line
    BY <1>0 DEF Line
  <2>2. line' \in [LineId -> Line]
    BY <1>0, <1>8, <2>1 DEF EditLine, w
  <2> QED BY <1>8, <1>a, <2>2, GotoType DEF EditLine, Stages, w
<1> QED
  BY <1>1, <1>2, <1>3, <1>4, <1>5, <1>6, <1>7, <1>8 DEF StatusForms

\* So do the receipts; what is taken off a line was compared with it.
LEMMA ReceiptsType == ASSUME TypeOK, NEW p \in Session, Receipts(p) PROVE TypeOK'
<1> USE DEF TypeOK
<1> DEFINE w == session[p]
<1>0. /\ w \in Work /\ w.line \in LineId /\ w.qty \in Nat /\ w.new \in Status
      /\ w.item \in ItemId /\ Idle \in Work
  BY WorkTypes, FirstTypes
<1> HIDE DEF w
<1>1. ASSUME NEW l \in LineId, NEW q \in Quantity, AskReceive(p, l, q) PROVE TypeOK'
  <2>1. [Idle EXCEPT !.stage = "inserting", !.line = l, !.qty = q, !.copy = line[l]] \in Work
    BY <1>0, Numbers, LineTypes DEF Work
  <2> QED BY <1>1, <2>1, GotoType DEF AskReceive
<1>2. ASSUME NEW i \in ItemId, InsertItem(p, i) PROVE TypeOK'
  <2>1. [row |-> "active", line |-> w.line, qty |-> w.qty, moved |-> "none"] \in Item
    BY <1>0 DEF Item
  <2>2. item' \in [ItemId -> Item]
    BY <1>2, <2>1 DEF InsertItem, w
  <2>3. [Then(w, "handling") EXCEPT !.item = i] \in Work
    BY <1>0, WorkTypes DEF Stages
  <2> QED BY <1>2, <2>2, <2>3, GotoType DEF InsertItem, w
<1>3. ASSUME ScanReceipt(p) PROVE TypeOK'
  <2>1. TotalOf(p) \in Nat
    BY <1>0, ReceivedType DEF TotalOf, w
  <2>2. ASSUME NEW new \in Status, NEW full \in BOOLEAN
        PROVE  [w EXCEPT !.stage = "scanned", !.qty = TotalOf(p), !.new = new,
                         !.full = full] \in Work
    BY <1>0, <2>1 DEF Work
  <2>3. session' \in [Session -> Work]
    BY <1>3, <2>2, GotoType DEF ScanReceipt, w, Status
  <2> QED BY <1>3, <2>3 DEF ScanReceipt
<1>4. ASSUME CommitReceipt(p) PROVE TypeOK'
  <2>1. [item[w.item] EXCEPT !.moved = "active"] \in Item
    BY <1>0 DEF Item
  <2>2. item' \in [ItemId -> Item]
    BY <1>0, <1>4, <2>1 DEF CommitReceipt, w
  <2>3. [line[w.line] EXCEPT !.received = w.qty] \in Line
    BY <1>0 DEF Line
  <2>4. line' \in [LineId -> Line]
    BY <1>0, <1>4, <2>3 DEF CommitReceipt, w
  <2>5. payables' \in Nat /\ invoices' \in Nat
    BY <1>4 DEF CommitReceipt, OneMore
  <2> QED BY <1>0, <1>4, <2>2, <2>4, <2>5, GotoType DEF CommitReceipt, Done, w
<1>5. ASSUME NEW i \in ItemId, AskRemove(p, i) PROVE TypeOK'
  <2>1. [Idle EXCEPT !.stage = "removing", !.item = i, !.line = item[i].line,
                     !.qty = item[i].qty] \in Work
    BY <1>0, ItemTypes DEF Work
  <2> QED BY <1>5, <2>1, GotoType DEF AskRemove
<1>6. ASSUME CommitRemove(p) PROVE TypeOK'
  <2> DEFINE same == {l \in LineId : live /\ product[l] = product[w.line]}
  <2>1. CASE \A l \in same : Carries(l, w.qty)
    <3>1. \A l \in same : LessReceived(l, w.qty) \in Line
      BY <1>0, <2>1, LineTypes DEF Carries, LessReceived, Line
    <3>2. line' \in [LineId -> Line]
      BY <1>6, <2>1, <3>1 DEF CommitRemove, w
    <3>3. item' = [item EXCEPT ![w.item] =
                     [row |-> "retired", line |-> item[w.item].line, qty |-> item[w.item].qty,
                      moved |-> IF item[w.item].moved = "active" THEN "reversed"
                                ELSE item[w.item].moved]]
      BY <1>6, <2>1 DEF CommitRemove, w
    <3>4. item' \in [ItemId -> Item]
      BY <1>0, <3>3, ItemTypes DEF Item
    <3> QED BY <1>0, <1>6, <3>2, <3>4, GotoType DEF CommitRemove, Done
  <2>2. CASE ~ \A l \in same : Carries(l, w.qty)
    BY <1>0, <1>6, <2>2, GotoType DEF CommitRemove, Done, w
  <2> QED BY <2>1, <2>2
<1> QED
  BY <1>1, <1>2, <1>3, <1>4, <1>5, <1>6 DEF Receipts

LEMMA StepTypes == TypeOK /\ [Next]_vars => TypeOK'
<1>1. ASSUME TypeOK, NEW p \in Session, Die(p) PROVE TypeOK'
  BY <1>1, FirstTypes, GotoType DEF Die, Done, TypeOK
<1>2. TypeOK /\ UNCHANGED vars => TypeOK'
  BY DEF TypeOK, vars
<1> QED
  BY <1>1, <1>2, StatusFormsType, ReceiptsType DEF Next

LEMMA InitTypes == Init => TypeOK
BY FirstTypes, Numbers DEF Init, TypeOK, Line, Status

\* Every row and request has its type; received_quantity, a positive column,
\* never needs its CHECK constraint.
THEOREM Typed == Spec => []TypeOK
BY InitTypes, StepTypes, PTL DEF Spec

-----------------------------------------------------------------------------
(* The payable. *)

LEMMA PayableKept == TypeOK /\ OnePayable /\ [Next]_vars => OnePayable'
<1> SUFFICES ASSUME TypeOK, OnePayable, [Next]_vars PROVE OnePayable'
  OBVIOUS
<1>0. OneMore(payables) <= 1 /\ OneMore(invoices) <= 1
  BY DEF OneMore, OnePayable, TypeOK
<1>1. ASSUME NEW p \in Session, StatusForms(p) PROVE OnePayable'
  <2>1. CASE CancelPayables(p)
    BY <2>1 DEF CancelPayables, OnePayable
  <2>2. CASE UNCHANGED <<payables, invoices>>
    BY <2>2 DEF OnePayable
  <2>3. CancelPayables(p) \/ UNCHANGED <<payables, invoices>>
    BY <1>1 DEF StatusForms, AskStatus, BeginSave, WriteStatus, DeleteDraft, AskEdit,
                EditOrder, EditLine
  <2> QED BY <2>1, <2>2, <2>3
<1>2. ASSUME NEW p \in Session, Receipts(p) PROVE OnePayable'
  BY <1>0, <1>2 DEF Receipts, OnePayable, AskReceive, InsertItem, ScanReceipt,
                    CommitReceipt, AskRemove, CommitRemove
<1>3. ASSUME NEW p \in Session, Die(p) PROVE OnePayable'
  BY <1>3 DEF Die, OnePayable
<1>4. ASSUME UNCHANGED vars PROVE OnePayable'
  BY <1>4 DEF vars, OnePayable
<1> QED BY <1>1, <1>2, <1>3, <1>4 DEF Next

\* However receipts and cancellations race and die, the supplier is owed for the
\* order once at most.
THEOREM OwedOnce == Spec => []OnePayable
<1>1. Init => OnePayable
  BY DEF Init, OnePayable
<1> QED
  BY <1>1, InitTypes, StepTypes, PayableKept, PTL DEF Spec

-----------------------------------------------------------------------------
(* What a line has received. *)

\* The forms and removals that a scene leaves out are never in progress; and
\* one that is, is alone in a scene without races.
InScene ==
    /\ \A p \in Session : session[p].stage \in {"editing", "lining"} => "edit" \in scene
    /\ \A p \in Session : At(p, "removing") => "remove" \in scene
    /\ "race" \in scene \/ \A p, q \in Session : At(p, "idle") \/ At(q, "idle") \/ p = q

\* Alone, a removal takes off what its item still holds.
AsRead ==
    "race" \in scene \/ \A p \in Session :
        At(p, "removing") =>
            /\ Active(session[p].item)
            /\ item[session[p].item].line = session[p].line
            /\ item[session[p].item].qty = session[p].qty

\* Where received_quantity is kept: see ReceivedExact.
Kept ==
    /\ live
    /\ scene \cap {"crash", "edit"} = {} /\ ~({"remove", "race"} \subseteq scene)
    /\ "remove" \in scene => Distinct

OnLine(p, stage, l) == At(p, stage) /\ session[p].line = l

\* Unless an item was inserted that no request has added up yet, whoever has
\* added up a line holds its total; and when nobody has, the line shows it.
Settled(l) ==
    (\A p \in Session : ~OnLine(p, "handling", l)) =>
        /\ \A p \in Session : OnLine(p, "scanned", l) => session[p].qty = Received(l)
        /\ (\A p \in Session : ~OnLine(p, "scanned", l)) => line[l].received = Received(l)

Receiving == Kept => \A l \in LineId : Settled(l)

Alone(p) == "race" \in scene \/ \A q \in Session \ {p} : At(q, "idle")

\* A request's step leaves the others where they are, and is alone in a scene
\* without races; the stages some scenes leave out are entered only in others.
MovesTo(p, w) ==
    /\ Goto(p, w) /\ Alone(p)
    /\ scene' = scene /\ product' = product /\ (live' => live)
    /\ w.stage \in {"editing", "lining"} => "edit" \in scene
    /\ w.stage = "removing" =>
          /\ "remove" \in scene
          /\ item' = item /\ Active(w.item)
          /\ item[w.item].line = w.line /\ item[w.item].qty = w.qty

\* What a receipt holds once it has added up its line.
LEMMA Scans ==
    ASSUME session \in [Session -> Work], NEW p \in Session, ScanReceipt(p)
    PROVE  \E w : /\ Goto(p, w) /\ w.stage = "scanned" /\ w.line = session[p].line
                  /\ w.qty = Received(session[p].line)
<1>1. PICK new, full : Goto(p, [session[p] EXCEPT !.stage = "scanned", !.qty = TotalOf(p),
                                                  !.new = new, !.full = full])
  BY DEF ScanReceipt
<1> DEFINE w == [session[p] EXCEPT !.stage = "scanned", !.qty = TotalOf(p),
                                   !.new = new, !.full = full]
<1>2. w.stage = "scanned" /\ w.line = session[p].line /\ w.qty = TotalOf(p)
  BY DEF Work
<1> QED BY <1>1, <1>2 DEF TotalOf

LEMMA OneMoves ==
    ASSUME TypeOK, InScene, NEW p \in Session, StatusForms(p) \/ Receipts(p) \/ Die(p)
    PROVE  \E w : MovesTo(p, w)
<1>s. session \in [Session -> Work]
  BY DEF TypeOK
<1>a. ~At(p, "idle") => Alone(p)
  BY DEF InScene, Alone
<1>b. ASSUME NEW entry, Starts(p, entry) PROVE Alone(p) /\ entry \in scene /\ At(p, "idle")
  BY <1>b DEF Starts, Alone
<1>1. ASSUME NEW new \in Status, AskStatus(p, new)
      PROVE MovesTo(p, ToStatus(Idle, "saving", new))
  BY <1>1, <1>b DEF AskStatus, MovesTo, ToStatus
<1>2. ASSUME BeginSave(p) PROVE \E w : MovesTo(p, w)
  <2>1. ASSUME NEW stage \in {"writing", "cancelling"}, NEW new,
               Goto(p, ToStatus(session[p], stage, new))
        PROVE  MovesTo(p, ToStatus(session[p], stage, new))
    <3>1. ToStatus(session[p], stage, new).stage = stage
      BY DEF ToStatus
    <3>2. Alone(p) /\ scene' = scene /\ product' = product /\ live' = live
      BY <1>2, <1>a DEF BeginSave, At
    <3> QED BY <2>1, <3>1, <3>2 DEF MovesTo
  <2>2. \/ Goto(p, ToStatus(session[p], "writing", session[p].new))
        \/ Goto(p, ToStatus(session[p], "writing", status))
        \/ Goto(p, ToStatus(session[p], "cancelling", session[p].new))
    BY <1>2 DEF BeginSave
  <2> QED BY <2>1, <2>2
<1>3. ASSUME CancelPayables(p) PROVE MovesTo(p, Then(session[p], "writing"))
  BY <1>3, <1>a DEF CancelPayables, MovesTo, Then, At
<1>4. ASSUME WriteStatus(p) PROVE MovesTo(p, Idle)
  BY <1>4, <1>a DEF WriteStatus, MovesTo, Done, Idle, At
<1>5. ASSUME DeleteDraft(p) PROVE MovesTo(p, session[p])
  <2>1. Goto(p, session[p])
    BY <1>5, <1>s DEF DeleteDraft, Goto
  <2>2. At(p, "idle") /\ Alone(p)
    BY <1>5, <1>b DEF DeleteDraft
  <2> QED BY <1>5, <2>1, <2>2 DEF DeleteDraft, MovesTo, At
<1>6. ASSUME NEW l \in LineId, NEW q \in Edited, AskEdit(p, l, q)
      PROVE MovesTo(p, [Idle EXCEPT !.stage = "editing", !.line = l, !.qty = q,
                                    !.new = status, !.copy = line[l]])
  BY <1>6, <1>b DEF AskEdit, MovesTo, Idle
<1>7. ASSUME EditOrder(p) PROVE MovesTo(p, Then(session[p], "lining"))
  <2>1. "edit" \in scene /\ Alone(p)
    BY <1>7, <1>a DEF EditOrder, InScene, At
  <2> QED BY <1>7, <2>1 DEF EditOrder, MovesTo, Then
<1>8. ASSUME EditLine(p) PROVE MovesTo(p, Then(session[p], "writing"))
  BY <1>8, <1>a DEF EditLine, MovesTo, Then, At
<1>9. ASSUME NEW l \in LineId, NEW q \in Quantity, AskReceive(p, l, q)
      PROVE MovesTo(p, [Idle EXCEPT !.stage = "inserting", !.line = l, !.qty = q,
                                    !.copy = line[l]])
  BY <1>9, <1>b DEF AskReceive, MovesTo, Idle
<1>10. ASSUME NEW i \in ItemId, InsertItem(p, i)
       PROVE MovesTo(p, [Then(session[p], "handling") EXCEPT !.item = i])
  BY <1>10, <1>a DEF InsertItem, MovesTo, Then, At
<1>11. ASSUME ScanReceipt(p) PROVE \E w : MovesTo(p, w)
  <2>1. PICK w : Goto(p, w) /\ w.stage = "scanned"
    BY <1>s, <1>11, Scans
  <2> QED BY <1>11, <2>1, <1>a DEF ScanReceipt, MovesTo, At
<1>12. ASSUME CommitReceipt(p) PROVE MovesTo(p, Idle)
  BY <1>12, <1>a DEF CommitReceipt, MovesTo, Done, Idle, At
<1>13. ASSUME NEW i \in ItemId, AskRemove(p, i)
       PROVE MovesTo(p, [Idle EXCEPT !.stage = "removing", !.item = i,
                                     !.line = item[i].line, !.qty = item[i].qty])
  BY <1>13, <1>b DEF AskRemove, MovesTo, Idle
<1>14. ASSUME CommitRemove(p) PROVE MovesTo(p, Idle)
  BY <1>14, <1>a DEF CommitRemove, MovesTo, Done, Idle, At
<1>15. ASSUME Die(p) PROVE MovesTo(p, Idle)
  BY <1>15, <1>a DEF Die, MovesTo, Done, Idle, At
<1>16. CASE StatusForms(p)
  BY <1>16, <1>1, <1>2, <1>3, <1>4, <1>5, <1>6, <1>7, <1>8 DEF StatusForms
<1>17. CASE Receipts(p)
  BY <1>17, <1>9, <1>10, <1>11, <1>12, <1>13, <1>14 DEF Receipts
<1> QED BY <1>15, <1>16, <1>17

LEMMA InSceneKept == TypeOK /\ InScene /\ [Next]_vars => InScene'
<1>1. ASSUME TypeOK, InScene, NEW p \in Session, NEW w, MovesTo(p, w) PROVE InScene'
  <2>1. /\ session'[p] = w
        /\ \A q \in Session \ {p} : session'[q] = session[q]
    BY <1>1 DEF TypeOK, MovesTo, Goto
  <2> QED BY <1>1, <2>1 DEF InScene, MovesTo, Alone, At
<1>2. TypeOK /\ InScene /\ UNCHANGED vars => InScene'
  BY DEF InScene, vars, At
<1> QED BY <1>1, <1>2, OneMoves DEF Next

LEMMA AsReadKept == TypeOK /\ InScene /\ AsRead /\ [Next]_vars => AsRead'
<1>1. ASSUME TypeOK, InScene, AsRead, NEW p \in Session, NEW w, MovesTo(p, w) PROVE AsRead'
  <2>1. /\ session'[p] = w
        /\ \A q \in Session \ {p} : session'[q] = session[q]
    BY <1>1 DEF TypeOK, MovesTo, Goto
  <2>2. CASE "race" \in scene
    BY <1>1, <2>2 DEF MovesTo, AsRead
  <2>3. CASE "race" \notin scene
    <3>1. ASSUME NEW q \in Session, At(q, "removing")' PROVE q = p
      BY <1>1, <2>1, <2>3, <3>1 DEF MovesTo, Alone, At
    <3>2. At(p, "removing")' =>
             /\ Active(w.item)' /\ item'[w.item].line = w.line /\ item'[w.item].qty = w.qty
      BY <1>1, <2>1 DEF MovesTo, At, Active
    <3> QED BY <2>1, <3>1, <3>2 DEF AsRead, Active
  <2> QED BY <2>2, <2>3
<1>2. TypeOK /\ AsRead /\ UNCHANGED vars => AsRead'
  BY DEF AsRead, vars, At, Active
<1> QED BY <1>1, <1>2, OneMoves DEF Next

\* The total of a line depends only on what its items count for.
LEMMA ReceivedSame ==
    ASSUME NEW l \in LineId, \A i \in ItemId : QtyOn(i, l)' = QtyOn(i, l)
    PROVE  Received(l)' = Received(l)
BY DEF Received

\* An item that counts for another quantity moves the total of its line by as
\* much.
LEMMA ReceivedMoves ==
    ASSUME item \in [ItemId -> Item], NEW l \in LineId, NEW i \in ItemId, NEW v \in Int,
           QtyOn(i, l)' = v,
           \A j \in ItemId \ {i} : QtyOn(j, l)' = QtyOn(j, l)
    PROVE  Received(l)' = Received(l) - QtyOn(i, l) + v
<1> DEFINE F == [j \in 1..Items |-> QtyOn(j, l)]
           G == [j \in 1..Items |-> QtyOn(j, l)']
<1>1. F \in [1..Items -> Int] /\ Items \in Nat /\ Items \in 0..Items /\ i \in 1..Items
  BY QtyType, Numbers DEF ItemId
<1>2. Received(l) = SumTo(F, Items) /\ Received(l)' = SumTo(G, Items)
  BY DEF Received, ItemId
<1>3. G = [F EXCEPT ![i] = v]
  BY DEF ItemId
<1>4. F[i] = QtyOn(i, l)
  BY <1>1
<1> HIDE DEF F, G
<1>5. \A n \in 0..Items : SumTo([F EXCEPT ![i] = v], n)
         = IF n < i THEN SumTo(F, n) ELSE SumTo(F, n) - F[i] + v
  BY <1>1, SumToUpdate
<1>6. SumTo(F, Items) \in Int /\ F[i] \in Int
  BY <1>1, SumToStep
<1>7. SumTo([F EXCEPT ![i] = v], Items) = SumTo(F, Items) - F[i] + v
  <2>1. Items \in 0..Items /\ ~(Items < i)
    BY <1>1
  <2> QED BY <1>5, <2>1
<1>8. SumTo(G, Items) = SumTo(F, Items) - F[i] + v
  BY <1>3, <1>7
<1> QED BY <1>2, <1>4, <1>6, <1>8

\* What keeps the items' quantities and the lines, and neither inserts nor adds
\* up nor commits a receipt, keeps the lines' totals.
LEMMA FrameReceiving ==
    ASSUME session \in [Session -> Work], Receiving, NEW p \in Session, NEW w, MovesTo(p, w),
           session[p].stage \notin {"handling", "scanned"}, w.stage \notin {"handling", "scanned"},
           item' = item, line' = line
    PROVE  Receiving'
<1>1. /\ session'[p] = w
      /\ \A q \in Session \ {p} : session'[q] = session[q]
  BY DEF MovesTo, Goto
<1>2. Kept' => Kept
  BY DEF Kept, MovesTo, Distinct
<1>3. \A l \in LineId : Received(l)' = Received(l)
  BY DEF Received, QtyOn, Active
<1>4. ASSUME NEW q \in Session, NEW l, NEW stage \in {"handling", "scanned"}
      PROVE  OnLine(q, stage, l)' <=> OnLine(q, stage, l)
  BY <1>1 DEF OnLine, At
<1>5. ASSUME NEW q \in Session, NEW l, OnLine(q, "scanned", l)
      PROVE  session'[q].qty = session[q].qty
  BY <1>1, <1>5 DEF OnLine, At
<1>6. ASSUME NEW l \in LineId, Settled(l) PROVE Settled(l)'
  BY <1>3, <1>4, <1>5, <1>6 DEF Settled
<1> QED BY <1>2, <1>6 DEF Receiving

\* An inserted item has its request hold the line up until it is added up.
LEMMA InsertReceiving ==
    ASSUME TypeOK, InScene, Receiving, NEW p \in Session, NEW i \in ItemId, InsertItem(p, i)
    PROVE  Receiving'
<1> DEFINE k == session[p].line
           w == [Then(session[p], "handling") EXCEPT !.item = i]
<1>1. w.stage = "handling" /\ w.line = k
  BY DEF Then
<1>2. /\ session'[p] = w
      /\ \A q \in Session \ {p} : session'[q] = session[q]
  BY DEF InsertItem, Goto, TypeOK
<1>3. Kept' => Kept
  BY DEF InsertItem, Kept, Distinct
<1>4. OnLine(p, "handling", k)'
  BY <1>1, <1>2 DEF OnLine, At
<1>k. k' = w.line
  BY <1>2
<1>5. At(p, "inserting")
  BY DEF InsertItem
<1>6. ASSUME NEW l \in LineId, l # k, Settled(l) PROVE Settled(l)'
  <2>1. \A j \in ItemId : QtyOn(j, l)' = QtyOn(j, l)
    <3>1. ASSUME NEW j \in ItemId, j # i PROVE QtyOn(j, l)' = QtyOn(j, l)
      BY <3>1 DEF InsertItem, QtyOn, Active, TypeOK
    <3>2. QtyOn(i, l) = 0
      BY DEF InsertItem, QtyOn, Active
    <3>3. QtyOn(i, l)' = 0
      BY <1>6 DEF InsertItem, QtyOn, Active, TypeOK
    <3> QED BY <3>1, <3>2, <3>3
  <2>2. Received(l)' = Received(l)
    BY <2>1, ReceivedSame
  <2>3. ASSUME NEW q \in Session, NEW stage \in {"handling", "scanned"}
        PROVE  OnLine(q, stage, l)' <=> OnLine(q, stage, l)
    BY <1>1, <1>2, <1>5, <1>6 DEF OnLine, At
  <2>4. ASSUME NEW q \in Session, OnLine(q, "scanned", l)
        PROVE  session'[q].qty = session[q].qty
    BY <1>2, <1>5, <2>4 DEF OnLine, At
  <2>5. line' = line
    BY DEF InsertItem
  <2> QED BY <1>6, <2>2, <2>3, <2>4, <2>5 DEF Settled
<1>7. ASSUME NEW l \in LineId, l = session[p].line PROVE Settled(l)'
  BY <1>1, <1>2, <1>7 DEF Settled, OnLine, At
<1> QED BY <1>3, <1>6, <1>7 DEF Receiving

\* Who adds up a line holds its total, and alone.
LEMMA ScanReceiving ==
    ASSUME TypeOK, InScene, Receiving, NEW p \in Session, ScanReceipt(p)
    PROVE  Receiving'
<1>1. PICK w : /\ Goto(p, w) /\ w.stage = "scanned" /\ w.line = session[p].line
               /\ w.qty = Received(session[p].line)
  BY Scans DEF TypeOK
<1>2. /\ session'[p] = w
      /\ \A q \in Session \ {p} : session'[q] = session[q]
  BY <1>1 DEF Goto, TypeOK
<1>3. Kept' => Kept
  BY DEF ScanReceipt, Kept, Distinct
<1>4. item' = item /\ line' = line /\ At(p, "handling")
  BY DEF ScanReceipt
<1>5. \A l \in LineId : Received(l)' = Received(l)
  BY <1>4 DEF Received, QtyOn, Active
<1>6. ASSUME NEW l \in LineId, l # session[p].line, Settled(l) PROVE Settled(l)'
  <2>1. ASSUME NEW q \in Session, NEW stage \in {"handling", "scanned"}
        PROVE  OnLine(q, stage, l)' <=> OnLine(q, stage, l)
    BY <1>1, <1>2, <1>4, <1>6 DEF OnLine, At
  <2>2. ASSUME NEW q \in Session, OnLine(q, "scanned", l)
        PROVE  session'[q].qty = session[q].qty
    BY <1>2, <1>4, <2>2 DEF OnLine, At
  <2> QED BY <1>4, <1>5, <1>6, <2>1, <2>2 DEF Settled
<1>7. ASSUME NEW l \in LineId, l = session[p].line PROVE Settled(l)'
  <2>1. \A q \in Session : ~OnLine(q, "scanned", l)
    BY <1>7 DEF ScanReceipt, Unlocked, OnLine
  <2>2. ASSUME NEW q \in Session, OnLine(q, "scanned", l)' PROVE q = p
    BY <1>2, <2>1, <2>2 DEF OnLine, At
  <2>3. OnLine(p, "scanned", l)' /\ session'[p].qty = Received(l)'
    BY <1>1, <1>2, <1>5, <1>7 DEF OnLine, At
  <2> QED BY <2>2, <2>3 DEF Settled
<1> QED BY <1>3, <1>6, <1>7 DEF Receiving

\* What is committed is the total, unless another request is yet to add up.
LEMMA CommitReceiving ==
    ASSUME TypeOK, InScene, Receiving, NEW p \in Session, CommitReceipt(p)
    PROVE  Receiving'
<1>1. /\ session'[p] = Idle
      /\ \A q \in Session \ {p} : session'[q] = session[q]
  BY DEF CommitReceipt, Done, Goto, TypeOK
<1>2. Kept' => Kept
  BY DEF CommitReceipt, Kept, Distinct
<1>3. At(p, "scanned") /\ session[p] \in Work
  BY DEF CommitReceipt, TypeOK
<1>4. ASSUME NEW l \in LineId PROVE Received(l)' = Received(l)
  <2>1. ASSUME NEW i \in ItemId PROVE QtyOn(i, l)' = QtyOn(i, l)
    <3>1. /\ item'[i].row = item[i].row /\ item'[i].line = item[i].line
          /\ item'[i].qty = item[i].qty
      BY DEF CommitReceipt, TypeOK, Item
    <3> QED BY <3>1 DEF QtyOn, Active
  <2> QED BY <2>1, ReceivedSame
<1>5. ASSUME NEW q \in Session, NEW l PROVE
        /\ OnLine(q, "handling", l)' <=> OnLine(q, "handling", l)
        /\ OnLine(q, "scanned", l)' => OnLine(q, "scanned", l) /\ session'[q] = session[q]
  BY <1>1, <1>3 DEF OnLine, At, Idle
<1>6. ASSUME NEW l \in LineId, l # session[p].line, Settled(l) PROVE Settled(l)'
  <2>1. line'[l] = line[l]
    BY <1>6 DEF CommitReceipt, TypeOK
  <2>2. ASSUME NEW q \in Session PROVE OnLine(q, "scanned", l)' <=> OnLine(q, "scanned", l)
    BY <1>1, <1>3, <1>6 DEF OnLine, At, Idle
  <2> QED BY <1>4, <1>5, <1>6, <2>1, <2>2 DEF Settled
<1>7. ASSUME NEW l \in LineId, l = session[p].line, Settled(l) PROVE Settled(l)'
  <2>1. SUFFICES ASSUME \A q \in Session : ~OnLine(q, "handling", l)
                 PROVE  /\ \A q \in Session : OnLine(q, "scanned", l)' =>
                                                 session'[q].qty = Received(l)'
                        /\ line'[l].received = Received(l)'
    BY <1>5 DEF Settled
  <2>2. \A q \in Session : OnLine(q, "scanned", l) => session[q].qty = Received(l)
    BY <1>7, <2>1 DEF Settled
  <2>3. line'[l].received = session[p].qty
    BY <1>3, <1>7 DEF CommitReceipt, TypeOK, Line
  <2>4. OnLine(p, "scanned", l)
    BY <1>3, <1>7 DEF OnLine
  <2> QED BY <1>4, <1>5, <2>2, <2>3, <2>4
<1> QED BY <1>2, <1>6, <1>7 DEF Receiving

\* A removal, alone, takes its quantity off the one line of its product.
LEMMA RemoveReceiving ==
    ASSUME TypeOK, InScene, AsRead, Receiving, NEW p \in Session, CommitRemove(p)
    PROVE  Receiving'
<1> DEFINE w == session[p]
<1>1. /\ session'[p] = Idle
      /\ \A q \in Session \ {p} : session'[q] = session[q]
  BY DEF CommitRemove, Done, Goto, TypeOK
<1>2. At(p, "removing") /\ w \in Work /\ "remove" \in scene
  BY DEF CommitRemove, TypeOK, InScene
<1>3. SUFFICES ASSUME Kept' PROVE \A l \in LineId : Settled(l)'
  BY DEF Receiving
<1>4. Kept /\ "race" \notin scene /\ Distinct /\ live
  BY <1>2, <1>3 DEF CommitRemove, Kept, Distinct
<1>5. ASSUME NEW q \in Session, q # p PROVE At(q, "idle")
  BY <1>2, <1>4, <1>5 DEF InScene, At
<1>6. ASSUME NEW l \in LineId PROVE line[l].received = Received(l)
  <2>1. Settled(l)
    BY <1>4 DEF Receiving
  <2>2. ASSUME NEW q \in Session, NEW stage \in {"handling", "scanned"}
        PROVE  ~OnLine(q, stage, l)
    BY <1>2, <1>5 DEF OnLine, At
  <2> QED BY <2>1, <2>2 DEF Settled
<1>7. ASSUME NEW q \in Session PROVE At(q, "idle")'
  BY <1>1, <1>5 DEF At, Idle
<1>8. ASSUME NEW l \in LineId, line'[l].received = Received(l)' PROVE Settled(l)'
  BY <1>7, <1>8 DEF Settled, OnLine, At
<1>9. /\ Active(w.item) /\ item[w.item].line = w.line /\ item[w.item].qty = w.qty
      /\ w.item \in ItemId /\ w.line \in LineId /\ w.qty \in Nat
  BY <1>2, <1>4 DEF AsRead, Work
<1>10. CASE line' = line /\ item' = item
  <2>1. \A l \in LineId : Received(l)' = Received(l)
    BY <1>10 DEF Received, QtyOn, Active
  <2> QED BY <1>6, <1>8, <1>10, <2>1
<1>11. CASE /\ line' = [l \in LineId |-> IF live /\ product[l] = product[w.line]
                                         THEN LessReceived(l, w.qty) ELSE line[l]]
            /\ \A i \in ItemId \ {w.item} : item'[i] = item[i]
            /\ item'[w.item].row = "retired"
  <2>1. ASSUME NEW l \in LineId, l # w.line PROVE line'[l].received = Received(l)'
    <3>1. line'[l] = line[l]
      BY <1>4, <1>9, <1>11, <2>1 DEF Distinct
    <3>2. \A i \in ItemId : QtyOn(i, l)' = QtyOn(i, l)
      <4>1. QtyOn(w.item, l) = 0
        BY <1>9, <2>1 DEF QtyOn
      <4>2. item'[w.item].row # "active"
        BY <1>11
      <4> QED BY <1>11, <4>1, <4>2 DEF QtyOn, Active
    <3>3. Received(l)' = Received(l)
      BY <3>2, ReceivedSame
    <3> QED BY <1>6, <3>1, <3>3
  <2>2. ASSUME NEW l \in LineId, l = w.line PROVE line'[l].received = Received(l)'
    <3>1. line'[l].received = line[l].received - w.qty
      BY <1>4, <1>11, <2>2 DEF LessReceived
    <3>2. QtyOn(w.item, l) = w.qty
      BY <1>9, <2>2 DEF QtyOn
    <3>3. Received(l)' = Received(l) - w.qty
      <4>1. ASSUME NEW i, i = w.item PROVE QtyOn(i, l)' = 0 /\ QtyOn(i, l) = w.qty
        BY <1>11, <3>2, <4>1 DEF QtyOn, Active
      <4>2. ASSUME NEW i, i = w.item, NEW j \in ItemId \ {i} PROVE QtyOn(j, l)' = QtyOn(j, l)
        BY <1>11, <4>2 DEF QtyOn, Active
      <4>3. PICK i \in ItemId : i = w.item
        BY <1>9
      <4>4. item \in [ItemId -> Item]
        BY DEF TypeOK
      <4>5. Received(l)' = Received(l) - QtyOn(i, l) + 0
        BY <4>1, <4>2, <4>3, <4>4, ReceivedMoves
      <4>6. Received(l) \in Nat
        BY <4>4, ReceivedType
      <4> QED BY <1>9, <4>1, <4>3, <4>5, <4>6
    <3> QED BY <1>6, <3>1, <3>3
  <2> QED BY <1>8, <2>1, <2>2
<1> QED BY <1>9, <1>10, <1>11 DEF CommitRemove, TypeOK

LEMMA ReceivingKept == TypeOK /\ InScene /\ AsRead /\ Receiving /\ [Next]_vars => Receiving'
<1> SUFFICES ASSUME TypeOK, InScene, AsRead, Receiving, [Next]_vars PROVE Receiving'
  OBVIOUS
<1>1. CASE UNCHANGED vars
  BY <1>1 DEF vars, Receiving, Kept, Settled, OnLine, At, Received, QtyOn, Active, Distinct
<1>2. ASSUME NEW p \in Session, StatusForms(p) \/ Receipts(p),
             session[p].stage \notin {"handling", "scanned"},
             session'[p].stage \notin {"handling", "scanned"}, item' = item, line' = line
      PROVE  Receiving'
  <2>1. PICK w : MovesTo(p, w)
    BY <1>2, OneMoves
  <2>2. session'[p] = w
    BY <2>1 DEF MovesTo, Goto, TypeOK
  <2> QED BY <1>2, <2>1, <2>2, FrameReceiving DEF TypeOK
<1>3. ASSUME NEW p \in Session, NEW entry, Starts(p, entry)
      PROVE  session[p].stage \notin {"handling", "scanned"}
  BY <1>3 DEF Starts, At
<1>4. ASSUME NEW p \in Session, StatusForms(p) PROVE Receiving'
  <2>0. session \in [Session -> Work]
    BY DEF TypeOK
  <2>1. ASSUME NEW new \in Status, AskStatus(p, new) PROVE Receiving'
    <3>1. session'[p].stage = "saving"
      BY <2>0, <2>1 DEF AskStatus, Goto, ToStatus
    <3> QED BY <1>2, <1>3, <1>4, <2>1, <3>1 DEF AskStatus
  <2>2. ASSUME BeginSave(p) PROVE Receiving'
    <3>1. session'[p].stage \in {"writing", "cancelling"}
      BY <2>0, <2>2 DEF BeginSave, Goto, ToStatus
    <3> QED BY <1>2, <1>4, <2>2, <3>1 DEF BeginSave, At
  <2>3. ASSUME CancelPayables(p) PROVE Receiving'
    <3>1. session'[p].stage = "writing"
      BY <2>0, <2>3 DEF CancelPayables, Goto, Then
    <3> QED BY <1>2, <1>4, <2>3, <3>1 DEF CancelPayables, At
  <2>4. ASSUME WriteStatus(p) PROVE Receiving'
    <3>1. session'[p].stage = "idle"
      BY <2>0, <2>4 DEF WriteStatus, Done, Goto, Idle
    <3> QED BY <1>2, <1>4, <2>4, <3>1 DEF WriteStatus, At
  <2>5. ASSUME DeleteDraft(p) PROVE Receiving'
    <3>1. session' = session
      BY <2>5 DEF DeleteDraft
    <3> QED BY <1>2, <1>3, <1>4, <2>5, <3>1 DEF DeleteDraft
  <2>6. ASSUME NEW l \in LineId, NEW q \in Edited, AskEdit(p, l, q) PROVE Receiving'
    <3>1. session'[p].stage = "editing"
      BY <2>0, <2>6 DEF AskEdit, Goto, Idle
    <3> QED BY <1>2, <1>3, <1>4, <2>6, <3>1 DEF AskEdit
  <2>7. ASSUME EditOrder(p) PROVE Receiving'
    <3>1. session'[p].stage = "lining"
      BY <2>0, <2>7 DEF EditOrder, Goto, Then
    <3> QED BY <1>2, <1>4, <2>7, <3>1 DEF EditOrder, At
  <2>8. ASSUME EditLine(p) PROVE Receiving'
    <3>1. "edit" \in scene /\ scene' = scene
      BY <2>8 DEF EditLine, InScene, At
    <3> QED BY <3>1 DEF Receiving, Kept
  <2> QED BY <1>4, <2>1, <2>2, <2>3, <2>4, <2>5, <2>6, <2>7, <2>8 DEF StatusForms
<1>5. ASSUME NEW p \in Session, Receipts(p) PROVE Receiving'
  <2>0. session \in [Session -> Work]
    BY DEF TypeOK
  <2>1. ASSUME NEW l \in LineId, NEW q \in Quantity, AskReceive(p, l, q) PROVE Receiving'
    <3>1. session'[p].stage = "inserting"
      BY <2>0, <2>1 DEF AskReceive, Goto, Idle
    <3> QED BY <1>2, <1>3, <1>5, <2>1, <3>1 DEF AskReceive
  <2>2. ASSUME NEW i \in ItemId, AskRemove(p, i) PROVE Receiving'
    <3>1. session'[p].stage = "removing"
      BY <2>0, <2>2 DEF AskRemove, Goto, Idle
    <3> QED BY <1>2, <1>3, <1>5, <2>2, <3>1 DEF AskRemove
  <2> QED BY <1>5, <2>1, <2>2, InsertReceiving, ScanReceiving, CommitReceiving,
             RemoveReceiving DEF Receipts
<1>6. ASSUME NEW p \in Session, Die(p) PROVE Receiving'
  BY <1>6 DEF Die, Receiving, Kept
<1> QED BY <1>1, <1>4, <1>5, <1>6 DEF Next

LEMMA ReceivedFirst == ASSUME Init, NEW l \in LineId PROVE Received(l) = 0
<1> DEFINE F == [i \in 1..Items |-> QtyOn(i, l)]
<1>1. \A i \in ItemId : QtyOn(i, l) = 0
  BY DEF Init, QtyOn, Active, NoItem
<1>2. F \in [1..Items -> Int] /\ (\A i \in 1..Items : F[i] = 0) /\ Items \in Nat
  BY <1>1, Numbers DEF ItemId
<1>3. Received(l) = SumTo(F, Items)
  BY DEF Received, ItemId
<1> HIDE DEF F
<1>4. \A n \in 0..Items : SumTo(F, n) = 0
  BY <1>2, SumToZero
<1>5. Items \in 0..Items
  BY <1>2
<1> QED BY <1>3, <1>4, <1>5

LEMMA InitKeeps == Init => TypeOK /\ InScene /\ AsRead /\ Receiving
<1> SUFFICES ASSUME Init PROVE InScene /\ AsRead /\ Receiving
  BY InitTypes
<1>1. \A p \in Session : session[p] = Idle /\ At(p, "idle")
  BY DEF Init, At, Idle
<1>2. InScene /\ AsRead
  BY <1>1 DEF InScene, AsRead, At, Idle
<1>3. \A l \in LineId : line[l].received = Received(l)
  BY ReceivedFirst DEF Init
<1>4. \A l \in LineId : Settled(l)
  BY <1>1, <1>3 DEF Settled, OnLine, At, Idle
<1> QED BY <1>2, <1>4 DEF Receiving

\* When nothing is in progress, a line's received_quantity is the total of its
\* items, though any number of receipts of it raced.
THEOREM TotalsKept == Spec => []ReceivedExact
<1> DEFINE Inv == TypeOK /\ InScene /\ AsRead /\ Receiving
<1>1. Init => Inv
  BY InitKeeps
<1>2. Inv /\ [Next]_vars => Inv'
  BY StepTypes, InSceneKept, AsReadKept, ReceivingKept
<1>3. Inv => ReceivedExact
  <2> SUFFICES ASSUME Inv, AtRest, Kept PROVE \A l \in LineId : line[l].received = Received(l)
    BY DEF ReceivedExact, Kept
  <2>1. \A l \in LineId : Settled(l)
    BY DEF Receiving
  <2>2. \A p \in Session, l \in LineId : ~OnLine(p, "handling", l) /\ ~OnLine(p, "scanned", l)
    BY DEF AtRest, OnLine, At
  <2> QED BY <2>1, <2>2 DEF Settled
<1> QED
  BY <1>1, <1>2, <1>3, PTL DEF Spec

-----------------------------------------------------------------------------
(* Receiving no more than was ordered. *)

\* One request at a time: a line, with what a receipt is about to insert on it,
\* has room for what it received.
OneByOne == scene \cap {"race", "crash", "edit"} = {} /\ ("remove" \in scene => Distinct)
Room ==
    OneByOne => \A l \in LineId :
        /\ Received(l) <= line[l].ordered
        /\ \A p \in Session : OnLine(p, "inserting", l) =>
               Received(l) + session[p].qty <= line[l].ordered

\* A step after which nothing is about to be inserted, and that takes neither
\* room nor items, keeps the room.
LEMMA FrameRoom ==
    ASSUME TypeOK, InScene, Room, NEW p \in Session, StatusForms(p) \/ Receipts(p) \/ Die(p),
           session'[p].stage # "inserting", line' \in [LineId -> Line],
           \A l \in LineId : line'[l].ordered = line[l].ordered
                              /\ Received(l)' \in Int /\ Received(l)' <= Received(l)
    PROVE  Room'
<1>1. PICK w : MovesTo(p, w)
  BY OneMoves
<1>2. \A q \in Session \ {p} : session'[q] = session[q]
  BY <1>1 DEF MovesTo, Goto, TypeOK
<1>3. OneByOne' <=> OneByOne
  BY <1>1 DEF MovesTo, OneByOne, Distinct
<1>4. ASSUME OneByOne, NEW q \in Session, NEW l, OnLine(q, "inserting", l)' PROVE FALSE
  <2>1. q # p
    BY <1>4 DEF OnLine, At
  <2>2. At(q, "idle")
    BY <1>1, <1>4, <2>1 DEF MovesTo, Alone, OneByOne
  <2> QED BY <1>2, <1>4, <2>1, <2>2 DEF OnLine, At
<1>5. ASSUME NEW l \in LineId PROVE Received(l) \in Nat /\ line[l].ordered \in Nat
  BY ReceivedType, LineTypes DEF TypeOK
<1>6. ASSUME OneByOne, NEW l \in LineId PROVE Received(l)' <= line'[l].ordered
  <2>1. Received(l) <= line[l].ordered
    BY <1>6 DEF Room
  <2> QED BY <1>5, <2>1
<1> QED BY <1>3, <1>4, <1>6 DEF Room

LEMMA RoomKept == TypeOK /\ InScene /\ AsRead /\ Receiving /\ Room /\ [Next]_vars => Room'
<1> SUFFICES ASSUME TypeOK, InScene, AsRead, Receiving, Room, [Next]_vars PROVE Room'
  OBVIOUS
<1>0. /\ session \in [Session -> Work] /\ item \in [ItemId -> Item] /\ line \in [LineId -> Line]
      /\ line' \in [LineId -> Line] /\ item' \in [ItemId -> Item]
  <2>1. TypeOK'
    BY StepTypes
  <2> QED BY <2>1 DEF TypeOK
<1>1. CASE UNCHANGED vars
  BY <1>1 DEF vars, Room, OneByOne, OnLine, At, Received, QtyOn, Active, Distinct
<1>2. ASSUME NEW l \in LineId PROVE Received(l) \in Nat /\ line[l].ordered \in Nat
  BY <1>0, ReceivedType, LineTypes
<1>3. ASSUME item' = item, NEW l \in LineId
      PROVE  Received(l)' = Received(l) /\ Received(l)' \in Int /\ Received(l)' <= Received(l)
  <2>1. Received(l)' = Received(l)
    BY <1>3 DEF Received, QtyOn, Active
  <2> QED BY <1>2, <2>1
<1>4. ASSUME NEW p \in Session, StatusForms(p) PROVE Room'
  <2>1. CASE EditLine(p)
    <3>1. "edit" \in scene /\ scene' = scene
      BY <2>1 DEF EditLine, InScene, At
    <3> QED BY <3>1 DEF Room, OneByOne
  <2>2. CASE ~EditLine(p)
    <3>1. item' = item /\ line' = line
      BY <1>4, <2>2 DEF StatusForms, AskStatus, BeginSave, CancelPayables, WriteStatus,
                        DeleteDraft, AskEdit, EditOrder
    <3>2. session'[p].stage # "inserting"
      <4>1. ASSUME NEW w, Goto(p, w) PROVE session'[p] = w
        BY <1>0, <4>1 DEF Goto
      <4>2. ASSUME NEW new \in Status, AskStatus(p, new) PROVE session'[p].stage = "saving"
        BY <4>1, <4>2 DEF AskStatus, ToStatus
      <4>3. BeginSave(p) => session'[p].stage \in {"writing", "cancelling"}
        BY <4>1 DEF BeginSave, ToStatus
      <4>4. CancelPayables(p) => session'[p].stage = "writing"
        BY <4>1 DEF CancelPayables, Then
      <4>5. WriteStatus(p) => session'[p].stage = "idle"
        BY <4>1 DEF WriteStatus, Done, Idle
      <4>6. DeleteDraft(p) => session'[p].stage = "idle"
        BY DEF DeleteDraft, Starts, At
      <4>7. ASSUME NEW l \in LineId, NEW q \in Edited, AskEdit(p, l, q)
            PROVE session'[p].stage = "editing"
        BY <4>1, <4>7 DEF AskEdit, Idle
      <4>8. EditOrder(p) => session'[p].stage = "lining"
        BY <4>1 DEF EditOrder, Then
      <4> QED BY <1>4, <2>2, <4>2, <4>3, <4>4, <4>5, <4>6, <4>7, <4>8 DEF StatusForms
    <3> QED BY <1>0, <1>3, <1>4, <3>1, <3>2, FrameRoom
  <2> QED BY <2>1, <2>2
<1>5. ASSUME NEW p \in Session, Die(p) PROVE Room'
  BY <1>5 DEF Die, Room, OneByOne
<1>6. ASSUME NEW p \in Session, NEW k \in LineId, NEW q \in Quantity, AskReceive(p, k, q)
      PROVE  Room'
  <2> DEFINE w == [Idle EXCEPT !.stage = "inserting", !.line = k, !.qty = q, !.copy = line[k]]
  <2>1. w.line = k /\ w.qty = q
    BY DEF Idle
  <2>2. /\ session'[p] = w /\ \A r \in Session \ {p} : session'[r] = session[r]
        /\ item' = item /\ line' = line /\ scene' = scene /\ product' = product
    BY <1>0, <1>6 DEF AskReceive, Goto
  <2>3. live /\ q <= line[k].ordered - line[k].received
    BY <1>6 DEF AskReceive, Accepts, Remaining
  <2> SUFFICES ASSUME OneByOne, NEW l \in LineId
               PROVE  /\ Received(l) <= line[l].ordered
                      /\ \A r \in Session : OnLine(r, "inserting", l)' =>
                            Received(l) + session'[r].qty <= line[l].ordered
    BY <1>3, <2>2 DEF Room, OneByOne, Distinct
  <2>4. \A r \in Session : At(r, "idle")
    BY <1>6 DEF AskReceive, Starts, OneByOne
  <2>5. line[k].received = Received(k)
    <3>1. Settled(k)
      BY <2>3 DEF Receiving, Kept, OneByOne
    <3> QED BY <2>4, <3>1 DEF Settled, OnLine, At
  <2>6. ASSUME NEW r \in Session, OnLine(r, "inserting", l)' PROVE r = p /\ l = k
    <3>1. r = p
      BY <2>2, <2>4, <2>6 DEF OnLine, At
    <3> QED BY <2>1, <2>2, <2>6, <3>1 DEF OnLine
  <2>7. Received(k) + q <= line[k].ordered
    <3>1. q \in Nat
      BY Numbers
    <3> QED BY <1>2, <2>3, <2>5, <3>1
  <2> QED BY <2>1, <2>2, <2>6, <2>7 DEF Room
<1>7. ASSUME NEW p \in Session, NEW i \in ItemId, InsertItem(p, i) PROVE Room'
  <2> DEFINE k == session[p].line
             w == [Then(session[p], "handling") EXCEPT !.item = i]
  <2>1. w.stage = "handling"
    BY DEF Then
  <2>2. /\ session'[p] = w /\ \A r \in Session \ {p} : session'[r] = session[r]
        /\ line' = line /\ scene' = scene /\ product' = product /\ At(p, "inserting")
    BY <1>0, <1>7 DEF InsertItem, Goto
  <2>3. PICK q, k0 : q = session[p].qty /\ k0 = k /\ q \in Nat /\ k0 \in LineId
    BY <1>0 DEF Work
  <2>4. /\ item[i].row = "absent"
        /\ item'[i].row = "active" /\ item'[i].line = k0 /\ item'[i].qty = q
        /\ \A j \in ItemId \ {i} : item'[j] = item[j]
    BY <1>0, <1>7, <2>3 DEF InsertItem
  <2> HIDE DEF k, w
  <2>5. ASSUME NEW l \in LineId
        PROVE  Received(l)' = IF l = k0 THEN Received(l) + q ELSE Received(l)
    <3>1. QtyOn(i, l) = 0
      BY <2>4 DEF QtyOn, Active
    <3>2. QtyOn(i, l)' = IF l = k0 THEN q ELSE 0
      BY <2>4 DEF QtyOn, Active
    <3>3. \A j \in ItemId \ {i} : QtyOn(j, l)' = QtyOn(j, l)
      BY <2>4 DEF QtyOn, Active
    <3>4. PICK v \in Int : v = IF l = k0 THEN q ELSE 0
      BY <2>3
    <3>5. Received(l)' = Received(l) - QtyOn(i, l) + v
      BY <1>0, <3>2, <3>3, <3>4, ReceivedMoves
    <3> QED BY <1>2, <3>1, <3>4, <3>5
  <2> SUFFICES ASSUME OneByOne
               PROVE  \A l \in LineId :
                         /\ Received(l)' <= line[l].ordered
                         /\ \A r \in Session : ~OnLine(r, "inserting", l)'
    BY <2>2 DEF Room, OneByOne, Distinct
  <2>6. \A r \in Session \ {p} : At(r, "idle")
    BY <2>2 DEF InScene, OneByOne, At
  <2>7. ASSUME NEW l \in LineId, NEW r \in Session PROVE ~OnLine(r, "inserting", l)'
    BY <2>1, <2>2, <2>6 DEF OnLine, At
  <2>8. ASSUME NEW l \in LineId PROVE Received(l)' <= line[l].ordered
    <3>1. l = k0 => Received(l) + q <= line[l].ordered
      BY <2>2, <2>3 DEF Room, OnLine, k
    <3>2. Received(l) <= line[l].ordered
      BY DEF Room
    <3> QED BY <2>5, <3>1, <3>2
  <2> QED BY <2>7, <2>8
<1>8. ASSUME NEW p \in Session, ScanReceipt(p) PROVE Room'
  <2>1. session'[p].stage = "scanned"
    BY <1>0, <1>8, Scans DEF Goto
  <2>2. item' = item /\ line' = line
    BY <1>8 DEF ScanReceipt
  <2> QED BY <1>0, <1>3, <1>8, <2>1, <2>2, FrameRoom DEF Receipts
<1>9. ASSUME NEW p \in Session, CommitReceipt(p) PROVE Room'
  <2>1. session'[p].stage # "inserting"
    BY <1>0, <1>9 DEF CommitReceipt, Done, Goto, Idle
  <2>2. \A l \in LineId : line'[l].ordered = line[l].ordered
    BY <1>0, <1>9 DEF CommitReceipt, Line
  <2>3. ASSUME NEW l \in LineId PROVE Received(l)' = Received(l)
    <3>1. ASSUME NEW i \in ItemId PROVE QtyOn(i, l)' = QtyOn(i, l)
      <4>1. /\ item'[i].row = item[i].row /\ item'[i].line = item[i].line
            /\ item'[i].qty = item[i].qty
        BY <1>0, <1>9 DEF CommitReceipt, Item
      <4> QED BY <4>1 DEF QtyOn, Active
    <3> QED BY <3>1, ReceivedSame
  <2>4. \A l \in LineId : Received(l)' \in Int /\ Received(l)' <= Received(l)
    BY <1>2, <2>3
  <2> QED BY <1>0, <1>9, <2>1, <2>2, <2>4, FrameRoom DEF Receipts
<1>10. ASSUME NEW p \in Session, NEW i \in ItemId, AskRemove(p, i) PROVE Room'
  <2>1. session'[p].stage = "removing"
    BY <1>0, <1>10 DEF AskRemove, Goto, Idle
  <2>2. item' = item /\ line' = line
    BY <1>10 DEF AskRemove
  <2> QED BY <1>0, <1>3, <1>10, <2>1, <2>2, FrameRoom DEF Receipts
<1>11. ASSUME NEW p \in Session, CommitRemove(p) PROVE Room'
  <2>1. session'[p].stage # "inserting"
    BY <1>0, <1>11 DEF CommitRemove, Done, Goto, Idle
  <2>2. \A l \in LineId : line'[l].ordered = line[l].ordered
    BY <1>11 DEF CommitRemove, LessReceived
  <2>3. PICK i : i = session[p].item /\ i \in ItemId
    BY <1>0 DEF Work
  <2>4. \/ item' = item
        \/ item'[i].row = "retired" /\ \A j \in ItemId \ {i} : item'[j] = item[j]
    BY <1>0, <1>11, <2>3 DEF CommitRemove
  <2>5. ASSUME NEW l \in LineId, item'[i].row = "retired",
               \A j \in ItemId \ {i} : item'[j] = item[j]
        PROVE  Received(l)' \in Int /\ Received(l)' <= Received(l)
    <3>1. QtyOn(i, l)' = 0 /\ \A j \in ItemId \ {i} : QtyOn(j, l)' = QtyOn(j, l)
      BY <2>5 DEF QtyOn, Active
    <3>2. Received(l)' = Received(l) - QtyOn(i, l) + 0
      BY <1>0, <2>3, <3>1, ReceivedMoves
    <3>3. QtyOn(i, l) \in Nat
      BY <1>0, <2>3, QtyType
    <3> QED BY <1>2, <3>2, <3>3
  <2>6. \A l \in LineId : Received(l)' \in Int /\ Received(l)' <= Received(l)
    BY <1>3, <2>4, <2>5
  <2> QED BY <1>0, <1>11, <2>1, <2>2, <2>6, FrameRoom DEF Receipts
<1> QED BY <1>1, <1>4, <1>5, <1>6, <1>7, <1>8, <1>9, <1>10, <1>11 DEF Next, Receipts

\* One request at a time, none dying: no line receives more than was ordered.
THEOREM NoOverReceipt == Spec => []NotOverReceived
<1> DEFINE Inv == TypeOK /\ InScene /\ AsRead /\ Receiving /\ Room
<1>1. Init => Inv
  <2> SUFFICES ASSUME Init PROVE Room
    BY InitKeeps
  <2>1. \A p \in Session, l \in LineId : ~OnLine(p, "inserting", l)
    BY DEF Init, OnLine, At, Idle
  <2>2. \A l \in LineId : Received(l) = 0 /\ line[l].ordered = Ordered
    BY ReceivedFirst DEF Init
  <2> QED BY <2>1, <2>2, Numbers DEF Room
<1>2. Inv /\ [Next]_vars => Inv'
  BY StepTypes, InSceneKept, AsReadKept, ReceivingKept, RoomKept
<1>3. Inv => NotOverReceived
  BY DEF Room, NotOverReceived, OneAtATime, OneByOne
<1> QED
  BY <1>1, <1>2, <1>3, PTL DEF Spec

-----------------------------------------------------------------------------
(* Noticing that an order is complete. *)

\* Where completion is noticed: see CompletionNoticed.
Noticing ==
    /\ live
    /\ scene \cap {"crash", "edit", "remove", "status"} = {}
    /\ ("race" \in scene => \A l, m \in LineId : product[l] = product[m])

\* What a line has received once the receipt in hand is committed.
After(p, l) == IF l = session[p].line THEN session[p].qty ELSE line[l].received

\* Only receipts are in progress, and one of them holds the lock of the one
\* product or works at all; it saw everything received if it will be so once it
\* has committed; and the order is closed and owed for as soon as it is.
Noticed ==
    Noticing =>
        /\ \A p \in Session : session[p].stage \in {"idle", "inserting", "handling", "scanned"}
        /\ \A p, q \in Session : At(p, "scanned") /\ At(q, "scanned") => p = q
        /\ \A p \in Session : At(p, "scanned") =>
              /\ (\A l \in LineId : After(p, l) >= line[l].ordered) => session[p].full
              /\ session[p].full => session[p].new = "RECEIVED"
        /\ (\A l \in LineId : line[l].received >= line[l].ordered) =>
              status = "RECEIVED" /\ ("closed" \notin scene => payables = 1)

\* The beginning of a receipt keeps what is noticed.
LEMMA FrameNoticed ==
    ASSUME session \in [Session -> Work], Noticed, NEW p \in Session, NEW w, Goto(p, w),
           w.stage \in {"inserting", "handling"}, line' = line, status' = status,
           payables' = payables, scene' = scene, product' = product, live' = live
    PROVE  Noticed'
<1>1. /\ session'[p] = w
      /\ \A q \in Session \ {p} : session'[q] = session[q]
  BY DEF Goto
<1>2. SUFFICES ASSUME Noticing PROVE Noticed'
  BY DEF Noticing, Noticed
<1>3. \A q \in Session : session'[q].stage \in {"idle", "inserting", "handling", "scanned"}
  BY <1>1, <1>2 DEF Noticed
<1>4. ASSUME NEW q \in Session, At(q, "scanned")'
      PROVE  At(q, "scanned") /\ session'[q] = session[q]
  BY <1>1, <1>4 DEF At
<1>5. \A q, r \in Session : At(q, "scanned")' /\ At(r, "scanned")' => q = r
  BY <1>2, <1>4 DEF Noticed
<1>6. ASSUME NEW q \in Session, At(q, "scanned")'
      PROVE  /\ (\A l \in LineId : After(q, l)' >= line'[l].ordered) => session'[q].full
             /\ session'[q].full => session'[q].new = "RECEIVED"
  <2>1. /\ (\A l \in LineId : After(q, l) >= line[l].ordered) => session[q].full
        /\ session[q].full => session[q].new = "RECEIVED"
    BY <1>2, <1>4, <1>6 DEF Noticed
  <2>2. \A l : After(q, l)' = After(q, l)
    BY <1>4, <1>6 DEF After
  <2> QED BY <1>4, <1>6, <2>1, <2>2
<1>7. (\A l \in LineId : line'[l].received >= line'[l].ordered) =>
         status' = "RECEIVED" /\ ("closed" \notin scene' => payables' = 1)
  BY <1>2 DEF Noticed
<1> QED BY <1>3, <1>5, <1>6, <1>7 DEF Noticed

\* Who adds up compares every line, alone.
LEMMA ScanNoticed ==
    ASSUME TypeOK, InScene, Noticed, NEW p \in Session, ScanReceipt(p)
    PROVE  Noticed'
<1> DEFINE k == session[p].line
           Full == \A m \in LineId :
                      (IF m = k THEN TotalOf(p) ELSE line[m].received) >= line[m].ordered
<1>s. session \in [Session -> Work] /\ session[p] \in Work /\ k \in LineId
  BY DEF TypeOK, Work
<1>1. SUFFICES ASSUME Noticing PROVE Noticed'
  BY DEF Noticing, Noticed, ScanReceipt
<1>2. live /\ At(p, "handling")
  BY <1>1 DEF Noticing, ScanReceipt
<1>3. /\ session'[p].stage = "scanned" /\ session'[p].line = k
      /\ session'[p].qty = TotalOf(p) /\ session'[p].full = Full
      /\ Full => session'[p].new = "RECEIVED"
  <2>1. PICK new : /\ Goto(p, [session[p] EXCEPT !.stage = "scanned", !.qty = TotalOf(p),
                                                 !.new = new, !.full = Full])
                   /\ Full => new = "RECEIVED"
    BY <1>2 DEF ScanReceipt
  <2> HIDE DEF Full, k
  <2> DEFINE w == [session[p] EXCEPT !.stage = "scanned", !.qty = TotalOf(p),
                                     !.new = new, !.full = Full]
  <2>2. /\ w.stage = "scanned" /\ w.line = session[p].line /\ w.qty = TotalOf(p)
        /\ w.new = new /\ w.full = Full
    BY <1>s DEF Work
  <2>3. session'[p] = w
    BY <1>s, <2>1 DEF Goto
  <2> QED BY <2>1, <2>2, <2>3 DEF k
<1>4. \A q \in Session \ {p} : session'[q] = session[q]
  BY <1>s DEF ScanReceipt, Goto
<1>5. line' = line /\ status' = status /\ payables' = payables /\ scene' = scene
  BY DEF ScanReceipt
<1>6. ASSUME NEW q \in Session, At(q, "scanned") PROVE FALSE
  <2>1. CASE "race" \in scene
    <3>1. product[session[q].line] # product[k]
      BY <1>6 DEF ScanReceipt, Unlocked
    <3>2. session[q].line \in LineId
      BY <1>s DEF Work
    <3> QED BY <1>1, <1>s, <2>1, <3>1, <3>2 DEF Noticing
  <2>2. CASE "race" \notin scene
    BY <1>2, <1>6, <2>2 DEF InScene, At
  <2> QED BY <2>1, <2>2
<1>7. ASSUME NEW q \in Session, At(q, "scanned")' PROVE q = p
  BY <1>4, <1>6, <1>7 DEF At
<1>8. (\A l \in LineId : After(p, l)' >= line'[l].ordered) => session'[p].full
  <2>1. \A l \in LineId : After(p, l)' = IF l = k THEN TotalOf(p) ELSE line[l].received
    BY <1>3, <1>5 DEF After
  <2> QED BY <1>3, <1>5, <2>1
<1>9. (\A l \in LineId : line'[l].received >= line'[l].ordered) =>
         status' = "RECEIVED" /\ ("closed" \notin scene' => payables' = 1)
  BY <1>1, <1>5 DEF Noticed
<1>10. session'[p].full => session'[p].new = "RECEIVED"
  BY <1>3
<1> HIDE DEF Full, k
<1>11. \A q, r \in Session : At(q, "scanned")' /\ At(r, "scanned")' => q = r
  BY <1>7
<1>12. \A q \in Session : At(q, "scanned")' =>
           /\ (\A l \in LineId : After(q, l)' >= line'[l].ordered) => session'[q].full
           /\ session'[q].full => session'[q].new = "RECEIVED"
  BY <1>7, <1>8, <1>10
<1>13. \A q \in Session : session'[q].stage \in {"idle", "inserting", "handling", "scanned"}
  BY <1>1, <1>3, <1>4 DEF Noticed
<1> QED BY <1>9, <1>11, <1>12, <1>13 DEF Noticed

\* What was seen complete is complete, closed and owed for; nothing else is.
LEMMA CommitNoticed ==
    ASSUME TypeOK, InScene, OnePayable, Noticed, NEW p \in Session, CommitReceipt(p)
    PROVE  Noticed'
<1>s. session \in [Session -> Work] /\ session[p] \in Work /\ line \in [LineId -> Line]
  BY DEF TypeOK
<1>1. SUFFICES ASSUME Noticing PROVE Noticed'
  BY DEF Noticing, Noticed, CommitReceipt
<1>2. At(p, "scanned") /\ scene' = scene
  BY DEF CommitReceipt
<1>3. /\ session'[p].stage = "idle"
      /\ \A q \in Session \ {p} : session'[q] = session[q]
  BY <1>s DEF CommitReceipt, Done, Goto, Idle
<1>4. ASSUME NEW q \in Session, At(q, "scanned")' PROVE FALSE
  <2>1. q # p /\ At(q, "scanned")
    BY <1>3, <1>4 DEF At
  <2> QED BY <1>1, <1>2, <2>1 DEF Noticed
<1>5. ASSUME NEW l \in LineId
      PROVE  line'[l].received = After(p, l) /\ line'[l].ordered = line[l].ordered
  BY <1>s DEF CommitReceipt, After, Line, Work
<1>6. ASSUME \A l \in LineId : line'[l].received >= line'[l].ordered
      PROVE  status' = "RECEIVED" /\ ("closed" \notin scene' => payables' = 1)
  <2>1. \A l \in LineId : After(p, l) >= line[l].ordered
    BY <1>5, <1>6
  <2>2. session[p].full /\ session[p].new = "RECEIVED"
    BY <1>1, <1>2, <2>1 DEF Noticed
  <2>3. status' = session[p].new /\ payables' = OneMore(payables)
    BY <2>2 DEF CommitReceipt
  <2>4. payables \in Nat /\ payables <= 1
    BY DEF TypeOK, OnePayable
  <2>5. "closed" \notin scene => OneMore(payables) = 1
    BY <2>4 DEF OneMore
  <2> QED BY <1>2, <2>2, <2>3, <2>5
<1>7. \A q \in Session : session'[q].stage \in {"idle", "inserting", "handling", "scanned"}
  BY <1>1, <1>3 DEF Noticed
<1> QED BY <1>4, <1>6, <1>7 DEF Noticed

LEMMA NoticedKept == TypeOK /\ InScene /\ OnePayable /\ Noticed /\ [Next]_vars => Noticed'
<1> SUFFICES ASSUME TypeOK, InScene, OnePayable, Noticed, [Next]_vars, Noticing' PROVE Noticed'
  BY DEF Noticed
<1>s. session \in [Session -> Work] /\ \A p \in Session : session[p] \in Work
  BY DEF TypeOK
<1>1. CASE UNCHANGED vars
  BY <1>1 DEF vars, Noticed, Noticing, At, After
<1>2. ASSUME NEW p \in Session, StatusForms(p) PROVE FALSE
  <2>1. /\ live' /\ scene' = scene /\ product' = product
        /\ "status" \notin scene /\ "edit" \notin scene
    BY <1>2 DEF Noticing, StatusForms, AskStatus, BeginSave, CancelPayables, WriteStatus,
                DeleteDraft, AskEdit, EditOrder, EditLine
  <2>2. live' = live
    BY <1>2, <2>1 DEF StatusForms, AskStatus, BeginSave, CancelPayables, WriteStatus,
                      DeleteDraft, AskEdit, EditOrder, EditLine
  <2>3. session[p].stage \in {"idle", "inserting", "handling", "scanned"}
    BY <2>1, <2>2 DEF Noticed, Noticing
  <2> QED BY <1>2, <2>1, <2>3 DEF StatusForms, AskStatus, BeginSave, CancelPayables,
             WriteStatus, DeleteDraft, AskEdit, EditOrder, EditLine, Starts, At
<1>3. ASSUME NEW p \in Session, NEW l \in LineId, NEW q \in Quantity, AskReceive(p, l, q)
      PROVE  Noticed'
  <2> DEFINE w == [Idle EXCEPT !.stage = "inserting", !.line = l, !.qty = q, !.copy = line[l]]
  <2>1. w.stage = "inserting"
    BY DEF Idle
  <2> QED BY <1>3, <1>s, <2>1, FrameNoticed DEF AskReceive
<1>4. ASSUME NEW p \in Session, NEW i \in ItemId, InsertItem(p, i) PROVE Noticed'
  <2> DEFINE w == [Then(session[p], "handling") EXCEPT !.item = i]
  <2>1. w.stage = "handling"
    BY DEF Then
  <2> QED BY <1>4, <1>s, <2>1, FrameNoticed DEF InsertItem
<1>5. ASSUME NEW p \in Session, NEW i \in ItemId, AskRemove(p, i) \/ CommitRemove(p)
      PROVE  FALSE
  BY <1>5 DEF AskRemove, CommitRemove, Starts, InScene, Noticing
<1>6. ASSUME NEW p \in Session, Die(p) PROVE FALSE
  BY <1>6 DEF Die, Noticing
<1>7. 1 \in ItemId
  BY Numbers
<1> QED
  BY <1>1, <1>2, <1>3, <1>4, <1>5, <1>6, <1>7, ScanNoticed, CommitNoticed DEF Next, Receipts

\* An order of one product is RECEIVED, and owed for, as soon as every line is
\* complete, even when its last two receipts race.
THEOREM CompletionClosesOrder == Spec => []CompletionNoticed
<1> DEFINE Inv == TypeOK /\ InScene /\ OnePayable /\ Noticed
<1>1. Init => Inv
  <2> SUFFICES ASSUME Init PROVE OnePayable /\ Noticed
    BY InitKeeps
  <2>1. \A p \in Session : session[p].stage = "idle"
    BY DEF Init, Idle
  <2>2. 1 \in LineId /\ ~ (line[1].received >= line[1].ordered)
    BY Numbers, PurchasingAssumption DEF Init
  <2> QED BY <2>1, <2>2 DEF Init, OnePayable, Noticed, At
<1>2. Inv /\ [Next]_vars => Inv'
  BY StepTypes, InSceneKept, PayableKept, NoticedKept
<1>3. Inv => CompletionNoticed
  BY DEF CompletionNoticed, Noticing, Noticed
<1> QED
  BY <1>1, <1>2, <1>3, PTL DEF Spec

-----------------------------------------------------------------------------
(* Cancelling. *)

\* One request at a time, none dying.
Calm == scene \cap {"race", "crash", "edit"} = {}

NothingHeld == \A i \in ItemId : ~Active(i)
NothingOwed == payables = 0 /\ invoices = 0

\* A cancellation that was let through found nothing received, and writes its
\* status when nothing is owed either; a receipt is of a quantity, and takes the
\* order out of CANCELLED.
Cancels(w) ==
    /\ w.stage = "inserting" => w.qty > 0
    /\ w.stage = "handling" => Active(w.item) /\ item[w.item].line = w.line
    /\ w.stage = "scanned" => w.new # "CANCELLED"
    /\ w.stage = "saving" => status # "CANCELLED"
    /\ w.stage = "cancelling" => NothingHeld
    /\ w.stage = "writing" /\ w.new = "CANCELLED" => NothingOwed /\ NothingHeld

\* The item of a receipt that has not committed is all a cancelled order holds.
InHand(w, i) == w.stage \in {"handling", "scanned"} /\ w.item = i

Cancelling ==
    Calm =>
        /\ \A p \in Session : Cancels(session[p])
        /\ \A i \in ItemId : Active(i) => item[i].qty > 0
        /\ status = "CANCELLED" =>
              NothingOwed /\ \A i \in ItemId : Active(i) => \E p \in Session : InHand(session[p], i)

\* What has to hold of a step after which its request is w.
StaysCancelling(w) ==
    /\ Cancels(w)'
    /\ \A i \in ItemId : Active(i)' => item'[i].qty > 0
    /\ status' = "CANCELLED" => NothingOwed' /\ \A i \in ItemId : Active(i)' => InHand(w, i)

\* With one request at a time it is enough to look at the one that moves.
LEMMA OneCancels ==
    ASSUME session \in [Session -> Work], Calm, NEW p \in Session, NEW w,
           Goto(p, w), Alone(p), StaysCancelling(w)
    PROVE  Cancelling'
<1>1. /\ session'[p] = w
      /\ \A q \in Session \ {p} : session'[q] = session[q]
  BY DEF Goto
<1>2. \A q \in Session \ {p} : session'[q].stage = "idle"
  BY <1>1 DEF Calm, Alone, At
<1>3. \A q \in Session : Cancels(session[q])'
  <2>1. ASSUME NEW q \in Session, q # p PROVE Cancels(session[q])'
    BY <1>2, <2>1 DEF Cancels
  <2>2. Cancels(session[p])'
    BY <1>1 DEF StaysCancelling, Cancels
  <2> QED BY <2>1, <2>2
<1>4. ASSUME NEW i, InHand(w, i) PROVE \E q \in Session : InHand(session[q], i)'
  BY <1>1, <1>4 DEF InHand
<1> QED BY <1>3, <1>4 DEF Cancelling, StaysCancelling

\* A line has received no less than any item of it.
LEMMA ReceivedAtLeast ==
    ASSUME item \in [ItemId -> Item], NEW l \in LineId, NEW i \in ItemId
    PROVE  QtyOn(i, l) <= Received(l)
<1> DEFINE F == [j \in 1..Items |-> QtyOn(j, l)]
<1>1. F \in [1..Items -> Nat] /\ Items \in Nat /\ Items \in 0..Items /\ i \in 1..Items
  BY QtyType, Numbers DEF ItemId
<1>2. Received(l) = SumTo(F, Items) /\ F[i] = QtyOn(i, l)
  BY <1>1 DEF Received, ItemId
<1> HIDE DEF F
<1>3. \A n \in 0..Items : \A j \in 1..n : F[j] <= SumTo(F, n)
  BY <1>1, SumToNat
<1> QED BY <1>1, <1>2, <1>3

\* A receipt never writes CANCELLED: what it added up holds its own item.
LEMMA ScanRevives ==
    ASSUME TypeOK, Cancelling, Calm, NEW p \in Session, ScanReceipt(p)
    PROVE  session'[p].new # "CANCELLED"
<1> DEFINE k == session[p].line
           i == session[p].item
<1>s. session \in [Session -> Work] /\ session[p] \in Work /\ k \in LineId /\ i \in ItemId
  BY DEF TypeOK, Work
<1>1. TotalOf(p) > 0
  <2>1. Active(i) /\ item[i].line = k /\ item[i].qty > 0
    BY <1>s DEF Cancelling, Cancels, ScanReceipt, At
  <2>2. QtyOn(i, k) = item[i].qty
    BY <2>1 DEF QtyOn
  <2> HIDE DEF i, k
  <2>3. QtyOn(i, k) <= Received(k) /\ Received(k) \in Nat /\ item[i].qty \in Nat
    BY <1>s, ReceivedAtLeast, ReceivedType, ItemTypes DEF TypeOK
  <2>4. Received(k) > 0
    BY <2>1, <2>2, <2>3
  <2> QED BY <2>4 DEF TotalOf, k
<1>2. live => \E m \in LineId : (IF m = k THEN TotalOf(p) ELSE line[m].received) > 0
  BY <1>s, <1>1
<1>3. PICK new \in {"RECEIVED", "PARTIAL_RECEIVED"}, full \in BOOLEAN :
         Goto(p, [session[p] EXCEPT !.stage = "scanned", !.qty = TotalOf(p), !.new = new,
                                    !.full = full])
  BY <1>2 DEF ScanReceipt
<1>4. session'[p].new = new
  BY <1>s, <1>3 DEF Goto, Work
<1> QED BY <1>3, <1>4

\* A step that leaves the goods, the debts and the status as they are.
LEMMA FrameCancels ==
    ASSUME NEW p \in Session, NEW w, Cancels(w),
           item' = item, payables' = payables, invoices' = invoices, status' = status,
           \A i \in ItemId : Active(i) => item[i].qty > 0,
           status = "CANCELLED" => NothingOwed /\ \A i \in ItemId : Active(i) => InHand(w, i)
    PROVE  StaysCancelling(w)
BY DEF StaysCancelling, Cancels, Active, NothingHeld, NothingOwed

LEMMA FormsCancel ==
    ASSUME TypeOK, InScene, Calm, NEW p \in Session, NEW w, StatusForms(p), session'[p] = w,
           Cancels(session[p]), \A i \in ItemId : Active(i) => item[i].qty > 0,
           status = "CANCELLED" =>
               NothingOwed /\ \A i \in ItemId : Active(i) => InHand(session[p], i)
    PROVE  StaysCancelling(w)
<1>s. session \in [Session -> Work] /\ item \in [ItemId -> Item] /\ status \in Status
  BY DEF TypeOK
<1>0. ASSUME session[p].stage \notin {"handling", "scanned"}, NEW i
      PROVE  /\ status = "CANCELLED" => NothingHeld
             /\ ~InHand(session[p], i)
  BY <1>0 DEF InHand, NothingHeld
<1>1. ASSUME NEW new \in Status, AskStatus(p, new) PROVE StaysCancelling(w)
  <2>1. w.stage = "saving"
    BY <1>s, <1>1 DEF AskStatus, Goto, ToStatus
  <2>2. status # "CANCELLED"
    BY <1>1 DEF AskStatus, Allowed, Status
  <2>3. Cancels(w)
    BY <2>1, <2>2 DEF Cancels
  <2> QED BY <1>1, <2>2, <2>3, FrameCancels DEF AskStatus
<1>2. ASSUME BeginSave(p) PROVE StaysCancelling(w)
  <2>1. status # "CANCELLED"
    BY <1>2 DEF BeginSave, At, Cancels
  <2>2. \/ w.stage = "writing" /\ w.new # "CANCELLED"
        \/ w.stage = "cancelling" /\ ~Blocked
    BY <1>s, <1>2, <2>1 DEF BeginSave, Goto, ToStatus
  <2>3. ~Blocked => NothingHeld
    BY DEF Blocked, NothingHeld
  <2>4. Cancels(w)
    BY <2>2, <2>3 DEF Cancels
  <2> QED BY <1>2, <2>1, <2>4, FrameCancels DEF BeginSave
<1>3. ASSUME CancelPayables(p) PROVE StaysCancelling(w)
  <2>1. w.stage = "writing"
    BY <1>s, <1>3 DEF CancelPayables, Goto, Then
  <2>2. NothingHeld
    BY <1>3 DEF CancelPayables, At, Cancels
  <2>3. NothingHeld' /\ NothingOwed'
    BY <1>3, <2>2 DEF CancelPayables, NothingHeld, NothingOwed, Active
  <2> QED BY <2>1, <2>3 DEF StaysCancelling, Cancels, NothingHeld
<1>4. ASSUME WriteStatus(p) PROVE StaysCancelling(w)
  <2>1. w.stage = "idle" /\ status' = session[p].new /\ At(p, "writing")
    BY <1>s, <1>4 DEF WriteStatus, Done, Goto, Idle
  <2>2. status' = "CANCELLED" => NothingOwed /\ NothingHeld
    BY <2>1 DEF Cancels, At
  <2>3. item' = item /\ payables' = payables /\ invoices' = invoices
    BY <1>4 DEF WriteStatus
  <2> QED BY <2>1, <2>2, <2>3 DEF StaysCancelling, Cancels, NothingHeld, NothingOwed, Active
<1>5. ASSUME DeleteDraft(p) PROVE StaysCancelling(w)
  <2>1. w.stage = "idle" /\ status # "CANCELLED"
    BY <1>5 DEF DeleteDraft, Starts, At
  <2>2. Cancels(w)
    BY <2>1 DEF Cancels
  <2> QED BY <1>5, <2>1, <2>2, FrameCancels DEF DeleteDraft
<1>6. ASSUME NEW l \in LineId, NEW q \in Edited, AskEdit(p, l, q) PROVE FALSE
  BY <1>6 DEF AskEdit, Starts, Calm
<1>7. ASSUME EditOrder(p) \/ EditLine(p) PROVE FALSE
  BY <1>7 DEF EditOrder, EditLine, InScene, At, Calm
<1> QED BY <1>1, <1>2, <1>3, <1>4, <1>5, <1>6, <1>7 DEF StatusForms

LEMMA ReceiptsCancel ==
    ASSUME TypeOK, Cancelling, Calm, NEW p \in Session, NEW w, Receipts(p), session'[p] = w,
           Cancels(session[p]), \A i \in ItemId : Active(i) => item[i].qty > 0,
           status = "CANCELLED" =>
               NothingOwed /\ \A i \in ItemId : Active(i) => InHand(session[p], i)
    PROVE  StaysCancelling(w)
<1>s. /\ session \in [Session -> Work] /\ item \in [ItemId -> Item]
      /\ session[p] \in Work /\ session[p].item \in ItemId
  BY DEF TypeOK, Work
<1>0. session[p].stage \notin {"handling", "scanned"} /\ status = "CANCELLED" => NothingHeld
  BY DEF InHand, NothingHeld
<1>1. ASSUME NEW l \in LineId, NEW q \in Quantity, AskReceive(p, l, q)
      PROVE  StaysCancelling(w)
  <2>1. w.stage = "inserting" /\ w.qty = q
    BY <1>s, <1>1 DEF AskReceive, Goto, Idle
  <2>2. Cancels(w)
    BY <2>1, Numbers DEF Cancels
  <2>3. session[p].stage = "idle"
    BY <1>1 DEF AskReceive, Starts, At
  <2> QED BY <1>0, <1>1, <2>2, <2>3, FrameCancels DEF AskReceive, NothingHeld
<1>2. ASSUME NEW i \in ItemId, InsertItem(p, i) PROVE StaysCancelling(w)
  <2>1. w.stage = "handling" /\ w.item = i /\ w.line = session[p].line
    BY <1>s, <1>2 DEF InsertItem, Goto, Then
  <2>2. session[p].qty > 0 /\ (status = "CANCELLED" => NothingHeld)
    BY <1>0, <1>2 DEF InsertItem, At, Cancels
  <2>3. /\ item'[i].row = "active" /\ item'[i].line = session[p].line
        /\ item'[i].qty = session[p].qty
        /\ \A j \in ItemId \ {i} : item'[j] = item[j]
    BY <1>s, <1>2 DEF InsertItem
  <2>4. status' = status /\ payables' = payables /\ invoices' = invoices
    BY <1>2 DEF InsertItem
  <2>5. Cancels(w)'
    BY <2>1, <2>3 DEF Cancels, Active
  <2>6. \A j \in ItemId : Active(j)' => item'[j].qty > 0
    BY <2>2, <2>3 DEF Active
  <2>7. status' = "CANCELLED" => NothingOwed' /\ \A j \in ItemId : Active(j)' => InHand(w, j)
    BY <2>1, <2>2, <2>3, <2>4 DEF Active, NothingHeld, NothingOwed, InHand
  <2> QED BY <2>5, <2>6, <2>7 DEF StaysCancelling
<1>3. ASSUME ScanReceipt(p) PROVE StaysCancelling(w)
  <2>1. PICK new, full : Goto(p, [session[p] EXCEPT !.stage = "scanned", !.qty = TotalOf(p),
                                                    !.new = new, !.full = full])
    BY <1>3 DEF ScanReceipt
  <2>2. w.stage = "scanned" /\ w.item = session[p].item
    BY <1>s, <2>1 DEF Goto, Work
  <2>3. w.new # "CANCELLED"
    BY <1>3, ScanRevives
  <2>4. Cancels(w)
    BY <2>2, <2>3 DEF Cancels
  <2>5. \A i : InHand(session[p], i) => InHand(w, i)
    BY <2>2 DEF InHand
  <2> QED BY <1>3, <2>4, <2>5, FrameCancels DEF ScanReceipt
<1>4. ASSUME CommitReceipt(p) PROVE StaysCancelling(w)
  <2>1. w.stage = "idle"
    BY <1>s, <1>4 DEF CommitReceipt, Done, Goto, Idle
  <2>2. status' # "CANCELLED"
    BY <1>4 DEF CommitReceipt, At, Cancels
  <2>3. \A i \in ItemId : item'[i].row = item[i].row /\ item'[i].qty = item[i].qty
    BY <1>s, <1>4 DEF CommitReceipt, Item
  <2> QED BY <2>1, <2>2, <2>3 DEF StaysCancelling, Cancels, Active
<1>5. ASSUME NEW i \in ItemId, AskRemove(p, i) PROVE StaysCancelling(w)
  <2>1. w.stage = "removing"
    BY <1>s, <1>5 DEF AskRemove, Goto, Idle
  <2>2. Cancels(w)
    BY <2>1 DEF Cancels
  <2>3. session[p].stage = "idle"
    BY <1>5 DEF AskRemove, Starts, At
  <2> QED BY <1>0, <1>5, <2>2, <2>3, FrameCancels DEF AskRemove, NothingHeld
<1>6. ASSUME CommitRemove(p) PROVE StaysCancelling(w)
  <2>1. w.stage = "idle"
    BY <1>s, <1>6 DEF CommitRemove, Done, Goto, Idle
  <2>2. status = "CANCELLED" => NothingOwed /\ NothingHeld
    BY <1>0, <1>6 DEF CommitRemove, At
  <2>3. \A i \in ItemId : Active(i)' => Active(i) /\ item'[i] = item[i]
    BY <1>s, <1>6 DEF CommitRemove, Active
  <2>4. status' = status /\ payables' = payables /\ invoices' = invoices
    BY <1>6 DEF CommitRemove
  <2>5. Cancels(w)'
    BY <2>1 DEF Cancels
  <2>6. status' = "CANCELLED" => NothingOwed' /\ \A i \in ItemId : Active(i)' => InHand(w, i)
    BY <2>2, <2>3, <2>4 DEF NothingOwed, NothingHeld
  <2> QED BY <2>3, <2>5, <2>6 DEF StaysCancelling
<1> QED BY <1>1, <1>2, <1>3, <1>4, <1>5, <1>6 DEF Receipts

LEMMA CancellingKept == TypeOK /\ InScene /\ Cancelling /\ [Next]_vars => Cancelling'
<1> SUFFICES ASSUME TypeOK, InScene, Cancelling, [Next]_vars, Calm' PROVE Cancelling'
  BY DEF Cancelling
<1>s. session \in [Session -> Work]
  BY DEF TypeOK
<1>1. CASE UNCHANGED vars
  BY <1>1 DEF vars, Cancelling, Calm, Cancels, InHand, Active, NothingHeld, NothingOwed
<1>2. ASSUME NEW p \in Session, StatusForms(p) \/ Receipts(p) \/ Die(p) PROVE Cancelling'
  <2>1. PICK w : MovesTo(p, w)
    BY <1>2, OneMoves
  <2>2. session'[p] = w /\ Goto(p, w) /\ Alone(p) /\ Calm
    BY <1>s, <2>1 DEF MovesTo, Goto, Calm
  <2>3. Cancels(session[p]) /\ \A i \in ItemId : Active(i) => item[i].qty > 0
    BY <2>2 DEF Cancelling
  <2>4. status = "CANCELLED" =>
           NothingOwed /\ \A i \in ItemId : Active(i) => InHand(session[p], i)
    <3>1. ASSUME NEW q \in Session, NEW i, InHand(session[q], i) PROVE q = p
      BY <2>2, <3>1 DEF InHand, Alone, Calm, At
    <3> QED BY <2>2, <3>1 DEF Cancelling
  <2>5. ~Die(p)
    BY <2>2 DEF Die, Calm
  <2>6. StaysCancelling(w)
    BY <1>2, <2>2, <2>3, <2>4, <2>5, FormsCancel, ReceiptsCancel
  <2> QED BY <1>s, <2>2, <2>6, OneCancels
<1> QED BY <1>1, <1>2 DEF Next

\* One request at a time, none dying: a cancelled order has received nothing and
\* owes nothing, even when goods were received on it after it was cancelled.
THEOREM CancelledIsEmpty == Spec => []CancelledOwesNothing
<1> DEFINE Inv == TypeOK /\ InScene /\ Cancelling
<1>1. Init => Inv
  <2> SUFFICES ASSUME Init PROVE Cancelling
    BY InitKeeps
  <2>1. \A p \in Session : session[p].stage = "idle"
    BY DEF Init, Idle
  <2>2. \A i \in ItemId : ~Active(i)
    BY DEF Init, Active, NoItem
  <2>3. status # "CANCELLED"
    BY DEF Init
  <2> QED BY <2>1, <2>2, <2>3 DEF Cancelling, Cancels
<1>2. Inv /\ [Next]_vars => Inv'
  BY StepTypes, InSceneKept, CancellingKept
<1>3. Inv => CancelledOwesNothing
  BY DEF CancelledOwesNothing, OneAtATime, AtRest, At, Cancelling, Calm, InHand, NothingOwed
<1> QED
  BY <1>1, <1>2, <1>3, PTL DEF Spec
=============================================================================
