----------------------------- MODULE StockCount -----------------------------
(***************************************************************************)
(* One stock count (apps/inventory) from its creation to its adjustment,    *)
(* against the current_stock of the products it lists, which other requests *)
(* move meanwhile.  The views compare the status of the count without a     *)
(* lock, and the items to adjust are read without one.                      *)
(*                                                                         *)
(* The form that enters the counted quantities stores none: it assigns a    *)
(* float, StockCountItem.save subtracts a Decimal from it, and the view     *)
(* passes over the TypeError.  Quantities are entered in the administration.*)
(*                                                                         *)
(* Abstractions: the count is of one warehouse, but lists and adjusts the   *)
(* stock of all of them, which is all there is of a warehouse here; the     *)
(* administration changes the counted quantity of one item at a time.       *)
(***************************************************************************)
EXTENDS Integers

CONSTANTS
    Products,   \* products are numbered 1..Products
    Most,       \* bound: current_stock, and the quantities counted
    Session,    \* requests that may be in progress at once
    Scenes      \* "race": requests may race

VARIABLES
    stock,      \* Product.current_stock
    since,      \* what was moved by others since the count was created
    status,     \* StockCount.status
    item,       \* StockCountItem, by product
    session,    \* where each request is, and what it loaded
    scene

vars == <<stock, since, status, item, session, scene>>

ProductId == 1..Products
Status == {"NONE", "DRAFT", "IN_PROGRESS", "COMPLETED", "ADJUSTED"}
Item == [system: 0..Most, actual: 0..Most, difference: (-Most)..Most, adjusted: BOOLEAN]
Counted(system, actual, adjusted) ==
    [system |-> system, actual |-> actual, difference |-> actual - system,
     adjusted |-> adjusted]
Work == [stage: {"idle", "updating", "examining", "adjusting", "posting", "completing",
                 "administering"},
         product: ProductId, item: Item, todo: SUBSET ProductId]
Idle == [stage |-> "idle", product |-> 1, item |-> Counted(0, 0, FALSE), todo |-> {}]

At(p, stage) == session[p].stage = stage
Goto(p, w) == session' = [session EXCEPT ![p] = w]
Done(p) == Goto(p, Idle)
Starts(p) ==
    /\ At(p, "idle") /\ status # "NONE"
    /\ "race" \in scene \/ \A q \in Session : At(q, "idle")

-----------------------------------------------------------------------------
\* StockCountCreateView
Create ==
    /\ status = "NONE"
    /\ status' = "DRAFT"
    /\ item' = [i \in ProductId |-> Counted(stock[i], stock[i], FALSE)]
    /\ since' = [i \in ProductId |-> 0]
    /\ UNCHANGED <<stock, session, scene>>

\* Any other movement of a product.
Move(i, n) ==
    /\ stock[i] + n \in 0..Most
    /\ stock' = [stock EXCEPT ![i] = @ + n]
    /\ since' = [since EXCEPT ![i] = @ + n]
    /\ UNCHANGED <<status, item, session, scene>>

\* StockCountUpdateView: the status alone is written.
AskUpdate(p) ==
    /\ Starts(p) /\ status \notin {"COMPLETED", "ADJUSTED"}
    /\ Goto(p, [Idle EXCEPT !.stage = "updating"])
    /\ UNCHANGED <<stock, since, status, item, scene>>
CommitUpdate(p) ==
    /\ At(p, "updating")
    /\ status' = "IN_PROGRESS"
    /\ Done(p)
    /\ UNCHANGED <<stock, since, item, scene>>

\* The administration loads an item and saves all of it.
AskItem(p, i, n) ==
    /\ Starts(p)
    /\ Goto(p, [Idle EXCEPT !.stage = "administering", !.product = i,
                            !.item = Counted(item[i].system, n, item[i].adjusted)])
    /\ UNCHANGED <<stock, since, status, item, scene>>
CommitItem(p) ==
    /\ At(p, "administering")
    /\ item' = [item EXCEPT ![session[p].product] = session[p].item]
    /\ Done(p)
    /\ UNCHANGED <<stock, since, status, scene>>

-----------------------------------------------------------------------------
(* StockCountAdjustView. *)

\* Mutant: the stock of the moment is compared.
DifferenceNow(i) == item[i].actual - stock[i]

Difference(i) == item[i].difference
Differing == {i \in ProductId : item[i].difference # 0 /\ ~item[i].adjusted}

AskAdjust(p) ==
    /\ Starts(p) /\ status # "ADJUSTED"
    /\ Goto(p, [Idle EXCEPT !.stage = "examining"])
    /\ UNCHANGED <<stock, since, status, item, scene>>

\* diff_items.exists()
Examine(p) ==
    /\ At(p, "examining")
    /\ Goto(p, [session[p] EXCEPT !.stage =
                    IF Differing = {} THEN "completing" ELSE "adjusting"])
    /\ UNCHANGED <<stock, since, status, item, scene>>
Complete(p) ==
    /\ At(p, "completing")
    /\ status' = "COMPLETED"
    /\ Done(p)
    /\ UNCHANGED <<stock, since, item, scene>>

\* Mutant: the stock may fall below zero.
EnoughAlways(todo) == TRUE

\* _validate_outbound_stock: what every movement out asks of the stock.
Enough(todo) == \A i \in todo : stock[i] + Difference(i) >= 0

\* The transaction reads the items ...
Fetch(p) ==
    /\ At(p, "adjusting")
    /\ Goto(p, [session[p] EXCEPT !.stage = "posting", !.todo = Differing])
    /\ UNCHANGED <<stock, since, status, item, scene>>

\* ... and posts a movement for each; one that lacks stock undoes all.
Post(p) ==
    LET todo == session[p].todo
    IN  /\ At(p, "posting")
        /\ \A i \in todo : stock[i] + Difference(i) <= Most
        /\ IF Enough(todo)
           THEN /\ stock' = [i \in ProductId |-> IF i \in todo THEN stock[i] + Difference(i)
                                                 ELSE stock[i]]
                /\ item' = [i \in ProductId |->
                      Counted(item[i].system, item[i].actual, item[i].adjusted \/ i \in todo)]
                /\ status' = "ADJUSTED"
           ELSE UNCHANGED <<stock, item, status>>
        /\ Done(p)
        /\ UNCHANGED <<since, scene>>

-----------------------------------------------------------------------------
Init ==
    /\ scene \in Scenes
    /\ stock \in [ProductId -> 0..Most]
    /\ since = [i \in ProductId |-> 0]
    /\ status = "NONE"
    /\ item = [i \in ProductId |-> Counted(0, 0, FALSE)]
    /\ session = [p \in Session |-> Idle]

Adjusting(p) == AskAdjust(p) \/ Examine(p) \/ Complete(p) \/ Fetch(p) \/ Post(p)
Counting(p) ==
    \/ AskUpdate(p) \/ CommitUpdate(p)
    \/ \E i \in ProductId, n \in 0..Most : AskItem(p, i, n)
    \/ CommitItem(p)

Next ==
    \/ Create
    \/ \E i \in ProductId, n \in {-1, 1} : Move(i, n)
    \/ \E p \in Session : Counting(p) \/ Adjusting(p)

Spec == Init /\ [][Next]_vars

-----------------------------------------------------------------------------
(* What holds. *)

TypeOK ==
    /\ scene \in Scenes /\ status \in Status
    /\ stock \in [ProductId -> 0..Most] /\ since \in [ProductId -> Int]
    /\ item \in [ProductId -> Item] /\ session \in [Session -> Work]

\* When one request at a time closes a count, the stock of every product is
\* what was counted and what has moved since the count was created, however
\* much moved between the counting and the adjustment.
ClosesExact ==
    "race" \notin scene /\ status' # status /\ status' \in {"COMPLETED", "ADJUSTED"} =>
        \A i \in ProductId : stock'[i] = item'[i].actual + since'[i]
CountedExact == [][ClosesExact]_vars
=============================================================================
