------------------------------- MODULE BomCosts -------------------------------
(***************************************************************************)
(* The cost of products that are made of others, as apps/production keeps   *)
(* it: the standard cost where there is one, the cost of the default bill   *)
(* of materials (BOM) otherwise.  A change is carried to the products made  *)
(* of what changed, depth first, with a set of those visited; a product     *)
(* that renews its standard by itself starts a cascade of its own on the    *)
(* way, since saving a standard does.                                       *)
(*                                                                         *)
(* The recursion is kept as a stack; a frame holds what the queryset of its *)
(* loop fetched, the cost of each parent as it was then included.           *)
(*                                                                         *)
(* Abstractions: one of each material goes into a product, labour and       *)
(* overhead are one number; the products 1..Raws are bought, the others     *)
(* have a default BOM and only materials numbered below them; a request     *)
(* runs alone and to its end.  The moving average of what is produced,      *)
(* which writes the same field, is left out.                                *)
(***************************************************************************)
EXTENDS Naturals, Sequences, FiniteSetsExt, SequencesExt

CONSTANTS
    Count,      \* products are numbered 1..Count
    Raws,       \* the first of them are bought
    Prices,     \* what a bought product may cost
    Extras,     \* labour and overhead of a standard
    Scenes      \* the combinations of entry points

EntryPoint == {"diamond", "shrink", "standard", "settle", "stale"}

VARIABLES
    bom,        \* BOM, BOMItem: the materials of a product
    cost,       \* Product.cost_price
    auto,       \* the products with auto_standard_cost
    std,        \* StandardCost, the current one
    stack,      \* the calls of _cascade_cost_to_parents
    todo,       \* the standards a settlement has yet to renew
    scene

vars == <<bom, cost, auto, std, stack, todo, scene>>

Product == 1..Count
Raw == 1..Raws
Made == (Raws + 1)..Count
Standard == [material : Nat, extra : Extras \cup {0}]
NoStandard == [material |-> 0, extra |-> 0]
Total(s) == s.material + s.extra
\* A product to visit, with its cost as it was fetched.
Parent == [product : Product, old : Nat]
\* seen: _visited, shared with the caller unless the frame is fresh.
Frame == [of : Product, open : BOOLEAN, left : SUBSET Parent, seen : SUBSET Product, fresh : BOOLEAN]
Call(p, seen, fresh) == [of |-> p, open |-> FALSE, left |-> {}, seen |-> seen \cup {p}, fresh |-> fresh]

AtRest == stack = << >> /\ todo = {}

\* BOM.total_material_cost
CostOf(materials) == MapThenSumSet(LAMBDA m : cost[m], materials)

-----------------------------------------------------------------------------
(* One product. *)

\* Mutant: a standard that is there is not renewed.
RenewsFirst(p, s, material) == p \in auto /\ material > 0 /\ s = NoStandard

\* _auto_version_standard_cost
Renews(p, s, material) == p \in auto /\ material > 0 /\ s.material # material

\* Mutant: the BOM comes before the standard.
BomFirst(s, material, old) ==
    IF material > 0 THEN material ELSE IF Total(s) > 0 THEN Total(s) ELSE old

\* The standard, the BOM, what there is.
Priced(s, material, old) ==
    IF Total(s) > 0 THEN Total(s) ELSE IF material > 0 THEN material ELSE old

\* _sync_product_cost_price, of a product with the standard s that was read with
\* the cost old.  A renewed standard writes the cost when it is saved and calls
\* its own cascade; then nothing is left to change.
Sync(p, s, material, old) ==
    LET renewed == Renews(p, s, material)
        now == IF renewed THEN [material |-> material, extra |-> 0] ELSE s
        price == Priced(now, material, old)
    IN  /\ std' = [std EXCEPT ![p] = now]
        /\ cost' = IF price = old THEN cost ELSE [cost EXCEPT ![p] = price]

\* What the sync of a parent calls: its own cascade, the next call of this one,
\* or nothing.
Calls(p, old, seen) ==
    IF Renews(p, std[p], CostOf(bom[p])) THEN <<Call(p, {}, TRUE)>>
    ELSE IF Priced(std[p], CostOf(bom[p]), old) # old THEN <<Call(p, seen, FALSE)>>
    ELSE << >>

-----------------------------------------------------------------------------
(* The cascade. *)

Top == stack[1]

\* The loop fetches the products with the material in their default BOM.
Open ==
    /\ stack # << >> /\ ~Top.open
    /\ stack' = [stack EXCEPT
         ![1].open = TRUE,
         ![1].left = {[product |-> p, old |-> cost[p]] : p \in {q \in Made : Top.of \in bom[q]}}]
    /\ UNCHANGED <<bom, cost, auto, std, todo, scene>>

Visit ==
    /\ stack # << >> /\ Top.open
    /\ \E e \in Top.left :
       LET rest == [stack EXCEPT ![1].left = @ \ {e}]
       IN  IF e.product \in Top.seen
           THEN stack' = rest /\ UNCHANGED <<cost, std>>
           ELSE /\ Sync(e.product, std[e.product], CostOf(bom[e.product]), e.old)
                /\ stack' = Calls(e.product, e.old, Top.seen) \o rest
    /\ UNCHANGED <<bom, auto, todo, scene>>

\* The set of the caller is the one the callee added to.
Return ==
    /\ stack # << >> /\ Top.open /\ Top.left = {}
    /\ stack' = IF Len(stack) = 1 \/ Top.fresh THEN Tail(stack)
                ELSE [Tail(stack) EXCEPT ![1].seen = Top.seen]
    /\ UNCHANGED <<bom, cost, auto, std, todo, scene>>

-----------------------------------------------------------------------------
(* What starts one. *)

\* _update_weighted_avg_cost, of a bought product.
SetPrice(m, price) ==
    /\ AtRest /\ m \in Raw /\ price # cost[m]
    /\ cost' = [cost EXCEPT ![m] = price]
    /\ stack' = <<Call(m, {}, TRUE)>>
    /\ UNCHANGED <<bom, auto, std, todo, scene>>

\* The handlers of BOMItem and StandardCost: the sync with what it calls, then
\* the cascade in any case.
Handle(p, s, material, old) ==
    /\ Sync(p, s, material, old)
    /\ stack' = (IF Renews(p, s, material) THEN <<Call(p, {}, TRUE)>> ELSE << >>)
                \o <<Call(p, {}, TRUE)>>

\* Two materials of p lead to the same product, with these BOMs.
Meets(p, boms) ==
    LET below[q \in Product] == {q} \cup UNION {below[m] : m \in boms[q]}
    IN  \E a, b \in boms[p] : a # b /\ below[a] \cap below[b] # {}

\* A line of the form of a BOM; a product below it is not made of p.
EditBom(p, materials) ==
    /\ AtRest
    /\ bom' = [bom EXCEPT ![p] = materials]
    /\ "diamond" \in scene \/ \A q \in Made : ~Meets(q, bom')
    /\ Handle(p, std[p], CostOf(materials), cost[p])
    /\ UNCHANGED <<auto, todo, scene>>

AddItem(p, m) == m \notin bom[p] /\ EditBom(p, bom[p] \cup {m})
RemoveItem(p, m) == "shrink" \in scene /\ m \in bom[p] /\ EditBom(p, bom[p] \ {m})

\* StandardCostCreateView
SetStandard(p, extra) ==
    /\ AtRest /\ "standard" \in scene
    /\ Handle(p, [material |-> CostOf(bom[p]), extra |-> extra], CostOf(bom[p]), cost[p])
    /\ UNCHANGED <<bom, auto, todo, scene>>

\* CostSettlementCreateView, CostSettlementRecalcView: the current standards are
\* fetched, with the cost of their products.
Settle ==
    /\ AtRest /\ "settle" \in scene
    /\ todo' = {[product |-> p, extra |-> std[p].extra, old |-> cost[p]] :
                  p \in {q \in Made : std[q] # NoStandard}}
    /\ UNCHANGED <<bom, cost, auto, std, stack, scene>>

\* Each takes its material from the BOM and is saved; the handler has then written
\* the cost wherever the loop itself would.
SettleOne(e) ==
    /\ stack = << >>
    /\ todo' = todo \ {e}
    /\ LET material == CostOf(bom[e.product])
       IN  Handle(e.product, [material |-> material, extra |-> e.extra], material, e.old)
    /\ UNCHANGED <<bom, auto, scene>>

-----------------------------------------------------------------------------
\* A settlement that renews one standard before it comes to another compares that
\* with the cost it fetched, and what two materials have led to may stay behind when
\* a line is removed: but for "stale", the products are those that stay exact.
Steady ==
    /\ "settle" \in scene => auto \in {{}, Made}
    /\ {"diamond", "shrink"} \subseteq scene => auto = Made

Init ==
    /\ scene \in Scenes
    /\ bom = [p \in Product |-> {}]
    /\ cost \in {c \in [Product -> Prices \cup {0}] : \A p \in Product : c[p] = 0 <=> p \in Made}
    /\ auto \in SUBSET Made
    /\ "stale" \in scene \/ Steady
    /\ std = [p \in Product |-> NoStandard]
    /\ stack = << >> /\ todo = {}

Next ==
    \/ \E m \in Raw, price \in Prices : SetPrice(m, price)
    \/ \E p \in Made : \E m \in 1..(p - 1) : AddItem(p, m) \/ RemoveItem(p, m)
    \/ \E p \in Made, extra \in Extras : SetStandard(p, extra)
    \/ Settle \/ \E e \in todo : SettleOne(e)
    \/ Open \/ Visit \/ Return

Spec == Init /\ [][Next]_vars

-----------------------------------------------------------------------------
TypeOK ==
    /\ bom \in [Product -> SUBSET Product]
    /\ cost \in [Product -> Nat]
    /\ auto \in SUBSET Made
    /\ std \in [Product -> Standard]
    /\ stack \in Seq(Frame)
    /\ todo \subseteq [product : Made, extra : Extras \cup {0}, old : Nat]
    /\ scene \in Scenes /\ scene \subseteq EntryPoint

(***************************************************************************)
(* Between two requests a made product costs what its standard says, or its *)
(* materials where it has none, and the standard that renews itself is made *)
(* of what the materials cost now.  A cascade passes a product once, before *)
(* it has been through all that leads to it: one that two materials lead to *)
(* is exact only where every product starts a cascade of its own.           *)
(***************************************************************************)
CostsFollow ==
    AtRest => \A p \in Made : (Meets(p, bom) => auto = Made) =>
        /\ Total(std[p]) > 0 => cost[p] = Total(std[p])
        /\ CostOf(bom[p]) > 0 =>
             /\ Total(std[p]) = 0 => cost[p] = CostOf(bom[p])
             /\ p \in auto => std[p].material = CostOf(bom[p])
=============================================================================
