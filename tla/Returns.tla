------------------------------- MODULE Returns -------------------------------
(***************************************************************************)
(* Return and exchange orders of one order that was shipped, as the         *)
(* handlers of apps/sales book them: the goods that come back, those given  *)
(* for them, the cost of sales taken off the original, the claim for the    *)
(* difference, and the tax invoice of the original.                         *)
(*                                                                         *)
(* A confirmation is three transactions before the status is written: the   *)
(* goods, the claim, the invoice.  Nothing locks the order; what stops a    *)
(* second confirmation is the number of its movement, which is unique.      *)
(*                                                                         *)
(* Abstractions: an order has one line of one product, stocked in one       *)
(* warehouse; a unit costs a customer 1; the forms save while nothing else  *)
(* is under way; deliveries, payments of the claim and the reservations of  *)
(* other orders change elsewhere; LOTs and average cost are not here.       *)
(***************************************************************************)
EXTENDS Integers, Sequences

CONSTANTS
    Returns,    \* bound: return and exchange orders ever created
    Sold,       \* the quantity of the original
    Quantity,   \* the quantities a form may carry
    Cost,       \* OrderItem.actual_cogs of the original at the start
    Opening,    \* the stock at the start, and what others have reserved of it
    Session,    \* requests that may be in progress at once
    Scenes      \* the combinations of entry points

\* "late": orders are edited whatever their status; "closed": their month is.
EntryPoint == {"edit", "late", "ship", "cancel", "closed", "race", "crash"}

VARIABLES
    back,       \* the return and exchange orders
    cogs,       \* OrderItem.actual_cogs of the original
    invoice,    \* whether the original has an active TaxInvoice
    goods,      \* Product.current_stock
    reserved,   \* Product.reserved_stock
    session, scene

vars == <<back, cogs, invoice, goods, reserved, session, scene>>

ReturnId == 1..Returns
Status == {"DRAFT", "CONFIRMED", "SHIPPED", "CANCELLED"}
\* Order.STATUS_TRANSITIONS, partial shipments and what follows SHIPPED left out
Allowed == [s \in Status |->
    CASE s = "DRAFT" -> {"CONFIRMED", "CANCELLED"}
      [] s = "CONFIRMED" -> {"SHIPPED", "CANCELLED"}
      [] OTHER -> {}]
\* taken: receipts it made; given: units issued in exchange; shipped: units
\* issued as a shipment; claims: active AccountReceivable rows.
Back == [kind: {"none", "RETURN", "EXCHANGE"}, status: Status, quantity: Nat, taken: Nat,
         given: Nat, shipped: Nat, claims: Nat]
NoBack == [kind |-> "none", status |-> "DRAFT", quantity |-> 0, taken |-> 0, given |-> 0,
           shipped |-> 0, claims |-> 0]
Work == [stage: {"idle", "saving", "taking", "looking", "claiming", "invoicing", "shipping",
                 "releasing", "cancelling", "writing"},
         order: ReturnId, status: Status, old: Status]
Idle == [stage |-> "idle", order |-> 1, status |-> "DRAFT", old |-> "DRAFT"]

At(p, stage) == session[p].stage = stage
Goto(p, w) == session' = [session EXCEPT ![p] = w]
Step(p, stage) == Goto(p, [session[p] EXCEPT !.stage = stage])
Done(p) == Goto(p, Idle)
AtRest == \A p \in Session : At(p, "idle")
Lesser(a, b) == IF a < b THEN a ELSE b
Of(p) == session[p].order
Doc(p) == back[Of(p)]
Update(p, doc) == back' = [back EXCEPT ![Of(p)] = doc]

Init ==
    /\ scene \in Scenes
    /\ back = [r \in ReturnId |-> NoBack]
    /\ cogs = Cost /\ invoice = TRUE /\ goods = Opening /\ reserved = Opening
    /\ session = [p \in Session |-> Idle]

-----------------------------------------------------------------------------
(* The forms. *)

\* ReturnOrderCreateView and ExchangeOrderCreateView: the whole of the original,
\* whatever was returned of it before.
Create(r, kind) ==
    /\ back[r].kind = "none" /\ AtRest
    /\ back' = [back EXCEPT ![r] = [NoBack EXCEPT !.kind = kind, !.quantity = Sold]]
    /\ UNCHANGED <<cogs, invoice, goods, reserved, session, scene>>

\* OrderUpdateView, which asks for no status.
Edit(r, n) ==
    /\ "edit" \in scene /\ back[r].kind # "none" /\ AtRest
    /\ back[r].status = "DRAFT" \/ "late" \in scene
    /\ back' = [back EXCEPT ![r].quantity = n]
    /\ UNCHANGED <<cogs, invoice, goods, reserved, session, scene>>

\* OrderStatusChangeView
AskStatus(p, r, s) ==
    /\ At(p, "idle") /\ ("race" \in scene \/ AtRest)
    /\ back[r].kind # "none" /\ s \in Allowed[back[r].status]
    /\ s = "SHIPPED" => "ship" \in scene
    /\ s = "CANCELLED" => "cancel" \in scene
    /\ Goto(p, [stage |-> "saving", order |-> r, status |-> s, old |-> back[r].status])
    /\ UNCHANGED <<back, cogs, invoice, goods, reserved, scene>>

-----------------------------------------------------------------------------
(* auto_stock_out_on_ship, before the status is written. *)

\* Mutant: the claim is looked for before the goods are booked.
ClaimFirst == <<"looking", "taking", "invoicing", "writing">>
\* What a confirmation does, in this order.
Confirmation == <<"taking", "looking", "invoicing", "writing">>
After(stage) == Confirmation[1 + CHOOSE i \in 1..3 : Confirmation[i] = stage]

\* The handler compares with the status it reads again.
Handle(p) ==
    LET w == session[p]
        old == Doc(p).status
    IN /\ At(p, "saving")
       /\ Goto(p, [w EXCEPT !.old = old, !.stage =
              CASE w.status = old -> "writing"
                [] w.status = "CONFIRMED" -> Confirmation[1]
                [] w.status = "SHIPPED" -> "shipping"
                [] w.status = "CANCELLED" -> "cancelling"])
       /\ UNCHANGED <<back, cogs, invoice, goods, reserved, scene>>

\* a / b, quantized to units: half to even.
Quantized(a, b) ==
    LET twice == 2 * (a % b)
    IN (a \div b) + (IF twice > b \/ (twice = b /\ (a \div b) % 2 = 1) THEN 1 ELSE 0)
\* Mutant: the share is not bounded by what was sold.
ReversedUnbounded(n) == Quantized(cogs * n, Sold)
\* _reverse_original_actual_cogs: the share of the *present* cost, for at most the
\* quantity sold.
Reversed(n) == Quantized(cogs * Lesser(n, Sold), Sold)

\* Mutant: a movement takes the next number.
NewNumber(doc) == TRUE
\* The numbers IN-RTN-, IN-EXC- and OUT-EXC- of an order and a line are unique.
Unbooked(doc) == doc.taken = 0

\* _auto_create_return_stock_in takes back what the return says;
\* _auto_create_exchange_stock_movements takes back the original and issues the
\* line of the exchange, if there is enough.  Otherwise the request has failed.
Take(p) ==
    LET doc == Doc(p)
        n == IF doc.kind = "RETURN" THEN doc.quantity ELSE Sold
        out == IF doc.kind = "RETURN" THEN 0 ELSE doc.quantity
    IN /\ At(p, "taking")
       /\ IF ~Unbooked(doc) \/ goods + n < out
          THEN Done(p) /\ UNCHANGED <<back, cogs, goods>>
          ELSE /\ Update(p, [doc EXCEPT !.taken = @ + 1, !.given = @ + out])
               /\ cogs' = cogs - Reversed(n)
               /\ goods' = goods + n - out
               /\ Step(p, After("taking"))
       /\ UNCHANGED <<invoice, reserved, scene>>

\* _auto_reverse_ar and _auto_exchange_ar_diff: nothing where the month is closed,
\* where a claim is found or, of an exchange, where nothing is owed.
Look(p) ==
    LET doc == Doc(p)
    IN /\ At(p, "looking")
       /\ IF doc.claims > 0 \/ "closed" \in scene \/ (doc.kind = "EXCHANGE" /\ doc.quantity = Sold)
          THEN Step(p, After("looking"))
          ELSE Step(p, "claiming")
       /\ UNCHANGED <<back, cogs, invoice, goods, reserved, scene>>
Claim(p) ==
    /\ At(p, "claiming") /\ Step(p, After("looking"))
    /\ Update(p, [Doc(p) EXCEPT !.claims = @ + 1])
    /\ UNCHANGED <<cogs, invoice, goods, reserved, scene>>
\* _auto_cancel_tax_invoice_for_return
RetireInvoice(p) ==
    /\ At(p, "invoicing") /\ Step(p, After("invoicing")) /\ invoice' = FALSE
    /\ UNCHANGED <<back, cogs, goods, reserved, scene>>

\* _auto_full_ship, which knows the movements of an exchange by no reference of
\* its own, and the release of what was never reserved.
Ship(p) ==
    LET doc == Doc(p)
        rest == doc.quantity - doc.shipped
    IN /\ At(p, "shipping")
       /\ IF doc.shipped > 0 THEN Step(p, "releasing") /\ UNCHANGED <<back, goods>>
          ELSE IF goods < rest THEN Done(p) /\ UNCHANGED <<back, goods>>
          ELSE /\ Update(p, [doc EXCEPT !.shipped = doc.quantity])
               /\ goods' = goods - rest
               /\ Step(p, "releasing")
       /\ UNCHANGED <<cogs, invoice, reserved, scene>>
Release(p) ==
    /\ At(p, "releasing") /\ Step(p, "writing")
    /\ reserved' = IF session[p].old = "CONFIRMED" THEN reserved - Lesser(Doc(p).quantity, reserved)
                   ELSE reserved
    /\ UNCHANGED <<back, cogs, invoice, goods, scene>>

\* _auto_cancel_order: the claim is retired and a reservation released; the
\* receipts stay.
Cancel(p) ==
    LET doc == Doc(p)
        rest == IF doc.quantity > doc.shipped THEN doc.quantity - doc.shipped ELSE 0
    IN /\ At(p, "cancelling") /\ Step(p, "writing")
       /\ Update(p, [doc EXCEPT !.claims = 0])
       /\ reserved' = IF session[p].old = "CONFIRMED" THEN reserved - Lesser(rest, reserved)
                      ELSE reserved
       /\ UNCHANGED <<cogs, invoice, goods, scene>>

Write(p) ==
    /\ At(p, "writing") /\ Done(p)
    /\ Update(p, [Doc(p) EXCEPT !.status = session[p].status])
    /\ UNCHANGED <<cogs, invoice, goods, reserved, scene>>

\* The worker dies: what was committed stays.
Crash(p) ==
    /\ "crash" \in scene /\ ~At(p, "idle") /\ Done(p)
    /\ UNCHANGED <<back, cogs, invoice, goods, reserved, scene>>

Next ==
    \/ \E r \in ReturnId :
        \/ \E k \in {"RETURN", "EXCHANGE"} : Create(r, k)
        \/ \E n \in Quantity : Edit(r, n)
    \/ \E p \in Session :
        \/ \E r \in ReturnId, s \in Status : AskStatus(p, r, s)
        \/ Handle(p) \/ Take(p) \/ Look(p) \/ Claim(p) \/ RetireInvoice(p)
        \/ Ship(p) \/ Release(p) \/ Cancel(p) \/ Write(p) \/ Crash(p)

Spec == Init /\ [][Next]_vars

-----------------------------------------------------------------------------
(* What holds. *)

TypeOK ==
    /\ scene \in Scenes
    /\ back \in [ReturnId -> Back] /\ session \in [Session -> Work]
    /\ cogs \in Int /\ invoice \in BOOLEAN /\ goods \in Nat /\ reserved \in 0..Opening

\* Whoever races and dies, an order takes its goods back once and claims its
\* difference once: the goods come first, and their number stops the second
\* confirmation before it looks for a claim.
BookedOnce == \A r \in ReturnId : back[r].taken <= 1 /\ back[r].claims <= 1

\* What is claimed for an order: nothing for an exchange of the whole.
Owed(doc) == IF doc.kind = "EXCHANGE" /\ doc.quantity = Sold THEN 0 ELSE 1

\* An order that was confirmed has its goods, and the original is invoiced no
\* more.  It has its claim where the month was open and something was owed; unless
\* it is edited afterwards, or a cancellation, which retires the claim first,
\* races with the confirmation or dies.
ConfirmedBooked ==
    \A r \in ReturnId :
        LET doc == back[r]
        IN doc.status \in {"CONFIRMED", "SHIPPED"} =>
            /\ doc.taken = 1 /\ ~invoice
            /\ scene \cap {"closed", "late"} = {}
               /\ ("cancel" \in scene => AtRest /\ scene \cap {"race", "crash"} = {}) =>
                doc.claims = Owed(doc)

\* The cost of sales of what was returned is taken off, of a whole return or an
\* exchange all of it, and never more than there was; unless it is edited after
\* its goods were booked.
CostFollowsGoods ==
    /\ cogs >= 0
    /\ \A r \in ReturnId :
        back[r].taken > 0 =>
            /\ cogs < Cost
            /\ "late" \notin scene /\ ~({"edit", "crash"} \subseteq scene)
               /\ (back[r].kind = "EXCHANGE" \/ back[r].quantity >= Sold) => cogs = 0

=============================================================================
