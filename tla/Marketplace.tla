------------------------------ MODULE Marketplace ------------------------------
(***************************************************************************)
(* One order of a store (a MarketplaceOrder) on its way into the ERP: the   *)
(* synchronisation, the import of a preview, the wizard, the handler that   *)
(* makes quotations, the conversion of those into ERP orders; and on its    *)
(* way back: the task that pushes the shipment to the platform and retries. *)
(*                                                                         *)
(* Abstractions: quotations and ERP orders are numbered as they are made;   *)
(* how well the name of the product matches is chosen at the start; what    *)
(* the platform reports and whether it answers is chosen at each call; the  *)
(* generic form of the administration and the REST interface are left out.  *)
(***************************************************************************)
EXTENDS Naturals, Sequences

CONSTANTS
    Session,    \* requests that may be in progress at once
    Push,       \* pushes of the shipment that may be queued
    MostQuotes, \* bound: quotations made for the store order
    MostOrders, \* bound: ERP orders made of those
    Reported,   \* the statuses the platform reports
    Scenes      \* entry points in use, and "race", "crash"

VARIABLES
    market,     \* the row of the store order
    quotes,     \* status of the quotations made, by number
    erps,       \* the ERP orders made: the quotation of each
    push,       \* the pushes: where each is, and its retries
    session,    \* where each request is, and what it loaded
    scene

vars == <<market, quotes, erps, push, session, scene>>

Status == {"NEW", "CONFIRMED", "SHIPPED", "DELIVERED", "CANCELLED", "RETURNED"}
ImportStatus ==
    {"PENDING", "CUSTOMER_DONE", "QUOTATION_DONE", "ORDER_DONE", "SKIPPED", "ERROR"}
MaxRetries == 3

\* quotation, erp: 0 for none.  match: "exact" by a mapping or the full name,
\* "partial" by a part of the name, which only a person or the wizard takes.
\* tracked: carrier, tracking number and the platform's own number are filled in.
Row == [present: BOOLEAN, status: Status, tracked: BOOLEAN,
        match: {"exact", "partial", "none"}, quotation: 0..MostQuotes, erp: 0..MostOrders,
        wizard: BOOLEAN, importing: ImportStatus]

\* skip: the thread-local flag that silences the handler.
Work == [stage: {"idle", "importing", "fetching", "fetched", "customer", "quoting",
                 "ordering", "converting", "returning"},
         quotation: 0..MostQuotes, converted: BOOLEAN, skip: BOOLEAN]
Idle == [stage |-> "idle", quotation |-> 0, converted |-> FALSE, skip |-> FALSE]

Open == {"queued", "sending", "told"}
Ended == {"done", "refused", "failed", "lost"}

At(p, stage) == session[p].stage = stage
Goto(p, w) == session' = [session EXCEPT ![p] = w]
Does(p, stage) == Goto(p, [session[p] EXCEPT !.stage = stage])
Starts(p, entry) ==
    /\ entry \in scene /\ At(p, "idle")
    /\ "race" \in scene \/ \A q \in Session : At(q, "idle")

\* n quotations are made for the store order as it is saved; it keeps the last.
Quote(row, n) ==
    /\ Len(quotes) + n <= MostQuotes
    /\ quotes' = quotes \o [i \in 1..n |-> "DRAFT"]
    /\ market' = IF n = 0 THEN row ELSE [row EXCEPT !.quotation = Len(quotes) + n]
\* An ERP order is made of quotation q.
Order(q) ==
    /\ Len(erps) < MostOrders
    /\ erps' = Append(erps, q)
    /\ quotes' = [quotes EXCEPT ![q] = "CONVERTED"]

-----------------------------------------------------------------------------
\* auto_create_erp_quotation, called with the row in memory.
Handled(p, row) ==
    ~session[p].skip /\ row.status = "NEW" /\ row.quotation = 0 /\ row.match = "exact"

\* Mutant: the flag stays set in the thread.
SkipStays(p) == TRUE

\* The flag once an order is written, whatever happened.
SkipAfter(p) == FALSE

\* _upsert_order, one transaction on the locked row.  A row it creates is saved
\* again to note its user, from the same memory: the handler acts twice.
Upsert(p, status, tracked) ==
    LET row == [market EXCEPT !.present = TRUE, !.status = status, !.tracked = tracked]
    IN  Quote(row, IF ~Handled(p, row) THEN 0 ELSE IF market.present THEN 1 ELSE 2)

\* sync_orders, and the import of an order no product was chosen for.
Sync(p, status, tracked) ==
    /\ Starts(p, "sync")
    /\ Upsert(p, status, tracked)
    /\ Goto(p, [session[p] EXCEPT !.skip = SkipAfter(p)])
    /\ UNCHANGED <<erps, push, scene>>

\* import_selected_orders with a product: the row, the handler silenced ...
Import(p, status, tracked) ==
    /\ Starts(p, "import")
    /\ market' = [market EXCEPT !.present = TRUE, !.status = status, !.tracked = tracked]
    /\ Goto(p, [session[p] EXCEPT !.stage = "importing", !.skip = SkipAfter(p)])
    /\ UNCHANGED <<quotes, erps, push, scene>>
\* ... and in a transaction of its own a quotation, whether there is one or not.
ImportQuote(p) ==
    /\ At(p, "importing")
    /\ Quote(market, 1)
    /\ Does(p, "idle")
    /\ UNCHANGED <<erps, push, scene>>

-----------------------------------------------------------------------------
\* The wizard.  fetch_from_api and fetch_from_excel: an order that is not there ...
AskFetch(p) ==
    /\ Starts(p, "wizard") /\ ~market.present
    /\ Does(p, "fetching")
    /\ UNCHANGED <<market, quotes, erps, push, scene>>
\* ... is created (its number is unique: two at once, and the second fails) ...
CommitFetch(p) ==
    /\ At(p, "fetching")
    /\ IF market.present
       THEN Does(p, "idle") /\ UNCHANGED market
       ELSE /\ Does(p, "fetched")
            /\ market' = [market EXCEPT !.present = TRUE, !.status = "NEW", !.tracked = FALSE,
                                        !.wizard = TRUE, !.importing = "PENDING"]
    /\ UNCHANGED <<quotes, erps, push, scene>>
\* ... and the handler acts on the row as it was created.
FetchQuote(p) ==
    /\ At(p, "fetched")
    /\ Quote(market, IF market.match = "exact" THEN 1 ELSE 0)
    /\ Does(p, "idle")
    /\ UNCHANGED <<erps, push, scene>>

\* update_selections
Deselect(p) ==
    /\ Starts(p, "wizard") /\ market.wizard
    /\ market' = [market EXCEPT !.importing = "SKIPPED"]
    /\ UNCHANGED <<quotes, erps, push, session, scene>>

\* A stage of the wizard reads the rows that are ready for it.
AskStage(p, stage, ready) ==
    /\ Starts(p, "wizard") /\ market.wizard /\ market.importing = ready
    /\ stage = "ordering" => market.quotation # 0
    /\ LET q == market.quotation
       IN  Goto(p, [session[p] EXCEPT !.stage = stage, !.quotation = q,
                                      !.converted = q # 0 /\ quotes[q] = "CONVERTED"])
    /\ UNCHANGED <<market, quotes, erps, push, scene>>
\* A row whose stage fails is marked, and the stage goes on with the next.
FailStage(p) ==
    /\ session[p].stage \in {"customer", "quoting", "ordering"}
    /\ "crash" \in scene \/ (At(p, "quoting") /\ market.match = "none")
    /\ market' = [market EXCEPT !.importing = "ERROR"]
    /\ Does(p, "idle")
    /\ UNCHANGED <<quotes, erps, push, scene>>

\* register_customers
CommitCustomer(p) ==
    /\ At(p, "customer")
    /\ market' = [market EXCEPT !.importing = "CUSTOMER_DONE"]
    /\ Does(p, "idle")
    /\ UNCHANGED <<quotes, erps, push, scene>>

\* create_quotations
CommitQuotation(p) ==
    /\ At(p, "quoting") /\ market.match # "none"
    /\ Quote([market EXCEPT !.importing = "QUOTATION_DONE"], 1)
    /\ Does(p, "idle")
    /\ UNCHANGED <<erps, push, scene>>

\* convert_to_orders, by the status of the quotation as it was read.
CommitOrder(p) ==
    /\ At(p, "ordering")
    /\ IF session[p].converted
       THEN /\ market' = [market EXCEPT !.importing = "ORDER_DONE"]
            /\ UNCHANGED <<quotes, erps>>
       ELSE /\ Order(session[p].quotation)
            /\ market' = [market EXCEPT !.importing = "ORDER_DONE", !.erp = Len(erps) + 1]
    /\ Does(p, "idle")
    /\ UNCHANGED <<push, scene>>

-----------------------------------------------------------------------------
\* QuotationConvertView, on any quotation that is not converted ...
AskConvert(p, q) ==
    /\ Starts(p, "convert") /\ quotes[q] # "CONVERTED"
    /\ Goto(p, [session[p] EXCEPT !.stage = "converting", !.quotation = q])
    /\ UNCHANGED <<market, quotes, erps, push, scene>>

\* Mutant: only the wizard links the ERP order.
LinkedNot(q) == market.erp

\* The store order's link, once an ERP order is made of q.
Linked(q) == IF market.quotation = q THEN Len(erps) + 1 ELSE market.erp

\* ... and the store order that has it is linked to the ERP order.
CommitConvert(p) ==
    /\ At(p, "converting")
    /\ Order(session[p].quotation)
    /\ market' = [market EXCEPT !.erp = Linked(session[p].quotation)]
    /\ Does(p, "idle")
    /\ UNCHANGED <<push, scene>>

-----------------------------------------------------------------------------
PushIs(t, state, tries) == push' = [push EXCEPT ![t] = [state |-> state, tries |-> tries]]

\* A shipment of the ERP order becomes SHIPPED, or PushShipmentView.
Enqueue(t) ==
    /\ "push" \in scene /\ push[t].state = "free"
    /\ \/ market.erp # 0 /\ market.status \notin {"CANCELLED", "RETURNED"}
       \/ market.present /\ market.tracked
    /\ PushIs(t, "queued", 0)
    /\ UNCHANGED <<market, quotes, erps, session, scene>>

\* push_shipping_async reads the row, and refuses without a tracking number ...
StartPush(t) ==
    /\ push[t].state = "queued"
    /\ PushIs(t, IF market.tracked THEN "sending" ELSE "refused", push[t].tries)
    /\ UNCHANGED <<market, quotes, erps, session, scene>>

\* ... the platform accepts ...
Accept(t) ==
    /\ push[t].state = "sending"
    /\ PushIs(t, "told", push[t].tries)
    /\ UNCHANGED <<market, quotes, erps, session, scene>>

\* Mutant: a retry is queued as a push of its own.
TriesAnew(t) == 0

\* The retries of the request that self.retry queues.
TriesAfter(t) == push[t].tries + 1

\* ... or does not answer: self.retry, which past the last retry raises what it
\* was given.
Fail(t) ==
    /\ push[t].state = "sending"
    /\ IF push[t].tries < MaxRetries THEN PushIs(t, "queued", TriesAfter(t))
       ELSE PushIs(t, "failed", push[t].tries)
    /\ UNCHANGED <<market, quotes, erps, session, scene>>

\* The status is written, whatever it has become meanwhile.
MarkShipped(t) ==
    /\ push[t].state = "told"
    /\ market' = [market EXCEPT !.status = "SHIPPED"]
    /\ PushIs(t, "done", push[t].tries)
    /\ UNCHANGED <<quotes, erps, session, scene>>

\* PushReturnView: the platform is told ...
AskReturn(p) ==
    /\ Starts(p, "push") /\ market.present
    /\ Does(p, "returning")
    /\ UNCHANGED <<market, quotes, erps, push, scene>>
\* ... and accepts.
CommitReturn(p) ==
    /\ At(p, "returning")
    /\ market' = [market EXCEPT !.status = "RETURNED"]
    /\ Does(p, "idle")
    /\ UNCHANGED <<quotes, erps, push, scene>>

\* A request or a worker dies between two steps; a task taken is not taken again.
Die(p) ==
    /\ "crash" \in scene /\ ~At(p, "idle")
    /\ Goto(p, Idle)
    /\ UNCHANGED <<market, quotes, erps, push, scene>>
WorkerDies(t) ==
    /\ "crash" \in scene /\ push[t].state \in {"sending", "told"}
    /\ PushIs(t, "lost", push[t].tries)
    /\ UNCHANGED <<market, quotes, erps, session, scene>>

-----------------------------------------------------------------------------
Init ==
    /\ scene \in Scenes
    /\ \E m \in {"exact", "partial", "none"} :
          market = [present |-> FALSE, status |-> "NEW", tracked |-> FALSE, match |-> m,
                    quotation |-> 0, erp |-> 0, wizard |-> FALSE, importing |-> "PENDING"]
    /\ quotes = << >> /\ erps = << >>
    /\ push = [t \in Push |-> [state |-> "free", tries |-> 0]]
    /\ session = [p \in Session |-> Idle]

Request(p) ==
    \/ \E status \in Reported, tracked \in BOOLEAN :
          Sync(p, status, tracked) \/ Import(p, status, tracked)
    \/ AskFetch(p) \/ Deselect(p)
    \/ AskStage(p, "customer", "PENDING") \/ AskStage(p, "quoting", "CUSTOMER_DONE")
    \/ AskStage(p, "ordering", "QUOTATION_DONE")
    \/ \E q \in DOMAIN quotes : AskConvert(p, q)
    \/ AskReturn(p)
Answer(p) ==
    \/ ImportQuote(p) \/ CommitFetch(p) \/ FetchQuote(p)
    \/ CommitCustomer(p) \/ CommitQuotation(p) \/ CommitOrder(p) \/ FailStage(p)
    \/ CommitConvert(p) \/ CommitReturn(p) \/ Die(p)
Worker(t) == StartPush(t) \/ Accept(t) \/ Fail(t) \/ MarkShipped(t)

Next ==
    \/ \E p \in Session : Request(p) \/ Answer(p)
    \/ \E t \in Push : Enqueue(t) \/ Worker(t) \/ WorkerDies(t)

\* The workers take what is queued; nothing makes a request arrive.
Fairness == WF_<<market, push>>(\E t \in Push : Worker(t))

Spec == Init /\ [][Next]_vars
FairSpec == Spec /\ Fairness

-----------------------------------------------------------------------------
(* What holds. *)

TypeOK ==
    /\ scene \in Scenes /\ market \in Row
    /\ quotes \in Seq({"DRAFT", "CONVERTED"}) /\ Len(quotes) <= MostQuotes
    /\ erps \in Seq(1..MostQuotes) /\ Len(erps) <= MostOrders
    /\ push \in [Push -> [state: {"free"} \cup Open \cup Ended, tries: 0..MaxRetries]]
    /\ session \in [Session -> Work]

\* Where nothing dies, a new order of a known product has a quotation once no
\* request is in progress, whichever way it came in and whatever came in before.
NewIsQuoted ==
    /\ "crash" \notin scene
    /\ \A p \in Session : At(p, "idle")
    /\ market.present /\ market.status = "NEW" /\ market.match = "exact"
    => market.quotation # 0

\* What the wizard calls ordered has an ERP order, although quotations are
\* converted and replaced around it.
DoneIsOrdered == market.importing = "ORDER_DONE" => market.erp # 0

\* Every push ends: the status is written, or it was refused, or it failed after
\* the last of its retries (or its worker died).
PushesEnd ==
    \A t \in Push :
        push[t].state = "queued" ~>
            push[t].state \in {"done", "refused", "lost"}
            \/ (push[t].state = "failed" /\ push[t].tries = MaxRetries)
=============================================================================
