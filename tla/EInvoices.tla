------------------------------ MODULE EInvoices ------------------------------
(***************************************************************************)
(* Electronic tax invoices: their issue, one by one or in a batch, query    *)
(* and cancellation at the tax office (NTS), and the circuit breaker before *)
(* its interface (apps/accounting/nts_client.py, apps/core/api_utils.py).   *)
(*                                                                         *)
(* A request checks the invoice, calls the office, which authenticates it   *)
(* first, and writes the status afterwards; no lock is held.  The number of *)
(* a document is drawn before the call and saved after it.                  *)
(*                                                                         *)
(* Abstractions: SENT is taken with ACCEPTED, DRAFT with NONE; the retries  *)
(* of a session are part of its call; one process, so one breaker, and a    *)
(* worker dies only where there are no other requests to take with it.      *)
(***************************************************************************)
EXTENDS Integers, FiniteSets

CONSTANTS
    Invoices,   \* TaxInvoice rows
    Documents,  \* bound: documents the tax office ever receives
    Threshold,  \* CircuitBreaker.failure_threshold
    Session,    \* requests that may be in progress at once
    Scenes      \* the combinations of entry points

\* "outage": calls fail; "lost": they arrive, and their answers do not.
EntryPoint == {"query", "cancel", "batch", "edit", "retire", "outage", "lost", "race", "crash"}

VARIABLES
    invoice,    \* TaxInvoice: status, document (issue_id), active
    nts,        \* the documents at the tax office (external)
    breaker,    \* CircuitBreaker; cooled: recovery_timeout is over
    session, scene

vars == <<invoice, nts, breaker, session, scene>>

InvoiceId == 1..Invoices
DocumentId == 1..Documents
Status == {"NONE", "ISSUED", "ACCEPTED", "REJECTED", "CANCELLED"}
Invoice == [status: Status, document: 0..Documents, active: BOOLEAN]
\* A document nobody sent has no owner.
Document == [owner: 0..Invoices, status: Status]
Breaker == [state: {"closed", "open", "half_open"}, failures: Nat, cooled: BOOLEAN]
\* What a request keeps of an invoice it read; a batch has more of them to do.
Item == [invoice: InvoiceId, status: Status, document: 0..Documents]
Work == [stage: {"idle", "checking", "entering", "authenticating", "sending", "saving", "editing"},
         act: {"issue", "query", "cancel", "edit"},
         item: Item, rest: SUBSET Item, token: BOOLEAN]
NoItem == [invoice |-> 1, status |-> "NONE", document |-> 0]
Idle == [stage |-> "idle", act |-> "issue", item |-> NoItem, rest |-> {}, token |-> FALSE]

At(p, stage) == session[p].stage = stage
Goto(p, w) == session' = [session EXCEPT ![p] = w]
Step(p, stage) == Goto(p, [session[p] EXCEPT !.stage = stage])
Done(p) == Goto(p, Idle)
MayAsk(p) == At(p, "idle") /\ ("race" \in scene \/ \A q \in Session : At(q, "idle"))
Read(i) == [invoice |-> i, status |-> invoice[i].status, document |-> invoice[i].document]
\* An invoice of those a request has to do, in their order.
First(items) == CHOOSE item \in items : \A other \in items : item.invoice <= other.invoice
Ask(p, act, items, stage) ==
    Goto(p, [stage |-> stage, act |-> act, item |-> First(items),
             rest |-> items \ {First(items)}, token |-> FALSE])
\* Where a batch goes on.
NextItem(w) ==
    IF w.rest = {} THEN Idle
    ELSE [w EXCEPT !.stage = "checking", !.item = First(w.rest), !.rest = @ \ {First(@)}]

Init ==
    /\ scene \in Scenes
    /\ invoice = [i \in InvoiceId |-> [status |-> "NONE", document |-> 0, active |-> TRUE]]
    /\ nts = [d \in DocumentId |-> [owner |-> 0, status |-> "NONE"]]
    /\ breaker = [state |-> "closed", failures |-> 0, cooled |-> FALSE]
    /\ session = [p \in Session |-> Idle]

-----------------------------------------------------------------------------
(* CircuitBreaker; every operation takes its lock. *)

\* state, and is_available of it
Looked(b) == IF b.state = "open" /\ b.cooled THEN [b EXCEPT !.state = "half_open"] ELSE b
Available(b) == Looked(b).state # "open"
\* Mutant: a success closes the breaker and keeps the count.
SucceededKeeping(b) == [b EXCEPT !.state = IF b.state = "half_open" THEN "closed" ELSE @]
\* record_success
Succeeded(b) ==
    [b EXCEPT !.failures = 0, !.state = IF b.state = "half_open" THEN "closed" ELSE @]
\* record_failure
Failed(b) ==
    [b EXCEPT !.failures = IF @ < Threshold THEN @ + 1 ELSE @, !.cooled = FALSE,
              !.state = IF b.failures + 1 >= Threshold THEN "open" ELSE @]
Cool ==
    /\ breaker.state = "open" /\ ~breaker.cooled
    /\ breaker' = [breaker EXCEPT !.cooled = TRUE]
    /\ UNCHANGED <<invoice, nts, session, scene>>

-----------------------------------------------------------------------------
(* The requests. *)

Issuable(i) == invoice[i].active /\ invoice[i].status \in {"NONE", "REJECTED"}
AskIssue(p, i) ==
    /\ MayAsk(p) /\ Issuable(i)
    /\ Ask(p, "issue", {Read(i)}, "checking")
    /\ UNCHANGED <<invoice, nts, breaker, scene>>
\* The batch reads the invoices that were chosen once, before the first call.
AskBatch(p) ==
    \E chosen \in SUBSET {i \in InvoiceId : Issuable(i)} :
        /\ "batch" \in scene /\ MayAsk(p) /\ chosen # {}
        /\ Ask(p, "issue", {Read(i) : i \in chosen}, "checking")
        /\ UNCHANGED <<invoice, nts, breaker, scene>>
AskQuery(p, i) ==
    /\ "query" \in scene /\ MayAsk(p) /\ invoice[i].active /\ invoice[i].document # 0
    /\ Ask(p, "query", {Read(i)}, "checking")
    /\ UNCHANGED <<invoice, nts, breaker, scene>>
AskCancel(p, i) ==
    /\ "cancel" \in scene /\ MayAsk(p) /\ invoice[i].active /\ invoice[i].document # 0
    /\ invoice[i].status \in {"ISSUED", "ACCEPTED"}
    /\ Ask(p, "cancel", {Read(i)}, "checking")
    /\ UNCHANGED <<invoice, nts, breaker, scene>>

\* TaxInvoiceUpdateView and the administration write the whole row back.
AskEdit(p, i) ==
    /\ "edit" \in scene /\ MayAsk(p) /\ invoice[i].active
    /\ Ask(p, "edit", {Read(i)}, "editing")
    /\ UNCHANGED <<invoice, nts, breaker, scene>>
SaveEdit(p) ==
    /\ At(p, "editing") /\ Done(p)
    /\ LET item == session[p].item
       IN invoice' = [invoice EXCEPT ![item.invoice] =
              [status |-> item.status, document |-> item.document, active |-> TRUE]]
    /\ UNCHANGED <<nts, breaker, scene>>

\* The order is cancelled or returned: nobody tells the tax office.
Retire(i) ==
    /\ "retire" \in scene /\ invoice[i].active
    /\ invoice' = [invoice EXCEPT ![i].active = FALSE]
    /\ UNCHANGED <<nts, breaker, session, scene>>

-----------------------------------------------------------------------------
(* The call. *)

\* Mutant: a call that failed is taken for one that did not.
FailureSaved(w) ==
    [w EXCEPT !.stage = "saving",
              !.item.status = IF w.act = "cancel" THEN "CANCELLED" ELSE "ISSUED"]
\* NTSAPIError: nothing is written, and a batch goes on.
OnFailure(w) == NextItem(w)

\* The two looks at the breaker: of the operation, and of the authentication,
\* which a batch needs once.
Check(p) ==
    LET w == session[p]
    IN /\ At(p, "checking") /\ breaker' = Looked(breaker)
       /\ IF Available(breaker)
          THEN Step(p, IF w.token THEN "sending" ELSE "entering")
          ELSE Goto(p, OnFailure(w))
       /\ UNCHANGED <<invoice, nts, scene>>
Enter(p) ==
    /\ At(p, "entering") /\ breaker' = Looked(breaker)
    /\ IF Available(breaker) THEN Step(p, "authenticating") ELSE Goto(p, OnFailure(session[p]))
    /\ UNCHANGED <<invoice, nts, scene>>
Authenticate(p) ==
    /\ At(p, "authenticating")
    /\ \/ /\ breaker' = Succeeded(breaker)
          /\ Goto(p, [session[p] EXCEPT !.stage = "sending", !.token = TRUE])
       \/ /\ "outage" \in scene /\ breaker' = Failed(breaker)
          /\ Goto(p, OnFailure(session[p]))
    /\ UNCHANGED <<invoice, nts, scene>>

Sent == {d \in DocumentId : nts[d].owner # 0}
\* An invoice that has an issue_id keeps it.
Draw(item) == IF item.document # 0 THEN item.document ELSE Cardinality(Sent) + 1

\* What the tax office makes of a call that reaches it.
Received(act, item, d) ==
    CASE act = "issue" /\ nts[d].status \in {"NONE", "REJECTED"} ->
            [nts EXCEPT ![d] = [owner |-> item.invoice, status |-> "ISSUED"]]
      [] act = "cancel" -> [nts EXCEPT ![d].status = "CANCELLED"]
      [] OTHER -> nts

\* The answer of an issue is not looked at: it was issued.
Send(p) ==
    LET w == session[p]
        item == session[p].item
        d == IF w.act = "issue" THEN Draw(item) ELSE item.document
        answer == CASE w.act = "issue" -> "ISSUED"
                    [] w.act = "query" -> nts[d].status
                    [] w.act = "cancel" -> "CANCELLED"
    IN /\ At(p, "sending") /\ d <= Documents
       /\ \/ /\ nts' = Received(w.act, item, d) /\ breaker' = Succeeded(breaker)
             /\ Goto(p, [w EXCEPT !.stage = "saving", !.item.document = d, !.item.status = answer])
          \/ /\ "lost" \in scene /\ nts' = Received(w.act, item, d)
             /\ breaker' = Failed(breaker) /\ Goto(p, OnFailure(w))
          \/ /\ "outage" \in scene /\ UNCHANGED nts
             /\ breaker' = Failed(breaker) /\ Goto(p, OnFailure(w))
       /\ UNCHANGED <<invoice, scene>>

\* The status; an issue saves the number too.
Save(p) ==
    LET item == session[p].item
        old == invoice[item.invoice]
    IN /\ At(p, "saving") /\ Goto(p, NextItem(session[p]))
       /\ invoice' = [invoice EXCEPT ![item.invoice] =
              [old EXCEPT !.status = item.status,
                          !.document = IF session[p].act = "issue" THEN item.document ELSE @]]
       /\ UNCHANGED <<nts, breaker, scene>>

\* The tax office accepts a document or rejects it (external).
Decide(d) ==
    /\ nts[d].status = "ISSUED"
    /\ \E s \in {"ACCEPTED", "REJECTED"} : nts' = [nts EXCEPT ![d].status = s]
    /\ UNCHANGED <<invoice, breaker, session, scene>>

\* The worker dies; the breaker is lost with it.
Crash(p) ==
    /\ "crash" \in scene /\ ~At(p, "idle") /\ Done(p)
    /\ breaker' = [state |-> "closed", failures |-> 0, cooled |-> FALSE]
    /\ UNCHANGED <<invoice, nts, scene>>

Next ==
    \/ \E i \in InvoiceId : Retire(i)
    \/ \E d \in DocumentId : Decide(d)
    \/ Cool
    \/ \E p \in Session :
        \/ \E i \in InvoiceId : AskIssue(p, i) \/ AskQuery(p, i) \/ AskCancel(p, i) \/ AskEdit(p, i)
        \/ AskBatch(p) \/ SaveEdit(p) \/ Check(p) \/ Enter(p) \/ Authenticate(p)
        \/ Send(p) \/ Save(p) \/ Crash(p)

Spec == Init /\ [][Next]_vars

-----------------------------------------------------------------------------
(* What holds. *)

TypeOK ==
    /\ scene \in Scenes
    /\ invoice \in [InvoiceId -> Invoice] /\ nts \in [DocumentId -> Document]
    /\ breaker \in Breaker /\ session \in [Session -> Work]

\* An invoice that says it was issued has the number of a document the tax
\* office received for it; unless an edit writes back what it read.
IssuedKnown ==
    "edit" \notin scene =>
        \A i \in InvoiceId :
            invoice[i].status # "NONE" =>
                /\ invoice[i].document # 0
                /\ nts[invoice[i].document].owner = i

\* What was cancelled here was cancelled there.
CancelledThere ==
    \A i \in InvoiceId :
        invoice[i].status = "CANCELLED" =>
            \E d \in DocumentId : nts[d] = [owner |-> i, status |-> "CANCELLED"]

\* The tax office gets one document of an invoice, however often calls fail and
\* it rejects it; unless an answer is lost, a worker dies, or requests race.
OneDocument ==
    scene \cap {"race", "lost", "crash"} = {} =>
        \A i \in InvoiceId : Cardinality({d \in DocumentId : nts[d].owner = i}) <= 1

\* Whatever calls end in whatever order, a breaker that is closed has counted
\* fewer failures than its threshold.
ClosedBelowThreshold == breaker.state = "closed" => breaker.failures < Threshold

=============================================================================
