---------------------------- MODULE Quotations ----------------------------
(***************************************************************************)
(* Quotations from creation to conversion or expiry: the forms and admin    *)
(* pages of apps/sales, the conversion into an order, and the nightly task  *)
(* that expires what has lapsed.  Every save of a row runs Quotation.save,  *)
(* which turns a lapsed open quotation into EXPIRED, and then the handler   *)
(* that compares the new status with the row as it is in the database.      *)
(*                                                                         *)
(* Abstractions: valid_until is "lapsed or not"; lines, totals and the      *)
(* order made are not here, but for the number of orders made.              *)
(***************************************************************************)
EXTENDS Naturals

CONSTANTS
    Quotes,     \* quotations are numbered 1..Quotes, in the order of creation
    Session,    \* requests that may be in progress at once
    MostMade,   \* bound: orders made from one quotation
    Scenes      \* "drafts": drafts may lapse; "race": requests may race

ASSUME QuotationAssumption == Quotes \in Nat \ {0}

VARIABLES
    quote,      \* Quotation
    made,       \* how many orders were made from each
    session,    \* where each request is, and what it loaded
    night,      \* expire_quotations: the rows it fetched and has not saved
    scene

vars == <<quote, made, session, night, scene>>

QuoteId == 1..Quotes
Status == {"DRAFT", "SENT", "ACCEPTED", "REJECTED", "CONVERTED", "EXPIRED"}
Open == {"DRAFT", "SENT", "ACCEPTED"}
\* Quotation.STATUS_TRANSITIONS
Allowed == [s \in Status |->
    CASE s = "DRAFT" -> {"SENT", "CONVERTED"}
      [] s = "SENT" -> {"ACCEPTED", "REJECTED", "EXPIRED", "CONVERTED"}
      [] s = "ACCEPTED" -> {"CONVERTED", "EXPIRED"}
      [] OTHER -> {}]
Quote == [row: {"absent", "present", "erased"}, status: Status, late: BOOLEAN]
Row(status, late) == [row |-> "present", status |-> status, late |-> late]
Work == [stage: {"idle", "converting", "editing"}, quote: QuoteId, status: Status,
         late: BOOLEAN]
Idle == [stage |-> "idle", quote |-> 1, status |-> "DRAFT", late |-> FALSE]

Present(q) == quote[q].row = "present"
At(p, stage) == session[p].stage = stage
Goto(p, w) == session' = [session EXCEPT ![p] = w]
Starts(p) ==
    /\ At(p, "idle")
    /\ "race" \in scene \/ \A r \in Session : At(r, "idle")

\* Quotation.save: what is written for a status.
Saved(status, late) == IF late /\ status \in Open THEN "EXPIRED" ELSE status

\* Mutant: the status of the row is not compared.
AnyStatus(q, status) == TRUE

\* validate_quotation_status_transition: no change, or one of the map; a
\* ValueError otherwise.
Valid(q, status) == status = quote[q].status \/ status \in Allowed[quote[q].status]

-----------------------------------------------------------------------------
\* QuotationCreateView
Create(q, late) ==
    /\ quote[q].row = "absent" /\ \A r \in 1..(q-1) : quote[r].row # "absent"
    /\ quote' = [quote EXCEPT ![q] = Row(Saved("DRAFT", late), late)]
    /\ UNCHANGED <<made, session, night, scene>>

\* The day passes.
Lapse(q) ==
    /\ Present(q) /\ ~quote[q].late
    /\ "drafts" \in scene \/ quote[q].status # "DRAFT"
    /\ quote' = [quote EXCEPT ![q].late = TRUE]
    /\ UNCHANGED <<made, session, night, scene>>

\* The administration sets any status.
Administer(q, status) ==
    LET new == Saved(status, quote[q].late)
    IN  /\ Present(q) /\ Valid(q, new)
        /\ quote' = [quote EXCEPT ![q].status = new]
        /\ UNCHANGED <<made, session, night, scene>>

\* QuotationDeleteView, by POST: the row is deleted.  Left out: a row deleted
\* while a form of it is being saved, which would insert it again.
Erase(q) ==
    /\ Present(q)
    /\ \A p \in Session : ~(At(p, "editing") /\ session[p].quote = q)
    /\ quote' = [quote EXCEPT ![q].row = "erased"]
    /\ UNCHANGED <<made, session, night, scene>>

\* QuotationUpdateView: the row is loaded; its dates may be changed ...
AskEdit(p, q, late) ==
    /\ Starts(p) /\ Present(q)
    /\ Goto(p, [stage |-> "editing", quote |-> q, status |-> quote[q].status,
                late |-> late])
    /\ UNCHANGED <<quote, made, night, scene>>

\* ... and every column is saved, the status loaded included.
CommitEdit(p) ==
    LET q == session[p].quote
        new == Saved(session[p].status, session[p].late)
    IN  /\ At(p, "editing")
        /\ IF Present(q) /\ Valid(q, new)
           THEN quote' = [quote EXCEPT ![q] = Row(new, session[p].late)]
           ELSE UNCHANGED quote
        /\ Goto(p, Idle)
        /\ UNCHANGED <<made, night, scene>>

\* QuotationConvertView: the row is compared without a lock ...
AskConvert(p, q) ==
    /\ Starts(p) /\ Present(q)
    /\ quote[q].status \in Open /\ ~quote[q].late
    /\ made[q] < MostMade
    /\ Goto(p, [stage |-> "converting", quote |-> q, status |-> "CONVERTED",
                late |-> FALSE])
    /\ UNCHANGED <<quote, made, night, scene>>

\* ... and then, in one transaction, an order is made and the status saved.
CommitConvert(p) ==
    LET q == session[p].quote
    IN  /\ At(p, "converting")
        /\ IF Present(q) /\ Valid(q, "CONVERTED")
           THEN /\ made' = [made EXCEPT ![q] = @ + 1]
                /\ quote' = [quote EXCEPT ![q].status = "CONVERTED"]
           ELSE UNCHANGED <<made, quote>>
        /\ Goto(p, Idle)
        /\ UNCHANGED <<night, scene>>

-----------------------------------------------------------------------------
(* expire_quotations, at half past midnight. *)

\* Mutant: only drafts are fetched.
LapsedDrafts == {q \in QuoteId : Present(q) /\ quote[q].late
                                 /\ quote[q].status = "DRAFT"}

Lapsed == {q \in QuoteId : Present(q) /\ quote[q].late /\ quote[q].status \in Open}

\* The rows are fetched ...
NightFetch ==
    /\ night = {} /\ Lapsed # {}
    /\ night' = Lapsed
    /\ UNCHANGED <<quote, made, session, scene>>

\* ... and saved one by one, the newest first; an exception ends the night's
\* work.
NightSave(q) ==
    /\ q \in night /\ \A r \in night : r <= q
    /\ IF Present(q) /\ Valid(q, "EXPIRED")
       THEN /\ quote' = [quote EXCEPT ![q].status = "EXPIRED"]
            /\ night' = night \ {q}
       ELSE /\ night' = {}
            /\ UNCHANGED quote
    /\ UNCHANGED <<made, session, scene>>

-----------------------------------------------------------------------------
\* The quotations are yet to be made, or have been made and deleted before.
Init ==
    /\ \E row \in [QuoteId -> {"absent", "erased"}] :
         quote = [q \in QuoteId |-> [row |-> row[q], status |-> "DRAFT", late |-> FALSE]]
    /\ made = [q \in QuoteId |-> 0]
    /\ session = [p \in Session |-> Idle]
    /\ night = {}
    /\ scene \in Scenes

Requests ==
    \E q \in QuoteId :
        \/ \E late \in BOOLEAN : Create(q, late)
        \/ Lapse(q)
        \/ Erase(q)
        \/ \E status \in Status : Administer(q, status)
        \/ \E p \in Session, late \in BOOLEAN : AskEdit(p, q, late)
        \/ \E p \in Session : AskConvert(p, q)
Answers == \E p \in Session : CommitEdit(p) \/ CommitConvert(p)

Night == NightFetch \/ \E q \in QuoteId : NightSave(q)

Next == Requests \/ Answers \/ Night

\* The scheduler runs the task every night; nothing makes a request arrive.
Fairness == WF_vars(Night)

Spec == Init /\ [][Next]_vars
FairSpec == Spec /\ Fairness

-----------------------------------------------------------------------------
(* What holds. *)

TypeOK ==
    /\ quote \in [QuoteId -> Quote] /\ made \in [QuoteId -> Nat]
    /\ session \in [Session -> Work]
    /\ night \subseteq QuoteId /\ scene \in Scenes

\* However conversions, edits that write back the status they loaded, admin
\* pages and the nightly task race, a quotation an order was made of reads
\* CONVERTED.
ConvertedStays ==
    \A q \in QuoteId : made[q] > 0 /\ Present(q) => quote[q].status = "CONVERTED"

\* One request at a time, a quotation makes one order.
ConvertedOnce == "race" \notin scene => \A q \in QuoteId : made[q] <= 1

\* The docstring of expire_quotations: what has lapsed is expired (or has been
\* prolonged, decided or deleted before).
Pending(q) == Present(q) /\ quote[q].late /\ quote[q].status \in Open
LapsedExpire == \A q \in QuoteId : Pending(q) ~> ~Pending(q)

\* It is, where no draft lapses: the handler refuses to expire a draft, and the
\* exception ends the task before it reaches what is older.
SentExpire == "drafts" \notin scene => LapsedExpire
=============================================================================
