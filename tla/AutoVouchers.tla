---------------------------- MODULE AutoVouchers -----------------------------
(***************************************************************************)
(* Documents whose status posts a voucher or a receivable by itself: an     *)
(* expense claim (apps/expense), a distribution to an investor              *)
(* (apps/investment) and a paid repair (apps/service).                      *)
(*                                                                         *)
(* All three look for what they would post by a text that holds the number  *)
(* of the document, in a statement of its own, and post it if there is none.*)
(* A claim posts after every save that leaves it approved; a distribution   *)
(* after its row is written, if the status that its pre_save handler read   *)
(* was another; a repair before its row is written, where a cancellation    *)
(* also voids what it posted.                                               *)
(*                                                                         *)
(* Abstractions: one document; its amount is positive, the account codes    *)
(* exist, and the repair is not under warranty and its customer a partner.  *)
(***************************************************************************)
EXTENDS Naturals

CONSTANTS
    MostPosted, \* bound: live vouchers of one type
    Session,    \* requests that may be in progress at once
    Scenes      \* the combinations of entry points

EntryPoint == {"patch", "race", "crash"}
Kind == {"claim", "distribution", "repair"}

VARIABLES
    kind,       \* which document it is
    status,     \* its status
    posted,     \* the live vouchers, or receivables, by type
    session, scene

vars == <<kind, status, posted, session, scene>>

StatusOf(k) ==
    CASE k = "claim" -> {"DRAFT", "SUBMITTED", "APPROVED", "REJECTED", "PAID"}
      [] k = "distribution" -> {"SCHEDULED", "PENDING", "PAID", "CANCELLED"}
      [] k = "repair" -> {"RECEIVED", "INSPECTING", "REPAIRING", "COMPLETED", "RETURNED",
                          "CANCELLED"}
First == [claim |-> "DRAFT", distribution |-> "SCHEDULED", repair |-> "RECEIVED"]
Status == UNION {StatusOf(k) : k \in Kind}
Type == {"payment", "transfer", "receivable"}

Work == [stage: {"idle", "saving", "voiding", "looking", "posting", "writing"},
         old: Status, to: Status]
Idle == [stage |-> "idle", old |-> "DRAFT", to |-> "DRAFT"]

At(p, stage) == session[p].stage = stage
Goto(p, w) == session' = [session EXCEPT ![p] = w]
Done(p) == Goto(p, Idle)
AtRest == \A p \in Session : At(p, "idle")
Starts(p) == At(p, "idle") /\ ("race" \in scene \/ AtRest)

-----------------------------------------------------------------------------
(* What may be asked for. *)

\* ExpenseClaimSubmitView, ExpenseClaimApproveView, ExpenseClaimRejectView
ClaimViews == {<<"DRAFT", "SUBMITTED">>, <<"SUBMITTED", "APPROVED">>, <<"SUBMITTED", "REJECTED">>}

\* ServiceRequest.STATUS_TRANSITIONS, which its form checks.
RepairMap ==
    [RECEIVED |-> {"INSPECTING", "CANCELLED"},
     INSPECTING |-> {"REPAIRING", "RETURNED", "CANCELLED"},
     REPAIRING |-> {"COMPLETED", "CANCELLED"},
     COMPLETED |-> {"RETURNED"}, RETURNED |-> {}, CANCELLED |-> {}]

\* The form of a distribution takes any status.
Offered(to) ==
    CASE kind = "claim" -> <<status, to>> \in ClaimViews
      [] kind = "repair" -> to = status \/ to \in RepairMap[status]
      [] kind = "distribution" -> TRUE

\* The API writes any status of a claim or of a repair.
Ask(p, to) ==
    /\ Starts(p)
    /\ Offered(to) \/ ("patch" \in scene /\ kind # "distribution")
    /\ Goto(p, [stage |-> "saving", old |-> status, to |-> to])
    /\ UNCHANGED <<kind, status, posted, scene>>

-----------------------------------------------------------------------------
(* What a save posts. *)

\* The type that the handlers of the document post on the way to a status.
Posts(to) ==
    CASE kind = "claim" -> "payment"
      [] kind = "repair" -> "receivable"
      [] kind = "distribution" -> IF to = "PENDING" THEN "transfer" ELSE "payment"

\* Mutant: posted on the way from one status only.
PostsAfterPending(w) ==
    \/ kind = "claim" /\ w.to = "APPROVED"
    \/ kind = "distribution" /\ <<w.old, w.to>> \in {<<"SCHEDULED", "PENDING">>, <<"PENDING", "PAID">>}

\* expense_claim_approved_voucher, distribution_create_voucher
PostsAfter(w) ==
    \/ kind = "claim" /\ w.to = "APPROVED"
    \/ kind = "distribution" /\ w.to \in {"PENDING", "PAID"} /\ w.old # w.to

\* auto_ar_on_service_completed
PostsBefore(w) == kind = "repair" /\ w.to = "COMPLETED" /\ w.old # "COMPLETED"

\* Mutant: only what was completed is voided.
VoidsCompleted(w) == kind = "repair" /\ w.to = "CANCELLED" /\ w.old = "COMPLETED"

\* cancel_ar_on_service_cancelled
Voids(w) == kind = "repair" /\ w.to = "CANCELLED" /\ w.old # "CANCELLED"

\* The pre_save handlers read the row again.
ReadOld(p) ==
    LET w == [session[p] EXCEPT !.old = status]
    IN  /\ At(p, "saving")
        /\ Goto(p, [w EXCEPT !.stage =
              IF PostsBefore(w) THEN "looking" ELSE IF Voids(w) THEN "voiding" ELSE "writing"])
        /\ UNCHANGED <<kind, status, posted, scene>>

Void(p) ==
    /\ At(p, "voiding")
    /\ posted' = [posted EXCEPT !["receivable"] = 0]
    /\ Goto(p, [session[p] EXCEPT !.stage = "writing"])
    /\ UNCHANGED <<kind, status, scene>>

\* Where a document goes on once its handler has posted, or found, a voucher.
Resume(p, w) ==
    IF kind = "repair" THEN Goto(p, [w EXCEPT !.stage = "writing"]) ELSE Done(p)

\* Mutant: what is there is not looked for.
FoundNever(to) == FALSE

\* The search by the number of the document.
Found(to) == posted[Posts(to)] > 0

Look(p) ==
    LET w == session[p]
    IN  /\ At(p, "looking")
        /\ IF Found(w.to) THEN Resume(p, w) ELSE Goto(p, [w EXCEPT !.stage = "posting"])
        /\ UNCHANGED <<kind, status, posted, scene>>

Post(p) ==
    LET w == session[p]
    IN  /\ At(p, "posting") /\ posted[Posts(w.to)] < MostPosted
        /\ posted' = [posted EXCEPT ![Posts(w.to)] = @ + 1]
        /\ Resume(p, w)
        /\ UNCHANGED <<kind, status, scene>>

Write(p) ==
    LET w == session[p]
    IN  /\ At(p, "writing")
        /\ status' = w.to
        /\ IF PostsAfter(w) THEN Goto(p, [w EXCEPT !.stage = "looking"]) ELSE Done(p)
        /\ UNCHANGED <<kind, posted, scene>>

\* The worker is killed; what was committed stays.
Crash(p) ==
    /\ "crash" \in scene /\ ~At(p, "idle")
    /\ Done(p)
    /\ UNCHANGED <<kind, status, posted, scene>>

-----------------------------------------------------------------------------
Init ==
    /\ scene \in Scenes
    /\ kind \in Kind /\ status = First[kind]
    /\ posted = [t \in Type |-> 0]
    /\ session = [p \in Session |-> Idle]

Next ==
    \E p \in Session :
        \/ \E to \in StatusOf(kind) : Ask(p, to)
        \/ ReadOld(p) \/ Void(p) \/ Look(p) \/ Post(p) \/ Write(p) \/ Crash(p)

Spec == Init /\ [][Next]_vars

-----------------------------------------------------------------------------
(* What holds. *)

TypeOK ==
    /\ scene \in Scenes
    /\ kind \in Kind /\ status \in StatusOf(kind)
    /\ posted \in [Type -> Nat] /\ session \in [Session -> Work]

\* One request at a time, wherever it dies and however often it is repeated,
\* a document posts each of its vouchers at most once.
PostedOnce == "race" \notin scene => \A t \in Type : posted[t] <= 1

\* If no request dies, an approved claim and a distribution that is decided or
\* paid have their voucher, however requests race; a completed repair has its
\* receivable if they do not.
DonePosted ==
    "crash" \notin scene /\ AtRest =>
        /\ kind = "claim" /\ status = "APPROVED" => posted["payment"] > 0
        /\ kind = "distribution" /\ status = "PENDING" => posted["transfer"] > 0
        /\ kind = "distribution" /\ status = "PAID" => posted["payment"] > 0
        /\ "race" \notin scene /\ status = "COMPLETED" => posted["receivable"] > 0

\* A cancelled repair leaves no receivable, wherever the requests before it
\* died, unless one was killed that completes, by the API, what is cancelled.
CancelledRepairOwesNothing ==
    "race" \notin scene /\ ~({"patch", "crash"} \subseteq scene) =>
        (kind = "repair" /\ status = "CANCELLED" /\ AtRest => posted["receivable"] = 0)
=============================================================================
