------------------------------ MODULE Approval ------------------------------
(***************************************************************************)
(* An approval request and its line: the levels (step_order) a request goes *)
(* through and the steps of each, as apps/approval keeps them.  A step is   *)
(* acted on in one transaction that locks its row only: the request is      *)
(* compared before it and read again in the handler, and what a step of the *)
(* same level is doing in another transaction is not seen until it commits. *)
(*                                                                         *)
(* Abstractions: the mode is that of a level, not of each step; delegation, *)
(* notifications and the role change a request may stand for are not here.  *)
(***************************************************************************)
EXTENDS Naturals, Sequences, FiniteSetsExt

CONSTANTS
    Lines,      \* approval lines: sequences of levels [mode, width]
    Session,    \* requests that may be in progress at once
    Scenes      \* the combinations of entry points

\* "approver": ApprovalActionView, which decides past the line.
EntryPoint == {"reject", "submit", "edit", "approver", "race"}

VARIABLES
    line,       \* the line of the request
    request,    \* ApprovalRequest
    step,       \* ApprovalStep.status
    session,    \* where each request is, and what it loaded
    scene

vars == <<line, request, step, session, scene>>

Mode == {"SEQUENTIAL", "ALL", "ANY"}
Level == 1..Len(line)
Of(i) == {i} \X (1..line[i].width)
Step == UNION {Of(i) : i \in Level}
Status == {"DRAFT", "SUBMITTED", "APPROVED", "REJECTED"}
Final == {"APPROVED", "REJECTED"}
StepStatus == {"PENDING", "APPROVED", "REJECTED", "SKIPPED"}
\* outcome: what the handler will write to the request; current: the level.
Work == [stage: {"idle", "acting", "deciding", "writing", "submitting", "editing",
                 "overruling"},
         step: Nat \X Nat, verdict: Final, status: Status, current: Nat,
         outcome: {"nothing", "advance", "approve", "reject"}]
Idle == [stage |-> "idle", step |-> <<1, 1>>, verdict |-> "APPROVED",
         status |-> "DRAFT", current |-> 1, outcome |-> "nothing"]

At(p, stage) == session[p].stage = stage
Goto(p, w) == session' = [session EXCEPT ![p] = w]
Done(p) == Goto(p, Idle)
Starts(p) ==
    /\ At(p, "idle")
    /\ "race" \in scene \/ \A q \in Session : At(q, "idle")
Verdicts == IF "reject" \in scene THEN Final ELSE {"APPROVED"}
\* Every column of the request as it was loaded.
Loaded(stage) ==
    [Idle EXCEPT !.stage = stage, !.status = request.status, !.current = request.current]

Mine(p) == session[p].step
ModeOf(p) == line[Mine(p)[1]].mode
Siblings(s) == Of(s[1]) \ {s}
Pending(ss) == {s \in ss : step[s] = "PENDING"}
\* The rows a transaction has locked: its step, and those it has skipped.
Skips(p) ==
    session[p].verdict = "APPROVED" /\ ModeOf(p) = "ANY" /\ session[p].status \notin Final
Locks(p) ==
    IF At(p, "deciding") \/ At(p, "writing")
    THEN {Mine(p)} \cup (IF At(p, "writing") /\ Skips(p) THEN Pending(Siblings(Mine(p)))
                         ELSE {})
    ELSE {}
LockedByOthers(p, s) == \E q \in Session \ {p} : s \in Locks(q)

-----------------------------------------------------------------------------
(* ApprovalStepActionView and handle_approval_step_change. *)

\* The request is loaded and compared without a lock ...
Ask(p, s, verdict) ==
    /\ Starts(p)
    /\ request.status = "SUBMITTED" /\ s[1] = request.current
    /\ Goto(p, [Loaded("acting") EXCEPT !.step = s, !.verdict = verdict])
    /\ UNCHANGED <<line, request, step, scene>>

\* ... the step is locked, and saved unless it was acted on; the handler reads
\* the request again ...
LockStep(p) ==
    /\ At(p, "acting") /\ ~LockedByOthers(p, Mine(p))
    /\ IF step[Mine(p)] = "PENDING"
       THEN Goto(p, [session[p] EXCEPT !.stage = "deciding", !.status = request.status])
       ELSE Done(p)
    /\ UNCHANGED <<line, request, step, scene>>

\* Mutant: the first of a level that needs all passes it.
FirstPasses(p) == TRUE

\* Whether the level is passed with this step.
Passes(p) == ModeOf(p) = "ALL" => Pending(Siblings(Mine(p))) = {}

\* Mutant: the level after the next.
NextLevelFurther(i) ==
    LET later == {j \in Level : j > i + 1 /\ Pending(Of(j)) # {}}
    IN  IF later = {} THEN 0 ELSE Min(later)

\* The level _advance_to_next_order goes to, or 0 when none is left.
NextLevel(i) ==
    LET later == {j \in Level : j > i /\ Pending(Of(j)) # {}}
    IN  IF later = {} THEN 0 ELSE Min(later)

\* What becomes of the request by this step.
Outcome(p) ==
    CASE session[p].status \in Final -> "nothing"
      [] session[p].status \notin Final /\ session[p].verdict = "REJECTED" -> "reject"
      [] session[p].status \notin Final /\ session[p].verdict = "APPROVED" ->
             IF ~Passes(p) THEN "nothing"
             ELSE IF NextLevel(Mine(p)[1]) = 0 THEN "approve" ELSE "advance"

\* ... and the steps beside and after this one: what was not committed yet is
\* PENDING.  Skipping the others of an ANY level waits for their locks.
Look(p) ==
    /\ At(p, "deciding")
    /\ Skips(p) => \A s \in Pending(Siblings(Mine(p))) : ~LockedByOthers(p, s)
    /\ Goto(p, [session[p] EXCEPT !.stage = "writing", !.outcome = Outcome(p),
                                  !.current = NextLevel(Mine(p)[1])])
    /\ UNCHANGED <<line, request, step, scene>>

\* Two that skip each other: the database ends one of the transactions.
Deadlocked(p) ==
    /\ At(p, "deciding") /\ Skips(p)
    /\ \E q \in Session \ {p} :
          At(q, "deciding") /\ Skips(q) /\ Mine(q) \in Siblings(Mine(p))
    /\ Done(p)
    /\ UNCHANGED <<line, request, step, scene>>

\* What the handler writes, by update_fields.
Written(w) ==
    CASE w.outcome = "nothing" -> request
      [] w.outcome = "reject" -> [request EXCEPT !.status = "REJECTED"]
      [] w.outcome = "approve" -> [request EXCEPT !.status = "APPROVED"]
      [] w.outcome = "advance" -> [request EXCEPT !.current = w.current]

Skipped(p) == IF Skips(p) THEN Pending(Siblings(Mine(p))) ELSE {}

Commit(p) ==
    LET gone == Skipped(p)
    IN  /\ At(p, "writing")
        /\ request' = Written(session[p])
        /\ step' = [s \in Step |-> IF s = Mine(p) THEN session[p].verdict
                                   ELSE IF s \in gone THEN "SKIPPED" ELSE step[s]]
        /\ Done(p)
        /\ UNCHANGED <<line, scene>>

-----------------------------------------------------------------------------
(* What else writes the request. *)

\* ApprovalSubmitView: compared without a lock, and written by update_fields.
AskSubmit(p) ==
    /\ Starts(p) /\ request.status = "DRAFT"
    /\ "submit" \in scene \/ \A q \in Session : ~At(q, "submitting")
    /\ Goto(p, Loaded("submitting"))
    /\ UNCHANGED <<line, request, step, scene>>
CommitSubmit(p) ==
    /\ At(p, "submitting")
    /\ request' = [status |-> "SUBMITTED",
                   current |-> IF Len(line) > 0 THEN 1 ELSE request.current]
    /\ Done(p)
    /\ UNCHANGED <<line, step, scene>>

\* ApprovalUpdateView: a draft; every column is saved as it was loaded.
AskEdit(p) ==
    /\ "edit" \in scene
    /\ Starts(p) /\ request.status = "DRAFT"
    /\ Goto(p, Loaded("editing"))
    /\ UNCHANGED <<line, request, step, scene>>
CommitEdit(p) ==
    /\ At(p, "editing")
    /\ request' = [status |-> session[p].status, current |-> session[p].current]
    /\ Done(p)
    /\ UNCHANGED <<line, step, scene>>

\* ApprovalActionView: the approver of the request, whether it has steps or not.
AskOverrule(p, verdict) ==
    /\ "approver" \in scene
    /\ Starts(p) /\ request.status = "SUBMITTED"
    /\ Goto(p, [Loaded("overruling") EXCEPT !.verdict = verdict])
    /\ UNCHANGED <<line, request, step, scene>>
CommitOverrule(p) ==
    /\ At(p, "overruling")
    /\ request' = [status |-> session[p].verdict, current |-> session[p].current]
    /\ Done(p)
    /\ UNCHANGED <<line, step, scene>>

-----------------------------------------------------------------------------
Init ==
    /\ scene \in Scenes
    /\ line \in Lines
    /\ request = [status |-> "DRAFT", current |-> 1]
    /\ step = [s \in Step |-> "PENDING"]
    /\ session = [p \in Session |-> Idle]

Asks(p) ==
    \/ \E s \in Step, verdict \in Verdicts : Ask(p, s, verdict)
    \/ AskSubmit(p)
    \/ AskEdit(p)
    \/ \E verdict \in Final : AskOverrule(p, verdict)
Answers(p) ==
    LockStep(p) \/ Look(p) \/ Deadlocked(p) \/ Commit(p)
    \/ CommitSubmit(p) \/ CommitEdit(p) \/ CommitOverrule(p)

Next == \E p \in Session : Asks(p) \/ Answers(p)

Spec == Init /\ [][Next]_vars

-----------------------------------------------------------------------------
(* What holds. *)

AtRest == \A p \in Session : At(p, "idle")

TypeOK ==
    /\ line \in Lines /\ scene \in Scenes
    /\ request \in [status: Status, current: Nat]
    /\ step \in [Step -> StepStatus]
    /\ session \in [Session -> Work]

\* What a level asks for: one approval of an ANY level, all of an ALL level.
Passed(i) ==
    IF line[i].mode = "ALL" THEN \A s \in Of(i) : step[s] = "APPROVED"
    ELSE \E s \in Of(i) : step[s] = "APPROVED"

\* Every level without a mode has one step.
Serial == \A i \in Level : line[i].mode = "SEQUENTIAL" => line[i].width = 1

\* However approvals, submissions and edits race, and where levels are serial
\* rejections too, a request that its line approved was approved at every level.
EveryLevelApproved ==
    /\ request.status = "APPROVED" /\ "approver" \notin scene
    /\ Serial \/ ~({"race", "reject"} \subseteq scene)
    => \A i \in Level : \E s \in Of(i) : step[s] = "APPROVED"

\* One at a time, the request follows its line: the levels before the current
\* one are passed, those of an approved request all are, and it is rejected
\* exactly when a step is.
FollowsLine ==
    scene \cap {"race", "approver"} = {} =>
        /\ request.status \in {"SUBMITTED", "APPROVED"} =>
               \A i \in Level : i < request.current \/ request.status = "APPROVED"
                                    => Passed(i)
        /\ AtRest => (request.status = "REJECTED"
                        <=> \E s \in Step : step[s] = "REJECTED")

\* A submitted request always waits for somebody: one at a time, and in any
\* race of approvers where no level has several steps but to choose from.
SomebodyDecides ==
    /\ AtRest /\ request.status = "SUBMITTED" /\ Len(line) > 0
    /\ "approver" \notin scene
    /\ "race" \notin scene
       \/ /\ scene \cap {"reject", "submit", "edit"} = {}
          /\ Serial /\ \A i \in Level : line[i].mode # "ALL"
    => Pending(Of(request.current)) # {}
=============================================================================
