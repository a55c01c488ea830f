------------------------------- MODULE Leave -------------------------------
(***************************************************************************)
(* The leave requests of one employee and year, and the balance of annual   *)
(* leave (apps/attendance).                                                 *)
(*                                                                         *)
(* The balance is moved by the post_save handler, which knows the status    *)
(* before the save only from the history of the row: history[1] is the      *)
(* status before the last entry.  The view that approves does all of it in  *)
(* one transaction; the view that rejects and the API write the row, its    *)
(* history and the balance in three steps, of a row they loaded before.     *)
(*                                                                         *)
(* Abstractions: all requests are of types that count; of the history the   *)
(* last two entries are kept; a transaction is one step, so that it never   *)
(* meets the history entry of a request that began in it.                   *)
(***************************************************************************)
EXTENDS Sums

CONSTANTS
    Requests,   \* bound: requests ever made
    Days,       \* the days asked for
    Total,      \* AnnualLeaveBalance.total_days
    MostUsed,   \* bound: used_days where a step begins
    Session,    \* HTTP requests that may be in progress at once
    Scenes      \* the combinations of entry points

\* "cancel", "grant" and "reopen" set a status by the API, "edit" the days;
\* "admin" does the same by the administration.
EntryPoint == {"approve", "reject", "cancel", "grant", "reopen", "edit", "retire",
               "admin", "race", "crash"}

VARIABLES
    request,    \* LeaveRequest, with the end of its history
    used,       \* AnnualLeaveBalance.used_days
    session,    \* where each HTTP request is, and what it loaded
    scene

vars == <<request, used, session, scene>>

RequestId == 1..Requests
Status == {"PENDING", "APPROVED", "REJECTED", "CANCELLED"}
\* newest, before: the statuses of history[0] and history[1].
Request == [row: {"absent", "active", "retired"}, status: Status, days: Nat,
            newest: Status, before: Status \cup {"none"}]
NoRequest == [row |-> "absent", status |-> "PENDING", days |-> 0,
              newest |-> "PENDING", before |-> "none"]
\* columns: those that are written, of the instance in memory.
Work == [stage: {"idle", "approving", "form", "writing", "logging", "handling"},
         request: RequestId, columns: {"status", "is_active", "all"},
         status: Status, days: Nat]
Idle == [stage |-> "idle", request |-> 1, columns |-> "all", status |-> "PENDING",
         days |-> 0]

At(p, stage) == session[p].stage = stage
Goto(p, w) == session' = [session EXCEPT ![p] = w]
Done(p) == Goto(p, Idle)
AtRest == \A p \in Session : At(p, "idle")
Starts(p, entry, r) ==
    /\ entry \in scene
    /\ At(p, "idle") /\ ("race" \in scene \/ AtRest)
    /\ request[r].row = "active"
    /\ used <= MostUsed
Loaded(r) == [Idle EXCEPT !.request = r, !.status = request[r].status,
                          !.days = request[r].days]

\* LeaveRequestCreateView
Create(r, d) ==
    /\ request[r].row = "absent" /\ \A q \in 1..(r-1) : request[q].row # "absent"
    /\ request' = [request EXCEPT ![r] = [NoRequest EXCEPT !.row = "active", !.days = d]]
    /\ UNCHANGED <<used, session, scene>>

-----------------------------------------------------------------------------
(* What a save does. *)

\* The row after the columns of an instance are written to it.
Written(row, w) ==
    CASE w.columns = "status" -> [row EXCEPT !.status = w.status]
      [] w.columns = "is_active" -> [row EXCEPT !.row = "retired"]
      [] w.columns = "all" -> [row EXCEPT !.row = "active", !.status = w.status,
                                          !.days = w.days]
\* The history gets the status of the instance.
Logged(row, w) == [row EXCEPT !.newest = w.status, !.before = row.newest]

\* Mutant: the status before is not looked at.
CountedAlways(before, w) ==
    IF w.status = "APPROVED" THEN used + w.days
    ELSE IF w.status = "CANCELLED" /\ before = "APPROVED"
         THEN IF used >= w.days THEN used - w.days ELSE 0
         ELSE used

\* update_leave_balance
Counted(before, w) ==
    IF w.status = "APPROVED" /\ before # "APPROVED" THEN used + w.days
    ELSE IF w.status = "CANCELLED" /\ before = "APPROVED"
         THEN IF used >= w.days THEN used - w.days ELSE 0
         ELSE used

SaveAll(p, w) ==
    LET row == Logged(Written(request[w.request], w), w)
    IN  /\ request' = [request EXCEPT ![w.request] = row]
        /\ used' = Counted(row.before, w)
        /\ Done(p)

Write(p) ==
    LET w == session[p]
    IN  /\ At(p, "writing")
        /\ request' = [request EXCEPT ![w.request] = Written(@, w)]
        /\ Goto(p, [w EXCEPT !.stage = "logging"])
        /\ UNCHANGED <<used, scene>>
Log(p) ==
    LET w == session[p]
    IN  /\ At(p, "logging")
        /\ request' = [request EXCEPT ![w.request] = Logged(@, w)]
        /\ Goto(p, [w EXCEPT !.stage = "handling"])
        /\ UNCHANGED <<used, scene>>
Handle(p) ==
    LET w == session[p]
    IN  /\ At(p, "handling")
        /\ used' = Counted(request[w.request].before, w)
        /\ Done(p)
        /\ UNCHANGED <<request, scene>>

-----------------------------------------------------------------------------
(* LeaveApproveView compares the status of a row it read without a lock. *)

\* Mutant: what is left is compared before the days are added.
FitsBefore(days) == used < Total

Fits(days) == used + days <= Total

AskApprove(p, r) ==
    /\ Starts(p, "approve", r) /\ request[r].status = "PENDING"
    /\ Goto(p, [Loaded(r) EXCEPT !.stage = "approving", !.columns = "status",
                                 !.status = "APPROVED"])
    /\ UNCHANGED <<request, used, scene>>

\* The transaction, which holds the balance.
CommitApprove(p) ==
    LET w == session[p]
    IN  /\ At(p, "approving")
        /\ IF Fits(w.days) THEN SaveAll(p, w)
           ELSE Done(p) /\ UNCHANGED <<request, used>>
        /\ UNCHANGED scene

AskReject(p, r) ==
    /\ Starts(p, "reject", r) /\ request[r].status = "PENDING"
    /\ Goto(p, [Loaded(r) EXCEPT !.stage = "writing", !.columns = "status",
                                 !.status = "REJECTED"])
    /\ UNCHANGED <<request, used, scene>>

-----------------------------------------------------------------------------
(* LeaveRequestViewSet, and the administration, which saves in a transaction *)
(* what its form showed.                                                     *)

\* The status and the days that the data of a form make of a request.
Change(r, s, d) ==
    \/ /\ d = request[r].days
       /\ \/ "cancel" \in scene /\ s = "CANCELLED"
          \/ "grant" \in scene /\ s = "APPROVED"
          \/ "reopen" \in scene /\ s \in {"PENDING", "REJECTED"}
    \/ "edit" \in scene /\ s = request[r].status /\ d \in Days

AskPatch(p, r) ==
    \E s \in Status, d \in Days \cup {request[r].days},
       entry \in {"cancel", "grant", "reopen", "edit"} :
        /\ Starts(p, entry, r) /\ Change(r, s, d)
        /\ Goto(p, [Loaded(r) EXCEPT !.stage = "writing", !.status = s, !.days = d])
        /\ UNCHANGED <<request, used, scene>>
AskAdmin(p, r) ==
    \E s \in Status, d \in Days \cup {request[r].days} :
        /\ Starts(p, "admin", r) /\ Change(r, s, d)
        /\ Goto(p, [Loaded(r) EXCEPT !.stage = "form", !.status = s, !.days = d])
        /\ UNCHANGED <<request, used, scene>>
CommitAdmin(p) ==
    /\ At(p, "form")
    /\ SaveAll(p, session[p])
    /\ UNCHANGED scene

\* BaseModelViewSet.perform_destroy
AskRetire(p, r) ==
    /\ Starts(p, "retire", r)
    /\ Goto(p, [Loaded(r) EXCEPT !.stage = "writing", !.columns = "is_active"])
    /\ UNCHANGED <<request, used, scene>>

\* The worker is killed.
Crash(p) ==
    /\ "crash" \in scene /\ ~At(p, "idle")
    /\ Done(p)
    /\ UNCHANGED <<request, used, scene>>

-----------------------------------------------------------------------------
Init ==
    /\ scene \in Scenes
    /\ request = [r \in RequestId |-> NoRequest]
    /\ used = 0
    /\ session = [p \in Session |-> Idle]

Next ==
    \/ \E r \in RequestId, d \in Days : Create(r, d)
    \/ \E p \in Session :
         \/ \E r \in RequestId :
              AskApprove(p, r) \/ AskReject(p, r) \/ AskPatch(p, r) \/ AskAdmin(p, r)
              \/ AskRetire(p, r)
         \/ CommitApprove(p) \/ CommitAdmin(p) \/ Write(p) \/ Log(p) \/ Handle(p) \/ Crash(p)

Spec == Init /\ [][Next]_vars

-----------------------------------------------------------------------------
(* What holds. *)

TypeOK ==
    /\ scene \in Scenes /\ used \in Nat
    /\ request \in [RequestId -> Request] /\ session \in [Session -> Work]

Granted == [r \in RequestId |->
                IF request[r].status = "APPROVED" THEN request[r].days ELSE 0]

\* The days used are those of the approved requests, the deleted ones
\* included, whenever nothing is in progress: however managers race to approve
\* and die, and through every entry point, one at a time, that neither edits
\* the days nor moves an approved request back.
UsedExact ==
    AtRest /\ (scene \subseteq {"approve", "race", "crash"}
               \/ scene \subseteq EntryPoint \ {"reopen", "edit", "race", "crash"}) =>
        used = SumTo(Granted, Requests)

\* As long as requests are approved by the view alone, no more days are used
\* than there are, whatever is rejected, cancelled and moved back meanwhile.
WithinTotal ==
    scene \cap {"grant", "edit", "retire"} = {} => used <= Total
=============================================================================
