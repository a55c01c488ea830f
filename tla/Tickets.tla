------------------------------ MODULE Tickets ------------------------------
(***************************************************************************)
(* Helpdesk tickets and the job that looks for breaches of their service    *)
(* levels every half hour (apps/helpdesk).                                  *)
(*                                                                         *)
(* The job works on the tickets it read when it started: it records a       *)
(* breach that has no row yet and raises the priority, which saves the      *)
(* ticket and so runs the check of its status against STATUS_TRANSITIONS.   *)
(* The status checked is the one it read: where a request has closed the    *)
(* ticket meanwhile the check raises, and the job ends there.  A request    *)
(* loads a ticket, checks the change, and writes, without a lock.           *)
(*                                                                         *)
(* Abstractions: of a ticket the status, the priority and whether its two   *)
(* times are past; a form keeps the priority it loaded; one request is in   *)
(* progress beside the job; notifications are left out.                     *)
(***************************************************************************)
EXTENDS Naturals

CONSTANTS
    Tickets,    \* the tickets are numbered 1..Tickets, the newest last
    Patched,    \* the statuses the API sets
    First,      \* the priority of a new ticket
    Session,    \* the requests, one at a time
    Scenes      \* the combinations of entry points

EntryPoint == {"job", "assign", "resolve", "close", "edit", "patch"}

VARIABLES
    ticket,     \* Ticket, with its SLABreach rows
    job,        \* check_sla_breaches
    session,    \* where each request is, and the ticket it loaded
    scene

vars == <<ticket, job, session, scene>>

TicketId == 1..Tickets
Status == {"OPEN", "ASSIGNED", "IN_PROGRESS", "WAITING", "RESOLVED", "CLOSED"}
Kind == {"RESPONSE", "RESOLUTION"}
Urgent == 3     \* LOW, MEDIUM, HIGH and URGENT are 0..3
\* STATUS_TRANSITIONS, of the model and of the handler
Allowed == [s \in Status |->
    CASE s = "OPEN" -> {"ASSIGNED", "IN_PROGRESS", "CLOSED"}
      [] s = "ASSIGNED" -> {"IN_PROGRESS", "WAITING", "OPEN"}
      [] s = "IN_PROGRESS" -> {"WAITING", "RESOLVED", "OPEN"}
      [] s = "WAITING" -> {"IN_PROGRESS", "RESOLVED"}
      [] s = "RESOLVED" -> {"CLOSED", "IN_PROGRESS"}
      [] s = "CLOSED" -> {}]
\* past: the kinds whose time is over; breached: those with a row.
Ticket == [status: Status, priority: 0..Urgent, past: SUBSET Kind, breached: SUBSET Kind]
New == [status |-> "OPEN", priority |-> First, past |-> {}, breached |-> {}]
\* todo: what is left to examine; status, priority, past: of the tickets read.
Job == [stage: {"idle", "looking", "raising"},
        todo: SUBSET [ticket: TicketId, kind: Kind], status: [TicketId -> Status],
        priority: [TicketId -> 0..Urgent], past: [TicketId -> SUBSET Kind]]
NoJob == [stage |-> "idle", todo |-> {}, status |-> [t \in TicketId |-> "OPEN"],
          priority |-> [t \in TicketId |-> 0], past |-> [t \in TicketId |-> {}]]
\* columns: those that are written.
Work == [stage: {"idle", "checking", "writing"}, ticket: TicketId,
         columns: {"status", "all"}, status: Status, priority: 0..Urgent]
Idle == [stage |-> "idle", ticket |-> 1, columns |-> "all", status |-> "OPEN",
         priority |-> 0]

At(p, stage) == session[p].stage = stage
Goto(p, w) == session' = [session EXCEPT ![p] = w]
Done(p) == Goto(p, Idle)
Starts(p, entry) ==
    entry \in scene /\ \A q \in Session : At(q, "idle")

Examined == {"OPEN", "IN_PROGRESS", "ASSIGNED"}

\* Mutant: the handler lets every change of status pass.
PassesAll(old, new) == TRUE

\* validate_ticket_status_transition
Passes(old, new) == new = old \/ new \in Allowed[old]

-----------------------------------------------------------------------------
(* Requests. *)

Loaded(t) == [stage |-> "checking", ticket |-> t, columns |-> "all",
              status |-> ticket[t].status, priority |-> ticket[t].priority]

\* TicketAssignView, TicketResolveView, TicketCloseView, TicketUpdateView and
\* TicketViewSet, up to the save.
AskAssign(p, t) ==
    /\ Starts(p, "assign")
    /\ Goto(p, [Loaded(t) EXCEPT !.status = IF @ = "OPEN" THEN "ASSIGNED" ELSE @])
    /\ UNCHANGED <<ticket, job, scene>>
AskResolve(p, t) ==
    /\ Starts(p, "resolve")
    /\ Goto(p, [Loaded(t) EXCEPT !.status = "RESOLVED", !.columns = "status"])
    /\ UNCHANGED <<ticket, job, scene>>
AskClose(p, t) ==
    /\ Starts(p, "close")
    /\ Goto(p, [Loaded(t) EXCEPT !.status = "CLOSED", !.columns = "status"])
    /\ UNCHANGED <<ticket, job, scene>>
AskEdit(p, t) ==
    /\ Starts(p, "edit")
    /\ Goto(p, Loaded(t))
    /\ UNCHANGED <<ticket, job, scene>>
AskPatch(p, t, s) ==
    /\ Starts(p, "patch")
    /\ Goto(p, [Loaded(t) EXCEPT !.status = s])
    /\ UNCHANGED <<ticket, job, scene>>

\* pre_save
Check(p) ==
    LET w == session[p]
    IN  /\ At(p, "checking")
        /\ IF Passes(ticket[w.ticket].status, w.status)
           THEN Goto(p, [w EXCEPT !.stage = "writing"]) ELSE Done(p)
        /\ UNCHANGED <<ticket, job, scene>>
Write(p) ==
    LET w == session[p]
    IN  /\ At(p, "writing")
        /\ ticket' = [ticket EXCEPT
              ![w.ticket].status = w.status,
              ![w.ticket].priority = IF w.columns = "all" THEN w.priority ELSE @]
        /\ Done(p)
        /\ UNCHANGED <<job, scene>>

\* Time passes.
Lapse(t, k) ==
    /\ "job" \in scene /\ k \notin ticket[t].past
    /\ ticket' = [ticket EXCEPT ![t].past = @ \cup {k}]
    /\ UNCHANGED <<job, session, scene>>

-----------------------------------------------------------------------------
(* check_sla_breaches *)

Looking(stage) == "job" \in scene /\ job.stage = stage
\* Every ticket read is examined for its response, then for its resolution,
\* the newest first.
Before(x, y) ==
    x.ticket > y.ticket \/ (x.ticket = y.ticket /\ (x.kind = "RESPONSE" \/ x.kind = y.kind))
Next1 == CHOOSE x \in job.todo : \A y \in job.todo : Before(x, y)
GoOn == [job EXCEPT !.stage = IF job.todo = {Next1} THEN "idle" ELSE "looking",
                    !.todo = @ \ {Next1}]

ToExamine == {x \in [ticket: TicketId, kind: Kind] : ticket[x.ticket].status \in Examined}

StartJob ==
    /\ Looking("idle")
    /\ ToExamine # {}
    /\ job' = [stage |-> "looking",
               todo |-> ToExamine,
               status |-> [t \in TicketId |-> ticket[t].status],
               priority |-> [t \in TicketId |-> ticket[t].priority],
               past |-> [t \in TicketId |-> ticket[t].past]]
    /\ UNCHANGED <<ticket, session, scene>>

\* Mutant: the row of another breach of the ticket is taken for this one's.
NewBreachAny(t, k) == ticket[t].breached = {}

\* get_or_create
NewBreach(t, k) == k \notin ticket[t].breached

\* Mutant: the highest priority is raised too.
RaisesAll(priority) == TRUE

\* _escalate_priority knows nothing above URGENT.
Raises(priority) == priority < Urgent

Look ==
    LET t == Next1.ticket
        k == Next1.kind
        new == k \in job.past[t] /\ NewBreach(t, k)
    IN  /\ Looking("looking")
        /\ ticket' = IF new THEN [ticket EXCEPT ![t].breached = @ \cup {k}] ELSE ticket
        /\ job' = IF new /\ Raises(job.priority[t]) THEN [job EXCEPT !.stage = "raising"]
                  ELSE GoOn
        /\ UNCHANGED <<session, scene>>

\* _escalate_priority: the priority read, one higher.
Raise ==
    LET t == Next1.ticket
    IN  /\ Looking("raising") /\ Passes(ticket[t].status, job.status[t])
        /\ ticket' = [ticket EXCEPT ![t].priority = job.priority[t] + 1]
        /\ job' = [GoOn EXCEPT !.priority[t] = @ + 1]
        /\ UNCHANGED <<session, scene>>

\* The check of the status raises: the job fails, its other tickets unseen.
FailJob ==
    LET t == Next1.ticket
    IN  /\ Looking("raising") /\ ~Passes(ticket[t].status, job.status[t])
        /\ job' = NoJob
        /\ UNCHANGED <<ticket, session, scene>>

-----------------------------------------------------------------------------
Init ==
    /\ scene \in Scenes
    /\ ticket = [t \in TicketId |-> New]
    /\ job = NoJob
    /\ session = [p \in Session |-> Idle]

JobNext == StartJob \/ Look \/ Raise \/ FailJob

Next ==
    \/ \E p \in Session :
         \/ \E t \in TicketId :
              AskAssign(p, t) \/ AskResolve(p, t) \/ AskClose(p, t) \/ AskEdit(p, t)
              \/ (\E s \in Patched : AskPatch(p, t, s))
         \/ Check(p) \/ Write(p)
    \/ \E t \in TicketId, k \in Kind : Lapse(t, k)
    \/ JobNext

\* Celery beat starts the job every half hour, and a worker runs it.
Fairness == WF_vars(JobNext)

Spec == Init /\ [][Next]_vars /\ Fairness

-----------------------------------------------------------------------------
(* What holds. *)

TypeOK ==
    /\ scene \in Scenes /\ job \in Job
    /\ ticket \in [TicketId -> Ticket] /\ session \in [Session -> Work]

\* One request at a time beside the job, every change of a status is one of
\* STATUS_TRANSITIONS.
FollowsMap == \A t \in TicketId :
    ticket'[t].status \in {ticket[t].status} \cup Allowed[ticket[t].status]
StatusFollowsMap == [][FollowsMap]_vars

\* A ticket whose time is over and whose breach has no row.
Unnoticed(t, k) ==
    ticket[t].status \in Examined /\ k \in ticket[t].past \ ticket[t].breached

\* A time that is over is noticed: the ticket gets its breach or leaves the
\* statuses the job looks at, although requests make the job fail.
BreachNoticed ==
    \A t \in TicketId, k \in Kind : Unnoticed(t, k) ~> ~Unnoticed(t, k)
=============================================================================
