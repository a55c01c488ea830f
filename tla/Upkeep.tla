------------------------------- MODULE Upkeep --------------------------------
(***************************************************************************)
(* A machine, its maintenance schedules and the work orders on it, as       *)
(* apps/cmms keeps them.                                                    *)
(*                                                                         *)
(* Saving the machine as broken down opens an emergency order and a record  *)
(* of its downtime; saving an order as completed sets the machine running   *)
(* and puts its schedule off.  Both happen in a post_save handler, after    *)
(* the row is committed, and depend on the status the pre_save handler read *)
(* before it.  Every morning a job opens an order for each schedule that is *)
(* due and has none.                                                        *)
(*                                                                         *)
(* Abstractions: a schedule is due or not, and is put off by a positive     *)
(* number of days; a downtime record is made with its emergency order and   *)
(* never changed by the program; spare parts are data.                      *)
(***************************************************************************)
EXTENDS Naturals

CONSTANTS
    Schedules,  \* schedules are numbered 1..Schedules
    Orders,     \* bound: work orders are numbered 1..Orders
    Session,    \* requests that may be in progress at once
    Scenes      \* the combinations of entry points

EntryPoint == {"machine", "retire", "order", "patch", "reopen", "job", "race", "crash"}

VARIABLES
    machine,    \* Equipment.status
    due,        \* the schedules whose next_due has come
    wo,         \* MaintenanceWorkOrder
    job,        \* check_preventive_maintenance
    session, scene

vars == <<machine, due, wo, job, session, scene>>

ScheduleId == 1..Schedules
OrderId == 1..Orders
MachineStatus == {"ACTIVE", "MAINTENANCE", "RETIRED"}
Status == {"OPEN", "IN_PROGRESS", "COMPLETED", "CANCELLED"}
\* schedule: 0 for none; emergency: opened by a breakdown, with its downtime.
Order == [status: {"absent"} \cup Status, schedule: 0..Schedules, emergency: BOOLEAN]
NoOrder == [status |-> "absent", schedule |-> 0, emergency |-> FALSE]

\* old: the status the pre_save handler read; to: the status to be saved.
Work == [stage: {"idle", "machine", "broken", "order", "finished"}, order: 0..Orders,
         old: {"none"} \cup MachineStatus \cup Status, to: {"none"} \cup MachineStatus \cup Status]
Idle == [stage |-> "idle", order |-> 0, old |-> "none", to |-> "none"]

At(p, stage) == session[p].stage = stage
Goto(p, w) == session' = [session EXCEPT ![p] = w]
Done(p) == Goto(p, Idle)
AtRest == (\A p \in Session : At(p, "idle")) /\ job.stage = "idle"
MayStart == "race" \in scene \/ AtRest
Starts(p, entry) == entry \in scene /\ At(p, "idle") /\ MayStart

Exists(o) == wo[o].status # "absent"
\* Rows are used in their order, so that there is one next row.
Next1(o) == ~Exists(o) /\ \A n \in OrderId : n < o => Exists(n)
Opened(s, emergency) == [status |-> "OPEN", schedule |-> s, emergency |-> emergency]

-----------------------------------------------------------------------------
(* The machine. *)

\* EquipmentUpdateView; the form has the status.
AskMachine(p, to) ==
    /\ Starts(p, "machine") /\ (to = "RETIRED" => "retire" \in scene)
    /\ Goto(p, [Idle EXCEPT !.stage = "machine", !.old = machine, !.to = to])
    /\ UNCHANGED <<machine, due, wo, job, scene>>

\* Mutant: only what was running breaks down.
BreaksWhileActive(old, to) == old = "ACTIVE" /\ to = "MAINTENANCE"

BreaksDown(old, to) == old # "MAINTENANCE" /\ to = "MAINTENANCE"

WriteMachine(p) ==
    LET w == session[p]
    IN  /\ At(p, "machine")
        /\ machine' = w.to
        /\ IF BreaksDown(w.old, w.to) THEN Goto(p, [Idle EXCEPT !.stage = "broken"]) ELSE Done(p)
        /\ UNCHANGED <<due, wo, job, scene>>

\* equipment_breakdown_auto_corrective
OpenEmergency(p, o) ==
    /\ At(p, "broken") /\ Next1(o)
    /\ wo' = [wo EXCEPT ![o] = Opened(0, TRUE)]
    /\ Done(p)
    /\ UNCHANGED <<machine, due, job, scene>>

-----------------------------------------------------------------------------
(* Work orders. *)

\* WorkOrderCreateView
CreateOrder(p, o, s) ==
    /\ Starts(p, "order") /\ Next1(o)
    /\ wo' = [wo EXCEPT ![o] = Opened(s, FALSE)]
    /\ UNCHANGED <<machine, due, job, session, scene>>

\* WorkOrderCompleteView, of an order in any status.
AskComplete(p, o) ==
    /\ At(p, "idle") /\ MayStart /\ Exists(o)
    /\ Goto(p, [stage |-> "order", order |-> o, old |-> wo[o].status, to |-> "COMPLETED"])
    /\ UNCHANGED <<machine, due, wo, job, scene>>

\* The API writes any status.
AskPatch(p, o, to) ==
    /\ Starts(p, "patch") /\ Exists(o)
    /\ wo[o].status \in {"COMPLETED", "CANCELLED"} => "reopen" \in scene
    /\ Goto(p, [stage |-> "order", order |-> o, old |-> wo[o].status, to |-> to])
    /\ UNCHANGED <<machine, due, wo, job, scene>>

WriteOrder(p) ==
    LET w == session[p]
    IN  /\ At(p, "order")
        /\ wo' = [wo EXCEPT ![w.order].status = w.to]
        /\ IF w.to = "COMPLETED" /\ w.old # "COMPLETED"
           THEN Goto(p, [Idle EXCEPT !.stage = "finished", !.order = w.order]) ELSE Done(p)
        /\ UNCHANGED <<machine, due, job, scene>>

\* mwo_completed_update_equipment: whatever the status of the machine.
Finish(p) ==
    LET o == session[p].order
    IN  /\ At(p, "finished")
        /\ machine' = "ACTIVE"
        /\ due' = due \ {wo[o].schedule}
        /\ Done(p)
        /\ UNCHANGED <<wo, job, scene>>

\* The worker is killed; what was committed stays.
Crash(p) ==
    /\ "crash" \in scene /\ ~At(p, "idle")
    /\ Done(p)
    /\ UNCHANGED <<machine, due, wo, job, scene>>

-----------------------------------------------------------------------------
(* The days, and the job of the morning. *)

FallDue(s) ==
    /\ "job" \in scene /\ MayStart
    /\ due' = due \cup {s}
    /\ UNCHANGED <<machine, wo, job, session, scene>>

StartJob ==
    /\ "job" \in scene /\ job.stage = "idle" /\ MayStart
    /\ due # {}
    /\ job' = [stage |-> "listed", left |-> due, at |-> 0]
    /\ UNCHANGED <<machine, due, wo, session, scene>>

\* Mutant: an order in progress is not looked for.
IsOpenOnly(o, s) == wo[o].schedule = s /\ wo[o].status = "OPEN"

IsOpen(o, s) == wo[o].schedule = s /\ wo[o].status \in {"OPEN", "IN_PROGRESS"}
HasOpen(s) == \E o \in OrderId : IsOpen(o, s)

\* A schedule that has an open order is passed over.
Look(s) ==
    /\ job.stage = "listed" /\ s \in job.left
    /\ job' = IF HasOpen(s) THEN [job EXCEPT !.left = @ \ {s}]
              ELSE [stage |-> "creating", left |-> job.left \ {s}, at |-> s]
    /\ UNCHANGED <<machine, due, wo, session, scene>>

Create(o) ==
    /\ job.stage = "creating" /\ Next1(o)
    /\ wo' = [wo EXCEPT ![o] = Opened(job.at, FALSE)]
    /\ job' = [job EXCEPT !.stage = "listed", !.at = 0]
    /\ UNCHANGED <<machine, due, session, scene>>

NoJob == [stage |-> "idle", left |-> {}, at |-> 0]

EndJob ==
    \/ job.stage = "listed" /\ job.left = {}
    \/ job.stage # "idle" /\ "crash" \in scene

StopJob ==
    /\ EndJob
    /\ job' = NoJob
    /\ UNCHANGED <<machine, due, wo, session, scene>>

-----------------------------------------------------------------------------
Init ==
    /\ scene \in Scenes
    /\ machine = "ACTIVE" /\ due = {}
    /\ wo = [o \in OrderId |-> NoOrder]
    /\ job = NoJob /\ session = [p \in Session |-> Idle]

Next ==
    \/ \E p \in Session :
         \/ \E to \in MachineStatus : AskMachine(p, to)
         \/ \E o \in OrderId :
              \/ OpenEmergency(p, o) \/ AskComplete(p, o)
              \/ \E s \in 0..Schedules : CreateOrder(p, o, s)
              \/ \E to \in Status : AskPatch(p, o, to)
         \/ WriteMachine(p) \/ WriteOrder(p) \/ Finish(p) \/ Crash(p)
    \/ \E s \in ScheduleId : FallDue(s) \/ Look(s)
    \/ \E o \in OrderId : Create(o)
    \/ StartJob \/ StopJob

Spec == Init /\ [][Next]_vars

-----------------------------------------------------------------------------
(* What holds. *)

TypeOK ==
    /\ scene \in Scenes
    /\ machine \in MachineStatus /\ due \subseteq ScheduleId
    /\ wo \in [OrderId -> Order] /\ session \in [Session -> Work]
    /\ job \in [stage: {"idle", "listed", "creating"}, left: SUBSET ScheduleId, at: 0..Schedules]

\* The job never opens a second order for a schedule that has one open or in
\* progress, however its days, the completions and its own deaths interleave,
\* unless a form opens one, or the API reopens one or races the job.
OneOpenOrder ==
    scene \cap {"order", "reopen"} = {} /\ ~({"patch", "race"} \subseteq scene) =>
        \A a, b \in OrderId :
            /\ wo[a].schedule # 0 /\ wo[a].schedule = wo[b].schedule
            /\ {wo[a].status, wo[b].status} \subseteq {"OPEN", "IN_PROGRESS"}
            => a = b

\* One at a time and without deaths, a machine that is down is being worked
\* on, unless an order is set aside by the API.
DownIsWorked ==
    scene \cap {"patch", "race", "crash"} = {} /\ AtRest /\ machine = "MAINTENANCE" =>
        \E o \in OrderId : wo[o].emergency /\ wo[o].status = "OPEN"
=============================================================================
