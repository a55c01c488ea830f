------------------------------- MODULE Quality -------------------------------
(***************************************************************************)
(* One quality inspection, the non-conformances and the corrective actions  *)
(* (CAPA) that follow, as apps/qms keeps them.                              *)
(*                                                                         *)
(* A failed inspection records a non-conformance, found again by a text in  *)
(* its notes; a non-conformance that is saved as open gets a corrective     *)
(* action; a corrective action that is closed resolves its non-conformance. *)
(* Each is a post_save handler, after a row that is already committed; only *)
(* a non-conformance that is made by the first handler gets its corrective  *)
(* action in the same transaction.                                          *)
(*                                                                         *)
(* Abstractions: quantities and texts are left out, and deletions; a        *)
(* corrective action that is in progress or verified is as good as open;    *)
(* whether a non-conformance has a corrective action is looked up and one   *)
(* created in one step, since nothing here tells one from two.              *)
(***************************************************************************)
EXTENDS Naturals, FiniteSets

CONSTANTS
    Ncs,        \* bound: non-conformances are numbered 1..Ncs
    Capas,      \* bound: corrective actions are numbered 1..Capas
    Session,    \* requests that may be in progress at once
    Scenes      \* the combinations of entry points

EntryPoint == {"form", "patch", "resolve", "verify", "race", "crash"}

VARIABLES
    inspection, \* QualityInspection.result
    nc,         \* NonConformance
    capa,       \* CAPA
    session, scene

vars == <<inspection, nc, capa, session, scene>>

NcId == 1..Ncs
CapaId == 1..Capas
Result == {"PENDING", "PASS", "FAIL", "CONDITIONAL"}
NcStatus == {"OPEN", "INVESTIGATING", "RESOLVED", "CLOSED"}
CapaStatus == {"OPEN", "CLOSED"}
\* noted: its notes name the inspection.
Nc == [status: {"absent"} \cup NcStatus, noted: BOOLEAN]
NoNc == [status |-> "absent", noted |-> FALSE]
Capa == [status: {"absent"} \cup CapaStatus, nc: 0..Ncs]
NoCapa == [status |-> "absent", nc |-> 0]

\* to: the value to be written; at: the row it goes to; cached: the status of
\* the non-conformance that was read with a corrective action.
Work == [stage: {"idle", "inspect", "inspected", "record", "nc", "saved", "capa", "closed"},
         at: 0..(Ncs + Capas), to: {"none"} \cup Result \cup NcStatus,
         cached: {"none"} \cup NcStatus]
Idle == [stage |-> "idle", at |-> 0, to |-> "none", cached |-> "none"]

At(p, stage) == session[p].stage = stage
Goto(p, w) == session' = [session EXCEPT ![p] = w]
Done(p) == Goto(p, Idle)
AtRest == \A p \in Session : At(p, "idle")
MayStart(p) == At(p, "idle") /\ ("race" \in scene \/ AtRest)

HasNc(n) == nc[n].status # "absent"
HasCapa(c) == capa[c].status # "absent"
\* Rows are used in their order, so that there is one next row.
NextNc(n) == ~HasNc(n) /\ \A m \in NcId : m < n => HasNc(m)
NextCapa(c) == ~HasCapa(c) /\ \A b \in CapaId : b < c => HasCapa(b)
Tended(n) == \E c \in CapaId : HasCapa(c) /\ capa[c].nc = n
OpenCapa(n, c) == capa' = [capa EXCEPT ![c] = [status |-> "OPEN", nc |-> n]]

-----------------------------------------------------------------------------
(* The inspection. *)

\* QualityInspectionCreateView and QualityInspectionUpdateView write any result;
\* ConditionalApproveView a decision, over one it read as conditional.
AskInspect(p, to) ==
    /\ MayStart(p)
    /\ Goto(p, [Idle EXCEPT !.stage = "inspect", !.to = to])
    /\ UNCHANGED <<inspection, nc, capa, scene>>

WriteResult(p) ==
    /\ At(p, "inspect")
    /\ inspection' = session[p].to
    /\ IF session[p].to = "FAIL" THEN Goto(p, [Idle EXCEPT !.stage = "inspected"]) ELSE Done(p)
    /\ UNCHANGED <<nc, capa, scene>>

\* Mutant: a non-conformance that is resolved is not found again.
NotedOpen == {n \in NcId : nc[n].noted /\ nc[n].status \in {"OPEN", "INVESTIGATING"}}

Noted == {n \in NcId : nc[n].noted}

\* inspection_result_handler, the get: two rows make it fail, one is enough.
LookForNc(p) ==
    /\ At(p, "inspected")
    /\ IF Noted = {} THEN Goto(p, [Idle EXCEPT !.stage = "record"]) ELSE Done(p)
    /\ UNCHANGED <<inspection, nc, capa, scene>>

\* ... and the create, with the corrective action of nc_open_create_capa.
RecordNc(p, n, c) ==
    /\ At(p, "record") /\ NextNc(n) /\ NextCapa(c)
    /\ nc' = [nc EXCEPT ![n] = [status |-> "OPEN", noted |-> TRUE]]
    /\ OpenCapa(n, c)
    /\ Done(p)
    /\ UNCHANGED <<inspection, scene>>

-----------------------------------------------------------------------------
(* Non-conformances. *)

\* NCCreateView
CreateNc(p, n) ==
    /\ "form" \in scene /\ MayStart(p) /\ NextNc(n)
    /\ nc' = [nc EXCEPT ![n] = [status |-> "OPEN", noted |-> FALSE]]
    /\ Goto(p, [Idle EXCEPT !.stage = "saved", !.at = n])
    /\ UNCHANGED <<inspection, capa, scene>>

\* NCResolveView, and the API, which writes any status.
AskNc(p, n, to) ==
    /\ MayStart(p) /\ HasNc(n)
    /\ \/ "resolve" \in scene /\ to = "RESOLVED"
       \/ "patch" \in scene
    /\ Goto(p, [Idle EXCEPT !.stage = "nc", !.at = n, !.to = to])
    /\ UNCHANGED <<inspection, nc, capa, scene>>

WriteNc(p) ==
    LET w == session[p]
    IN  /\ At(p, "nc")
        /\ nc' = [nc EXCEPT ![w.at].status = w.to]
        /\ IF w.to = "OPEN" THEN Goto(p, [Idle EXCEPT !.stage = "saved", !.at = w.at]) ELSE Done(p)
        /\ UNCHANGED <<inspection, capa, scene>>

\* nc_open_create_capa
Tend(p) ==
    LET n == session[p].at
    IN  /\ At(p, "saved")
        /\ \/ Tended(n) /\ UNCHANGED capa
           \/ ~Tended(n) /\ \E c \in CapaId : NextCapa(c) /\ OpenCapa(n, c)
        /\ Done(p)
        /\ UNCHANGED <<inspection, nc, scene>>

-----------------------------------------------------------------------------
(* Corrective actions. *)

\* CAPACreateView, for a non-conformance that may have one already.
CreateCapa(p, n, c) ==
    /\ "form" \in scene /\ MayStart(p) /\ HasNc(n) /\ NextCapa(c)
    /\ OpenCapa(n, c)
    /\ UNCHANGED <<inspection, nc, session, scene>>

\* The API closes a corrective action, with its non-conformance as it read it.
AskClose(p, c) ==
    /\ MayStart(p) /\ HasCapa(c)
    /\ Goto(p, [stage |-> "capa", at |-> c, to |-> "CLOSED", cached |-> nc[capa[c].nc].status])
    /\ UNCHANGED <<inspection, nc, capa, scene>>

\* CAPAVerifyView, of a corrective action in any status.
AskVerify(p, c) ==
    /\ "verify" \in scene /\ MayStart(p) /\ HasCapa(c)
    /\ Goto(p, [Idle EXCEPT !.stage = "capa", !.at = c, !.to = "OPEN"])
    /\ UNCHANGED <<inspection, nc, capa, scene>>

WriteCapa(p) ==
    LET w == session[p]
    IN  /\ At(p, "capa")
        /\ capa' = [capa EXCEPT ![w.at].status = w.to]
        /\ IF w.to = "CLOSED" THEN Goto(p, [w EXCEPT !.stage = "closed"]) ELSE Done(p)
        /\ UNCHANGED <<inspection, nc, scene>>

\* Mutant: only what is under investigation is resolved.
ResolvesInvestigated(cached) == cached = "INVESTIGATING"

Resolves(cached) == cached # "RESOLVED"

\* capa_closed_resolve_nc
ResolveNc(p) ==
    LET w == session[p]
    IN  /\ At(p, "closed")
        /\ nc' = IF Resolves(w.cached) THEN [nc EXCEPT ![capa[w.at].nc].status = "RESOLVED"] ELSE nc
        /\ Done(p)
        /\ UNCHANGED <<inspection, capa, scene>>

\* The worker is killed; what was committed stays.
Crash(p) ==
    /\ "crash" \in scene /\ ~At(p, "idle")
    /\ Done(p)
    /\ UNCHANGED <<inspection, nc, capa, scene>>

-----------------------------------------------------------------------------
Init ==
    /\ scene \in Scenes
    /\ inspection = "PENDING"
    /\ nc = [n \in NcId |-> NoNc] /\ capa = [c \in CapaId |-> NoCapa]
    /\ session = [p \in Session |-> Idle]

Next ==
    \E p \in Session :
        \/ \E to \in Result : AskInspect(p, to)
        \/ WriteResult(p) \/ LookForNc(p) \/ WriteNc(p) \/ WriteCapa(p) \/ ResolveNc(p)
        \/ Tend(p) \/ Crash(p)
        \/ \E n \in NcId :
             \/ CreateNc(p, n)
             \/ \E to \in NcStatus : AskNc(p, n, to)
             \/ \E c \in CapaId : RecordNc(p, n, c) \/ CreateCapa(p, n, c)
        \/ \E c \in CapaId : AskClose(p, c) \/ AskVerify(p, c)

Spec == Init /\ [][Next]_vars

-----------------------------------------------------------------------------
(* What holds. *)

TypeOK ==
    /\ scene \in Scenes
    /\ inspection \in Result
    /\ nc \in [NcId -> Nc] /\ capa \in [CapaId -> Capa]
    /\ session \in [Session -> Work]

\* An inspection that failed has its non-conformance, unless a worker died, and
\* never two of them, unless two requests raced.
FailedRecorded ==
    /\ "crash" \notin scene /\ AtRest /\ inspection = "FAIL" => Noted # {}
    /\ "race" \notin scene => Cardinality(Noted) <= 1

\* Whatever races, an open non-conformance is being tended to, and one whose
\* corrective action is closed is resolved, unless a worker died or, for the
\* second, the API wrote its status.
Followed ==
    "crash" \notin scene /\ AtRest =>
        /\ \A n \in NcId : nc[n].status = "OPEN" => Tended(n)
        /\ "patch" \notin scene =>
             \A c \in CapaId : capa[c].status = "CLOSED" => nc[capa[c].nc].status = "RESOLVED"
=============================================================================
