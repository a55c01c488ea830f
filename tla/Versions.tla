------------------------------ MODULE Versions -------------------------------
(***************************************************************************)
(* The versions of one product, and the revisions of its bill of materials  *)
(* that engineering change notices (ECN) make, as apps/plm keeps them.      *)
(*                                                                         *)
(* A new version is inserted, and a post_save handler then retires the      *)
(* others.  A notice that is saved as approved adds a revision with the     *)
(* number after the last one, and the last one is the greatest string.      *)
(*                                                                         *)
(* Abstractions: a version is in force or retired; the product has one bill *)
(* of materials; the number of a notice in the reason of a revision is      *)
(* kept as the notice; numbers are compared as strings where one digit      *)
(* meets two.                                                               *)
(***************************************************************************)
EXTENDS Naturals, FiniteSets

CONSTANTS
    Versions,   \* bound: versions are numbered 1..Versions
    Notices,    \* notices are numbered 1..Notices
    Digits,     \* the greatest number of one digit: 9 in the code
    Session,    \* requests that may be in progress at once
    Scenes      \* the combinations of entry points

EntryPoint == {"version", "admin", "again", "race", "crash"}

VARIABLES
    version,    \* ProductVersion: its is_active
    ecn,        \* EngineeringChangeNotice.status
    revision,   \* BOMRevision: by its number, the notice that made it
    session, scene

vars == <<version, ecn, revision, session, scene>>

VersionId == 1..Versions
Notice == 1..Notices
\* One number of two digits and the one after it.
Number == 1..Digits + 2
State == {"absent", "active", "retired"}
Status == {"DRAFT", "APPROVED", "IMPLEMENTED"}

\* at: the version or the notice; number: of the revision to be created.
Work == [stage: {"idle", "activate", "approve", "approved", "number"},
         at: 0..(Versions + Notices), number: {0} \cup Number]
Idle == [stage |-> "idle", at |-> 0, number |-> 0]

At(p, stage) == session[p].stage = stage
Goto(p, w) == session' = [session EXCEPT ![p] = w]
Done(p) == Goto(p, Idle)
AtRest == \A p \in Session : At(p, "idle")
MayStart(p) == At(p, "idle") /\ ("race" \in scene \/ AtRest)

-----------------------------------------------------------------------------
(* Versions. *)

NextVersion(v) == version[v] = "absent" /\ \A u \in VersionId : u < v => version[u] # "absent"

\* ProductVersionCreateView
CreateVersion(p, v) ==
    /\ "version" \in scene /\ MayStart(p) /\ NextVersion(v)
    /\ version' = [version EXCEPT ![v] = "active"]
    /\ Goto(p, [Idle EXCEPT !.stage = "activate", !.at = v])
    /\ UNCHANGED <<ecn, revision, scene>>

\* Mutant: the version itself is not excluded.
AndItself(v) == VersionId

Others(v) == VersionId \ {v}

\* product_version_activate
Activate(p) ==
    LET v == session[p].at
    IN  /\ At(p, "activate")
        /\ version' = [u \in VersionId |->
                         IF u \in Others(v) /\ version[u] = "active" THEN "retired" ELSE version[u]]
        /\ Done(p)
        /\ UNCHANGED <<ecn, revision, scene>>

-----------------------------------------------------------------------------
(* Notices. *)

Made == {n \in Number : revision[n] # 0}

\* The greatest of a set of numbers as strings: 9 is after 10.
LastByString(S) ==
    LET OneDigit == {n \in S : n > 1 /\ n <= Digits}
        First == IF OneDigit # {} THEN OneDigit ELSE S
    IN  CHOOSE n \in First : \A m \in First : m <= n

\* Mutant: the revisions are counted.
NextByCount == Cardinality(Made)

NextNumber == IF Made = {} THEN 1 ELSE LastByString(Made) + 1

\* The number is free where it is looked for.
Makes(n, number) ==
    IF number \in Made THEN UNCHANGED revision ELSE revision' = [revision EXCEPT ![number] = n]

\* The API approves a notice, or saves one again that is approved.
AskApprove(p, n) ==
    /\ MayStart(p)
    /\ ecn[n] = "DRAFT" \/ "again" \in scene
    /\ Goto(p, [Idle EXCEPT !.stage = "approve", !.at = n])
    /\ UNCHANGED <<version, ecn, revision, scene>>

WriteNotice(p) ==
    /\ At(p, "approve")
    /\ ecn' = [ecn EXCEPT ![session[p].at] = "APPROVED"]
    /\ Goto(p, [session[p] EXCEPT !.stage = "approved"])
    /\ UNCHANGED <<version, revision, scene>>

\* ecn_approved_create_bom_revision: a number that is taken is passed over.
LookForNumber(p) ==
    /\ At(p, "approved")
    /\ IF NextNumber \in Made THEN Done(p)
       ELSE Goto(p, [session[p] EXCEPT !.stage = "number", !.number = NextNumber])
    /\ UNCHANGED <<version, ecn, revision, scene>>

\* The number may have been taken meanwhile: IntegrityError, after the notice.
CreateRevision(p) ==
    /\ At(p, "number")
    /\ Makes(session[p].at, session[p].number)
    /\ Done(p)
    /\ UNCHANGED <<version, ecn, scene>>

\* EngineeringChangeNoticeAdmin: the notice and its revision, or neither.
ApproveInAdmin(p, n) ==
    /\ "admin" \in scene /\ MayStart(p) /\ ecn[n] = "DRAFT"
    /\ ecn' = [ecn EXCEPT ![n] = "APPROVED"]
    /\ Makes(n, NextNumber)
    /\ UNCHANGED <<version, session, scene>>

\* The API: what was approved is in use.
Implement(p, n) ==
    /\ MayStart(p) /\ ecn[n] = "APPROVED"
    /\ ecn' = [ecn EXCEPT ![n] = "IMPLEMENTED"]
    /\ UNCHANGED <<version, revision, session, scene>>

\* The worker is killed; what was committed stays.
Crash(p) ==
    /\ "crash" \in scene /\ ~At(p, "idle")
    /\ Done(p)
    /\ UNCHANGED <<version, ecn, revision, scene>>

-----------------------------------------------------------------------------
Init ==
    /\ scene \in Scenes
    /\ version = [v \in VersionId |-> "absent"]
    /\ ecn = [n \in Notice |-> "DRAFT"]
    /\ revision = [n \in Number |-> 0]
    /\ session = [p \in Session |-> Idle]

Next ==
    \E p \in Session :
        \/ \E v \in VersionId : CreateVersion(p, v)
        \/ \E n \in Notice : AskApprove(p, n) \/ ApproveInAdmin(p, n) \/ Implement(p, n)
        \/ Activate(p) \/ WriteNotice(p) \/ LookForNumber(p) \/ CreateRevision(p) \/ Crash(p)

Spec == Init /\ [][Next]_vars

-----------------------------------------------------------------------------
(* What holds. *)

TypeOK ==
    /\ scene \in Scenes
    /\ version \in [VersionId -> State] /\ ecn \in [Notice -> Status]
    /\ revision \in [Number -> 0..Notices]
    /\ session \in [Session -> Work]

InForce == {v \in VersionId : version[v] = "active"}

\* Whatever races, at most one version of a product is in force, unless a worker
\* died; and there is one once there is any, unless two requests raced.
OneInForce ==
    AtRest =>
        /\ "crash" \notin scene => Cardinality(InForce) <= 1
        /\ "race" \notin scene /\ version[1] # "absent" => InForce # {}

\* A notice that is approved has made its revision, unless requests raced, a
\* worker died, or there are so many revisions that the last one is not found;
\* and revisions are numbered from 1 without a gap, whatever happens.
ApprovedRevised ==
    /\ scene \cap {"race", "crash"} = {} /\ AtRest /\ Digits + 1 \notin Made =>
         \A n \in Notice : ecn[n] # "DRAFT" => \E m \in Made : revision[m] = n
    /\ Made = 1..Cardinality(Made)
=============================================================================
