--------------------------- MODULE DocumentNumbers ---------------------------
(***************************************************************************)
(* The numbers of one kind of document on one day: PREFIX-YYYYMMDD-NNN, as  *)
(* generate_document_number (apps/core/utils.py) computes them and save()   *)
(* writes them into a unique column.  The last number is found by the order *)
(* of strings over all rows, retired ones included; the loop that retries   *)
(* after an IntegrityError holds no INSERT, so that what it is for is met   *)
(* outside of it.                                                           *)
(*                                                                         *)
(* Abstraction: NNN is one digit, of base Wide + 1, so that the numbers     *)
(* after Wide have two; the form of %03d with base 10 and Wide = 999.       *)
(***************************************************************************)
EXTENDS Naturals

CONSTANTS
    Wide,       \* the last number of one digit
    Session,    \* requests that may be in progress at once
    Scenes      \* "race": requests may race; "erase": rows may be deleted

VARIABLES
    row,        \* the table: what has become of each number
    refused,    \* whether an INSERT has met its number taken
    session,    \* where each request is, and its number
    scene

vars == <<row, refused, session, scene>>

Number == 1..(Wide + 1)
Row == {"absent", "active", "retired"}
Work == [stage: {"idle", "saving"}, number: Number]
Idle == [stage |-> "idle", number |-> 1]

At(p, stage) == session[p].stage = stage
Goto(p, w) == session' = [session EXCEPT ![p] = w]

\* The order of strings: a number of two digits comes right after its first.
Leading(n) == IF n <= Wide THEN n ELSE n \div (Wide + 1)
Before(m, n) == Leading(m) < Leading(n) \/ (Leading(m) = Leading(n) /\ m < n)

\* Mutant: only active rows are looked at.
TakenActive == {n \in Number : row[n] = "active"}

\* all_objects
Taken == {n \in Number : row[n] # "absent"}

Following ==
    IF Taken = {} THEN 1
    ELSE (CHOOSE n \in Taken : \A m \in Taken \ {n} : Before(m, n)) + 1

-----------------------------------------------------------------------------
\* save() computes the number ...
Compute(p) ==
    /\ At(p, "idle")
    /\ "race" \in scene \/ \A q \in Session : At(q, "idle")
    /\ Following \in Number         \* bound
    /\ Goto(p, [stage |-> "saving", number |-> Following])
    /\ UNCHANGED <<row, refused, scene>>

\* ... and inserts the row with it.
Insert(p) ==
    LET n == session[p].number
    IN  /\ At(p, "saving")
        /\ IF row[n] = "absent"
           THEN row' = [row EXCEPT ![n] = "active"] /\ UNCHANGED refused
           ELSE refused' = TRUE /\ UNCHANGED row
        /\ Goto(p, Idle)
        /\ UNCHANGED scene

\* soft_delete and its undoing in the trash; a POST to a DeleteView.
Retire(n) ==
    /\ row[n] = "active"
    /\ row' = [row EXCEPT ![n] = "retired"]
    /\ UNCHANGED <<refused, session, scene>>
Restore(n) ==
    /\ row[n] = "retired"
    /\ row' = [row EXCEPT ![n] = "active"]
    /\ UNCHANGED <<refused, session, scene>>
Erase(n) ==
    /\ "erase" \in scene /\ row[n] # "absent"
    /\ row' = [row EXCEPT ![n] = "absent"]
    /\ UNCHANGED <<refused, session, scene>>

-----------------------------------------------------------------------------
Init ==
    /\ scene \in Scenes
    /\ row = [n \in Number |-> "absent"]
    /\ refused = FALSE
    /\ session = [p \in Session |-> Idle]

Next ==
    \/ \E p \in Session : Compute(p) \/ Insert(p)
    \/ \E n \in Number : Retire(n) \/ Restore(n) \/ Erase(n)

Spec == Init /\ [][Next]_vars

-----------------------------------------------------------------------------
(* What holds. *)

TypeOK ==
    /\ scene \in Scenes /\ row \in [Number -> Row] /\ refused \in BOOLEAN
    /\ session \in [Session -> Work]

\* One creation at a time, none is refused while no number has run past the
\* digits it is written with, whatever was retired, restored or deleted.
RefusedRightly ==
    refused' # refused => "race" \in scene \/ \E n \in {Wide, Wide + 1} : row[n] # "absent"
NeverRefused == [][RefusedRightly]_vars
=============================================================================
