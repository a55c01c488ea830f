------------------------------ MODULE Sourcing ------------------------------
(***************************************************************************)
(* A request for quotation (RFQ) and its responses: the conversion of a     *)
(* response into a purchase order, and the administration, both of which    *)
(* reach the handler that makes an order of a response newly selected.      *)
(*                                                                         *)
(* Abstractions: a purchase order is only counted; the RFQ has items.       *)
(***************************************************************************)
EXTENDS Naturals

CONSTANTS
    Responses,  \* responses are numbered 1..Responses
    MostMade,   \* bound: purchase orders made of a response
    Session,    \* requests that may be in progress at once
    Scenes      \* "race", and "admin": responses are edited in the administration

VARIABLES
    status,     \* RFQ.status
    selected,   \* the responses with is_selected
    present,    \* the responses registered
    made,       \* purchase orders made of each
    session,    \* where each request is, and what it loaded
    scene

vars == <<status, selected, present, made, session, scene>>

ResponseId == 1..Responses
Status == {"SENT", "RECEIVED", "COMPARED", "CLOSED"}
Work == [stage: {"idle", "registering", "converting", "awarding"},
         response: ResponseId, select: BOOLEAN, new: BOOLEAN,
         others: SUBSET ResponseId, status: Status]
Idle == [stage |-> "idle", response |-> 1, select |-> FALSE, new |-> FALSE,
         others |-> {}, status |-> "SENT"]

At(p, stage) == session[p].stage = stage
Goto(p, w) == session' = [session EXCEPT ![p] = w]
Starts(p) ==
    /\ At(p, "idle")
    /\ "race" \in scene \/ \A q \in Session : At(q, "idle")
Works(p, stage, r) ==
    Goto(p, [stage |-> stage, response |-> r, select |-> FALSE, new |-> FALSE,
             others |-> {}, status |-> status])
\* The responses the transactions in progress have deselected.
LockedBut(p) == UNION {session[q].others : q \in Session \ {p}}
Locked == UNION {session[q].others : q \in Session}

-----------------------------------------------------------------------------
\* RFQResponseCreateView
AskRegister(p, r) ==
    /\ Starts(p) /\ r \notin present
    /\ \A q \in Session : At(q, "registering") => session[q].response # r
    /\ Works(p, "registering", r)
    /\ UNCHANGED <<status, selected, present, made, scene>>
CommitRegister(p) ==
    /\ At(p, "registering")
    /\ present' = present \cup {session[p].response}
    /\ status' = IF session[p].status = "SENT" THEN "RECEIVED" ELSE status
    /\ Goto(p, Idle)
    /\ UNCHANGED <<selected, made, scene>>

\* RFQConvertView: any RFQ and any response of it ...
AskConvert(p, r) ==
    /\ Starts(p) /\ r \in present /\ made[r] + 2 <= MostMade
    /\ Works(p, "converting", r)
    /\ UNCHANGED <<status, selected, present, made, scene>>

\* Mutant: the selection of the others stays.
DeselectNone(r) == selected

\* rfq.responses.update(is_selected=False), which locks every response.
Deselect(r) == {}

\* ... and one transaction: the response is selected, whose handler makes an
\* order of it; the view makes another; the RFQ is closed.
CommitConvert(p) ==
    LET r == session[p].response
    IN  /\ At(p, "converting")
        /\ Locked = {}
        /\ made[r] + 2 <= MostMade
        /\ selected' = Deselect(r) \cup {r}
        /\ made' = [made EXCEPT ![r] = @ + IF r \in Deselect(r) THEN 1 ELSE 2]
        /\ status' = "CLOSED"
        /\ Goto(p, Idle)
        /\ UNCHANGED <<present, scene>>

\* The administration: the handler compares the response with its row and, if
\* it is newly selected, deselects and so locks those committed as selected ...
OpenAward(p, r, select) ==
    LET new == select /\ r \notin selected
    IN  /\ "admin" \in scene
        /\ Starts(p) /\ r \in present
        /\ new => made[r] < MostMade /\ selected \cap Locked = {}
        /\ Goto(p, [stage |-> "awarding", response |-> r, select |-> select, new |-> new,
                    others |-> IF new THEN selected ELSE {}, status |-> status])
        /\ UNCHANGED <<status, selected, present, made, scene>>

\* ... makes an order, and the row is saved as the form has it.
CommitAward(p) ==
    LET w == session[p]
        r == w.response
        left == selected \ w.others
    IN  /\ At(p, "awarding")
        /\ r \notin LockedBut(p)
        /\ w.new => made[r] < MostMade
        /\ selected' = IF w.select THEN left \cup {r} ELSE left \ {r}
        /\ made' = IF w.new THEN [made EXCEPT ![r] = @ + 1] ELSE made
        /\ status' = IF w.new /\ w.status \notin {"CLOSED", "COMPARED"} THEN "COMPARED"
                     ELSE status
        /\ Goto(p, Idle)
        /\ UNCHANGED <<present, scene>>

-----------------------------------------------------------------------------
Init ==
    /\ scene \in Scenes
    /\ status = "SENT"
    /\ selected = {} /\ present = {}
    /\ made = [r \in ResponseId |-> 0]
    /\ session = [p \in Session |-> Idle]

Next ==
    \E p \in Session :
        \/ \E r \in ResponseId :
              \/ AskRegister(p, r)
              \/ AskConvert(p, r)
              \/ \E select \in BOOLEAN : OpenAward(p, r, select)
        \/ CommitRegister(p) \/ CommitConvert(p) \/ CommitAward(p)

Spec == Init /\ [][Next]_vars

-----------------------------------------------------------------------------
(* What holds. *)

TypeOK ==
    /\ scene \in Scenes /\ status \in Status
    /\ selected \subseteq present /\ present \subseteq ResponseId
    /\ made \in [ResponseId -> 0..MostMade]
    /\ session \in [Session -> Work]

\* However conversions and registrations race, and in the administration one at
\* a time: at most one response of an RFQ is selected, and it was ordered.
OneAward ==
    ~({"race", "admin"} \subseteq scene) =>
        \A r \in selected : made[r] > 0 /\ \A s \in selected : s = r
=============================================================================
