------------------------------- MODULE Picking -------------------------------
(***************************************************************************)
(* Pick orders and a put-away task of a warehouse, as apps/wms keeps them.  *)
(*                                                                         *)
(* A pick order that becomes packed or shipped issues its items, a put-away *)
(* task that is completed receives them: the post_save handler does it, in  *)
(* one transaction of its own and by the status that the pre_save handler   *)
(* read before.  The admin has all of it in one transaction with the row;   *)
(* the API and the form commit the row first.  Each movement locks its      *)
(* product to the end of the transaction, in the order of the items.        *)
(*                                                                         *)
(* Abstractions: documents 1 and 2 are pick orders of one piece each of two *)
(* products, in opposite orders, document 3 is a put-away of one piece of   *)
(* product 1; bins are data; a wave holds both pick orders.                 *)
(***************************************************************************)
EXTENDS Integers

CONSTANTS
    Opening,    \* what there may be of a product at the start
    Chosen,     \* the statuses that requests choose
    MostMoves,  \* bound: how often one document moves its goods
    Session,    \* requests that may be in progress at once
    Scenes      \* the combinations of entry points

EntryPoint == {"admin", "patch", "form", "back", "wave", "race", "crash"}

VARIABLES
    document,   \* PickOrder.status, PutAwayTask.status
    moved,      \* how often the document has moved its goods
    opening,    \* the stock of each product before
    session, scene

vars == <<document, moved, opening, session, scene>>

Pick == {1, 2}
PutAway == 3
Doc == Pick \cup {PutAway}
Product == {1, 2}
ItemsOf == <<<<1, 2>>, <<2, 1>>, <<1>>>>

Issued == {"PACKED", "SHIPPED"}
StatusOf(d) ==
    IF d \in Pick THEN {"PENDING", "PICKING", "CANCELLED"} \cup Issued
    ELSE {"PENDING", "IN_PROGRESS", "COMPLETED", "CANCELLED"}
Status == UNION {StatusOf(d) : d \in Doc}
Moved(d) == IF d \in Pick THEN Issued ELSE {"COMPLETED"}

Entry == {"admin", "patch", "form"}
\* next: the item that moves next; held: the products that are locked.
Work == [stage: {"idle", "saving", "writing", "moving"}, entry: Entry, doc: Doc,
         old: Status, to: Status, next: 1..3, held: SUBSET Product]
Idle == [stage |-> "idle", entry |-> "form", doc |-> 1, old |-> "PENDING", to |-> "PENDING",
         next |-> 1, held |-> {}]

At(p, stage) == session[p].stage = stage
Goto(p, w) == session' = [session EXCEPT ![p] = w]
Done(p) == Goto(p, Idle)
AtRest == \A p \in Session : At(p, "idle")
MayStart == "race" \in scene \/ AtRest

\* Product.current_stock
Stock(q) ==
    opening[q] - (moved[1] + moved[2]) + (IF q = 1 THEN moved[PutAway] ELSE 0)

\* Who changed the row of a document and has not committed.
Locked(d, p) ==
    \E r \in Session \ {p} : session[r].doc = d /\ session[r].entry = "admin" /\ At(r, "moving")
Waits(p, q) == \E r \in Session \ {p} : q \in session[r].held

-----------------------------------------------------------------------------
\* The admin and the API write any status; PickOrderUpdateView and
\* PutAwayUpdateView write the one they loaded.
Ask(p, entry, d, to) ==
    /\ At(p, "idle") /\ MayStart /\ entry \in scene
    /\ entry = "form" => to = document[d]
    /\ document[d] \in Moved(d) /\ to \notin Moved(d) => "back" \in scene
    /\ Goto(p, [Idle EXCEPT !.stage = "saving", !.entry = entry, !.doc = d, !.to = to])
    /\ UNCHANGED <<document, moved, opening, scene>>

\* cache_pickorder_old_status, cache_putaway_old_status
CacheOld(p) ==
    LET w == session[p]
    IN  /\ At(p, "saving")
        /\ Goto(p, [w EXCEPT !.stage = "writing", !.old = document[w.doc]])
        /\ UNCHANGED <<document, moved, opening, scene>>

\* Mutant: what was moved moves again.
MovesAgain(d, old, to) == to \in Moved(d)

\* pickorder_completed_stock_out, putaway_completed_stock_in
Moves(d, old, to) == to \in Moved(d) /\ old \notin Moved(d)

\* The admin commits with the movements, if there are any.
Write(p) ==
    LET w == session[p]
        moves == Moves(w.doc, w.old, w.to)
    IN  /\ At(p, "writing") /\ ~Locked(w.doc, p)
        /\ document' = IF moves /\ w.entry = "admin" THEN document
                       ELSE [document EXCEPT ![w.doc] = w.to]
        /\ IF moves THEN Goto(p, [w EXCEPT !.stage = "moving"]) ELSE Done(p)
        /\ UNCHANGED <<moved, opening, scene>>

HasNext(p) == session[p].next \in DOMAIN ItemsOf[session[p].doc]
NextProduct(w) == ItemsOf[w.doc][w.next]

\* Mutant: the lock ends with the check.
KeepsNone(w) == w.held

\* The lock of the check is held to the end of the transaction.
Keeps(w) == w.held \cup {NextProduct(w)}

\* A movement, after validate_outbound_stock where it is an issue.
MoveNext(p) ==
    LET w == session[p]
        q == NextProduct(w)
    IN  /\ At(p, "moving") /\ HasNext(p) /\ ~Waits(p, q)
        /\ w.doc \in Pick => Stock(q) >= 1
        /\ Goto(p, [w EXCEPT !.held = Keeps(w), !.next = @ + 1])
        /\ UNCHANGED <<document, moved, opening, scene>>

CommitMoves(p) ==
    LET w == session[p]
    IN  /\ At(p, "moving") /\ ~HasNext(p)
        /\ moved[w.doc] < MostMoves
        /\ moved' = [moved EXCEPT ![w.doc] = @ + 1]
        /\ document' = IF w.entry = "admin" THEN [document EXCEPT ![w.doc] = w.to] ELSE document
        /\ Done(p)
        /\ UNCHANGED <<opening, scene>>

\* Two that wait for each other, of which the database ends one.
Deadlocked(p) ==
    /\ At(p, "moving") /\ HasNext(p)
    /\ \E r \in Session \ {p} :
         /\ At(r, "moving") /\ HasNext(r)
         /\ NextProduct(session[p]) \in session[r].held
         /\ NextProduct(session[r]) \in session[p].held

\* ValidationError for a shortage, or the deadlock: what was committed before,
\* by the API and the form the row, stays.
FailMoves(p) ==
    LET w == session[p]
    IN  /\ At(p, "moving")
        /\ \/ Deadlocked(p)
           \/ /\ w.doc \in Pick /\ HasNext(p)
              /\ ~Waits(p, NextProduct(w)) /\ Stock(NextProduct(w)) < 1
        /\ Done(p)
        /\ UNCHANGED <<document, moved, opening, scene>>

\* waveplan_released_assign_picking: one UPDATE, past the handlers.
ReleaseWave ==
    /\ "wave" \in scene /\ MayStart
    /\ \A d \in Pick : \A p \in Session : ~Locked(d, p)
    /\ \E d \in Pick : document[d] = "PENDING"
    /\ document' = [d \in Doc |-> IF d \in Pick /\ document[d] = "PENDING" THEN "PICKING"
                                  ELSE document[d]]
    /\ UNCHANGED <<moved, opening, session, scene>>

\* The worker is killed; what was committed stays.
Crash(p) ==
    /\ "crash" \in scene /\ ~At(p, "idle")
    /\ Done(p)
    /\ UNCHANGED <<document, moved, opening, scene>>

-----------------------------------------------------------------------------
Init ==
    /\ scene \in Scenes
    /\ document = [d \in Doc |-> "PENDING"]
    /\ moved = [d \in Doc |-> 0]
    /\ opening \in [Product -> Opening]
    /\ session = [p \in Session |-> Idle]

Next ==
    \/ \E p \in Session :
         \/ \E entry \in Entry : \E d \in Doc : \E to \in StatusOf(d) \cap (Chosen \cup {document[d]}) : Ask(p, entry, d, to)
         \/ CacheOld(p) \/ Write(p) \/ MoveNext(p) \/ CommitMoves(p) \/ FailMoves(p) \/ Crash(p)
    \/ ReleaseWave

Spec == Init /\ [][Next]_vars

-----------------------------------------------------------------------------
(* What holds. *)

TypeOK ==
    /\ scene \in Scenes
    /\ \A d \in Doc : document[d] \in StatusOf(d)
    /\ moved \in [Doc -> Nat] /\ session \in [Session -> Work]

\* Pick orders never issue more than there is, although they race for both
\* products and only the lock of each check keeps them apart.
NeverOversold == \A q \in Product : Stock(q) >= 0

\* Through the admin, and the form if nothing races it, whatever is packed,
\* shipped or put away has moved its goods, however shortages, deadlocks and
\* deaths fall.
FinishedMoved ==
    "patch" \notin scene /\ ~({"form", "race"} \subseteq scene) =>
        \A d \in Doc : document[d] \in Moved(d) => moved[d] > 0

\* One request at a time, and never set back, a document moves its goods once.
MovedOnce == scene \cap {"race", "back"} = {} => \A d \in Doc : moved[d] <= 1
=============================================================================
