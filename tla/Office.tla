------------------------------- MODULE Office -------------------------------
(***************************************************************************)
(* The components that run jobs in the background, or have no goods and no  *)
(* money in them, beside each other: quotations, approval, document         *)
(* numbers, requests for quotation, the orders of a store and the tickets   *)
(* of the helpdesk.  They share no rows here; the part that moves is chosen *)
(* at the start and stays, the variables of the others are held at Unused,  *)
(* those a job is fair about at their first state.                          *)
(***************************************************************************)
EXTENDS Quotations, Sequences

CONSTANTS
    ApprovalLines, ApprovalScenes,          \* Lines and Scenes of Approval
    Wide, NumberScenes,                     \* DocumentNumbers
    Responses, MostOrdered, SourcingScenes, \* Sourcing: MostMade is MostOrdered
    Pushes, MostQuotes, MostOrders, Reported, StoreScenes,      \* Marketplace
    TicketCount, Patched, First, Desk, TicketScenes     \* Tickets: its Session is Desk

VARIABLES
    part,                               \* which component moves
    desk, entries,                      \* session and scene of all but Quotations
    line, request, step,                \* Approval
    row, refused,                       \* DocumentNumbers
    status, selected, present, ordered, \* Sourcing
    market, quotes, erps, push,         \* Marketplace
    ticket, job                         \* Tickets

office == <<quote, made, session, night, scene, part, desk, entries, line, request, step,
            row, refused, status, selected, present, ordered, market, quotes, erps, push,
            ticket, job>>

Unused == 0

Approval == INSTANCE Approval WITH
    Lines <- ApprovalLines, Scenes <- ApprovalScenes, session <- desk, scene <- entries
Numbers == INSTANCE DocumentNumbers WITH
    Scenes <- NumberScenes, session <- desk, scene <- entries
Sourcing == INSTANCE Sourcing WITH
    MostMade <- MostOrdered, Scenes <- SourcingScenes, made <- ordered,
    session <- desk, scene <- entries
Marketplace == INSTANCE Marketplace WITH
    Push <- Pushes, Scenes <- StoreScenes, session <- desk, scene <- entries
Tickets == INSTANCE Tickets WITH
    Tickets <- TicketCount, Session <- Desk, Scenes <- TicketScenes,
    session <- desk, scene <- entries

ASSUME OfficeAssumption ==
    /\ \A l \in ApprovalLines : l \in Seq([mode: Approval!Mode, width: Nat \ {0}])
    /\ Wide \in Nat \ {0}
    /\ Responses \in Nat \ {0} /\ MostOrdered \in Nat
    /\ MostQuotes \in Nat /\ MostOrders \in Nat /\ Reported \subseteq Marketplace!Status
    /\ TicketCount \in Nat \ {0} /\ Patched \subseteq Tickets!Status
    /\ First \in 0..Tickets!Urgent

-----------------------------------------------------------------------------
NoQuotations == Init /\ scene = CHOOSE s \in Scenes : TRUE
NoDesk == desk = Unused /\ entries = {}
NoApproval == line = Unused /\ request = Unused /\ step = Unused
NoNumbers == row = Unused /\ refused = Unused
NoSourcing == status = Unused /\ selected = Unused /\ present = Unused /\ ordered = Unused
NoStore ==
    /\ market = Unused /\ quotes = Unused /\ erps = Unused
    /\ push = [t \in Pushes |-> [state |-> "free", tries |-> 0]]
NoTickets == ticket = [t \in 1..TicketCount |-> Tickets!New] /\ job = Tickets!NoJob

OfficeInit ==
    \/ /\ part = "quotations" /\ Init
       /\ NoDesk /\ NoApproval /\ NoNumbers /\ NoSourcing /\ NoStore /\ NoTickets
    \/ /\ part = "approval" /\ Approval!Init
       /\ NoQuotations /\ NoNumbers /\ NoSourcing /\ NoStore /\ NoTickets
    \/ /\ part = "numbers" /\ Numbers!Init
       /\ NoQuotations /\ NoApproval /\ NoSourcing /\ NoStore /\ NoTickets
    \/ /\ part = "sourcing" /\ Sourcing!Init
       /\ NoQuotations /\ NoApproval /\ NoNumbers /\ NoStore /\ NoTickets
    \/ /\ part = "store" /\ Marketplace!Init
       /\ NoQuotations /\ NoApproval /\ NoNumbers /\ NoSourcing /\ NoTickets
    \/ /\ part = "tickets" /\ Tickets!Init
       /\ NoQuotations /\ NoApproval /\ NoNumbers /\ NoSourcing /\ NoStore

\* What a step of one part leaves alone.
quotations == <<quote, made, session, night, scene>>
approvals == <<line, request, step>>
numbers == <<row, refused>>
sourcings == <<status, selected, present, ordered>>
stores == <<market, quotes, erps, push>>
tickets == <<ticket, job>>

OfficeNext ==
    /\ UNCHANGED part
    /\ \/ /\ part = "quotations" /\ Next
          /\ UNCHANGED <<desk, entries, approvals, numbers, sourcings, stores, tickets>>
       \/ /\ part = "approval" /\ Approval!Next
          /\ UNCHANGED <<quotations, numbers, sourcings, stores, tickets>>
       \/ /\ part = "numbers" /\ Numbers!Next
          /\ UNCHANGED <<quotations, approvals, sourcings, stores, tickets>>
       \/ /\ part = "sourcing" /\ Sourcing!Next
          /\ UNCHANGED <<quotations, approvals, numbers, stores, tickets>>
       \/ /\ part = "store" /\ Marketplace!Next
          /\ UNCHANGED <<quotations, approvals, numbers, sourcings, tickets>>
       \/ /\ part = "tickets" /\ Tickets!Next
          /\ UNCHANGED <<quotations, approvals, numbers, sourcings, stores>>

OfficeSpec == OfficeInit /\ [][OfficeNext]_office
              /\ Fairness /\ Marketplace!Fairness /\ Tickets!Fairness

-----------------------------------------------------------------------------
\* A request its line approved was approved at every level, whatever races; one
\* step at a time, a request follows its line, and always waits for somebody.
LineKept ==
    part = "approval" =>
        /\ Approval!TypeOK
        /\ Approval!EveryLevelApproved /\ Approval!FollowsLine /\ Approval!SomebodyDecides

\* One creation at a time, no document is refused for its number.
NeverRefused ==
    [][part = "numbers" => Numbers!TypeOK' /\ Numbers!RefusedRightly]_office

\* At most one response is awarded, and it is ordered.
OneAward == part = "sourcing" => Sourcing!TypeOK /\ Sourcing!OneAward

\* New store orders are quoted, and what the wizard calls ordered is; every push
\* of a shipment to the platform ends, at the latest with the last retry.
StoreKept ==
    /\ [](part = "store" =>
            Marketplace!TypeOK /\ Marketplace!NewIsQuoted /\ Marketplace!DoneIsOrdered)
    /\ Marketplace!PushesEnd

\* Tickets move along STATUS_TRANSITIONS, and a breach of a service level is
\* noticed, although requests make the job fail.
TicketsKept ==
    /\ [][part = "tickets" => Tickets!TypeOK' /\ Tickets!FollowsMap]_office
    /\ Tickets!BreachNoticed
=============================================================================
