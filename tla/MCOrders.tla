------------------------------ MODULE MCOrders ------------------------------
(***************************************************************************)
(* OrderFulfilment for TLC: two orders and two shipments, or, where the     *)
(* entry points are many, one of either, the other deleted before.          *)
(***************************************************************************)
EXTENDS OrderFulfilment, TLC

CONSTANTS p1, p2

TwoSessions == {p1, p2}
Symmetry == Permutations(TwoSessions)

\* One session uses E and the other F.
Using(E, F) == {[p \in TwoSessions |-> IF p = q THEN E ELSE F] : q \in TwoSessions}

\* Two orders shipped in parts and in full, modified and cancelled by requests that
\* come one at a time and may die, or deleted.
Shipping == Using({"status", "partial", "modify", "crash"}, {})
Deleting == Using({"status", "partial", "erase"}, {})
\* Two orders sharing the reserved stock, one request at a time.
Reserving == Using({"status", "pay", "modify"}, {})
\* One order and every entry point, one request at a time; none dies.
Intact == Using(EntryPoint \ {"crash"}, {})
\* Two orders confirmed, shipped and cancelled by two requests.
Racing == Using({"status"}, {"status"})
\* One order and its shipment, by two requests; one order, by two that may die.
RacingOnOne ==
    Using({"status", "shipment", "erase"}, {"status", "shipment", "erase"})
    \cup Using({"status", "erase", "crash"}, {"status", "erase", "crash"})
\* One order under every entry point but its payment, while another request ships
\* a part of it, may die and deletes it.
Living == Using(EntryPoint \ {"pay", "crash"}, {"partial", "erase", "crash"})

Choices == UNION {Shipping, Deleting, Reserving, Intact, Racing, RacingOnOne, Living}

\* What is there at the start.
MCInit ==
    /\ Init
    /\ order[1].row = "active" /\ shipment[2].row = "absent"
    /\ IF scene \in Intact \cup RacingOnOne \cup Living
       THEN order[2].row = "erased" /\ order[2].qty = 1
       ELSE order[2].row = "active"
    /\ shipment[1].row = IF scene \in RacingOnOne \cup Living THEN "erased" ELSE "absent"
    \* Two racing orders exceed the stock together, the one order not even twice.
    /\ scene \in Racing => order[1].qty = 2 /\ order[2].qty = 2
    /\ scene \in RacingOnOne => order[1].qty = 1

MCSpec == MCInit /\ [][Next]_vars
=============================================================================
