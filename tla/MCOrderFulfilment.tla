-------------------------- MODULE MCOrderFulfilment --------------------------
(***************************************************************************)
(* OrderFulfilment for TLC: orders sharing the reserved stock, shipped in   *)
(* parts and then in full by one request at a time.                         *)
(***************************************************************************)
EXTENDS OrderFulfilment

OneSession == {"clerk"}
Shipped == {[p \in OneSession |-> {"status", "partial"}]}
=============================================================================
