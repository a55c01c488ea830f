--------------------------- MODULE MCStockLedger ---------------------------
(***************************************************************************)
(* Instances of StockLedger for TLC.                                        *)
(***************************************************************************)
EXTENDS StockLedger, FiniteSets, TLC

CONSTANTS p1, p2
OneSession == {p1}
TwoSessions == {p1, p2}
Symmetry == Permutations(Session)

Small == {1, 2}
One == {1}
Racing == {"receive", "issue", "cancel", "delete", "patch", "crash"}
Cancelling == {"receive", "cancel"}
Intact == EntryPoint \ {"crash", "patch"}

\* The instance of one request: deletions are followed where at most three rows are.
DeletedFewRows ==
    (\E m \in RowId : row[m].status = "deleted") => Cardinality(Taken(row)) <= 3
=============================================================================
