-------------------------------- MODULE Sums --------------------------------
(***************************************************************************)
(* Totals over numbered rows.  The ERP keeps the same figure twice in       *)
(* several places -- Product.current_stock and the WarehouseStock rows, a   *)
(* movement's quantity and the StockLot rows it consumed -- and the         *)
(* properties of the ledger modules compare such totals.                    *)
(*                                                                         *)
(* SumTo is a recursive function and not a RECURSIVE operator, so that the  *)
(* facts below can be proved and used in the proofs of the ledger modules.  *)
(***************************************************************************)
EXTENDS Integers

\* f[1] + ... + f[n]
SumTo(f, n) ==
    LET total[k \in 0..n] == IF k = 0 THEN 0 ELSE total[k-1] + f[k]
    IN  total[n]

=============================================================================
