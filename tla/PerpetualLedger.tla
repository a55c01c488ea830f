-------------------------- MODULE PerpetualLedger --------------------------
(***************************************************************************)
(* What a perpetual inventory promises, without sessions, handlers or       *)
(* derived tables: a balance that is never negative and never anything but  *)
(* the sum of the entries booked and not voided.  Several entries may be    *)
(* booked at once (the two sides of a transfer).                            *)
(* StockLedger is shown to implement this module where it does.             *)
(***************************************************************************)
EXTENDS Sums

CONSTANT Entries    \* entries are numbered 1..Entries

VARIABLES
    balance,        \* the stock of the product
    state,          \* "open", "booked" or "voided", by entry
    amount          \* the signed quantity of an entry, once it is booked

vars == <<balance, state, amount>>

EntryId == 1..Entries

Init ==
    /\ balance = 0
    /\ state = [i \in EntryId |-> "open"]
    /\ amount = [i \in EntryId |-> 0]

\* Entries S move from one state to the next, all at once.
Move(S, before, after) ==
    /\ \A i \in S : state[i] = before
    /\ state' = [i \in EntryId |-> IF i \in S THEN after ELSE state[i]]

Amounts(S, a) == SumTo([i \in EntryId |-> IF i \in S THEN a[i] ELSE 0], Entries)

Book(S) ==
    /\ Move(S, "open", "booked")
    /\ \A i \in EntryId \ S : amount'[i] = amount[i]
    /\ balance' = balance + Amounts(S, amount')
    /\ balance' >= 0

Void(S) ==
    /\ Move(S, "booked", "voided")
    /\ amount' = amount
    /\ balance' = balance - Amounts(S, amount)
    /\ balance' >= 0

Next == \E S \in SUBSET EntryId : Book(S) \/ Void(S)

Spec == Init /\ [][Next]_vars
=============================================================================
