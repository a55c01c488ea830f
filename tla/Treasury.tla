------------------------------ MODULE Treasury ------------------------------
(***************************************************************************)
(* What customers owe and what is owed to suppliers, and the bank accounts  *)
(* the money moves through: apps/accounting keeps AccountReceivable,        *)
(* AccountPayable, Payment, PaymentDistribution, AccountTransfer and        *)
(* BankAccount.balance, a running total beside the rows it is the total of. *)
(*                                                                         *)
(* A payment is registered in one transaction that locks the claim; it is   *)
(* deactivated in the administration, in one transaction that reads the     *)
(* payment without a lock; a transfer's row is committed before the         *)
(* balances move; the form of an account saves the balance it loaded.       *)
(* Claims fall due, and a nightly job and the list pages mark them overdue. *)
(*                                                                         *)
(* Abstractions: a receivable and a payable are rows of one table; vouchers *)
(* and exchange differences are not here; the forms name a bank account.    *)
(***************************************************************************)
EXTENDS Sums

CONSTANTS
    Claims,     \* claims are numbered 1..Claims
    Kind,       \* which of them are receivables and which payables
    Claimed,    \* the amounts of the claims
    Payments,   \* bound: payments ever registered
    Accounts,   \* bank accounts are numbered 1..Accounts
    Amount,     \* the amounts of the forms
    Opening,    \* the balance of every account at the start
    Session,    \* requests that may be in progress at once
    Scenes,     \* the combinations of entry points, one of them for a behaviour
    MostMoved   \* bound: the transfers and edits of a behaviour

EntryPoint == {"pay", "undo", "retire", "list", "transfer", "distribute",
               "edit", "race", "crash"}

ASSUME TreasuryAssumption ==
    /\ Claims \in Nat \ {0} /\ Payments \in Nat \ {0} /\ Accounts \in Nat \ {0}
    /\ Kind \in [1..Claims -> {"AR", "AP"}]
    /\ Amount \subseteq Nat \ {0} /\ Claimed \subseteq Nat \ {0}
    /\ Opening \in Int /\ MostMoved \in Nat
    /\ Scenes \subseteq SUBSET EntryPoint

VARIABLES
    claim,     \* AccountReceivable and AccountPayable
    payment,   \* Payment, with the PaymentDistribution rows of each
    balance,   \* BankAccount.balance
    moved,     \* AccountTransfer: what its rows take from or add to an account
    session,   \* where each request is, and what it holds in memory
    job,       \* update_overdue_receivables: where it is, and the rows it listed
    moves,     \* how many transfers, distributions and edits there were
    scene      \* the entry points in use; "race" allows several requests at once

vars == <<claim, payment, balance, moved, session, job, moves, scene>>

ClaimId == 1..Claims
PaymentId == 1..Payments
AccountId == 1..Accounts
Status == {"PENDING", "PARTIAL", "PAID", "OVERDUE"}
Claim == [live: BOOLEAN, amount: Nat, paid: Int,
          status: Status, due: BOOLEAN]
\* share: the amounts distributed to each account.
Payment == [row: {"absent", "active", "retired"}, claim: ClaimId,
            account: AccountId, amount: Nat, share: [AccountId -> Nat]]
Nothing == [a \in AccountId |-> 0]
NoPayment == [row |-> "absent", claim |-> 1, account |-> 1, amount |-> 0,
              share |-> Nothing]
Work == [stage: {"idle", "undoing", "moving", "editing"}, payment: PaymentId,
         from: AccountId, to: AccountId, amount: Nat, copy: Int]
Idle == [stage |-> "idle", payment |-> 1, from |-> 1, to |-> 1, amount |-> 0,
         copy |-> 0]

\* Mutant: a claim is settled only by more than its amount.
StatusOfStrict(paid, amount) ==
    IF paid > amount THEN "PAID" ELSE IF paid > 0 THEN "PARTIAL" ELSE "PENDING"

\* Mutant: a status that is not one of the choices.
StatusOfUnpaid(paid, amount) ==
    IF paid >= amount THEN "PAID" ELSE IF paid > 0 THEN "PARTIAL" ELSE "UNPAID"

\* _recalculate_ar_status, _recalculate_ap_status
StatusOf(paid, amount) ==
    IF paid >= amount THEN "PAID" ELSE IF paid > 0 THEN "PARTIAL" ELSE "PENDING"

\* The claim with another paid_amount and status.
WithPaid(c, paid, status) ==
    [live |-> c.live, amount |-> c.amount, paid |-> paid,
     status |-> status, due |-> c.due]
Restored(c, n) == WithPaid(c, c.paid - n, StatusOf(c.paid - n, c.amount))
Marked(c, status) == WithPaid(c, c.paid, status)
Rowed(p, row) ==
    [row |-> row, claim |-> p.claim, account |-> p.account, amount |-> p.amount,
     share |-> p.share]
\* A receipt adds to an account, a disbursement takes from it.
Signed(kind, n) == IF kind = "AR" THEN n ELSE -n
Credit(a, n) == balance' = [balance EXCEPT ![a] = @ + n]

At(p, stage) == session[p].stage = stage
Done(p) == session' = [session EXCEPT ![p] = Idle]
Goto(p, stage, k, from, to, n, copy) ==
    session' = [session EXCEPT ![p] =
        [stage |-> stage, payment |-> k, from |-> from, to |-> to,
         amount |-> n, copy |-> copy]]
\* A request starts: alone unless requests may race.
Starts(p, entry) ==
    /\ entry \in scene
    /\ At(p, "idle")
    /\ "race" \in scene \/ \A q \in Session : At(q, "idle")
Another == moves < MostMoved /\ moves' = moves + 1

-----------------------------------------------------------------------------
(* Payments. *)

\* Mutant: the amount is compared with the whole claim.
PayableWhole(c, n) == n <= c.amount

\* AccountReceivable.remaining_amount, compared with the form's amount
Payable(c, n) == n <= c.amount - c.paid

\* payment_update_balance_and_voucher: a saved payment moves the balance of its
\* account (its voucher is not here).
Register(c, k, a, n) ==
    /\ payment[k].row = "absent" /\ \A i \in 1..(k-1) : payment[i].row # "absent"
    /\ payment' = [payment EXCEPT ![k] =
           [row |-> "active", claim |-> c, account |-> a, amount |-> n,
            share |-> Nothing]]
    /\ Credit(a, Signed(Kind[c], n))

\* The claim is locked and compared, the payment saved, the claim updated.
Pay(c, k, a, n) ==
    /\ claim[c].live /\ Payable(claim[c], n)
    /\ Register(c, k, a, n)
    /\ claim' = [claim EXCEPT ![c] =
           WithPaid(@, @.paid + n,
                    IF @.paid + n > 0 THEN StatusOf(@.paid + n, @.amount) ELSE @.status)]
    /\ UNCHANGED <<moved, session, job, moves, scene>>

\* PaymentCreateView and DisbursementCreateView
Receive(p, c, k, a, n) == Starts(p, "pay") /\ Kind[c] = "AR" /\ Pay(c, k, a, n)
Disburse(p, c, k, a, n) == Starts(p, "pay") /\ Kind[c] = "AP" /\ Pay(c, k, a, n)

\* The administration's form of a payment with is_active switched off:
\* payment_soft_delete_restore_balance reads the row, unlocked.
AskUndo(p, k) ==
    /\ Starts(p, "undo")
    /\ payment[k].row = "active"
    /\ Goto(p, "undoing", k, 1, 1, 0, 0)
    /\ UNCHANGED <<claim, payment, balance, moved, job, moves, scene>>

\* Mutant: the balance is not restored.
CommitUndoBalanceKept(p) ==
    LET k == session[p].payment
        c == payment[k].claim
    IN  /\ At(p, "undoing") /\ claim[c].live
        /\ claim' = [claim EXCEPT ![c] = Restored(@, payment[k].amount)]
        /\ payment' = [payment EXCEPT ![k] = Rowed(@, "retired")]
        /\ Done(p)
        /\ UNCHANGED <<balance, moved, job, moves, scene>>

\* ... and restores the claim and the balance; the row follows in the same
\* transaction.  The claim is looked up among the live ones.
CommitUndo(p) ==
    LET k == session[p].payment
        c == payment[k].claim
    IN  /\ At(p, "undoing") /\ claim[c].live
        /\ claim' = [claim EXCEPT ![c] = Restored(@, payment[k].amount)]
        /\ Credit(payment[k].account, -Signed(Kind[c], payment[k].amount))
        /\ payment' = [payment EXCEPT ![k] = Rowed(@, "retired")]
        /\ Done(p)
        /\ UNCHANGED <<moved, job, moves, scene>>
FailUndo(p) ==
    /\ At(p, "undoing") /\ ~claim[payment[session[p].payment].claim].live
    /\ Done(p)
    /\ UNCHANGED <<claim, payment, balance, moved, job, moves, scene>>

\* PaymentDistributeView: a share of a payment is added to another account.
\* The payment itself was counted when it was created, before it had shares.
Distribute(p, k, a, n) ==
    /\ Starts(p, "distribute") /\ Another
    /\ payment[k].row = "active"
    /\ payment' = [payment EXCEPT ![k].share[a] = @ + n]
    /\ Credit(a, Signed(Kind[payment[k].claim], n))
    /\ UNCHANGED <<claim, moved, session, job, scene>>

\* The API deletes a claim (softly).
RetireClaim(p, c) ==
    /\ Starts(p, "retire")
    /\ claim[c].live
    /\ claim' = [claim EXCEPT ![c].live = FALSE]
    /\ UNCHANGED <<payment, balance, moved, session, job, moves, scene>>

-----------------------------------------------------------------------------
(* Bank accounts. *)

\* AccountTransferCreateView: the row is committed ...
AskTransfer(p, a, b, n) ==
    /\ Starts(p, "transfer") /\ Another
    /\ a # b
    /\ moved' = [moved EXCEPT ![a] = @ - n, ![b] = @ + n]
    /\ Goto(p, "moving", 1, a, b, n, 0)
    /\ UNCHANGED <<claim, payment, balance, job, scene>>

\* Mutant: only the account the money comes from is updated.
CommitTransferHalf(p) ==
    LET w == session[p]
    IN  /\ At(p, "moving")
        /\ balance' = [balance EXCEPT ![w.from] = @ - w.amount]
        /\ Done(p)
        /\ UNCHANGED <<claim, payment, moved, job, moves, scene>>

\* ... and then transfer_update_balance_and_voucher moves the balances.
CommitTransfer(p) ==
    LET w == session[p]
    IN  /\ At(p, "moving")
        /\ balance' = [balance EXCEPT ![w.from] = @ - w.amount,
                                      ![w.to] = @ + w.amount]
        /\ Done(p)
        /\ UNCHANGED <<claim, payment, moved, job, moves, scene>>

\* BankAccountUpdateView: the account is loaded, and every column is saved.
AskEdit(p, a) ==
    /\ Starts(p, "edit") /\ Another
    /\ Goto(p, "editing", 1, a, a, 0, balance[a])
    /\ UNCHANGED <<claim, payment, balance, moved, job, scene>>
CommitEdit(p) ==
    /\ At(p, "editing")
    /\ balance' = [balance EXCEPT ![session[p].from] = session[p].copy]
    /\ Done(p)
    /\ UNCHANGED <<claim, payment, moved, job, moves, scene>>

\* A request dies; what it has not committed is lost with it.
Die(p) ==
    /\ "crash" \in scene /\ ~At(p, "idle")
    /\ Done(p)
    /\ UNCHANGED <<claim, payment, balance, moved, job, moves, scene>>

-----------------------------------------------------------------------------
(* Overdue claims. *)

FallDue(c) ==
    /\ ~claim[c].due
    /\ claim' = [claim EXCEPT ![c].due = TRUE]
    /\ UNCHANGED <<payment, balance, moved, session, job, moves, scene>>

\* Mutant: partly paid claims overlooked.
LateUnpaid(c) == c.live /\ c.due /\ c.status = "PENDING"

Late(c) == c.live /\ c.due /\ c.status \in {"PENDING", "PARTIAL"}
LateClaims(kind) == {c \in ClaimId : Kind[c] = kind /\ Late(claim[c])}
MarkOverdue(S) ==
    claim' = [c \in ClaimId |-> IF c \in S THEN Marked(claim[c], "OVERDUE")
                                ELSE claim[c]]

\* ARListView, APListView: the page marks the overdue rows first.
ListReceivables(p) ==
    /\ Starts(p, "list")
    /\ MarkOverdue(LateClaims("AR"))
    /\ UNCHANGED <<payment, balance, moved, session, job, moves, scene>>
ListPayables(p) ==
    /\ Starts(p, "list")
    /\ MarkOverdue(LateClaims("AP"))
    /\ UNCHANGED <<payment, balance, moved, session, job, moves, scene>>

\* update_overdue_receivables lists the receivables ...
NightlyList ==
    /\ job.stage = "idle"
    /\ job' = [stage |-> "listed", rows |-> LateClaims("AR")]
    /\ UNCHANGED <<claim, payment, balance, moved, session, moves, scene>>
\* ... updates the rows it listed, whatever they have become ...
NightlyReceivables ==
    /\ job.stage = "listed"
    /\ MarkOverdue(job.rows)
    /\ job' = [stage |-> "payables", rows |-> {}]
    /\ UNCHANGED <<payment, balance, moved, session, moves, scene>>
\* ... and the payables in one statement.
NightlyPayables ==
    /\ job.stage = "payables"
    /\ MarkOverdue(LateClaims("AP"))
    /\ job' = [stage |-> "idle", rows |-> {}]
    /\ UNCHANGED <<payment, balance, moved, session, moves, scene>>
\* The worker is stopped at night, and the job is lost.
NightlyDies ==
    /\ "crash" \in scene /\ job.stage # "idle"
    /\ job' = [stage |-> "idle", rows |-> {}]
    /\ UNCHANGED <<claim, payment, balance, moved, session, moves, scene>>

-----------------------------------------------------------------------------
Init ==
    /\ scene \in Scenes
    /\ claim \in [ClaimId -> {[live |-> TRUE, amount |-> n, paid |-> 0,
                               status |-> "PENDING", due |-> FALSE] : n \in Claimed}]
    /\ payment = [k \in PaymentId |-> NoPayment]
    /\ balance = [a \in AccountId |-> Opening]
    /\ moved = Nothing
    /\ session = [p \in Session |-> Idle]
    /\ job = [stage |-> "idle", rows |-> {}]
    /\ moves = 0

PaymentForms(p) ==
    \/ \E c \in ClaimId, k \in PaymentId, a \in AccountId, n \in Amount :
           Receive(p, c, k, a, n) \/ Disburse(p, c, k, a, n)
    \/ \E k \in PaymentId : AskUndo(p, k)
    \/ CommitUndo(p)
    \/ FailUndo(p)
    \/ \E k \in PaymentId, a \in AccountId, n \in Amount : Distribute(p, k, a, n)
    \/ \E c \in ClaimId : RetireClaim(p, c)
AccountForms(p) ==
    \/ \E a, b \in AccountId, n \in Amount : AskTransfer(p, a, b, n)
    \/ CommitTransfer(p)
    \/ \E a \in AccountId : AskEdit(p, a)
    \/ CommitEdit(p)
    \/ Die(p)
Overdue ==
    \/ \E c \in ClaimId : FallDue(c)
    \/ \E p \in Session : ListReceivables(p) \/ ListPayables(p)
    \/ NightlyList
    \/ NightlyReceivables
    \/ NightlyPayables
    \/ NightlyDies

Next ==
    \/ \E p \in Session : PaymentForms(p) \/ AccountForms(p)
    \/ Overdue

\* Beat starts the job every night, and not every run of it is stopped; no
\* page is ever asked for.
Fairness ==
    /\ WF_vars(NightlyList)
    /\ SF_vars(NightlyReceivables)
    /\ SF_vars(NightlyPayables)

Spec == Init /\ [][Next]_vars /\ Fairness

-----------------------------------------------------------------------------
(* What holds. *)

\* Every row keeps its type; the balances and what was paid are integers.
TypeOK ==
    /\ claim \in [ClaimId -> Claim]
    /\ payment \in [PaymentId -> Payment]
    /\ balance \in [AccountId -> Int] /\ moved \in [AccountId -> Int]
    /\ session \in [Session -> Work]
    /\ job \in [stage: {"idle", "listed", "payables"}, rows: SUBSET ClaimId]
    /\ moves \in 0..MostMoved
    /\ scene \in Scenes

Settled == [c \in ClaimId |-> Signed(Kind[c], claim[c].paid)]
\* The accounts together have moved by what the claims say was received and
\* paid, whatever races and whoever dies, even when a payment is undone twice:
\* a payment and its restoration change both figures in one transaction.
BooksAgree ==
    scene \cap {"distribute", "edit"} = {} =>
        SumTo(balance, Accounts) =
            SumTo([a \in AccountId |-> Opening], Accounts) + SumTo(Settled, Claims)

\* PAID says of a payable exactly that all of it was paid, under any race of
\* payments, restorations, list pages and the nightly job.  Of a receivable it
\* does not: the job lists the rows and then updates what it listed.
SettledExact ==
    \A c \in ClaimId : Kind[c] = "AP" =>
        (claim[c].status = "PAID" <=> claim[c].paid >= claim[c].amount)

ActiveOn(k, c) == IF payment[k].row = "active" /\ payment[k].claim = c
                  THEN payment[k].amount ELSE 0
Paid(c) == SumTo([k \in PaymentId |-> ActiveOn(k, c)], Payments)
\* paid_amount is the total of the active payments and never exceeds the claim,
\* if payments are not undone by two requests at once; payments themselves
\* may race.
PaidExact ==
    ~({"undo", "race"} \subseteq scene) =>
        \A c \in ClaimId : claim[c].paid = Paid(c) /\ Paid(c) <= claim[c].amount

AtRest == \A p \in Session : At(p, "idle")
Counted(k, a) ==
    IF payment[k].row # "active" \/ payment[k].account # a THEN 0
    ELSE Signed(Kind[payment[k].claim], payment[k].amount)
\* One request at a time and none dying, a balance is the opening balance, the
\* active payments and the transfers of that account: what the command
\* validate_migration recomputes, transfers added.
BankExact ==
    scene \cap {"race", "crash", "distribute"} = {} /\ AtRest =>
        \A a \in AccountId :
            balance[a] = Opening + moved[a]
                         + SumTo([k \in PaymentId |-> Counted(k, a)], Payments)

Shared(k, a) ==
    IF payment[k].row # "active" THEN 0
    ELSE IF payment[k].share = Nothing THEN Counted(k, a)
    ELSE Signed(Kind[payment[k].claim], payment[k].share[a])
\* A payment that was distributed is in the accounts it was distributed to, and
\* nowhere else.
DistributedOnce ==
    \A a \in AccountId :
        balance[a] = Opening + moved[a]
                     + SumTo([k \in PaymentId |-> Shared(k, a)], Payments)

\* A claim that is due and not paid is marked overdue, or settled or deleted,
\* sooner or later: the nightly job is not starved by payments, nor stopped
\* for ever by the nights on which it dies.
OverdueNoticed ==
    \A c \in ClaimId :
        (claim[c].live /\ claim[c].due /\ claim[c].status \in {"PENDING", "PARTIAL"})
            ~> (~claim[c].live \/ claim[c].status \in {"OVERDUE", "PAID"})
=============================================================================
