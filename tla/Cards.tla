-------------------------------- MODULE Cards --------------------------------
(***************************************************************************)
(* A company card: its transactions, what was used of its limit, and its    *)
(* monthly bill, as apps/accounting keeps them.                             *)
(*                                                                         *)
(* A transaction is inserted, and its post_save handler counts and vouches  *)
(* for it in a transaction of its own; a cancellation takes the amount back *)
(* by the pre_save handler.  On the first of the month one job sets what    *)
(* was used to nothing, and a later one bills the month before: it sums,    *)
(* creates the bill, and then links the transactions, each committed by     *)
(* itself.  Forms load a transaction and save all of it.                    *)
(*                                                                         *)
(* Abstractions: one card and one turn of the month; transaction t is of    *)
(* amount t; no month is closed, the account codes and the paying account   *)
(* exist; forms leave amounts and dates alone.                             *)
(***************************************************************************)
EXTENDS Sums

CONSTANTS
    Transactions,   \* transactions are numbered 1..Transactions
    MostReversals,  \* bound: reversals of a transaction
    Session,        \* requests that may be in progress at once
    Scenes          \* the combinations of entry points

EntryPoint == {"late", "cancel", "edit", "jobs", "race", "crash"}

VARIABLES
    used,       \* CreditCard.used_amount
    slip,       \* CardTransaction, with its vouchers
    bill,       \* the CardBilling of the first month
    paid,       \* history: what was disbursed for the bill
    month,      \* today's month, 1 or 2, and which jobs of the 1st have begun
    job,        \* create_monthly_card_billing
    session, scene

vars == <<used, slip, bill, paid, month, job, session, scene>>

SlipId == 1..Transactions
\* entered: inserted; dated: the month of transaction_date; voucher, reversal:
\* how many were posted; billed: billing is set.
Slip == [entered: BOOLEAN, dated: 1..2, cancelled: BOOLEAN, voucher: 0..1, reversal: Nat,
         billed: BOOLEAN]
NoSlip == [entered |-> FALSE, dated |-> 1, cancelled |-> FALSE, voucher |-> 0,
           reversal |-> 0, billed |-> FALSE]
BillStatus == {"absent", "PENDING", "PARTIAL", "PAID"}
Bill == [status: BillStatus, total: Nat, paid: Nat]
NoBill == [status |-> "absent", total |-> 0, paid |-> 0]
Work == [stage: {"idle", "counting", "saving", "writing", "cancelling"}, slip: SlipId, row: Slip]
Idle == [stage |-> "idle", slip |-> 1, row |-> NoSlip]
Job == [stage: {"idle", "summed", "created"}, total: Nat]
JobIdle == [stage |-> "idle", total |-> 0]

At(p, stage) == session[p].stage = stage
Goto(p, w) == session' = [session EXCEPT ![p] = w]
Done(p) == Goto(p, Idle)
AtRest == (\A p \in Session : At(p, "idle")) /\ job = JobIdle
Starts(p) == At(p, "idle") /\ ("race" \in scene \/ AtRest)
OneAtATime == "race" \notin scene

Total(S) == SumTo([t \in SlipId |-> IF t \in S THEN t ELSE 0], Transactions)
TakesBack(old, new) == ~old.cancelled /\ new.cancelled

-----------------------------------------------------------------------------
(* Requests. *)

\* CardTransactionCreateView: the INSERT.
Enter(p, t, m) ==
    /\ Starts(p) /\ ~slip[t].entered
    /\ m = month.now \/ (m < month.now /\ "late" \in scene)
    /\ slip' = [slip EXCEPT ![t].entered = TRUE, ![t].dated = m]
    /\ Goto(p, [Idle EXCEPT !.stage = "counting", !.slip = t])
    /\ UNCHANGED <<used, bill, paid, month, job, scene>>

\* card_transaction_voucher
Count(p) ==
    LET t == session[p].slip
    IN  /\ At(p, "counting")
        /\ used' = used + t
        /\ slip' = [slip EXCEPT ![t].voucher = 1]
        /\ Done(p)
        /\ UNCHANGED <<bill, paid, month, job, scene>>

\* CardTransactionUpdateView loads the row.
AskEdit(p, t) ==
    /\ "edit" \in scene /\ Starts(p) /\ slip[t].entered
    /\ Goto(p, [stage |-> "saving", slip |-> t, row |-> slip[t]])
    /\ UNCHANGED <<used, slip, bill, paid, month, job, scene>>

Reversed(t) == [slip EXCEPT ![t].reversal = @ + 1]

\* card_transaction_cancel: the row is read again, and an amount that is newly
\* cancelled is taken back.
HandleSave(p) ==
    LET w == session[p]
        back == TakesBack(slip[w.slip], w.row)
    IN  /\ At(p, "saving")
        /\ slip[w.slip].reversal < MostReversals
        /\ used' = IF back THEN used - w.slip ELSE used
        /\ slip' = IF back THEN Reversed(w.slip) ELSE slip
        /\ Goto(p, [w EXCEPT !.stage = "writing"])
        /\ UNCHANGED <<bill, paid, month, job, scene>>

\* Every column of the row; vouchers and their reversals are rows of their own.
WriteSlip(p) ==
    LET w == session[p]
    IN  /\ At(p, "writing")
        /\ slip' = [slip EXCEPT ![w.slip].cancelled = w.row.cancelled,
                                ![w.slip].billed = w.row.billed]
        /\ Done(p)
        /\ UNCHANGED <<used, bill, paid, month, job, scene>>

\* The page of the admin, where a transaction is cancelled: one transaction,
\* but the row is read, and read again, before the card is locked.
AskCancel(p, t) ==
    /\ "cancel" \in scene /\ Starts(p) /\ slip[t].entered
    /\ Goto(p, [stage |-> "cancelling", slip |-> t, row |-> slip[t]])
    /\ UNCHANGED <<used, slip, bill, paid, month, job, scene>>

CommitCancel(p) ==
    LET w == session[p]
        back == TakesBack(w.row, [w.row EXCEPT !.cancelled = TRUE])
    IN  /\ At(p, "cancelling")
        /\ slip[w.slip].reversal < MostReversals
        /\ used' = IF back THEN used - w.slip ELSE used
        /\ slip' = [IF back THEN Reversed(w.slip) ELSE slip EXCEPT
                       ![w.slip].cancelled = TRUE, ![w.slip].billed = w.row.billed]
        /\ Done(p)
        /\ UNCHANGED <<bill, paid, month, job, scene>>

\* Mutant: the status is not looked at, nor what remains.
PayTotal(b) == IF b.status # "absent" THEN b.total ELSE 0

\* What CardBillingPayView pays: nothing of a bill that is paid.
ToPay(b) == IF b.status \in {"PENDING", "PARTIAL"} THEN b.total - b.paid ELSE 0

\* CardBillingPayView: the bill is locked.
PayBill(p) ==
    LET amount == ToPay(bill)
    IN  /\ Starts(p) /\ amount > 0
        /\ paid <= Total(SlipId)                \* bound
        /\ paid' = paid + amount
        /\ bill' = [bill EXCEPT !.paid = @ + amount,
                                !.status = IF bill.paid + amount >= bill.total
                                           THEN "PAID" ELSE "PARTIAL"]
        /\ UNCHANGED <<used, slip, month, job, session, scene>>

\* The worker is killed; what was committed stays.
Crash(p) ==
    /\ "crash" \in scene /\ ~At(p, "idle")
    /\ Done(p)
    /\ UNCHANGED <<used, slip, bill, paid, month, job, scene>>

-----------------------------------------------------------------------------
(* The turn of the month, and the jobs of the first day. *)

TurnMonth ==
    /\ "jobs" \in scene /\ month.now = 1 /\ (OneAtATime => AtRest)
    /\ month' = [month EXCEPT !.now = 2]
    /\ UNCHANGED <<used, slip, bill, paid, job, session, scene>>

\* reset_card_used_amount
ResetUsed ==
    /\ month.now = 2 /\ ~month.reset /\ (OneAtATime => AtRest)
    /\ month' = [month EXCEPT !.reset = TRUE]
    /\ used' = 0
    /\ UNCHANGED <<slip, bill, paid, job, session, scene>>

\* The transactions of the month before that are neither cancelled nor billed.
Billable == {t \in SlipId : /\ slip[t].entered /\ slip[t].dated = 1
                            /\ ~slip[t].cancelled /\ ~slip[t].billed}

\* create_monthly_card_billing: a bill there is ends it, and so does no use.
SumMonth ==
    /\ month.reset /\ ~month.billing /\ job = JobIdle /\ (OneAtATime => AtRest)
    /\ month' = [month EXCEPT !.billing = TRUE]
    /\ job' = IF bill.status = "absent" /\ Billable # {}
              THEN [stage |-> "summed", total |-> Total(Billable)] ELSE JobIdle
    /\ UNCHANGED <<used, slip, bill, paid, session, scene>>

CreateBill ==
    /\ job.stage = "summed"
    /\ bill' = [NoBill EXCEPT !.status = "PENDING", !.total = job.total]
    /\ job' = [job EXCEPT !.stage = "created"]
    /\ UNCHANGED <<used, slip, paid, month, session, scene>>

\* Mutant: of whatever month.
LinkSlipsOfAnyMonth ==
    /\ job.stage = "created"
    /\ slip' = [t \in SlipId |-> [slip[t] EXCEPT !.billed = slip[t].entered /\ ~slip[t].cancelled]]
    /\ job' = JobIdle
    /\ UNCHANGED <<used, bill, paid, month, session, scene>>

LinkSlips ==
    /\ job.stage = "created"
    /\ slip' = [t \in SlipId |-> IF t \in Billable THEN [slip[t] EXCEPT !.billed = TRUE]
                                 ELSE slip[t]]
    /\ job' = JobIdle
    /\ UNCHANGED <<used, bill, paid, month, session, scene>>

JobDies ==
    /\ "crash" \in scene /\ job # JobIdle
    /\ job' = JobIdle
    /\ UNCHANGED <<used, slip, bill, paid, month, session, scene>>

-----------------------------------------------------------------------------
Init ==
    /\ scene \in Scenes
    /\ used = 0 /\ slip = [t \in SlipId |-> NoSlip]
    /\ bill = NoBill /\ paid = 0
    /\ month = [now |-> 1, reset |-> FALSE, billing |-> FALSE]
    /\ job = JobIdle /\ session = [p \in Session |-> Idle]

Next ==
    \/ \E p \in Session :
         \/ \E t \in SlipId :
              (\E m \in 1..2 : Enter(p, t, m)) \/ AskEdit(p, t) \/ AskCancel(p, t)
         \/ Count(p) \/ HandleSave(p) \/ WriteSlip(p) \/ CommitCancel(p) \/ PayBill(p) \/ Crash(p)
    \/ TurnMonth \/ ResetUsed \/ SumMonth \/ CreateBill \/ LinkSlips \/ JobDies

Spec == Init /\ [][Next]_vars

-----------------------------------------------------------------------------
(* What holds. *)

TypeOK ==
    /\ scene \in Scenes
    /\ used \in Int /\ slip \in [SlipId -> Slip] /\ bill \in Bill /\ paid \in Nat
    /\ month \in [now: 1..2, reset: BOOLEAN, billing: BOOLEAN]
    /\ job \in Job /\ session \in [Session -> Work]

\* A bill is paid once and in full, whoever races to pay it.
BillPaidOnce == paid = bill.paid /\ paid <= bill.total /\ (bill.status = "PAID" => paid = bill.total)

\* Until the month turns, what was used is what was vouched for and not
\* reversed, whatever races and dies.
UsedVouched ==
    month.now = 1 =>
        used = SumTo([t \in SlipId |-> t * (slip[t].voucher - slip[t].reversal)], Transactions)

\* ... and what the transactions say, if no two saves of one transaction race
\* and no request dies.
UsedExact ==
    month.now = 1 /\ AtRest /\ "crash" \notin scene /\ ~({"race", "cancel"} \subseteq scene) =>
        used = Total({t \in SlipId : slip[t].entered /\ ~slip[t].cancelled})

\* While nothing races the billing, and it does not die, the bill is the sum
\* of the transactions that are linked to it.
BillExact ==
    scene \cap {"race", "crash"} = {} /\ AtRest /\ bill.status # "absent" =>
        bill.total = Total({t \in SlipId : slip[t].billed})
=============================================================================
