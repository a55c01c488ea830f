----------------------------- MODULE ClosedBooks -----------------------------
(***************************************************************************)
(* Vouchers, their lines, and the months that are closed over them, as      *)
(* apps/accounting keeps them.                                              *)
(*                                                                         *)
(* Every save of a voucher runs a pre_save handler that refuses it when the *)
(* month of the row being saved is closed.  The handler reads the month     *)
(* without a lock, and the UPDATE that follows locks the voucher until the  *)
(* transaction ends, so that the form writes its lines and compares debit   *)
(* with credit alone.  The closing of a month reads its own row, looks for  *)
(* vouchers not approved, and then saves, in autocommit.                    *)
(*                                                                         *)
(* Abstractions: a voucher has two debit lines and a credit line, an amount *)
(* of 0 standing for no line; an edit changes amounts or adds the second    *)
(* debit; a voucher is erased only while no request is under way; budgets,  *)
(* which only warn, and the administration of ClosingPeriod are not here.   *)
(***************************************************************************)
EXTENDS Sums

CONSTANTS
    Vouchers,   \* bound: vouchers ever created
    Forms,      \* the lines a form may carry: [first, second, credit]
    Policies,   \* VoucherApprovalConfig: [default, limit], one for a behaviour
    Session,    \* requests that may be in progress at once
    Scenes      \* the combinations of entry points

EntryPoint == {"form", "api", "auto", "move", "admin", "erase", "restore", "race"}

VARIABLES
    voucher,    \* Voucher with its VoucherLine rows
    closed,     \* ClosingPeriod.is_closed, by month
    frozen,     \* history: the total of each month when it was closed
    policy,     \* VoucherApprovalConfig
    session, scene

vars == <<voucher, closed, frozen, policy, session, scene>>

VoucherId == 1..Vouchers
Month == 1..2
Status == {"DRAFT", "SUBMITTED", "APPROVED", "REJECTED"}
Amounts == [first: Nat, second: Nat, credit: Nat]
NoLines == [first |-> 0, second |-> 0, credit |-> 0]
Voucher == [row: {"absent", "live", "retired", "erased"}, month: Month, status: Status,
            lines: Amounts]
NoVoucher == [row |-> "absent", month |-> 1, status |-> "DRAFT", lines |-> NoLines]
\* saved: a form with its lines, the whole row, or is_active alone; row: the
\* voucher as it will be saved; loaded: its lines as they were read.
Work == [stage: {"idle", "saving", "writing", "closing", "examined"},
         saved: {"form", "row", "column"}, voucher: VoucherId, row: Voucher,
         loaded: Amounts, month: Month, was: BOOLEAN]
Idle == [stage |-> "idle", saved |-> "row", voucher |-> 1, row |-> NoVoucher,
         loaded |-> NoLines, month |-> 1, was |-> FALSE]

At(p, stage) == session[p].stage = stage
Goto(p, w) == session' = [session EXCEPT ![p] = w]
Done(p) == Goto(p, Idle)
AtRest == \A p \in Session : At(p, "idle")
Starts(p) == At(p, "idle") /\ ("race" \in scene \/ AtRest)
Live(v) == voucher[v].row = "live"
\* The next voucher to be created: their numbers differ.
Free(v) ==
    /\ voucher[v].row = "absent"
    /\ \A p \in Session : At(p, "idle") \/ session[p].voucher # v
Of(m) == {v \in VoucherId : Live(v) /\ voucher[v].month = m}
Debit(l) == l.first + l.second
TotalOf(m) == SumTo([v \in VoucherId |-> IF v \in Of(m) THEN Debit(voucher[v].lines) ELSE 0], Vouchers)

Init ==
    /\ scene \in Scenes /\ policy \in Policies
    /\ voucher = [v \in VoucherId |-> NoVoucher]
    /\ closed = [m \in Month |-> FALSE] /\ frozen = [m \in Month |-> 0]
    /\ session = [p \in Session |-> Idle]

-----------------------------------------------------------------------------
(* Requests load what they will save. *)

Saves(p, saved, v, row) ==
    Goto(p, [Idle EXCEPT !.stage = "saving", !.saved = saved, !.voucher = v, !.row = row,
                         !.loaded = voucher[v].lines])

\* VoucherCreateView, with balanced lines or not; other handlers post vouchers
\* that are balanced and APPROVED, where the month is open.
AskCreate(p, v, m, l) ==
    /\ Free(v) /\ ~closed[m] /\ Starts(p)
    /\ \/ "form" \in scene
          /\ Saves(p, "form", v, [row |-> "live", month |-> m, status |-> "DRAFT", lines |-> l])
       \/ "auto" \in scene /\ Debit(l) = l.credit
          /\ Saves(p, "row", v, [row |-> "live", month |-> m, status |-> "APPROVED", lines |-> l])

\* VoucherUpdateView: the lines there are must balance and the month the form
\* names be open; the rest of the row is written as loaded.
AskEdit(p, v, m, l) ==
    /\ "form" \in scene /\ Live(v) /\ Starts(p)
    /\ Debit(voucher[v].lines) = voucher[v].lines.credit
    /\ m = voucher[v].month \/ "move" \in scene
    /\ ~closed[m]
    /\ Saves(p, "form", v, [voucher[v] EXCEPT !.month = m, !.lines = l])

\* The API: a voucher without lines, another status, and the retirement.
AskPatch(p, v, m, s) ==
    /\ "api" \in scene /\ Starts(p)
    /\ \/ /\ Free(v)
          /\ Saves(p, "row", v, [NoVoucher EXCEPT !.row = "live", !.month = m, !.status = s])
       \/ /\ Live(v) /\ (m = voucher[v].month \/ "move" \in scene)
          /\ Saves(p, "row", v, [voucher[v] EXCEPT !.month = m, !.status = s])
AskRetire(p, v) ==
    /\ "api" \in scene /\ Live(v) /\ Starts(p)
    /\ Saves(p, "column", v, [voucher[v] EXCEPT !.row = "retired"])
\* RestoreView of the trash.
AskRestore(p, v) ==
    /\ "restore" \in scene /\ voucher[v].row = "retired" /\ Starts(p)
    /\ Saves(p, "column", v, [voucher[v] EXCEPT !.row = "live"])

-----------------------------------------------------------------------------
(* The save. *)

\* Mutant: only what is new is refused.
BlockedNew(w) == closed[w.row.month] /\ voucher[w.voucher].row = "absent"
\* voucher_block_on_closed_period, and what it leaves of the request.
Blocked(w) == closed[w.row.month]
Check(p) ==
    /\ At(p, "saving")
    /\ IF Blocked(session[p]) THEN Done(p) ELSE Goto(p, [session[p] EXCEPT !.stage = "writing"])
    /\ UNCHANGED <<voucher, closed, frozen, policy, scene>>

\* A formset saves the lines whose amount is not the one it loaded.
Kept(old, loaded, new) == IF new = loaded THEN old ELSE new
Merged(old, loaded, new) ==
    [first |-> Kept(old.first, loaded.first, new.first),
     second |-> Kept(old.second, loaded.second, new.second),
     credit |-> Kept(old.credit, loaded.credit, new.credit)]
\* Mutant: the form compares what it was sent.
BalancedAsSent(w, l) == Debit(w.row.lines) = w.row.lines.credit
\* Voucher.is_balanced reads the rows.
IsBalanced(w, l) == Debit(l) = l.credit

\* voucher_apply_approval_policy, for each line that is new: an approved voucher
\* falls to the status of the policy, and to SUBMITTED beyond its limit; after
\* the first it may be approved no more.
Policed(status, early, total) ==
    LET beyond(n) == policy.limit > 0 /\ n > policy.limit
    IN CASE status # "APPROVED" -> status
         [] beyond(early) -> "SUBMITTED"
         [] policy.default = "APPROVED" /\ beyond(total) -> "SUBMITTED"
         [] OTHER -> policy.default

\* What the transaction leaves.
Written(w, old) ==
    LET lines == Merged(old.lines, w.loaded, w.row.lines)
        added == \E f \in DOMAIN lines : old.lines[f] = 0 /\ lines[f] > 0
        early == IF Debit(old.lines) = 0 THEN lines.first ELSE Debit(lines)
    IN IF w.saved = "column" THEN [old EXCEPT !.row = w.row.row]
       ELSE [w.row EXCEPT !.lines = lines,
                          !.status = IF added THEN Policed(@, early, Debit(lines)) ELSE @]

CommitSave(p) ==
    LET w == session[p]
        row == Written(w, voucher[w.voucher])
    IN /\ At(p, "writing") /\ Done(p)
       /\ IF w.saved = "form" /\ ~IsBalanced(w, row.lines) THEN UNCHANGED voucher
          ELSE voucher' = [voucher EXCEPT ![w.voucher] = row]
       /\ UNCHANGED <<closed, frozen, policy, scene>>

\* The page of the administration compares the lines there are before it saves
\* others, and is one transaction; erasing saves nothing.
Administer(v, l) ==
    /\ "admin" \in scene /\ Live(v) /\ ~closed[voucher[v].month]
    /\ Debit(voucher[v].lines) = voucher[v].lines.credit
    /\ voucher' = [voucher EXCEPT ![v].lines = l]
    /\ UNCHANGED <<closed, frozen, policy, session, scene>>
Erase(v) ==
    /\ "erase" \in scene /\ voucher[v].row \in {"live", "retired"} /\ AtRest
    /\ voucher' = [voucher EXCEPT ![v] = [NoVoucher EXCEPT !.row = "erased"]]
    /\ UNCHANGED <<closed, frozen, policy, session, scene>>

-----------------------------------------------------------------------------
(* ClosingPeriodCloseView, which opens what it reads as closed. *)

AskClose(p, m) ==
    /\ Starts(p)
    /\ Goto(p, [Idle EXCEPT !.stage = "closing", !.month = m, !.was = closed[m]])
    /\ UNCHANGED <<voucher, closed, frozen, policy, scene>>
\* Mutant: what was submitted is taken for decided.
PendingDrafts(v) == voucher[v].status = "DRAFT"
Pending(v) == voucher[v].status \in {"DRAFT", "SUBMITTED"}
Examine(p) ==
    LET w == session[p]
    IN /\ At(p, "closing")
       /\ IF ~w.was /\ \E v \in Of(w.month) : Pending(v) THEN Done(p)
          ELSE Goto(p, [w EXCEPT !.stage = "examined"])
       /\ UNCHANGED <<voucher, closed, frozen, policy, scene>>
CommitClose(p) ==
    LET w == session[p]
    IN /\ At(p, "examined") /\ Done(p)
       /\ closed' = [closed EXCEPT ![w.month] = ~w.was]
       /\ frozen' = [frozen EXCEPT ![w.month] = IF w.was THEN 0 ELSE TotalOf(w.month)]
       /\ UNCHANGED <<voucher, policy, scene>>

Ask(p) ==
    /\ \E v \in VoucherId :
        \/ \E m \in Month, l \in Forms : AskCreate(p, v, m, l) \/ AskEdit(p, v, m, l)
        \/ \E m \in Month, s \in Status : AskPatch(p, v, m, s)
        \/ AskRetire(p, v) \/ AskRestore(p, v)
    /\ UNCHANGED <<voucher, closed, frozen, policy, scene>>
Next ==
    \/ \E p \in Session :
        \/ Ask(p) \/ Check(p) \/ CommitSave(p)
        \/ \E m \in Month : AskClose(p, m)
        \/ Examine(p) \/ CommitClose(p)
    \/ \E v \in VoucherId : Erase(v) \/ \E l \in Forms : Administer(v, l)

Spec == Init /\ [][Next]_vars

-----------------------------------------------------------------------------
(* What holds. *)

TypeOK ==
    /\ scene \in Scenes /\ policy \in Policies
    /\ voucher \in [VoucherId -> Voucher] /\ session \in [Session -> Work]
    /\ closed \in [Month -> BOOLEAN] /\ frozen \in [Month -> Nat]

\* However forms merge their lines with those another form saved meanwhile,
\* the vouchers outside the administration balance: debit and credit are
\* compared under the lock.
Balanced ==
    "admin" \notin scene =>
        \A v \in VoucherId : Debit(voucher[v].lines) = voucher[v].lines.credit

\* One request at a time, a closed month has nothing that waits for approval,
\* whichever way its vouchers came, moved and returned.
ClosedDecided ==
    "race" \notin scene /\ AtRest =>
        \A m \in Month : closed[m] =>
            \A v \in Of(m) : voucher[v].status \in {"APPROVED", "REJECTED"}

\* ... and its total is what it was when the month was closed, unless vouchers
\* are moved to another month, which is the one compared, or erased.
ClosedStays ==
    scene \cap {"race", "move", "erase"} = {} =>
        \A m \in Month : closed[m] => TotalOf(m) = frozen[m]

=============================================================================
