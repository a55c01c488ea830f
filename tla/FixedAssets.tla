---------------------------- MODULE FixedAssets ----------------------------
(***************************************************************************)
(* Fixed assets, their monthly depreciation and their disposal, as          *)
(* apps/asset keeps them.                                                   *)
(*                                                                         *)
(* A depreciation record moves the books of its asset by its post_save      *)
(* handler; the monthly run, by hand or by the scheduler, moves them once   *)
(* more itself.  The run is one transaction over the assets it listed       *)
(* before; a record another run made meanwhile is either seen or collides   *)
(* with the unique constraint and undoes the whole run.  A form loads the   *)
(* asset and saves all of it; the voucher of a disposal is committed by the *)
(* pre_save handler before the row.                                         *)
(*                                                                         *)
(* Abstractions: all assets cost the same and are depreciated by the        *)
(* straight line; a form leaves costs and lives alone; no month is closed,  *)
(* and the account codes exist.                                             *)
(***************************************************************************)
EXTENDS Integers, FiniteSetsExt, Sums

CONSTANTS
    Assets,     \* the assets are numbered 1..Assets
    Months,     \* the months from the acquisition are 1..Months
    Cost,       \* acquisition_cost
    Residual,   \* residual_value
    Monthly,    \* monthly_depreciation
    Vouchers,   \* bound: disposal vouchers of an asset
    Session,    \* requests and jobs that may be in progress at once
    Scenes      \* the combinations of entry points

EntryPoint == {"run", "edit", "dispose", "catchup", "race", "crash"}

VARIABLES
    asset,      \* FixedAsset, with its records and disposal vouchers
    session,    \* where each request is, and what it loaded
    scene

vars == <<asset, session, scene>>

AssetId == 1..Assets
Month == 1..Months
Status == {"ACTIVE", "DISPOSED", "SCRAPPED"}
\* record: DepreciationRecord.depreciation_amount of a month, 0 for no record.
Asset == [status: Status, accumulated: Int, book: Int, record: [Month -> Nat],
          vouchers: Nat]
New == [status |-> "ACTIVE", accumulated |-> 0, book |-> Cost,
        record |-> [m \in Month |-> 0], vouchers |-> 0]
\* books: the book values as listed; listed: the assets still to be recorded;
\* status and accumulated: the instance of a form.
Work == [stage: {"idle", "running", "saving", "writing"}, asset: AssetId, month: Month,
         books: [AssetId -> Int], listed: SUBSET AssetId, status: Status, accumulated: Int]
Idle == [stage |-> "idle", asset |-> 1, month |-> 1, books |-> [a \in AssetId |-> 0],
         listed |-> {}, status |-> "ACTIVE", accumulated |-> 0]

At(p, stage) == session[p].stage = stage
Goto(p, w) == session' = [session EXCEPT ![p] = w]
Done(p) == Goto(p, Idle)
AtRest == \A p \in Session : At(p, "idle")
Starts(p, entry) ==
    entry \in scene /\ At(p, "idle") /\ ("race" \in scene \/ AtRest)

Recorded(a, m) == asset[a].record[m] > 0
Retired(status) == status \in {"DISPOSED", "SCRAPPED"}

-----------------------------------------------------------------------------
(* AssetDepreciationRunView and run_monthly_depreciation. *)

\* What a month takes of a book value.
Amount(book) == Max({0, Min({Monthly, book - Residual})})

\* depreciation_update_asset_and_voucher: a record and what its handler does.
Depreciated(x, m, amount) ==
    [x EXCEPT !.record[m] = amount, !.accumulated = @ + amount, !.book = @ - amount]

\* The run moves the books again.
Again(x, amount) == [x EXCEPT !.accumulated = @ + amount, !.book = @ - amount]

AskRun(p, m) ==
    /\ Starts(p, "run")
    /\ Goto(p, [Idle EXCEPT
          !.stage = "running", !.month = m,
          !.books = [a \in AssetId |-> asset[a].book],
          !.listed = {a \in AssetId : asset[a].status = "ACTIVE" /\ ~Recorded(a, m)
                                      /\ Amount(asset[a].book) > 0}])
    /\ UNCHANGED <<asset, scene>>

CommitRun(p) ==
    LET w == session[p]
        todo == {a \in w.listed : ~Recorded(a, w.month)}
    IN  /\ At(p, "running")
        /\ asset' = [a \in AssetId |->
              IF a \in todo
              THEN Again(Depreciated(asset[a], w.month, Amount(w.books[a])),
                         Amount(w.books[a]))
              ELSE asset[a]]
        /\ Done(p)
        /\ UNCHANGED scene

\* A record made after the run looked for it: IntegrityError.
FailRun(p) ==
    LET w == session[p]
    IN  /\ At(p, "running") /\ \E a \in w.listed : Recorded(a, w.month)
        /\ Done(p)
        /\ UNCHANGED <<asset, scene>>

-----------------------------------------------------------------------------
(* Forms. *)

Loaded(a) == [Idle EXCEPT !.asset = a, !.status = asset[a].status,
                          !.accumulated = asset[a].accumulated]

\* AssetUpdateView
AskEdit(p, a) ==
    /\ Starts(p, "edit")
    /\ Goto(p, [Loaded(a) EXCEPT !.stage = "saving"])
    /\ UNCHANGED <<asset, scene>>

\* AssetDisposalView; only a scrapping is offered for an asset depreciated in
\* full.  ACTIVE with no date takes an asset back.
AskDispose(p, a, s) ==
    /\ Starts(p, "dispose")
    /\ s = "DISPOSED" => asset[a].book > Residual
    /\ Goto(p, [Loaded(a) EXCEPT !.stage = "saving", !.status = s])
    /\ UNCHANGED <<asset, scene>>

\* Mutant: the months before the disposal take no less than a full amount.
CaughtUpInFull(x, from, upto) ==
    [x EXCEPT !.record = [m \in Month |-> IF m \in from..upto THEN Monthly ELSE @[m]],
              !.accumulated = @ + Monthly * Max({0, upto - from + 1}),
              !.book = @ - Monthly * Max({0, upto - from + 1})]

\* What the months from..m leave of a book value, recorded one after the other.
BookAfter(book, from, m) == Max({Min({book, Residual}), book - Monthly * (m - from + 1)})

\* An asset after the months from..upto are recorded.
CaughtUp(x, from, upto) ==
    LET taken == IF from <= upto THEN x.book - BookAfter(x.book, from, upto) ELSE 0
    IN  [x EXCEPT !.record = [m \in Month |->
                      IF m \in from..upto
                      THEN BookAfter(x.book, from, m - 1) - BookAfter(x.book, from, m)
                      ELSE @[m]],
                  !.accumulated = @ + taken, !.book = @ - taken]

\* AssetDisposalView with the status left ACTIVE and a date: the months up to
\* it are recorded, and the row, read again, is saved as it is.
AskCatchUp(p, a, upto) ==
    LET from == Max({0} \cup {m \in Month : Recorded(a, m)}) + 1
        x == CaughtUp(asset[a], from, upto)
    IN  /\ Starts(p, "catchup")
        /\ asset' = [asset EXCEPT ![a] = x]
        /\ Goto(p, [Idle EXCEPT !.stage = "saving", !.asset = a, !.status = x.status,
                                !.accumulated = x.accumulated])
        /\ UNCHANGED scene

\* Mutant: a scrapping is forgotten.
BecomesDisposed(old, new) == old = "ACTIVE" /\ new = "DISPOSED"

BecomesRetired(old, new) == old = "ACTIVE" /\ Retired(new)

\* asset_disposal_gain_loss, in a transaction of its own.
HandleSave(p) ==
    LET w == session[p]
        old == asset[w.asset].status
    IN  /\ At(p, "saving")
        /\ asset[w.asset].vouchers < Vouchers
        /\ asset' = IF BecomesRetired(old, w.status)
                    THEN [asset EXCEPT ![w.asset].vouchers = @ + 1] ELSE asset
        /\ Goto(p, [w EXCEPT !.stage = "writing"])
        /\ UNCHANGED scene

\* Mutant: the book value stays as it is.
WrittenBare(x, w) == [x EXCEPT !.status = w.status, !.accumulated = w.accumulated]

\* FixedAsset.save writes every column.
Written(x, w) == [x EXCEPT !.status = w.status, !.accumulated = w.accumulated,
                           !.book = Cost - w.accumulated]

WriteAsset(p) ==
    LET w == session[p]
    IN  /\ At(p, "writing")
        /\ asset' = [asset EXCEPT ![w.asset] = Written(@, w)]
        /\ Done(p)
        /\ UNCHANGED scene

\* The worker is killed; what was committed stays.
Crash(p) ==
    /\ "crash" \in scene /\ ~At(p, "idle")
    /\ Done(p)
    /\ UNCHANGED <<asset, scene>>

-----------------------------------------------------------------------------
Init ==
    /\ scene \in Scenes
    /\ asset = [a \in AssetId |-> New]
    /\ session = [p \in Session |-> Idle]

Next ==
    \E p \in Session :
        \/ \E m \in Month : AskRun(p, m)
        \/ CommitRun(p) \/ FailRun(p)
        \/ \E a \in AssetId :
             AskEdit(p, a) \/ (\E s \in Status : AskDispose(p, a, s))
             \/ (\E m \in Month : AskCatchUp(p, a, m))
        \/ HandleSave(p) \/ WriteAsset(p) \/ Crash(p)

Spec == Init /\ [][Next]_vars

-----------------------------------------------------------------------------
(* What holds. *)

TypeOK ==
    /\ scene \in Scenes
    /\ asset \in [AssetId -> Asset] /\ session \in [Session -> Work]

Taken(a) == SumTo(asset[a].record, Months)

\* The book value is the cost less what was depreciated, however the runs, the
\* forms and their deaths interleave: both columns are always moved together.
BooksAgree == \A a \in AssetId : asset[a].book = Cost - asset[a].accumulated

\* An asset that is disposed of has a voucher of it, however disposals and
\* stale forms race and wherever they die.
DisposedPosted ==
    \A a \in AssetId : Retired(asset[a].status) => asset[a].vouchers > 0

\* One at a time and without the monthly runs, what was depreciated is what
\* the records say, and no book value falls below the residual value.
RecordsExact ==
    scene \cap {"run", "race"} = {} /\ AtRest =>
        \A a \in AssetId : asset[a].accumulated = Taken(a) /\ asset[a].book >= Residual

\* (False of the code.)  A book value never falls below the residual value.
NotBelowResidual == \A a \in AssetId : asset[a].book >= Residual
=============================================================================
