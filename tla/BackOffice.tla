----------------------------- MODULE BackOffice -----------------------------
(***************************************************************************)
(* Purchasing, and beside it production, the cost of what is made, the      *)
(* count of a stock, picking, returns and exchanges, the money of an order, *)
(* a company card, the documents that post vouchers by themselves, the      *)
(* closing of a month over vouchers, the settlement of orders, electronic   *)
(* tax invoices, the leave of an employee, the fixed assets, the upkeep of  *)
(* a machine, quality inspections, versions of a product and delivery       *)
(* routes, in one run.                                                      *)
(* They share no rows; the part that moves is chosen at the start and       *)
(* stays, the variables of the others are held at Unused (those of          *)
(* Purchasing, which this module extends, at their first state).            *)
(***************************************************************************)
EXTENDS Purchasing

CONSTANTS
    ProductionOrders, Records, Needed, ProductionQuantity, Chosen,  \* Production
    ProductionScenes, EditingQuantity, EditingScenes,
    BomCount, Raws, Prices, Extras, CostScenes,             \* BomCosts
    CountedProducts, MostStock, CountScenes,                \* StockCount
    MoneyTotal, MoneyFee, MoneyOpening, MoneyPayments, MoneyFees, MoneyScenes, \* OrderMoney
    LeaveRequests, LeaveDays, LeaveTotal, MostUsed, LeaveScenes,    \* Leave
    Assets, Months, AssetCost, Residual, Monthly, AssetVouchers, AssetScenes, \* FixedAssets
    PickOpening, MostMoves, PickChosen, PickingScenes,      \* Picking
    ReturnCount, Sold, ReturnForms, ReturnCost, ReturnOpening, ReturnScenes, \* Returns
    Transactions, MostReversals, CardScenes,                \* Cards
    MostPosted, VoucherScenes,                              \* AutoVouchers
    BookVouchers, BookForms, BookPolicies, BookScenes,      \* ClosedBooks
    SettledOrders, Platform, Settled, Rates, SettlementOpening, SettlementScenes, \* Settlements
    InvoiceCount, TaxDocuments, Threshold, InvoiceScenes,   \* EInvoices
    BatchCount, BatchScenes,
    Schedules, UpkeepOrders, UpkeepScenes,                  \* Upkeep
    Ncs, Capas, QualityScenes,                              \* Quality
    VersionCount, Notices, Digits, VersionScenes,           \* Versions
    Vehicles, RouteCount, RouteScenes                       \* Routes

VARIABLES
    part,                               \* which component moves
    desk, entries,                      \* session and scene of all but Purchasing
    plan, order, record,                \* Production; order also OrderMoney and Settlements
    stock, since, count, counted,       \* StockCount: its status and its items last
    claim, payment, fee, balance,       \* OrderMoney; balance also Settlements
    request, used,                      \* Leave; used also Cards
    asset,                              \* FixedAssets
    document, moved, opening,           \* Picking
    back, cogs, invoiced, shelf, reserved, \* Returns; invoiced also EInvoices
    slip, bill, paid, month, job,       \* Cards; job also Upkeep
    kind, posted,                       \* AutoVouchers, its status is count
    voucher, closed, frozen, policy,    \* ClosedBooks; closed also Settlements
    settlement,                         \* Settlements
    nts, breaker,                       \* EInvoices
    machine, due, wo,                   \* Upkeep
    inspection, nc, capa,               \* Quality
    version, ecn, revision,             \* Versions
    vehicle, route,                     \* Routes
    bom, cost, auto, std, stack, todo   \* BomCosts

backoffice == <<live, status, line, item, payables, invoices, product, session, scene,
                part, desk, entries, plan, order, record, stock, since, count, counted,
                claim, payment, fee, balance, request, used, asset, document, moved, opening,
                back, cogs, invoiced, shelf, reserved,
                slip, bill, paid, month, job, kind, posted, voucher, closed, frozen, policy,
                settlement, nts, breaker, machine, due, wo,
                inspection, nc, capa, version, ecn, revision, vehicle, route,
                bom, cost, auto, std, stack, todo>>

Unused == 0

Production == INSTANCE Production WITH
    Orders <- ProductionOrders, Quantity <- ProductionQuantity,
    Scenes <- ProductionScenes, session <- desk, scene <- entries
Editing == INSTANCE Production WITH
    Orders <- ProductionOrders, Quantity <- EditingQuantity,
    Scenes <- EditingScenes, session <- desk, scene <- entries
BomCosts == INSTANCE BomCosts WITH
    Count <- BomCount, Scenes <- CostScenes, scene <- entries
StockCount == INSTANCE StockCount WITH
    Products <- CountedProducts, Most <- MostStock, Scenes <- CountScenes,
    status <- count, item <- counted, session <- desk, scene <- entries
OrderMoney == INSTANCE OrderMoney WITH
    Total <- MoneyTotal, Fee <- MoneyFee, Opening <- MoneyOpening, Payments <- MoneyPayments,
    Fees <- MoneyFees, Scenes <- MoneyScenes, session <- desk, scene <- entries
Leave == INSTANCE Leave WITH
    Requests <- LeaveRequests, Days <- LeaveDays, Total <- LeaveTotal, Scenes <- LeaveScenes,
    session <- desk, scene <- entries
FixedAssets == INSTANCE FixedAssets WITH
    Cost <- AssetCost, Vouchers <- AssetVouchers, Scenes <- AssetScenes,
    session <- desk, scene <- entries
Picking == INSTANCE Picking WITH
    Opening <- PickOpening, Chosen <- PickChosen, Scenes <- PickingScenes,
    session <- desk, scene <- entries
Returned == INSTANCE Returns WITH
    Returns <- ReturnCount, Quantity <- ReturnForms, Cost <- ReturnCost,
    Opening <- ReturnOpening, Scenes <- ReturnScenes,
    invoice <- invoiced, goods <- shelf, session <- desk, scene <- entries
Cards == INSTANCE Cards WITH
    Scenes <- CardScenes, session <- desk, scene <- entries
AutoVouchers == INSTANCE AutoVouchers WITH
    Scenes <- VoucherScenes, status <- count, session <- desk, scene <- entries
ClosedBooks == INSTANCE ClosedBooks WITH
    Vouchers <- BookVouchers, Forms <- BookForms, Policies <- BookPolicies,
    Scenes <- BookScenes, session <- desk, scene <- entries
Settlements == INSTANCE Settlements WITH
    Orders <- SettledOrders, Opening <- SettlementOpening, Scenes <- SettlementScenes,
    session <- desk, scene <- entries
EInvoices == INSTANCE EInvoices WITH
    Invoices <- InvoiceCount, Documents <- TaxDocuments, Scenes <- InvoiceScenes,
    invoice <- invoiced, session <- desk, scene <- entries
Batches == INSTANCE EInvoices WITH
    Invoices <- BatchCount, Documents <- TaxDocuments, Scenes <- BatchScenes,
    invoice <- invoiced, session <- desk, scene <- entries
Upkeep == INSTANCE Upkeep WITH
    Orders <- UpkeepOrders, Scenes <- UpkeepScenes, session <- desk, scene <- entries
Quality == INSTANCE Quality WITH
    Scenes <- QualityScenes, session <- desk, scene <- entries
Lifecycle == INSTANCE Versions WITH
    Versions <- VersionCount, Scenes <- VersionScenes, session <- desk, scene <- entries
Delivery == INSTANCE Routes WITH
    Routes <- RouteCount, Scenes <- RouteScenes, session <- desk, scene <- entries

ASSUME BackOfficeAssumption ==
    /\ LeaveRequests \in Nat \ {0} /\ LeaveDays \subseteq Nat /\ LeaveTotal \in Nat
    /\ CountedProducts \in Nat \ {0} /\ MostStock \in Nat
    /\ PickOpening \subseteq Nat /\ MostMoves \in Nat
    /\ ReturnCount \in Nat \ {0} /\ Sold \in Nat \ {0} /\ ReturnForms \subseteq Nat \ {0}
    /\ ReturnCost \in Nat /\ ReturnCost >= Sold /\ ReturnOpening \in Nat
    /\ Assets \in Nat \ {0} /\ Months \in Nat \ {0} /\ AssetVouchers \in Nat
    /\ AssetCost \in Nat /\ Residual \in 0..AssetCost /\ Monthly \in Nat
    /\ Schedules \in Nat /\ UpkeepOrders \in Nat /\ Ncs \in Nat /\ Capas \in Nat
    /\ VersionCount \in Nat \ {0} /\ Notices \in Nat \ {0} /\ Digits \in Nat \ {0, 1}
    /\ Vehicles \in Nat \ {0} /\ RouteCount \in Nat
    /\ ProductionOrders \in Nat \ {0} /\ Records \in Nat \ {0} /\ Needed \in Nat \ {0}
    /\ ProductionQuantity \subseteq Nat /\ EditingQuantity \subseteq Nat
    /\ MoneyTotal \in Nat /\ MoneyFee \in Nat /\ MoneyOpening \in Int
    /\ MoneyPayments \in Nat /\ MoneyFees \in Nat
    /\ Transactions \in Nat \ {0} /\ MostPosted \in Nat
    /\ BookVouchers \in Nat \ {0} /\ BookForms \subseteq [first: Nat, second: Nat, credit: Nat]
    /\ BookPolicies \subseteq [default: {"DRAFT", "SUBMITTED", "APPROVED", "REJECTED"}, limit: Nat]
    /\ SettledOrders \in Nat /\ Platform \subseteq 1..SettledOrders /\ Settled \in Nat \ {0}
    /\ Rates \subseteq Nat /\ Rates # {} /\ SettlementOpening \in Int
    /\ InvoiceCount \in Nat \ {0} /\ BatchCount \in Nat \ {0}
    /\ TaxDocuments \in Nat /\ Threshold \in Nat \ {0}

-----------------------------------------------------------------------------
NoPurchase ==
    /\ Init /\ scene = (CHOOSE s \in Scenes : TRUE)
    /\ product = CHOOSE f \in Products : TRUE
NoDesk == desk = Unused /\ entries = Unused
NoOrder == order = Unused
NoPlan == plan = Unused /\ record = Unused
NoStatus == count = Unused
NoCount == stock = Unused /\ since = Unused /\ counted = Unused
NoPayments == claim = Unused /\ payment = Unused /\ fee = Unused
NoMoney == NoPayments /\ balance = Unused
NoRequest == request = Unused
NoUsed == used = Unused
NoAssets == asset = Unused
NoPicking == document = Unused /\ moved = Unused /\ opening = Unused
NoBack == back = Unused /\ cogs = Unused /\ shelf = Unused /\ reserved = Unused
NoReturns == NoBack /\ invoiced = Unused
NoCards == slip = Unused /\ bill = Unused /\ paid = Unused /\ month = Unused
NoVouchers == kind = Unused /\ posted = Unused
NoBook == voucher = Unused /\ frozen = Unused /\ policy = Unused
NoClosing == NoBook /\ closed = Unused
NoSettlements == settlement = Unused
NoTax == nts = Unused /\ breaker = Unused
NoFilings == NoSettlements /\ NoTax
NoUpkeep == machine = Unused /\ due = Unused /\ wo = Unused
NoQuality == inspection = Unused /\ nc = Unused /\ capa = Unused
NoVersions == version = Unused /\ ecn = Unused /\ revision = Unused
NoRoutes == vehicle = Unused /\ route = Unused
NoCosts == bom = Unused /\ cost = Unused /\ auto = Unused /\ std = Unused /\ stack = Unused /\ todo = Unused
NoFollowUp == NoQuality /\ NoVersions /\ NoRoutes /\ NoCosts
NoJob == job = Unused

\* None of the goods, of the money, of the rest.
NoGoods == NoPlan /\ NoCount /\ NoPicking /\ NoReturns
NoBooks == NoMoney /\ NoCards /\ NoVouchers /\ NoClosing
NoRest == NoRequest /\ NoAssets /\ NoUpkeep /\ NoFollowUp

BackOfficeInit ==
    \/ /\ part = "purchasing" /\ Init /\ NoFilings /\ NoDesk /\ NoGoods /\ NoBooks /\ NoRest
       /\ NoOrder /\ NoStatus /\ NoUsed /\ NoJob
    \/ /\ part = "production" /\ Production!Init /\ NoFilings /\ NoPurchase /\ NoBooks /\ NoRest
       /\ NoCount /\ NoPicking /\ NoReturns /\ NoStatus /\ NoUsed /\ NoJob
    \/ /\ part = "editing" /\ Editing!Init /\ NoFilings /\ NoPurchase /\ NoBooks /\ NoRest
       /\ NoCount /\ NoPicking /\ NoReturns /\ NoStatus /\ NoUsed /\ NoJob
    \/ /\ part = "count" /\ StockCount!Init /\ NoFilings /\ NoPurchase /\ NoBooks /\ NoRest
       /\ NoPlan /\ NoPicking /\ NoReturns /\ NoOrder /\ NoUsed /\ NoJob
    \/ /\ part = "picking" /\ Picking!Init /\ NoFilings /\ NoPurchase /\ NoBooks /\ NoRest
       /\ NoPlan /\ NoCount /\ NoReturns /\ NoOrder /\ NoStatus /\ NoUsed /\ NoJob
    \/ /\ part = "returns" /\ Returned!Init /\ NoFilings /\ NoPurchase /\ NoBooks /\ NoRest
       /\ NoPlan /\ NoCount /\ NoPicking /\ NoOrder /\ NoStatus /\ NoUsed /\ NoJob
    \/ /\ part = "money" /\ OrderMoney!Init /\ NoFilings /\ NoPurchase /\ NoGoods /\ NoRest
       /\ NoCards /\ NoVouchers /\ NoClosing /\ NoStatus /\ NoUsed /\ NoJob
    \/ /\ part = "cards" /\ Cards!Init /\ NoFilings /\ NoPurchase /\ NoGoods /\ NoRest
       /\ NoMoney /\ NoVouchers /\ NoClosing /\ NoOrder /\ NoStatus
    \/ /\ part = "vouchers" /\ AutoVouchers!Init /\ NoFilings /\ NoPurchase /\ NoGoods /\ NoRest
       /\ NoMoney /\ NoCards /\ NoClosing /\ NoOrder /\ NoUsed /\ NoJob
    \/ /\ part = "closing" /\ ClosedBooks!Init /\ NoFilings /\ NoPurchase /\ NoGoods /\ NoRest
       /\ NoMoney /\ NoCards /\ NoVouchers /\ NoOrder /\ NoStatus /\ NoUsed /\ NoJob
    \/ /\ part = "leave" /\ Leave!Init /\ NoFilings /\ NoFollowUp /\ NoPurchase /\ NoGoods /\ NoBooks
       /\ NoAssets /\ NoUpkeep /\ NoOrder /\ NoStatus /\ NoJob
    \/ /\ part = "assets" /\ FixedAssets!Init /\ NoFilings /\ NoFollowUp /\ NoPurchase /\ NoGoods /\ NoBooks
       /\ NoRequest /\ NoUpkeep /\ NoOrder /\ NoStatus /\ NoUsed /\ NoJob
    \/ /\ part = "upkeep" /\ Upkeep!Init /\ NoFilings /\ NoFollowUp /\ NoPurchase /\ NoGoods /\ NoBooks
       /\ NoRequest /\ NoAssets /\ NoOrder /\ NoStatus /\ NoUsed
    \/ /\ part = "settlements" /\ Settlements!Init /\ NoTax /\ NoPurchase /\ NoGoods /\ NoRest
       /\ NoPayments /\ NoCards /\ NoVouchers /\ NoBook /\ NoStatus /\ NoUsed /\ NoJob
    \/ /\ part = "invoices" /\ EInvoices!Init /\ NoSettlements /\ NoPurchase /\ NoBooks /\ NoRest
       /\ NoPlan /\ NoCount /\ NoPicking /\ NoBack /\ NoOrder /\ NoStatus /\ NoUsed /\ NoJob
    \/ /\ part = "batches" /\ Batches!Init /\ NoSettlements /\ NoPurchase /\ NoBooks /\ NoRest
       /\ NoPlan /\ NoCount /\ NoPicking /\ NoBack /\ NoOrder /\ NoStatus /\ NoUsed /\ NoJob
    \/ /\ part = "quality" /\ Quality!Init /\ NoFilings /\ NoPurchase /\ NoGoods /\ NoBooks
       /\ NoRequest /\ NoAssets /\ NoUpkeep /\ NoVersions /\ NoRoutes /\ NoCosts
       /\ NoOrder /\ NoStatus /\ NoUsed /\ NoJob
    \/ /\ part = "lifecycle" /\ Lifecycle!Init /\ NoFilings /\ NoPurchase /\ NoGoods /\ NoBooks
       /\ NoRequest /\ NoAssets /\ NoUpkeep /\ NoQuality /\ NoRoutes /\ NoCosts
       /\ NoOrder /\ NoStatus /\ NoUsed /\ NoJob
    \/ /\ part = "delivery" /\ Delivery!Init /\ NoFilings /\ NoPurchase /\ NoGoods /\ NoBooks
       /\ NoRequest /\ NoAssets /\ NoUpkeep /\ NoQuality /\ NoVersions /\ NoCosts
       /\ NoOrder /\ NoStatus /\ NoUsed /\ NoJob
    \/ /\ part = "costs" /\ BomCosts!Init /\ NoFilings /\ NoPurchase /\ NoGoods /\ NoBooks
       /\ NoRequest /\ NoAssets /\ NoUpkeep /\ NoQuality /\ NoVersions /\ NoRoutes
       /\ desk = Unused /\ NoOrder /\ NoStatus /\ NoUsed /\ NoJob

\* What a step of one part leaves alone.
purchase == <<live, status, line, item, payables, invoices, product, session, scene>>
counts == <<stock, since, counted>>
picks == <<document, moved, opening>>
backs == <<back, cogs, shelf, reserved>>
returns == <<backs, invoiced>>
goods == <<plan, record, counts, picks, returns>>
payments == <<claim, payment, fee>>
moneys == <<payments, balance>>
cards == <<slip, bill, paid, month>>
vouchers == <<kind, posted>>
closing == <<voucher, closed, frozen, policy>>
tax == <<nts, breaker>>
filings == <<settlement, tax>>
books == <<moneys, cards, vouchers, closing>>
upkeeps == <<machine, due, wo>>
qualities == <<inspection, nc, capa>>
versions == <<version, ecn, revision>>
routes == <<vehicle, route>>
costs == <<bom, cost, auto, std, stack, todo>>
followup == <<qualities, versions, routes, costs>>
rest == <<request, asset, upkeeps, followup>>

BackOfficeNext ==
    /\ UNCHANGED part
    /\ \/ /\ part = "purchasing" /\ Next
          /\ UNCHANGED <<filings, desk, entries, goods, books, rest, order, count, used, job>>
       \/ /\ part = "production" /\ Production!Next
          /\ UNCHANGED <<filings, purchase, counts, picks, returns, books, rest, count, used, job>>
       \/ /\ part = "editing" /\ Editing!Next
          /\ UNCHANGED <<filings, purchase, counts, picks, returns, books, rest, count, used, job>>
       \/ /\ part = "count" /\ StockCount!Next
          /\ UNCHANGED <<filings, purchase, plan, record, picks, returns, books, rest, order, used, job>>
       \/ /\ part = "picking" /\ Picking!Next
          /\ UNCHANGED <<filings, purchase, plan, record, counts, returns, books, rest, order, count, used, job>>
       \/ /\ part = "returns" /\ Returned!Next
          /\ UNCHANGED <<filings, purchase, plan, record, counts, picks, books, rest, order, count, used, job>>
       \/ /\ part = "money" /\ OrderMoney!Next
          /\ UNCHANGED <<filings, purchase, goods, cards, vouchers, closing, rest, count, used, job>>
       \/ /\ part = "cards" /\ Cards!Next
          /\ UNCHANGED <<filings, purchase, goods, moneys, vouchers, closing, rest, order, count>>
       \/ /\ part = "vouchers" /\ AutoVouchers!Next
          /\ UNCHANGED <<filings, purchase, goods, moneys, cards, closing, rest, order, used, job>>
       \/ /\ part = "closing" /\ ClosedBooks!Next
          /\ UNCHANGED <<filings, purchase, goods, moneys, cards, vouchers, rest, order, count, used, job>>
       \/ /\ part = "leave" /\ Leave!Next
          /\ UNCHANGED <<filings, purchase, goods, books, asset, upkeeps, followup, order, count, job>>
       \/ /\ part = "assets" /\ FixedAssets!Next
          /\ UNCHANGED <<filings, purchase, goods, books, request, upkeeps, followup, order, count, used, job>>
       \/ /\ part = "upkeep" /\ Upkeep!Next
          /\ UNCHANGED <<filings, purchase, goods, books, request, asset, followup, order, count, used>>
       \/ /\ part = "settlements" /\ Settlements!Next
          /\ UNCHANGED <<tax, purchase, goods, payments, cards, vouchers, voucher, frozen, policy,
                         rest, count, used, job>>
       \/ /\ part = "invoices" /\ EInvoices!Next
          /\ UNCHANGED <<settlement, purchase, plan, record, counts, picks, backs, books, rest,
                         order, count, used, job>>
       \/ /\ part = "batches" /\ Batches!Next
          /\ UNCHANGED <<settlement, purchase, plan, record, counts, picks, backs, books, rest,
                         order, count, used, job>>
       \/ /\ part = "quality" /\ Quality!Next
          /\ UNCHANGED <<filings, purchase, goods, books, request, asset, upkeeps, versions, routes, costs,
                         order, count, used, job>>
       \/ /\ part = "lifecycle" /\ Lifecycle!Next
          /\ UNCHANGED <<filings, purchase, goods, books, request, asset, upkeeps, qualities, routes, costs,
                         order, count, used, job>>
       \/ /\ part = "delivery" /\ Delivery!Next
          /\ UNCHANGED <<filings, purchase, goods, books, request, asset, upkeeps, qualities, versions, costs,
                         order, count, used, job>>
       \/ /\ part = "costs" /\ BomCosts!Next
          /\ UNCHANGED <<filings, purchase, goods, books, request, asset, upkeeps,
                         qualities, versions, routes, desk, order, count, used, job>>

BackOfficeSpec == BackOfficeInit /\ [][BackOfficeNext]_backoffice

-----------------------------------------------------------------------------
\* Material and goods follow the production records, whatever races and dies,
\* and orders and plans complete exactly when enough is made.  What a product
\* costs follows its standard or its materials, through every level of them.
ProductionKept ==
    /\ part = "production" =>
        Production!TypeOK /\ Production!StockFollowsRecords /\ Production!CompletionNoticed
    /\ part = "editing" => Editing!TypeOK /\ Editing!StockFollowsRecords
    /\ part = "costs" => BomCosts!TypeOK /\ BomCosts!CostsFollow

\* A count that is closed sets the stock to what was counted, and keeps what
\* has moved since.
CountedExact ==
    [][part = "count" => StockCount!TypeOK' /\ StockCount!ClosesExact]_backoffice

\* Pick orders never issue more than there is, what is finished has moved its
\* goods, and moved them once.  A return takes its goods back and claims its
\* difference once, has done both once it is confirmed, and takes off the cost of
\* sales what is its share.
WarehouseKept ==
    /\ part = "picking" =>
        Picking!TypeOK /\ Picking!NeverOversold /\ Picking!FinishedMoved /\ Picking!MovedOnce
    /\ part = "returns" =>
        /\ Returned!TypeOK /\ Returned!BookedOnce
        /\ Returned!ConfirmedBooked /\ Returned!CostFollowsGoods

\* The balance is the payments, however the money of an order is moved; an
\* order is paid once, and so is each of its commissions.  The bill of a card is
\* paid once, what was used of it was vouched for, and the bill is the sum of
\* its transactions.  A claim, a distribution and a repair post their voucher,
\* and post it once.  Vouchers balance, and a month that is closed stays as it
\* was, with nothing undecided.  An order is settled in one settlement, its
\* commission is paid out once, and what the platform kept is posted.  An invoice
\* is at the tax office when it says so, once, and the circuit breaker counts.
MoneyKept ==
    /\ part = "money" => OrderMoney!TypeOK /\ OrderMoney!BankAgrees /\ OrderMoney!PaidOnce
    /\ part = "cards" =>
        /\ Cards!TypeOK
        /\ Cards!BillPaidOnce /\ Cards!UsedVouched /\ Cards!UsedExact /\ Cards!BillExact
    /\ part = "vouchers" =>
        /\ AutoVouchers!TypeOK /\ AutoVouchers!PostedOnce
        /\ AutoVouchers!DonePosted /\ AutoVouchers!CancelledRepairOwesNothing
    /\ part = "closing" =>
        /\ ClosedBooks!TypeOK /\ ClosedBooks!Balanced
        /\ ClosedBooks!ClosedDecided /\ ClosedBooks!ClosedStays
    /\ part = "settlements" =>
        /\ Settlements!TypeOK /\ Settlements!SettledOnce
        /\ Settlements!PayoutsExact /\ Settlements!KeptPosted
    /\ part = "invoices" =>
        /\ EInvoices!TypeOK /\ EInvoices!IssuedKnown /\ EInvoices!CancelledThere
        /\ EInvoices!OneDocument /\ EInvoices!ClosedBelowThreshold
    /\ part = "batches" =>
        /\ Batches!TypeOK /\ Batches!IssuedKnown /\ Batches!CancelledThere
        /\ Batches!OneDocument /\ Batches!ClosedBelowThreshold

\* The days an employee used are those of the approved requests, and while the
\* view alone approves never more than there are.
LeaveKept == part = "leave" => Leave!TypeOK /\ Leave!UsedExact /\ Leave!WithinTotal

\* The books of an asset agree, what was depreciated was recorded, and what was
\* disposed of has its voucher; a schedule of a machine has one order open, and
\* a machine that is down is worked on.  An inspection that failed is recorded
\* once and followed up, one version of a product is in force and an approved
\* change notice revises its bill of materials, and a vehicle on the road is in use.
AssetsKept ==
    /\ part = "assets" =>
        /\ FixedAssets!TypeOK
        /\ FixedAssets!BooksAgree /\ FixedAssets!DisposedPosted /\ FixedAssets!RecordsExact
    /\ part = "upkeep" => Upkeep!TypeOK /\ Upkeep!OneOpenOrder /\ Upkeep!DownIsWorked
    /\ part = "quality" => Quality!TypeOK /\ Quality!FailedRecorded /\ Quality!Followed
    /\ part = "lifecycle" => Lifecycle!TypeOK /\ Lifecycle!OneInForce /\ Lifecycle!ApprovedRevised
    /\ part = "delivery" => Delivery!TypeOK /\ Delivery!InUseOnTheRoad
=============================================================================
