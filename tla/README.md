# ERP Suite in TLA+

A specification of the parts of ERP Suite (Django 5, PostgreSQL, Celery) that
keep figures derived from other rows, or statuses that other rows depend on, and
must keep them right while requests race, die half way and are repeated: stock
and its breakdown, orders and shipments, purchases, production, receivables,
payments and bank balances, cards and their bills, quotations, approvals, store
orders, returns, settlements, tax invoices, leave, fixed assets, maintenance,
tickets. TLC checks the modules that model them, and TLAPS proves the most important
results for every value of the constants: every safety property a passing run checks
of any component is a theorem, but for one about the costs of made products; liveness
is model-checked.

Paths are relative to `src/`. Line-by-line correspondence is in `PROJECT.json`
(`map`); this file explains it.

## 1. How the program executes, and why that is what is modelled

* Each view, API call or admin page is one request; several run at once. There is
  no `ATOMIC_REQUESTS`: outside an explicit `transaction.atomic()` every
  statement commits by itself. Django's admin pages are atomic.
* Nearly all business logic hangs on `pre_save`/`post_save` handlers. A
  `Model.save` is therefore a *sequence* of commits: the handlers' own atomic
  blocks, then the `INSERT` or `UPDATE` of the row, then more handlers. `pre_save`
  handlers find out what changed by reading the row again, without a lock.
* A form saves the whole row, the columns it does not show included, as it was
  when the form was loaded. That is a *stale form* below.
* Figures are updated with `F()` expressions, which take the row lock until the
  handler's transaction ends; the checks before them mostly take none.
* CHECK constraints (`stock_non_negative` and the like) turn what would be a
  negative figure into an `IntegrityError` half way through a request.
* Celery's beat starts the periodic tasks (`config/celery.py`); a task reads a
  list and saves row by row, and an exception of one row ends it.
* A worker may be killed between two commits. Nothing resumes what it left: only
  tasks that look for work again (overdue claims, expiry, breaches) repair it.

So the grain of the models is **one action per committed transaction, or per read
that a later decision depends on**; a request is a process with a stage and the
values it holds in memory; requests interleave between actions and may die there
(`Crash`). Handlers that loop over items inside one transaction are one action,
unless the locks they take one by one matter (`Picking`).

`ActiveManager` hides rows with `is_active = False` from most queries; where the
code uses `all_objects` instead the models say so.

## 2. Inventory of components

| Component | State | Operations | Hard behaviour | What makes it correct | Model |
|---|---|---|---|---|---|
| **Inventory ledger** `apps/inventory` | `StockMovement`, `StockTransfer`, `WarehouseStock`, `StockLot`, `Product.current_stock` | create, cancel, delete, patch a movement; transfer | checks without locks, several commits per request, clamped subtraction, LOT restoration by order | the figures are the sum of the movements; a LOT never exceeds its receipt; a cancelled movement was reversed exactly once | `StockLedger`, `PerpetualLedger` |
| **Order fulfilment** `apps/sales` | `Order(Item)`, `Shipment(Item)`, `Product.reserved_stock` | status, partial shipment, pay, modify, edit, delete, retire, undo | status written after its consequences, saves nested in `pre_save` | no goods lost; nothing shipped twice; the reservation is what is still to be shipped; the status map | `OrderFulfilment` |
| **Money of an order** `apps/sales` | `AccountReceivable`, `Payment`, `CommissionRecord`, bank balance | pay, claim, cancel, settle commissions | undo by hand with handlers switched off, match by text | a cancelled order leaves no balance behind; one receipt | `OrderMoney` |
| **Returns and exchanges** `apps/sales` | `Order` of type RETURN or EXCHANGE, its movements, its credit, the original's cost of sales | create, edit, confirm, ship, cancel | handlers commit one by one before the status; numbers are unique, amounts are not | goods back once, credit once, cost of sales follows the goods | `Returns` |
| **Quotations** `apps/sales` | `Quotation` | edit, convert, administer, expire nightly | unlocked status check; task over a stale list | a converted quotation stays CONVERTED; what lapses expires | `Quotations` |
| **Purchasing** `apps/purchase` | `PurchaseOrder(Item)`, `GoodsReceipt(Item)`, payable | receive, remove, edit, cancel, delete | remaining quantity checked without a lock; status from sums | received ≤ ordered; one payable; totals | `Purchasing` |
| Requests for quotation `apps/purchase` | `RFQ`, `RFQResponse`, the orders made | register, award, convert | two awards | one award, and it is ordered | `Sourcing` |
| **Production** `apps/production` | plan, work order, `ProductionRecord` and its movements | record, form, edit | reversal by hand; movements found by prefix | material out = goods in; completion noticed | `Production` |
| **Stock counts** `apps/inventory` | `StockCount(Item)` | create, update, administer, adjust | a difference against a stale snapshot | after the adjustment the stock is what was counted and what moved since | `StockCount` |
| **Warehouse management** `apps/wms` | `PickOrder`, `PutAwayTask`, wave | form, API, admin, release | locks product by product; deadlock; status before movements | nothing finished without its movements | `Picking` |
| **Receivables, payables, bank** `apps/accounting` | claims, `Payment`, `PaymentDistribution`, `AccountTransfer`, `BankAccount` | pay, undo, list, transfer, distribute, edit; nightly overdue job | unlocked undo, stale form of a running total, job over a stale list | balances are what the claims say; PAID means paid; overdue is noticed | `Treasury` |
| **Cards** `apps/accounting` | `CreditCard`, `CardTransaction`, `CardBilling` | enter, edit, cancel, pay a bill; monthly reset and billing | bill and link in two transactions | a bill is paid once and is the sum of its slips | `Cards` |
| **Automatic vouchers** `apps/expense`, `investment`, `service` | claim, distribution, repair and what each posts | submit, approve, reject, pay, complete, cancel | look for an existing voucher, then post | done is posted, once; cancelled owes nothing | `AutoVouchers` |
| **Fixed assets** `apps/asset` | `FixedAsset`, `DepreciationRecord`, disposal voucher | run, edit, dispose, catch up | two writers of one figure, stale forms | book value = cost − accumulated; disposed is posted | `FixedAssets` |
| **Leave** `apps/attendance` | `LeaveRequest`, `AnnualLeaveBalance` | create, approve, reject, patch, admin, retire | decides on the row's history | days used are those of approved requests | `Leave` |
| **Approval** `apps/approval` | request, steps | submit, edit, decide | two approvers of one level | approved means every level approved; somebody is always asked | `Approval` |
| **Document numbers** `apps/core/utils.py` | every table's last number | next number, retire, restore, delete | order of strings; retry around no insert | creation is not refused | `DocumentNumbers` |
| **Marketplace** `apps/marketplace` | `MarketplaceOrder`, its quotations and ERP orders, pushes | sync, import, wizard, convert, push with retries | two transactions with handlers silenced; retries | new is quoted; done is ordered; pushes end | `Marketplace` |
| **Helpdesk** `apps/helpdesk` | `Ticket`, `SLABreach` | assign, resolve, close, edit, patch; breach job | handlers that refuse make the job fail | the status map; breaches are noticed | `Tickets` |
| **Maintenance** `apps/cmms` | `Equipment`, `MaintenanceWorkOrder`, schedule | form, complete, patch; daily job | look for an open order, then create one | one open order; a machine that is down is worked on | `Upkeep` |
| **Vouchers and closed months** `apps/accounting` | `Voucher(Line)`, `ClosingPeriod`, `VoucherApprovalConfig` | form, API, admin, automatic posting, retire, restore, close and open a month | the month is checked without a lock and apart from the save; forms merge lines | debit = credit; a closed month is decided and keeps its total | `ClosedBooks` |
| **Settlements** `apps/accounting`, `apps/sales/tasks.py` | `SalesSettlement(Order)`, `Order.is_settled`, vouchers, bank balance | form, weekly job, pay or mark a commission | orders read before the transaction; handler that posts on every save | an order is in one settlement; a commission is paid once; what a platform kept is posted | `Settlements` |
| **Electronic tax invoices** `apps/accounting/nts_client.py` | `TaxInvoice.electronic_status`, `issue_id`, `CircuitBreaker`; documents at the tax office | issue, batch, query, cancel, edit | a call to another system between reading and writing; lost answers; a breaker shared by all requests | ISSUED means received; one document per invoice; the breaker opens at its threshold | `EInvoices` |
| **Costs of made products** `apps/production`, `apps/accounting` | `BOM(Item)`, `StandardCost`, `Product.cost_price` | edit a BOM, set a standard, cost settlement | a recursive cascade with a shared set of visited products, over rows fetched before it | between requests every made product costs its standard, or its materials | `BomCosts` |
| **Quality** `apps/qms` | `QualityInspection`, `NonConformance`, `CAPA` | inspect, patch, investigate, resolve, verify, close | handlers of three apps that open and close each other's rows; get_or_create in a race | a failure is recorded once, and followed up | `Quality` |
| **Product lifecycle** `apps/plm` | `ProductVersion`, `EngineeringChangeNotice`, `BOMRevision` | create a version, approve, implement | others deactivated in a second transaction; revisions ordered as strings | one version in force; an approved notice has its revision | `Versions` |
| **Logistics** `apps/logistics` | `Vehicle`, `DeliveryRoute` | status, move, vehicle form | a transition checked before the save; the vehicle as it was read with the route | a vehicle on the road is in use | `Routes` |
| Bad debts `apps/accounting` | | | | | – |
| HR, subscription, EDI, inquiry, warranty, reservations of assets | one status map each | | | | – |
| Soft delete `apps/core`, REST API `apps/api` | `is_active` | `soft_delete`, generic CRUD | a second way into everything | nothing derived survives its source | in the modules above |
| Accounts, AD, notifications, backup, messenger, modules, RPA, portal, BI, document-like apps | | | I/O and CRUD | | – |

How they meet: every stock change of every app is a `StockMovement`, so shipments,
receipts, production and warehouse orders enter the ledger through the same
handlers. `current_stock` and `reserved_stock` of a product are the shared state of
all orders that contain it. Money follows the statuses of orders and receipts; every
payment moves a bank balance through the handlers of `apps/accounting`. A component
that uses another's rows models the effect (a movement takes from the stock, a
payment from the balance) and leaves the rest to the other's module.
`hazards` in `PROJECT.json` lists, line by line, what can go wrong in each of
these places, and which property watches it.

## 3. Modules

| Module | What it is |
|---|---|
| `Sums` | `SumTo`, the total of numbered rows (a recursive function, so that it can be proved about) |
| `StockLedger`, `PerpetualLedger` | movements of a product and what is derived of them; the abstract specification it implements |
| `OrderFulfilment` | orders, shipments and reservations of one product |
| `Treasury` | claims, payments, bank accounts, the nightly overdue job |
| `Purchasing` | a purchase order, its receipts, its payable |
| `Quotations` | quotations and their nightly expiry |
| `Production`, `StockCount`, `Picking` | what else moves stock |
| `BomCosts` | what products cost that are made of others |
| `Returns` | returns and exchanges: goods, credit and cost of sales |
| `OrderMoney`, `Cards`, `AutoVouchers`, `Settlements` | what else moves money |
| `ClosedBooks`, `EInvoices` | the books, and the tax office |
| `Approval`, `DocumentNumbers`, `Sourcing`, `Marketplace`, `Tickets` | the office |
| `Leave`, `FixedAssets`, `Upkeep` | people and things |
| `Quality`, `Versions`, `Routes` | handlers by which one document opens, closes or takes another |
| `Office`, `BackOffice` | composites: the components of the last four rows (with `Quotations`, and with `Purchasing`) side by side, each an instance |
| `Sums_proofs` | lemmas about `SumTo`, and induction over sets of numbers |
| `StockLedger_proofs`, `OrderFulfilment_proofs`, `Treasury_proofs`, `Purchasing_proofs` | proofs about one module each; that of the ledger includes the refinement of `PerpetualLedger` |
| `Office_proofs` | proofs about `Quotations` and the five components beside it in `Office` |
| `BackOffice_proofs`, `BackOfficeMoney_proofs` | proofs about the components beside `Purchasing` in `BackOffice`: leave, counts, picking, returns, assets, upkeep, quality, versions and routes in the first, production and all that moves money in the second |
| `MCStockLedger`, `MCOrders`, `MCOrderFulfilment`, `MCTreasury` | instances for TLC |
| `MCBackOffice`, `MCOffice` | instances of the composites |

In a composite each component is an `INSTANCE` with its own bounds, `part` says
which one moves in a behaviour, and the variables of the others stay at one value.
The components of a composite share no rows, so nothing is lost by not
interleaving them; what they share in the code (the stock, a bank balance) each
models for itself. A composite states a conjunction of the components' properties
under one name (`MoneyKept`, `StoreKept`, ...), restricted to the part it is about.
The assumptions on all constants of a composite are one `ASSUME` in it
(`OfficeAssumption`, `BackOfficeAssumption`), so that TLC evaluates them.

Most modules take a constant `Scenes`: a set of sets of entry points, one of
which is chosen at the start of a behaviour. `"race"` in a scene lets two requests
overlap, `"crash"` lets them die; the other members are views, API calls, admin
pages or jobs. A property of which the code is known to break a part names the scenes
that break it in its guard, and section 6 says how.

### StockLedger

Variables: `stock` = `Product.current_stock`; `ws` = `WarehouseStock.quantity`;
`row` = the `StockMovement` table; `lot` = `StockLot` by the movement that opened
it; `transfer` = `StockTransfer`; `session` = stage, row number and the copy of the
row each request holds; `posted`, `reversed` = history, how often a row's effect and
its reversal were committed.

| Request | Actions, in order |
|---|---|
| `StockInCreateView` | `InsertInbound` (INSERT commits) → `Post` (`update_stock_on_save` commits) |
| `StockOutCreateView` | `ValidateOutbound` (`validate_outbound_stock`, lock released) → `InsertOutbound` → `Post` or `PostFails` (CHECK) |
| admin pages, views in `atomic` | `CreateAtomically` |
| API `DELETE` → `soft_delete` | `ReadForCancel` → `CommitReversal` (or `ReversalFails`) → `MarkCancelled` |
| admin delete | `ReadForDelete` → `Delete` |
| API `PATCH` of a quantity | `ReadForPatch` → `WritePatch` |
| `StockTransferCreateView` | `InsertTransfer` → `PostTransfer` or `TransferFails` |
| admin delete of a transfer | `CancelTransfer` |

`Apply` and `Revert` are the handlers' blocks. `Share` says what part of a quantity
falls on each LOT when they are served oldest (FIFO, AVG) or newest (LIFO) first.
Products share none of this, so one product is enough. Left out: unit prices and
average cost, serial numbers, and the INSERT that Django makes of the UPDATE of a
row deleted meanwhile.

### OrderFulfilment

Variables: `stock`, `reserved` = the two figures of the product; `order` = each
order with its item; `full` = the movement of a full shipment, whose number
`OUT-<order>-<item>` is unique; `shipment` = each shipment with its item and its
movement; `session` = the requests; `scene` = which entry points each session uses, and
whether it may die: chosen from `Scenes` at the start and never changed, so that one
behaviour is a workload and the properties can say for which they hold.

A change of status is `AskStatus` (the view loads the order and consults
`STATUS_TRANSITIONS`) → `Begin` (`auto_stock_out_on_ship` reads the row again) → its
consequences (`Reserve` | `PickFull`, `IssueFull`, `Release` | `DeliverShipment`…,
`CloseIfPaid` | `CancelOrder`) → `WriteOrder`, which writes the status at last. The
shipment form goes through `SyncOrder` into the same path from `Begin` before
`WriteShipment`; the order form (`OrderUpdateView`) goes through it twice, before and
after `EditItem`. `AskPartial` → `CommitPartial` is the partial shipment; `AskPay` →
`CommitPay` → `ClosePaid` the payment as far as it closes orders; `AskModify` →
`CommitModify` the modification; `EraseOrder`, `EraseShipment`, `RetireOrder`,
`UndoShipment` the four ways a row disappears.

A movement is here what `StockLedger` makes of it when nothing interferes. Orders are
of one item, since the handlers treat items one by one inside the transaction. Each
order has its own full movement: the code finds it by the prefix of its reference,
which also matches an order whose number extends this one's (section 6). Return and
exchange orders, services and prices are left out.

### Treasury

`claim` = receivables and payables (one table: they are treated alike but for the
sign); `payment` with its distributions; `balance`; `moved` = history of the
transfers. A payment is `Pay` (one transaction under the claim's lock); an
undoing in the administration `AskUndo` → `CommitUndo`; a transfer commits its row
and then the balances; the form of an account `AskEdit` → `WriteEdit` writes the
balance it loaded. The job is three actions, because its list of receivables is
used after its reading: `NightlyList`, `NightlyReceivables`, `NightlyPayables`.

### Purchasing

`line`, `item` (a receipt's item with its movement), `payables`, `invoices`,
`status`, `live`. A receipt is `Accept` (two comparisons with lines read
earlier, then the INSERT) → the handler's transaction in two actions, the reading
of the other lines and the commit, with the locks held between them: its movement
locks the product, so receipts of one product take turns and those of different
products do not. Removal, edit, cancellation and deletion likewise.

### The others

Each module's header says what its rows are and what it abstracts from; its actions
follow the pattern `Ask…` (the request is loaded and compared), `Commit…`,
`Write…`, `Handle…` (the handlers' transactions), and jobs `StartJob`, `Look`,
`Create`, `EndJob`.

* `Quotations`: conversion, edit and admin page race; `Night` saves one row of the list
  `StartNight` fetched, and ends when a save is refused.
* `Production`: records race, forms run cascades, `CommitEdit` reverses and makes
  movements by hand and may be rolled back by the unique movement number.
* `Approval`: a line is a sequence of levels `[mode, width]`; acting, the handler's
  decision and the write to the request are three commits.
* `DocumentNumbers`: numbers are ordered as strings, `Wide` is the first with one
  digit more.
* `Marketplace`: one store order, its quotations and ERP orders, and the tasks that
  push a shipment, with the retries of the task.
* `Picking`: two pick orders of the same products the other way round and one
  put-away; a request takes product locks one at a time, so that two can deadlock.
* `Cards`: two months; `ResetUsed` and the billing job run when the month has turned,
  the job in three commits (sum, bill, link).
* `AutoVouchers`: a document of one of three kinds, each with its view map, and the
  vouchers posted for it by type.
* `ClosedBooks`: vouchers of two debits and a credit in two months; a save is the request
  as loaded, the handler's look at the month, and the transaction; a closing looks,
  then saves. `frozen` remembers what a month added up to when it was closed.
* `Returns`: two returns or exchanges of one original order; a change of status runs the
  handler's helpers as one transaction each (`Take`, `Claim`, ...), then writes the status.
* `Settlements`: creations by form and job race over two orders, one of a platform;
  payment and marking race over the settlements, while the month is closed and opened.
* `EInvoices`: a request is its checks, the looks at the breaker, the authentication, the
  call and the save, each an action; the tax office (external) receives, accepts and
  rejects; a call fails before or after it has arrived.
* `Upkeep`: one machine, its work orders and schedules; the job looks and creates in
  two steps.
* `BomCosts`: the recursion of `_cascade_cost_to_parents` as a stack of calls. `Open` is
  the query of a call's loop, `Visit` one turn of it with what `_sync_product_cost_price`
  does and calls, `Return` its end; a frame keeps the costs the query fetched and the
  set of visited products, which a call shares with its caller unless saving a standard
  started it. One request at a time.
* `Quality`: one inspection, its nonconformances and their CAPAs; the look of the handler
  and its creation are two actions (`LookForNc`, `RecordNc`), `Tend` and `ResolveNc` the
  handlers that open a CAPA and resolve its nonconformance.
* `Versions`: versions and change notices of one product; a number is compared as a
  string of `Digits` digits.
* `Routes`: a request is the row as read, with the status of its vehicle, the check of the
  transition, the save, and the handler that sets the vehicle.
* `Tickets`, `Leave`, `FixedAssets`, `StockCount`, `Sourcing`, `OrderMoney`: as in the
  table of section 2.

## 4. What is checked

Deadlock is not checked in any run: tables are bounded, and a system whose rows are
used up, or whose documents are all closed, rightly stops.

| Run | Instance | Properties |
|---|---|---|
| `ledger_races` | 2 requests, 2 warehouses, 2 rows, quantities 1–2, FIFO; receive, issue, cancel, delete, patch, crash | `TypeOK` `WarehousesCoverStock` `LotWithinReceipt` `CancelledWasReversed` `PostedOnce` |
| `ledger_serial` | 1 request, 2 warehouses, 4 rows, 1 transfer, quantity 1, LIFO; all but patch and crash, deletions with at most 3 rows | `LedgerExact` `ImplementsPerpetual` `TransferKeepsTotals` |
| `orders` (`MCOrders`) | 2 sessions, 2 orders and 2 shipments or one of either, quantities 1–2, 3 in stock, seven workloads (below) | `TypeOK` `StockConserved` `IssuedOnce` `ShippedExact` `CancelledEmpty` `ReservationsExact` `StatusFollowsMap` |
| `treasury` | a receivable and a payable, 2 payments, 2 accounts, 2 requests, the job | `TypeOK` `BooksAgree` `SettledExact` `PaidExact` `BankExact` `OverdueNoticed` |
| `back_office` (`MCBackOffice`) | a purchase order of 2 lines (of 1, edited to 2) and 3 items, of one product or two; beside it: production (twice, with and without edits), the costs of 4 products of which 3 are made, a count, picking, returns, money, cards, automatic vouchers, closed months, settlements, tax invoices (one, and a batch of two), leave, assets, upkeep, quality, versions, routes | Purchasing: `TypeOK` `OnePayable` `ReceivedExact` `CompletionNoticed` `NotOverReceived` `CancelledOwesNothing`; the parts: `ProductionKept` `WarehouseKept` `MoneyKept` `LeaveKept` `AssetsKept` `CountedExact` |
| `office` (`MCOffice`) | 2 quotations and the nightly task; beside it approval, numbers, sourcing, store, tickets | `ConvertedStays` `SentExpire`; the parts: `LineKept` `NeverRefused` `OneAward` `StoreKept` `TicketsKept` |
| `ledger_cancel_race` | 2 requests; receive, cancel | `LedgerExact` **violated** |
| `order_reservation_eaten` | 1 request, 2 orders, 1 shipment; status, partial | `ReservedExact` **violated** |
| `treasury_distributed` | a payment and its distribution | `DistributedOnce` **violated** |
| `money_cancelled` | an order whose receivable is paid, cancelled | `BalanceIsPayments` **violated** |
| `quotations_expiry` | 2 quotations, drafts lapse | `LapsedExpire` **violated** |
| `depreciation_twice` | 1 asset, the monthly run | `NotBelowResidual` **violated** |

The workloads of `orders`: *shipping* (two orders in parts and in full, modified
and cancelled by requests that come one at a time and may die), *deleting* (two orders
shipped and deleted), *reserving* (two orders sharing the reserved stock, one request at a
time), *intact* (one order, every entry point, one request at a time, none dies), *racing*
(two orders, two requests at once), *racing on one* (one order and its shipment, two
requests at once; one order, two requests that may die) and *living* (one order under every
entry point but its payment while a second request ships a part of it, dies or deletes it).

What they show:

* *Ledger.* Under any interleaving of two requests and any crash, no derived figure
  goes negative, the warehouses never hold less than the product in total, no LOT
  exceeds its receipt, no movement is booked twice, none leaves the active set without
  having been reversed. One request at a time, the ledger *implements* a perpetual
  inventory (`PerpetualLedger`): each step books or voids whole entries and the
  balance is their sum; it does not with two requests (`ledger_cancel_race`).
* *Orders.* Goods are never lost or made up; a full shipment is issued once even when
  two requests race and one dies; with one request at a time no more is shipped than
  ordered and the recorded quantity is the issued one, even if requests die; a cancelled
  order holds nothing if none dies; the statuses follow the map; `reserved_stock` is
  exact while orders are confirmed, modified, shipped in full, paid and cancelled,
  and stops being so with the first order completed after a partial shipment.
* *Treasury.* The accounts together always move by what the claims say; PAID says
  exactly that a payable is paid; payments of one claim may race without paying it
  twice; an overdue claim is eventually marked.
* *Purchasing.* One payable whatever races and dies; a line's total is right although
  its receipts race; one product's last two receipts complete the order; nothing is
  over-received one request at a time; a cancelled order has received nothing.
* *Goods elsewhere.* A production record has as much material out as goods in; a
  plan is completed when it is produced; a count closes with what was counted and
  moved since; pick orders never issue what is not there, and through the
  administration nothing is packed that was not issued, deadlocks included. A return
  takes its goods back and credits its amount once however requests race and die, has
  done both when it is confirmed, and takes off the cost of sales exactly its share.
* *Costs.* Whatever the bills of material, a change of a price, of a line or of a standard
  reaches every made product: between requests it costs its standard, or what its
  materials cost then, and a standard that renews itself is of those materials. This
  covers products that one material reaches on two ways where all of them renew their
  standards; where they do not, all *other* products are exact.
* *Money elsewhere* (`MoneyKept`). The balance is the active payments although an
  order is paid, cancelled and edited by racing requests; an order has one receipt; a
  card's bill is paid once and is the sum of its slips; approved, paid and completed
  documents have their voucher, one each; a cancelled repair owes nothing. Vouchers
  balance although forms merge their lines with another's; one request at a time, a
  closed month holds nothing undecided and, moves and erasures aside, keeps its total.
  An order is settled exactly when a settlement has it; what left the bank is what was
  paid out; what a platform kept of a form's settlement is posted. An invoice that reads
  ISSUED has a document at the tax office whatever calls fail, one that reads CANCELLED
  has none in force, one document is made of it unless an answer is lost, and a closed
  breaker has counted less than its threshold.
* *People and things.* Days of leave used are those approved; book value is cost less
  depreciation, and a disposed asset is posted; a schedule has one open order and a
  machine that is down is worked on. An inspection that failed has one nonconformance, and
  that its CAPA or its resolution; one version of a product is in force; an approved change
  notice has its revision; the vehicle of a route on the road is in use.
* *Office.* A quotation an order was made of stays CONVERTED; one that was sent and
  lapses expires; a request its line approved was approved at every level, and a
  submitted one waits for somebody; a creation is not refused for its number; an RFQ
  has one award and it is ordered; new store orders are quoted, what the wizard
  calls ordered is, every push ends; tickets follow the map and breaches are noticed.

### Bounds, and why they are enough

Every table is bounded by a constant (`Rows`, `Orders`, `Shipments`, `Payments`,
`Items`, `Records`, `Transactions`, ...); counters that repeated requests raise for
ever have a bound of their own (`Reversals`, `MostReserved`, `MostMoved`, `MostMade`,
`MostMoves`, `MostPosted`, `MostUsed`, `MostReversals`, `Vouchers`; a voucher once erased is not created again). The hazards are
about two requests on *one* row, and about one row's effect on another's figures; so
two requests and two rows are what it takes: two items exceed a line of one, two work
orders break a schedule's one. Where a third is needed it is there: a third item that
completes an order again after its line was edited up (which a second payable could
follow), a third voucher of disposal, four rows so that a transfer of two leaves room for the receipt it draws on and
the issue that takes the goods from under it (`ledger_serial` follows deletions where at
most three rows are recorded, by the constraint `DeletedFewRows`; `LedgerExactForOne`
has no such bound). Two orders use up each other's stock with 3
for up to 2 each. Quantities 1 and 2 tell a part from the whole; amounts are distinct (a
slip is worth its number, a total of 3 with a fee of 1) where a wrong one must show; a
voucher is within the limit of the policy or beyond it. Two quotations lie in the task's
list one behind the other where requests neither race nor let drafts lapse; where they do,
conversion, edit and expiry race over one. Two months of depreciation, the second cut at
the residual value. An approval line has two levels of every mode. Four document numbers,
the last being one digit wider.

`MCOffice`, `MCBackOffice` and `MCOrders` start in some of the initial states only
(`MCInit`; the steps and the fairness are those of the specification): where a component's
entry points are many and race, its second row was deleted before, its stock is small or
one policy is in force. What is left out there is in another scene, or in the proofs, which
take every initial state. The instances are kept small enough for each run to end within
about a minute on two cores.

The small instances leave out many LOTs partly consumed, many rows raced over, many
lines and claims: the proofs of section 5 cover those.

Requests are interchangeable and nothing compares them, so `ledger_races`, `orders` and
`back_office` use symmetry over `Session`; no run with symmetry checks liveness.

Entry points in use are constants (`Entry` of the ledger, `Scenes` of the others) because whole groups of them break
a property on their own (section 6): each run and guard leaves out what the code is
known not to withstand, and names it, rather than weaken the property.

### Fairness

Requests are under no fairness: a request may die at any point and nothing resumes
it. Four liveness properties rest on what Celery guarantees, and only on that:

| Property | Assumed | Why |
|---|---|---|
| `OverdueNoticed` (`treasury`) | WF of the job's start, SF of its two saves | beat starts it at 01:00 every night; SF because a night may die before either save, but not every night |
| `SentExpire` (`office`) | WF of the task's next row | beat starts it at 00:30; it runs to its end unless a save is refused |
| `PushesEnd` (in `StoreKept`) | WF of the worker that holds a queued push | a queued task is taken by a worker; one that dies loses the push, which is an end |
| `BreachNoticed` (in `TicketsKept`) | WF of the job | beat starts it every 30 minutes; requests may make it fail, again and again |

`LapsedExpire`, without the guard of `SentExpire`, is false under the same fairness
(`quotations_expiry`).

## 5. What is proved

For **all** values of the constants (any number of rows and of concurrent requests,
any quantities, any set of entry points), under the named assumptions of the modules
only (`LedgerAssumption`, `FulfilmentAssumption`, `TreasuryAssumption`,
`PurchasingAssumption`, `QuotationAssumption`, `OfficeAssumption`,
`BackOfficeAssumption`): bounds are naturals, quantities positive, and at least one row
of each kind that a request must name. A few say more: the residual value of an asset is at most its cost (`FixedAsset.clean`);
a material that a bill lists is needed (`Needed`); what was sold cost at least a won a
piece (`ReturnCost >= Sold`), without which the share of a partial return, an integer
division, may be nothing.

| Theorem | Statement |
|---|---|
| `LedgerInvariant` | `Spec => []LedgerInv` |
| `LedgerTypeCorrect`, `WarehousesAlwaysCover`, `LotsNeverOverfilled`, `CancelledAlwaysReversed`, `PostedAtMostOnce` | the five invariants of `ledger_races` |
| `TransfersKeepTotals` | the action property of `ledger_serial`, here for concurrent requests and with crashes |
| `StockIsPostedLessReversed` | `"patch" \notin Entry => (Spec => []Balanced)`: `current_stock` is what was posted less what was reversed, under any interleaving and any crash |
| `LedgerExactForOne`, `LedgerImplementsPerpetual` | `OneRequest => (Spec => []LedgerExact)` and `OneRequest => (Spec => ImplementsPerpetual)`: the refinement, step by step |
| `FulfilmentInvariant`, `FulfilmentTypeCorrect`, `GoodsConserved` | `[]FulfilmentInv`, `[]TypeOK`, `[]StockConserved` |
| `NeverIssuedTwice` | `[]IssuedOnce`, for any number of racing and dying requests |
| `NothingIsStale` | `[]Current`: with one request after the other, what it holds is never out of date |
| `StatusesFollowMap`, `ShippedQuantityExact`, `CancelledHoldsNothing`, `ReservationIsOutstanding` | `StatusFollowsMap`, `[]ShippedExact`, `[]CancelledEmpty`, `[]ReservationsExact` |
| `Treasury_proofs`: `Typed`, `BooksBalance`, `PayablesSettled`, `PaymentsExact`, `BalancesExact` | `[]TypeOK`, `[]BooksAgree`, `[]SettledExact`, `[]PaidExact`, `[]BankExact` |
| `Purchasing_proofs`: `Typed`, `OwedOnce`, `TotalsKept`, `NoOverReceipt`, `CompletionClosesOrder`, `CancelledIsEmpty` | `[]TypeOK`, `[]OnePayable`, `[]ReceivedExact`, `[]NotOverReceived`, `[]CompletionNoticed`, `[]CancelledOwesNothing` |
| `Office_proofs`: `Typed`, `StaysConverted`, `MadeOnce` | of `Quotations`: `[]TypeOK`, `[]ConvertedStays`, `[]ConvertedOnce` |
| `OfficeLine`, `OfficeAward`, `OfficeNumbers` | `OfficeSpec => []LineKept`, `[]OneAward`, `NeverRefused` |
| `OfficeStore`, `OfficeTickets` | the safety halves of `StoreKept` and `TicketsKept` |
| `BackOffice_proofs`: `LeaveRight`, `CountRightly`, `GoodsRight`, `AssetsRight` | `BackOfficeSpec => []LeaveKept`, `[]CountedExact`, `[]WarehouseKept`, `[]AssetsKept` |
| `BackOfficeMoney_proofs`: `ProductionRight`, `MoneyRightly` | `[](part # "costs" => ProductionKept)`, `[]MoneyKept` |
| `SumToUpdate` | what replacing one element does to a sum |

*Ledger.* `LedgerInv` has four parts. `FiguresOK`: the figures are typed, and the
warehouses cover the stock and no LOT is overfull — neither is inductive without
the types, and subtracting from a warehouse preserves the cover only because it takes
at most what leaves the stock. `Typed`: tables and requests are typed and a request
past its INSERT refers to a row. `Pending`: a row some request has inserted and not
yet posted is unposted and in the hands of that request only; without it nothing
stops a second `Post`. `Accounted`: a request past its reversal refers to a reversed
row; without it `MarkCancelled` could not be shown to mark a reversed one. Each
group of actions has a lemma that it preserves `LedgerInv`; the LOT arithmetic is
isolated in `ShareBound` and `LotsKept`, the warehouse arithmetic in `AddedTotal` and
`SubtractedTotal`.

*Ledger, one request.* `BalanceInv` adds to `LedgerInv` that a request's copy of a row is
what the row says (`Faithful`, which a PATCH would break) and that an unused row was never
reversed; then every commit changes `stock` and the sum of `(posted − reversed) · signed
quantity` alike. That holds under any race: two cancellations are *both* in the sum. What
one request at a time adds is `SerialInv`: each row is posted once and reversed once at
most, exactly in the stages of the one request that has it in hand (`Counted`, `Current`).
`LedgerExact` is then arithmetic. For the refinement, the state of an entry is read off
`posted` and `reversed`; each action is shown to be a booking, a voiding or a stutter, a
transfer a booking of two entries that cancel out.

*Orders.* `FulfilmentInv` is `TypeOK`, the account `stock + Total = Opening`, and
`AbsentEmpty`: a shipment not yet created holds no goods, without which creating one
could overwrite a movement. `Total` is a sum over orders of a full movement and a sum
over shipments; `FullChanges`, `ShipmentChanges` and `AllUndone` say what it becomes
when one movement is issued, replaced, or all of an order's are reversed. Only
`IssueFull`, `CancelOrder`, `CommitPartial` and `UndoShipment` move goods. That the
unique movement number and the stock check are *rechecked* in the issuing
transaction is what `IssueFullKeeps` rests on: no fact about what the request
read earlier is used.

*Orders shipped whole.* `Wholes` says, for any number of requests: no shipment has a
movement, an order's `shipped_quantity` is the whole quantity while its full movement is
active and 0 otherwise, and what a request picked is the whole quantity, however stale its
picking is. That it is not issued a second time rests on the number of the movement alone.

*Orders, one request after the other.* The one request cannot be overtaken, but it holds
copies, and its own nested saves change rows under it. `Fits(w, r)` says, stage by stage,
what request `w` may assume of row `r`: a whole row about to be written back equals the row, the handler's old status is the
current one, the amount to issue is what remains, and a status about to be written is
allowed from the current one — or is DELIVERED over a CLOSED that a prepaid order's
nested save wrote. `Current` is that for the request alone in its behaviour, and
is inductive by itself. `StatusesFollowMap` adds that without payments nothing is paid, and
without forms no request holds a shipment, which exclude the two exceptions.

`ShippedExact` needs `Exact` and `Emptied` together. Undoing a shipment subtracts its
quantity whether or not its movement is still active; that is right only because a
shipment whose movement was reversed belongs to a cancelled order, which holds nothing
and has `shipped = 0`, so that the guard `shipped >= q` stops it. `Emptied` says so, and
that an order not shipped, or not any more, holds nothing, but for the one whose status is
being written (`ShipsOut`, `Cancels`). A crash between the issue and the
status breaks `Emptied`, not `Exact` — hence the two alternatives in `ShippedExact`.

`ReservationsExact` speaks of idle states only. `Reckons` says by how much
`reserved_stock` is ahead of the statuses in between (`Ahead`): by the quantity after
`Reserve` and until `Release`, by minus the rest after a cancellation. It needs
`Awaits`: an order that is not shipped has shipped nothing and has no active movement. So the
release, which is of the *whole* quantity, is right where orders are shipped whole — and the
cap of `GiveBack` never cuts anything off, since every order reserves at most the total.

*Treasury.* `BooksAgree` needs `EditsInScene` (a stale form of an account is only
under way in scenes that have it; a transfer is between two accounts); the heart is
`BothSides`: the same signed amount enters the sum of balances and the sum of claims.
`SettledExact` needs `Payables`: amounts are positive, and what the job holds are
receivables, for which the statement is not made. `PaidExact` needs `Receipts`: outside
races one request works at a time (`Alone`), and the payment a request is undoing is
then still active (`UndoesActive`) — exactly what two concurrent undoings break. `BankExact`
adds `Banked`: a balance is what the rows say, less what the transfer in progress is yet
to move, and a form of an account under way holds the balance it will find.

*Purchasing.* `ReceivedExact` is not inductive: while a receipt is in its handler, the
line has not caught up with its items. The strengthening, `Receiving`, says so
line by line (`Settled`): a line no receipt is handling has the total of its items,
and a request that has read the total under the lock (`"scanned"`) holds the
right one. `InScene` and `AsRead` tie the stages of requests to the scene and a
removal to the item it has read. `NotOverReceived` adds `Room`: a request about to
insert still has room for its quantity.

`CompletionNoticed` holds of racing receipts: `Noticed` says that of an order of one
product one receipt at most is past its lock, and that what it read there, with what it
adds, is all there is. `CancelledOwesNothing` needs `Cancelling`: a cancellation under way
found nothing received and owed, and a receipt that comes after it takes the order out
of CANCELLED when it commits.

*Quotations.* `ConvertedStays` needs that the night and every form pass through the
handler, which compares the row again when it saves: what was loaded earlier is not
used in the invariant at all.

*Composites.* `OfficeInv`, `BackOfficeInv` and `MoneyInv` say of the part that moves that its
own invariant holds; `PartStarts` and `PartMoves` take the initial states and the steps of
the composite apart. Each component is proved as the instance it is there, in the order
types, invariant, one lemma per action or group of like actions, start, step.

*Approval.* `LineInv` is about the stages: a request past its look at a level carries an
outcome that the steps of that level justify, and while APPROVED is on its way to be
written every level is done. `OneInv` adds, for one action at a time, that the current
level is the first one not done, so that a submitted request waits for somebody.
`RushInv` is for approvals that race with nothing else: it says which levels the racing
outcomes may set the request to.

*Document numbers.* One saving at most is under way, and the number it has computed is
free or follows the last of all. *Sourcing.* What was deselected stays so until the one
conversion has selected its own response; an award that is not ordered is in the hands
of the request that orders it.

*Store.* The row owes a quotation only while the request that wrote it is about to make
one (`Owes`); a row whose quotation is CONVERTED has an ERP order, and so has one that
was CONVERTED when a request read it; new quotations are not converted (`MoreQuotes`).
*Tickets.* One request at a time, what passed the handler's comparison still passes
when it is written, since the job moves no status: `FollowsMap` for the step follows
from `Passes` for the stage before it. The job's own save is refused if the row has left
the status it read.

*Leave.* The handler decides on the status of the row's history; `CountedAs` keeps for
each request the status with which its days were counted last, and the balance is the
sum over those. One at a time they are those of the rows. *Counts.* The stock is what
the system said plus what moved since, until the adjustment is posted; what a posting has
still to do is `Differing`.

*Picking.* The locks of two requests are disjoint, and while a request holds the lock of a
product what it has looked at is still there. *Returns.* Who took the goods is the only
one to claim, whoever ships or writes a confirmation knows that both are booked
(`Owed`, `ConfirmedBooked`), taken goods are confirmed or will be; the shares of the cost
of sales are bounded by lemmas about integer division.

*Assets.* Book value and accumulated depreciation always move together. A disposal is
written after its voucher (`VoucherBefore`). Where forms come one at a time, each form
knows what the asset lost, and the records sum up to it: a catch-up's records telescope
over `BookAfter`. *Upkeep.* What is about to be written is COMPLETED or was live, and
the order the job is about to create has none beside it. *Quality.* A row that is missing
is in the hands of a pending request. *Versions.* Of two versions in force one is being
activated; revisions are 1..k, and no request's number is beyond k + 1. *Routes.* What
is pending takes (`WillTake`) or frees (`WillFree`) its vehicle.

*Production.* Forms edit only where asked; movements follow the rows of the records; an
order is COMPLETED exactly if enough was made, also when read before.

*Money of an order.* There is one payer; a cancellation sweeps the receipts before it is
recorded; a disbursement is only for a settled record; the balance is the opening plus
the receipts less the fees. *Vouchers.* `Covered(status)`: the voucher of a status is
there or on its way, also for the status a request read. *Settlements.* What a
settlement gathers was unsettled; what left the bank is a sum over the settlements paid.
*Closed months.* What is saved leaves the lines as read, or is new and balanced
(`SavedRight`); the month a request has examined has nothing pending; a new voucher is of
one request (`OneCreates`). *Cards.* A slip that was counted has no voucher yet and one
request counts it; the total of the billing job is what is billable until it is linked;
a reversal is there exactly if the slip is cancelled. *Invoices.* Documents are
numbered as they come in; one that an invoice or a request names is its own and never
changes owner; an invoice without a number has no document unless a request is about to
save one.

*Sums.* `SumToStep`, `SumToUpdate`, `SumToNat`, `SumToZero`, `SumToSingle`,
`SumToCombine`, by an induction principle stated for sets of naturals (`SetInduction`).

Attempts that failed changed the models. What was said of returns could not be proved: a
cancellation retires the claim before it writes the status, so that for a moment, or for
good if it dies, a confirmed return has none; `ConfirmedBooked` now names that case, and
says elsewhere exactly how many claims there are (`Owed`). The batch of invoices chose its members in a way no proof could follow; it
now takes any subset of those that can be issued. The job of the helpdesk kept a sequence
of what it had to examine; it now keeps the set and takes the newest ticket.

Only model-checked: all liveness (`OverdueNoticed`, `SentExpire`, `PushesEnd` in
`StoreKept`, `BreachNoticed` in `TicketsKept`), since fairness and `ENABLED` are out of
the prover's reach; and `CostsFollow` of `BomCosts`, the part of `ProductionKept` that
`ProductionRight` leaves out: what a cascade reaches is a matter of the paths of an
arbitrary graph, by an induction over its depth that would be longer than the rest.
Induction over data with an operator as parameter is out of reach as well, and the prover
works in no module that declares a `RECURSIVE` operator; the modules declare none.

## 6. Where the code and its documents part

Six divergences have a run of their own (`findings` in `PROJECT.json`). The others
were met while modelling: a property's guard leaves them out, and dropping the guard
(or adding the entry point to the scenes) makes TLC show them.

### Inventory and orders

| What the code does | What leaves it out | What the documents say |
|---|---|---|
| **Two cancellations of one movement both reverse it** (`ledger_cancel_race`) | | `docs/verification_criteria.md`: current_stock = SUM(inbound) − SUM(outbound) |
| Two issues pass the same check; the second row stays, unposted | `LedgerExact` for one request | the same |
| A patched quantity is not posted, but its cancellation reverses it | `"patch"` not in `ledger_serial` | the same |
| An issue from a warehouse that holds less than the product is clamped | `WarehousesCoverStock` is ≥ | `WarehouseStock`: the breakdown of current_stock by warehouse |
| A refused transfer stays behind as a document | nothing is said of it | `verification_criteria.md`: a partial transfer is rolled back entirely |
| **Completing a partly shipped order releases its whole quantity** (`order_reservation_eaten`) | | `CHANGELOG.md`: released on shipment |
| Two confirmations both reserve | *reserving*: one request | `CHANGELOG.md` |
| The last delivered shipment delivers a partly shipped order; a prepaid order is closed by a nested save, and the outer save writes DELIVERED over it | `StatusFollowsMap` without `"shipment"`, `"pay"` | `Order.STATUS_TRANSITIONS`; `sales/signals.py`: closed automatically |
| POST to `OrderDeleteView` deletes the row; its `delete` method, which cancels, runs only on HTTP DELETE | *reserving* without `"erase"` | `verification_criteria.md`: no physical DELETE |
| The order form changes the items of a confirmed order without its reservation; a stale one writes the status back | *reserving* without `"edit"` | `CHANGELOG.md` |
| A partial shipment slips in between a cancellation's consequences and its status; two ship the same remaining quantity | `ShippedExact`, `CancelledEmpty`: one request | `verification_criteria.md` |
| A request dies after the full issue; the cancellation reads CONFIRMED and gives nothing back | `CancelledEmpty` without `"crash"` | `sales/signals.py`: a cancellation restores the stock |
| Undoing a shipment restores its reservation twice | *reserving* without `"undo"` | `sales/signals.py` |
| A full shipment is found by the prefix of its reference, so ORD-…-1000's counts as ORD-…-100's | own movement per order | |

### Purchasing, production, counts, warehouse

* Removing a received item takes its quantity off every line of the same product. A
  receipt may be made of an order cancelled meanwhile. The order form writes back the
  status and the received quantities it loaded. With two products, the last two receipts
  may each see the other's line as incomplete, and the order is never completed.
* An RFQ makes one more order per conversion; a CLOSED one is converted too; two racing
  awards in the administration leave two selected (`OneAward` excepts it).
* Editing a production record rolls back with an `IntegrityError` on the unique
  movement numbers; the prefix that finds the old movements of record 1 matches those
  of record 10 (`"longer"`).
* A product that two of its materials lead to (P of A and B, both of R) is visited by the
  cascade once, after the first of them: it keeps the old cost of the second, and stays
  behind until something else changes it; the comment of `_cascade_cost_to_parents` says
  that `_visited` only guards against endless recursion and that the change is carried
  through all levels (`CostsFollow` excepts it). A cost settlement compares each total
  with the cost it fetched at the start: where renewing one standard has meanwhile moved
  the cost of another product and that product's total comes out as what was fetched, the
  cost is not written (`"stale"`).
* `StockCountUpdateView` stores no quantity: a float minus a Decimal raises a
  `TypeError`, which it passes over. The system quantity is that of all warehouses. Two
  racing adjustments both post.
* A put-away of a receipt makes a second IN movement. Outside the administration a pick
  order may stay PACKED with nothing issued, when stock is short, a deadlock ends it or
  its worker dies; set back and packed again it issues twice; so do racing saves.

### Money

* **A payment that is distributed stays in the account it was registered for**
  (`treasury_distributed`). Two undoings of one payment both restore it. The nightly job
  updates receivables it listed earlier: a receivable paid in between reads OVERDUE. A
  stale form of an account undoes the payments since. A transfer that dies after its row
  has moved nothing.
* **Cancelling an order whose receivable was paid leaves the amount in the balance**
  (`money_cancelled`). `OrderPaymentView` pays drafts and cancelled orders; its receipt has
  no receivable, so the receivable stays unpaid and the cancellation keeps the receipt.
  Two payers make two receipts, two settlements two disbursements; the look for an existing
  one ("수수료 {pk}") never matches.
* Cards: a job that dies between bill and links leaves transactions unlinked; one entered
  after the sum is never billed; racing cancellations subtract twice; a cancellation
  after billing keeps the total, and one of an earlier month takes from the new month's
  `used_amount`; undoing the bill's payment leaves it PAID.
* Returns: an exchange shipped through the status map issues its goods a second time (its
  movements are named "교환출고", which `_auto_full_ship` does not look for); a return that
  is shipped issues what it took back; cancelling a confirmed return keeps its receipt and
  releases reservations of other orders; nothing stops two full returns of one order; a
  worker that dies after the goods leaves a draft that can never be confirmed, since the
  movement's number is unique; two half returns reverse a half, then a half of what is
  left, of the cost of sales.
* Settlements: the weekly job saves the settlement twice, and the handler, which does not
  see its own `update`, posts the platform's voucher twice; the form marks the orders
  before it asks `orders.first()` for a partner, and `orders` then selects unsettled ones:
  the payments it was to make are never made; racing creations put an order in two
  settlements; two racing payments pay twice; a commission paid while the voucher could
  not be posted takes its link, and the platform's voucher is never posted.
* Electronic invoices: an issue whose answer is lost is issued again under another number
  (`issue_id` is saved only with the answer); the answer is not read: a rejected issue is
  ISSUED until it is queried; every request authenticates, and a success resets the count,
  so that an outage of the invoice interface alone never opens the breaker for single
  requests; retiring an invoice tells the tax office nothing; an edit writes back the
  status it loaded.
* Automatic vouchers: two racing approvals post two; a rejection racing an approval leaves
  REJECTED with a voucher; a distribution that dies after PAID is never posted, nor is one
  created PAID; its cancellation reverses nothing; a completion racing a cancellation of
  a repair leaves COMPLETED without, or CANCELLED with, a receivable; numbers are matched
  by "contains".
* Closed months: the form and the handler compare the *new* month alone, so that a voucher
  can be moved out of a closed month; an erasure in the administration is not compared; a
  save that passed the check lands in a month closed meanwhile, and the closing misses a
  draft saved after its look; a second POST of the closing opens the month again. The
  administration saves lines without comparing them afterwards. A stale save brings a
  retired voucher back; `RestoreView` does not call `restore()`, so the number keeps its
  `_DEL_` prefix. `manual_approval_amount_threshold` asks nobody: the `ApprovalRequest`
  is created with fields it does not have, and the error is swallowed. The bad-debt job
  posts drafts dated today and ends at the first that falls in a closed month.
* **The monthly depreciation counts every month twice and passes the residual value**
  (`depreciation_twice`). The catch-up of a disposal never runs with the form's DISPOSED or
  SCRAPPED and then discards the form; the voucher commits before the row; colliding runs
  undo the whole batch; stale forms overwrite the figures.

### Office

* **A lapsed draft makes `expire_quotations` fail, for it and what lies behind it**
  (`quotations_expiry`). Two conversions make two orders.
* Approval: two approvers of an ALL level racing leave the request waiting for nobody, and
  with three levels set it back to one that is closed; APPROVED may be written over
  REJECTED; a second submission or a stale edit resets the line; `ApprovalActionView`
  decides past it. A level may have several SEQUENTIAL steps
  (`build_steps_from_template` and the model permit it): one of them can be approved from a
  stale page after another was rejected, and the request is APPROVED with a rejected level
  (`Serial` excepts it).
* Numbers: POST deletes are real, so numbers are used again; the retry guards no insert;
  after 999 of a day every creation collides.
* Marketplace: an order that is new to `sync` with a user gets two quotations; a stale
  preview and the wizard overwrite the link; two wizard conversions make two ERP orders;
  a crash between row and quotation leaves it unquoted until a sync reports NEW; a push
  writes SHIPPED over CANCELLED; `self.retry(exc=exc)` raises `exc` past the last try, so
  that `except MaxRetriesExceededError` never runs.
* Leave: a rejection racing an approval leaves the days counted; two racing cancellations
  restore nothing; a stale API edit counts twice; PENDING over APPROVED restores nothing;
  edited days and deleted requests are not reflected.
* Helpdesk: a `ValidationError` aborts the job and that breach's escalation is lost; a
  stale form undoes a raised priority; racing requests leave `STATUS_TRANSITIONS`;
  `sla_breached` is never set.
* Maintenance: completing any order sets a machine ACTIVE, even RETIRED or with another
  emergency open; downtimes are never ended.
* Quality: two racing saves of a failed inspection record two nonconformances, and every
  later save of it fails, since `get_or_create` finds more than one; closing one of several
  CAPAs resolves the nonconformance.
* Lifecycle: every further save of an APPROVED notice adds a revision, and after revision
  10, which sorts before 9, none can be added; two racing approvals may leave an APPROVED
  notice without one (the second revision violates its unique number after the notice
  was committed); two racing creations may leave no version in force, each having
  deactivated the other.
* Logistics: completing one of a vehicle's two routes frees it while the other is on the
  road; moving a route to another vehicle leaves the first IN_USE; of two racing saves
  one may take a COMPLETED route back to IN_PROGRESS.

### In components not modelled

Read while surveying, not checked by a run: HR applies a re-saved old action again and a
future one never; renewing an EXPIRED subscription raises a `ValidationError`; a reservation of an asset is approved whatever its
status, and its overlap check races.

## 7. Plan

1. Done: everything of section 3, with proofs of all it says but liveness and
   `CostsFollow`.
2. Bad debts, which post into the months of `ClosedBooks`.
3. Subscriptions, personnel actions, electronic data interchange: one status map each,
   with the handlers that open or close another row.
4. `CostsFollow`, by induction over the depth of the bills of material.

## 8. Not modelled, and why

Amounts, prices, taxes and average cost: decimal arithmetic over rows that no other
request touches, better tested than modelled. Permissions, forms, templates,
reports, notifications, seed data, migrations, the generic Excel import and export: no
derived state. The bad-debt job; HR, subscription, EDI, inquiry, warranty, leases,
certificates; reservations of assets, of which nothing can be said but what their `clean`
compares; zones, stops and freight of routes; production batches and variances;
attendance check-in; bins; the marketplace's templates, reconciliation and platform
clients; delegation of approvals: see the plan. The behaviour of PostgreSQL below a
committed statement: a statement is atomic, a lock is held to the end of its transaction,
a failed constraint rolls the transaction back.
