SPECIFICATION MCSpec
CONSTANTS
  p1 = p1
  p2 = p2
  Session <- TwoSessions
  Lines = 2
  Items = 3
  Ordered = 1
  Quantity <- One
  Edited <- Two
  Products <- SameOrNot
  Scenes <- AllScenes
  ProductionOrders = 2
  Records = 2
  Needed = 2
  ProductionQuantity = {1}
  Chosen = {"IN_PROGRESS", "CANCELLED"}
  ProductionScenes <- RecordingSets
  EditingQuantity = {0, 2}
  EditingScenes <- EditingSets
  BomCount = 4
  Raws = 1
  Prices = {1, 2}
  Extras = {1}
  CostScenes <- CostSets
  CountedProducts = 2
  MostStock = 2
  CountScenes <- CountSets
  MoneyTotal = 3
  MoneyFee = 1
  MoneyOpening = 0
  MoneyPayments = 3
  MoneyFees = 1
  MoneyScenes <- MoneySets
  LeaveRequests = 2
  LeaveDays = {1, 2}
  LeaveTotal = 3
  MostUsed = 4
  LeaveScenes <- LeaveSets
  Assets = 2
  Months = 2
  AssetCost = 4
  Residual = 1
  Monthly = 2
  AssetVouchers = 3
  AssetScenes <- AssetSets
  PickOpening = {1, 2}
  MostMoves = 2
  PickChosen = {"PENDING", "PACKED", "COMPLETED"}
  PickingScenes <- PickingSets
  ReturnCount = 2
  Sold = 2
  ReturnForms = {1, 3}
  ReturnCost = 4
  ReturnOpening = 2
  ReturnScenes <- ReturnSets
  Transactions = 2
  MostReversals = 2
  CardScenes <- CardSets
  MostPosted = 2
  VoucherScenes <- VoucherSets
  BookVouchers = 2
  BookForms <- FormsOfBooks
  BookPolicies <- TwoPolicies
  BookScenes <- BookSets
  SettledOrders = 2
  Platform = {1}
  Settled = 2
  Rates = {0, 1}
  SettlementOpening = 4
  SettlementScenes <- SettlementSets
  InvoiceCount = 1
  TaxDocuments = 3
  Threshold = 2
  InvoiceScenes <- InvoiceSets
  BatchCount = 2
  BatchScenes <- BatchSets
  Schedules = 2
  UpkeepOrders = 2
  UpkeepScenes <- UpkeepSets
  Ncs = 2
  Capas = 2
  QualityScenes <- QualitySets
  VersionCount = 3
  Notices = 2
  Digits = 2
  VersionScenes <- VersionSets
  Vehicles = 2
  RouteCount = 2
  RouteScenes <- RouteSets
INVARIANTS TypeOK OnePayable   NotOverReceived CancelledOwesNothing
   WarehouseKept  LeaveKept 
PROPERTIES CountedExact
SYMMETRY Alike
CHECK_DEADLOCK FALSE
