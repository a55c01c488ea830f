SPECIFICATION Spec
CONSTANTS
  p1 = p1
  p2 = p2
  Warehouses = 2
  Rows = 4
  Transfers = 1
  Reversals = 1
  Session <- OneSession
  Quantity <- One
  Method = "LIFO"
  Entry <- Intact
CONSTRAINT DeletedFewRows
INVARIANTS LedgerExact
PROPERTIES ImplementsPerpetual TransferKeepsTotals
CHECK_DEADLOCK FALSE
