SPECIFICATION Spec
CONSTANTS
  p1 = p1
  p2 = p2
  Warehouses = 1
  Rows = 2
  Transfers = 0
  Reversals = 1
  Session <- TwoSessions
  Quantity <- One
  Method = "FIFO"
  Entry <- Cancelling
INVARIANTS LedgerExact
CHECK_DEADLOCK FALSE
