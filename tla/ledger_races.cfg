SPECIFICATION Spec
CONSTANTS
  p1 = p1
  p2 = p2
  Warehouses = 2
  Rows = 2
  Transfers = 0
  Reversals = 1
  Session <- TwoSessions
  Quantity <- Small
  Method = "FIFO"
  Entry <- Racing
SYMMETRY Symmetry
INVARIANTS TypeOK WarehousesCoverStock LotWithinReceipt CancelledWasReversed PostedOnce
CHECK_DEADLOCK FALSE
