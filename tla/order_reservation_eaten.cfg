SPECIFICATION Spec
CONSTANTS
  Orders = 2
  Shipments = 1
  Session <- OneSession
  Quantity = {1, 2}
  Opening = 3
  MostReserved = 6
  Scenes <- Shipped
INVARIANTS ReservedExact
CHECK_DEADLOCK FALSE
