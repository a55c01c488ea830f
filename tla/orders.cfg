SPECIFICATION MCSpec
CONSTANTS
  p1 = p1
  p2 = p2
  Orders = 2
  Shipments = 2
  Session <- TwoSessions
  Quantity = {1, 2}
  Opening = 3
  MostReserved = 4
  Scenes <- Choices
INVARIANTS TypeOK StockConserved IssuedOnce   ReservationsExact
PROPERTIES StatusFollowsMap
SYMMETRY Symmetry
CHECK_DEADLOCK FALSE
