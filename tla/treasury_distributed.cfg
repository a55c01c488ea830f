SPECIFICATION Spec
CONSTANTS
  p1 = p1
  p2 = p2
  Claims = 2
  Payments = 2
  Accounts = 2
  Kind <- OneEach
  Claimed <- Two
  Amount <- Small
  Opening = 0
  Session <- TwoSessions
  Scenes <- OnlySharing
  MostMoved = 1
INVARIANT DistributedOnce
CHECK_DEADLOCK FALSE
