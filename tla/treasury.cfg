SPECIFICATION Spec
CONSTANTS
  p1 = p1
  p2 = p2
  Claims = 2
  Payments = 2
  Accounts = 2
  Kind <- OneEach
  Claimed <- Two
  Amount <- Small
  Opening = 0
  Session <- TwoSessions
  Scenes <- AllScenes
  MostMoved = 1
INVARIANTS TypeOK BooksAgree SettledExact PaidExact BankExact
PROPERTY OverdueNoticed
CHECK_DEADLOCK FALSE
