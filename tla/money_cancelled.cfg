SPECIFICATION Spec
CONSTANTS
    Total = 3
    Fee = 1
    Opening = 0
    Payments = 3
    Fees = 1
    Session = {p1}
    Scenes = {{"status", "claim"}}
INVARIANT BalanceIsPayments
CHECK_DEADLOCK FALSE
