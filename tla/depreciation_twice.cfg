SPECIFICATION Spec
CONSTANTS
    Assets = 1
    Months = 3
    Cost = 6
    Residual = 1
    Monthly = 2
    Vouchers = 3
    Session = {p1}
    Scenes = {{"run"}}
INVARIANTS NotBelowResidual
CHECK_DEADLOCK FALSE
