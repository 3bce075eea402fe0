SPECIFICATION Spec
CONSTANTS
    NumRecords = 2
    Calls = {c1, c2}
    NoCall = NoCall
    HealthyAge = 3
    Period = 2
    Accuracy = 1
    RestartDelay = 0
    MaxClock = 5
SYMMETRY CallSymmetry
INVARIANTS
    FalseAlarmNeedsDelay
    DeadIsUnhealthy
    HealthInv
CHECK_DEADLOCK FALSE
