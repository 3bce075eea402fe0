SPECIFICATION Spec
CONSTANTS
    MaxFaults = 4
INVARIANTS
    ProcessInv
PROPERTIES
    FailureEndsProcess
    StopEnds
CHECK_DEADLOCK FALSE
