SPECIFICATION FairSpec
CONSTANTS
    NumRecords = 2
    Addrs = {a1, a2}
    NoAddr = NoAddr
    MaxChanges = 1
INVARIANTS
    ReportIsTrue
    OnlyLateRequestsOverwrite
    ExitStatusIsTrue
    ClientInv
PROPERTIES
    ShutdownEnds
    OnceEnds
CHECK_DEADLOCK FALSE
