SPECIFICATION FairSpec
CONSTANTS
    k1 = k1
    k2 = k2
    k3 = k3
    k4 = k4
    k5 = k5
    k6 = k6
    v1 = v1
    v2 = v2
    Keys <- MCKeys
    Values <- MCValues
    Tables <- MCTables
    MaxWrites = 2
INVARIANTS
    ReceivedIsPrefix
    CompleteListIsTable
    ListInv
PROPERTIES
    TaskEndsOrWaits
    ReaderReachesEnd
CHECK_DEADLOCK FALSE
