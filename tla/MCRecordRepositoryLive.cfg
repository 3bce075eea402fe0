CONSTANTS
    Calls = {c1, c2}
    Keys = {k1, k2}
    Values = {v1, v2}
    NoRow = NoRow
    MaxClock = 1
SPECIFICATION FairSpec
PROPERTIES
    EveryCallEnds
    ImplementsService
