SPECIFICATION MCSpec
CONSTANTS
    NumRecords = 2
    Addrs <- MCAddrs
    NoAddr = NoAddr
    MaxFaults = 1
    MaxChanges = 1
    Queries = {q1}
    Configs <- MCConfigs
    StaticValues = {}
    NoZone = NoZone
    Name <- MCName
    Family <- MCFamily
INVARIANTS
    QueryFindsAcknowledged
    AnswersHaveType
PROPERTIES
    AddressReachesDns
CHECK_DEADLOCK FALSE
