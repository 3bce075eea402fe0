SPECIFICATION FairSpec
CONSTANTS
    Queries = {q1}
    Questions <- MCQuestions
    Configs <- MCConfigs
    Values <- MCValues
    Written <- MCWritten
    Spellings <- Lower
    NoRow = NoRow
    NoZone = NoZone
INVARIANTS
    UpstreamOnlyIfAbsent
    DatabaseAnswerCurrent
    PanicNeedsBadRow
    StaticRecordsServed
    DnsInv
PROPERTIES
    EveryQueryEnds
