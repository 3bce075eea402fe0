SPECIFICATION Spec
CONSTANTS
    Queries = {q1}
    Questions <- MCQuestions
    Configs <- MCConfigs
    Values <- MCValues
    Written <- MCWritten
    Spellings <- LowerAndOther
    NoRow = NoRow
    NoZone = NoZone
INVARIANTS
    PublishedNameResolves
