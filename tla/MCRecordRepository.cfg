CONSTANTS
    Calls = {c1, c2, c3}
    Keys = {k1}
    Values = {v1, v2}
    NoRow = NoRow
    MaxClock = 1
SPECIFICATION Spec
SYMMETRY Symmetry
INVARIANTS
    RowIsLatestWrite
    CreatedAtIsFirstInsert
    StampInversionNeedsOverlap
    ReplyNotStale
    MissingRowWasDeleted
    StoreInv
