SPECIFICATION Spec
CONSTANTS
    Calls = {c1, c2}
    Keys = {k1}
    Values = {v1}
    NoRow = NoRow
    MaxClock = 0
SYMMETRY CallSymmetry
INVARIANT UpsertUnwrapHolds
