SPECIFICATION Spec
CONSTANTS
    v1 = v1
    v2 = v2
    None = None
    Revealers = {0, 1}
    EqGarbler <- TwoEqGarbler
    Values = {v1, v2}
    Programs <- MCPrograms
    MaxCalls = 4
INVARIANTS
    TypeOK
    SyncAligned
    VerdictMatches
    OutputsMatch
    SameReturns
    CheckedBetween
PROPERTIES
    EveryCallReturns
    CheckersStop
CHECK_DEADLOCK FALSE
