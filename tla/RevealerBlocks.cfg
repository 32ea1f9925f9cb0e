SPECIFICATION Spec
CONSTANTS
    v1 = v1
    v2 = v2
    None = None
    Revealers = {0}
    EqGarbler <- TwoEqGarbler
    Values = {v1, v2}
    Programs <- BlockPrograms
    MaxCalls = 2
INVARIANT BlocksUntilChecked
CHECK_DEADLOCK FALSE
