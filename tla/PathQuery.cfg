SPECIFICATION Spec
CONSTANTS
    Hash <- MCHash
    Queries <- MCQueries
    Settings <- MCSettings
    T = 4
    shuffle_start_times <- MCStarts
    dummies = 4
INVARIANTS
    NoSplit
    WalkComplete
    FetchedOnce
    ContactCounted
    FlowCounted
CHECK_DEADLOCK FALSE
