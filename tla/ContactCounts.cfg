SPECIFICATION Spec
CONSTANTS
    Hash <- MCHash
    Queries <- EqualLists
    Settings <- MCSettings
    T = 4
    shuffle_start_times <- MCStarts
    dummies = 4
INVARIANT CountsContacts
CHECK_DEADLOCK FALSE
