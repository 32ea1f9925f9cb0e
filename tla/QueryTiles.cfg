SPECIFICATION Spec
CONSTANTS
    Half = 4
    didbits = 4
    hashbits = 3
    Cells <- MCCells
    Sizes <- MCSizes
    Reporting = {3, 6, 9}
    Total = {3, 6, 9}
    Ids = {0, 1, 2}
    Reciprocated = {TRUE, FALSE}
    Runs = {"query", "L1", "L2", "list"}
    StoredSize = 4
    TileSize = 2
    TileCount = 3
INVARIANTS
    IInv
    OrderKept
    Compact
    MergedInOrder
    NothingLost
    UniqueDevices
    CountsEncounters
CHECK_DEADLOCK FALSE
