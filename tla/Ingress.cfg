SPECIFICATION Spec
CONSTANTS
    Half = 4
    didbits = 3
    hashbits = 3
    Cells <- MCCells
    Sizes <- MCSizes
    Reporting = {1, 2}
    Total = {1, 2}
    Ids <- AllIds
    Reciprocated = {TRUE}
    Runs = {"query"}
    StoredSize = 6
    TileSize = 2
    TileCount = 3
INVARIANT BothConfirmed
CHECK_DEADLOCK FALSE
