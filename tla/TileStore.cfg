SPECIFICATION Spec
CONSTANTS
    Reps = 2
    Tiles = 2
    MaxFaults = 2
INVARIANTS
    TypeOK
    TilesNotOlder
    AuthKeepsOrder
    LabelsFit
PROPERTY AllEnd
CHECK_DEADLOCK FALSE
