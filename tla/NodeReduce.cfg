SPECIFICATION Spec
CONSTANTS
    Half = 4
    Ids = {1, 2, 3}
    tile_size = 2
    output_size = 2
    n_tiles = 3
    n_receives = 1
INVARIANT ExpectsSorted
CHECK_DEADLOCK FALSE
