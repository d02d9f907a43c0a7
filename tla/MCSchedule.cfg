SPECIFICATION FairSpec
CONSTANTS
    ArrayRows = 2
    ArrayCols = 2
    TileSize = 2
    Word = 32
    Descriptors <- MCDescriptors
INVARIANTS
    TypeOK
    Partition
    TilesInside
    AccumulatesInOrder
    ReturnsPlan
PROPERTIES
    CountersAdvance
    Returns
\* build_plan returns once.
CHECK_DEADLOCK FALSE
