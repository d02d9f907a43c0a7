SPECIFICATION ArraySpec
CONSTANTS
    ArrayRows = 3
    ArrayCols = 2
    Tiles <- MCTiles
    PartialSum <- MCPartialSum
    MaxTiles = 2
INVARIANTS
    ArrayTypeOK
    ReturnsProduct
    OperandsMeet
\* No call follows the last one.
CHECK_DEADLOCK FALSE
