SPECIFICATION Spec
CONSTANTS
    ArrayRows = 2
    ArrayCols = 2
    TileSize = 2
    Word = 256
    MemWords = 28
    BufferSize = 3
    InitialMemory <- MCInitialMemory
    Bases <- MCBases
    Images <- MCImages
    Descriptors <- MCDescriptors
    MaxCalls = 5
INVARIANTS
    TypeOK
    StoredReadsBack
PROPERTIES
    StartAnswers
    RefusedStartIsInert
\* The host stops calling at MaxCalls.
CHECK_DEADLOCK FALSE
