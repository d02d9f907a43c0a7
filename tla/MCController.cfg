SPECIFICATION Spec
CONSTANTS
    ArrayRows = 2
    ArrayCols = 2
    TileSize = 2
    Word = 128
    MemWords = 20
    BufferSize = 4
    Descriptors <- MCDescriptors
    Payloads <- MCPayloads
    Lengths = {0, 3, 5}
    InitialMemory <- MCInitialMemory
    MaxCalls = 4
INVARIANTS
    TypeOK
    StatusConsistent
    PartialSums
PROPERTIES
    ChecksSuffice
    FailureLeavesMemory
    ImplementsGemm
\* The host stops calling at MaxCalls.
CHECK_DEADLOCK FALSE
