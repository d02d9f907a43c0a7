SPECIFICATION Spec
CONSTANTS
    ArrayRows = 2
    ArrayCols = 2
    TileSize = 2
    Word = 256
    MemWords = 24
    BufferSize = 4
    Byte = 4
    NPU_BASE = 128
    NPU_SIZE = 64
    CONSOLE_BASE = 192
    CONSOLE_SIZE = 16
    Regs = {"x0", "ra", "a0", "a1", "a7"}
    Decode <- MCDecode
    InitialMemories <- MCInitialMemories
    Images <- MCImages
    Files <- MCFiles
    WordLists <- MCWordLists
    Entries = {0, 6}
    Budgets = {2, 9}
    HostWrites <- MCHostWrites
    MaxCalls = 3
INVARIANTS
    TypeOK
PROPERTIES
    StepIsPrecise
    StoreHitsItsBytes
    RunReports
    WriteAnswers
    LoadedImage
\* The host stops calling at MaxCalls.
CHECK_DEADLOCK FALSE
