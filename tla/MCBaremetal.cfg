SPECIFICATION Spec
CONSTANTS
    ArrayRows = 16
    ArrayCols = 16
    TileSize = 16
    Word = 65536
    MemWords = 32
    BufferSize = 4
    InitialMemory <- MCInitialMemory
    BssStart = 1
    BssEnd = 3
    StatusWord = 3
    GOOD = 24589
    BAD = 47824
    DoneText <- MCDoneText
    FailText <- MCFailText
    Gemms <- MCGemms
    DescAddrs = {0, 16, 80, 120}
    Polls = {0, 3}
    MaxCalls = 3
INVARIANTS
    HaltReportsStatus
PROPERTIES
    GemmDelivers
