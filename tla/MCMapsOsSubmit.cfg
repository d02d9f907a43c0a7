SPECIFICATION FairSpec
CONSTANTS
    ArrayRows = 16
    ArrayCols = 16
    TileSize = 16
    Word = 65536
    MemWords = 31
    BufferSize = 4
    InitialMemory <- MCInitialMemory
    BssStart = 2
    BssEnd = 12
    UserDesc = 8
    BootText <- MCBootText
    DoneText <- MCDoneText
    FailedText <- MCFailedText
    Writes <- MCWrites
    Texts = {0, 4, 120}
    Gemms <- MCGemms
    Pointers = {0, 4, 8, 10, 80}
    Codes = {0, 1}
    Unknowns = {3}
    MaxCalls = 3
PROPERTY
    NpuSubmitReturns
