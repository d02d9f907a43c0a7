SPECIFICATION Spec
CONSTANTS
    Memories = {"dram", "rom"}
    Buffers = {"buf", "small"}
    SizeOf <- MCSizeOf
    Requests <- MCRequests
    MaxCalls = 9
INVARIANT TypeOK
PROPERTIES
    DoneMovesRectangle
    AcceptedNeverFails
    OnlyPendingMoves
\* The host stops calling at MaxCalls.
CHECK_DEADLOCK FALSE
