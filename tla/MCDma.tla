------------------------------- MODULE MCDma -------------------------------
(* Two memories and two buffers of different sizes, so that storage bound   *)
(* between submit and run_sync may be too small for the request.            *)
EXTENDS Dma

MCSizeOf == [s \in Memories \cup Buffers |->
                IF s = "dram" THEN 6 ELSE IF s = "buf" THEN 5 ELSE 3]

In(base, to, length, rows, src, dst) ==
    Request("DRAM_TO_BUFFER", base, to, length, rows, src, dst)
Out(base, from, length, rows, src, dst) ==
    Request("BUFFER_TO_DRAM", base, from, length, rows, src, dst)

MCRequests == {
    In(4, 0, 2, 2, 3, 2),    \* two rows of a wider matrix, packed
    In(0, 1, 3, 1, 1, 1),    \* one row, off the start of the buffer
    In(0, 0, 2, 3, 2, 1),    \* rows that overlap in the buffer
    In(8, 0, 2, 3, 2, 2),    \* its last row is past both ends
    Out(0, 0, 2, 2, 2, 4),   \* a packed tile back to a wider matrix
    Out(12, 0, 1, 3, 2, 1),  \* a column
    Out(20, 0, 2, 1, 2, 2),  \* one word past the memory
    In(2, 0, 1, 1, 1, 1),    \* misaligned
    In(0, 0, 0, 1, 1, 1),    \* no columns
    Request("invalid", 0, 0, 1, 1, 1, 1) }
=============================================================================
