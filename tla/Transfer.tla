------------------------------ MODULE Transfer ------------------------------
(***************************************************************************)
(* A DmaRequest (maps-sim/include/npu/dma.h): the rectangle it names, the  *)
(* checks DmaEngine::submit makes of it and, in closed form, what a        *)
(* transfer that ran to its end leaves in the destination. The loop that   *)
(* moves the words is module Dma.                                          *)
(***************************************************************************)
EXTENDS Integers, FiniteSetsExt

DramWordBytes == 4

Directions == {"DRAM_TO_BUFFER", "BUFFER_TO_DRAM"}

RequestType ==
    [direction : Directions \cup {"invalid"}, dramBase : Nat, bufferBase : Nat,
     length : Nat, rows : Nat, srcStride : Nat, dstStride : Nat]

Request(direction, dramBase, bufferBase, length, rows, srcStride, dstStride) ==
    [direction |-> direction, dramBase |-> dramBase, bufferBase |-> bufferBase,
     length |-> length, rows |-> rows, srcStride |-> srcStride, dstStride |-> dstStride]

\* The request a new or reset engine holds.
NoRequest == Request("DRAM_TO_BUFFER", 0, 0, 0, 0, 0, 0)

ToBuffer(req) == req.direction = "DRAM_TO_BUFFER"

DramWord(req) == req.dramBase \div DramWordBytes

SrcBase(req) == IF ToBuffer(req) THEN DramWord(req) ELSE req.bufferBase

DstBase(req) == IF ToBuffer(req) THEN req.bufferBase ELSE DramWord(req)

SrcAddr(req, r, c) == SrcBase(req) + r * req.srcStride + c

DstAddr(req, r, c) == DstBase(req) + r * req.dstStride + c

WellFormed(req) ==
    /\ req.length # 0 /\ req.rows # 0 /\ req.srcStride # 0 /\ req.dstStride # 0
    /\ req.dramBase % DramWordBytes = 0

\* The last word on each side is inside; the sums are taken in UINT64.
InRange(req, dramSize, bufferSize) ==
    LET srcSize == IF ToBuffer(req) THEN dramSize ELSE bufferSize
        dstSize == IF ToBuffer(req) THEN bufferSize ELSE dramSize
    IN  /\ SrcAddr(req, req.rows - 1, req.length - 1) < srcSize
        /\ DstAddr(req, req.rows - 1, req.length - 1) < dstSize

\* The rows of the rectangle that write word w of the destination: more than
\* one when dstStride is less than length.
RowsInto(req, w) ==
    {r \in 0..(req.rows - 1) : w - DstAddr(req, r, 0) \in 0..(req.length - 1)}

\* The destination after the transfer: the last row to write a word wins.
Transferred(req, src, dst) ==
    [w \in DOMAIN dst |->
        IF RowsInto(req, w) = {} THEN dst[w]
        ELSE LET r == Max(RowsInto(req, w))
             IN  src[SrcAddr(req, r, w - DstAddr(req, r, 0))]]
=============================================================================
