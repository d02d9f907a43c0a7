------------------------------ MODULE GemmOps ------------------------------
(***************************************************************************)
(* What a GEMM of the NPU is: the regions its three matrices occupy, the   *)
(* product, the checks Controller::run makes before it starts, and what it *)
(* adds to the performance counters (maps-sim/src/npu/controller.cpp).     *)
(***************************************************************************)
EXTENDS Tiling, Functions

CONSTANTS
    MemWords,    \* words of the bound memory
    BufferSize   \* config::BUFFER_SIZES

\* The memory is addressed with UINT32 byte addresses (config::DRAM_SIZES).
ASSUME MemoryAssumption ==
    /\ MemWords \in Nat \ {0}
    /\ BufferSize \in Nat \ {0}
    /\ WordBytes * MemWords <= Word

Addresses == 0..(MemWords - 1)
Memory == [Addresses -> Int]

ARegion(d) == WordAddr(d.A)..(WordAddr(d.A) + d.m * d.k - 1)
BRegion(d) == WordAddr(d.B)..(WordAddr(d.B) + d.k * d.n - 1)
CRegion(d) == WordAddr(d.C)..(WordAddr(d.C) + d.m * d.n - 1)

Disjoint(d) == CRegion(d) \cap (ARegion(d) \cup BRegion(d)) = {}

AAt(d, i, p) == WordAddr(d.A) + i * d.k + p
BAt(d, p, j) == WordAddr(d.B) + p * d.n + j
CAt(d, i, j) == WordAddr(d.C) + i * d.n + j

\* The first q terms of row i of A times column j of B.
Dot(mem, d, i, j, q) ==
    SumFunction([p \in 0..(q - 1) |-> mem[AAt(d, i, p)] * mem[BAt(d, p, j)]])

\* The memory after C := A B.
Multiply(mem, d) ==
    [w \in Addresses |->
        IF w \in CRegion(d)
        THEN LET o == w - WordAddr(d.C) IN Dot(mem, d, o \div d.n, o % d.n, d.k)
        ELSE mem[w]]

\* Mutant of InMemory: the sizes are computed in UINT32.
InMemory32(d) ==
    \A e \in { <<d.A, d.m * d.k>>, <<d.B, d.k * d.n>>, <<d.C, d.m * d.n>> } :
        (e[1] + WordBytes * e[2]) % Word <= WordBytes * MemWords

\* Controller::check_matrix_range for a bound memory, in UINT64.
InMemory(d) ==
    \A e \in { <<d.A, d.m * d.k>>, <<d.B, d.k * d.n>>, <<d.C, d.m * d.n>> } :
        e[1] + WordBytes * e[2] <= WordBytes * MemWords

FitsBuffers(mLen, nLen, kLen) ==
    /\ mLen * kLen <= BufferSize
    /\ kLen * nLen <= BufferSize
    /\ mLen * nLen <= BufferSize

ZeroPerf == [cycles |-> 0, reads |-> 0, writes |-> 0, macs |-> 0]
PerfType == [cycles : Nat, reads : Nat, writes : Nat, macs : Nat]

\* The counters of a whole run: each tile of A is read once per column of
\* tiles, each of B once per row of them, a block of C is written once per
\* step in depth and read back for each step but the first.
PerfAfter(perf, d) ==
    LET sm == Steps(d.m, d.tm)
        sn == Steps(d.n, d.tn)
        sk == Steps(d.k, d.tk)
    IN  [cycles |-> perf.cycles + sn * sk * d.m + sm * sk * d.n + sm * sn * d.k - 2 * sm * sn * sk,
         reads |-> perf.reads + sn * d.m * d.k + sm * d.k * d.n + (sk - 1) * d.m * d.n,
         writes |-> perf.writes + sk * d.m * d.n,
         macs |-> perf.macs + d.m * d.n * d.k]

\* Memory::load of len words at base.
LoadFits(base, len) == base <= MemWords /\ len <= MemWords - base

Loaded(mem, base, data) ==
    [w \in Addresses |-> IF w - base \in 0..(Len(data) - 1) THEN data[w - base + 1] ELSE mem[w]]
-----------------------------------------------------------------------------
(* The controller as the record of its registers: desc is current_desc_.   *)

NpuStates == {"IDLE", "BUSY", "DONE", "ERROR"}
NpuErrors == {"NONE", "INVALID_DESC", "OUT_OF_RANGE", "BUFFER_FAIL"}

\* The enumerators as the STATUS and ERROR registers show them (status.h).
StateCode == [IDLE |-> 0, BUSY |-> 1, DONE |-> 2, ERROR |-> 3]
ErrorCode == [NONE |-> 0, INVALID_DESC |-> 1, OUT_OF_RANGE |-> 2, BUFFER_FAIL |-> 3]

\* The controller when nobody is inside run(), as every host call finds it.
NpuType ==
    [desc : DescriptorType, state : NpuStates \ {"BUSY"}, error : NpuErrors, perf : PerfType]

ResetNpu == [desc |-> DefaultDescriptor, state |-> "IDLE", error |-> "NONE", perf |-> ZeroPerf]

Failed(npu, why) == [npu EXCEPT !.state = "ERROR", !.error = why]

\* Controller::submit: a rejected descriptor leaves the one before it.
Submitted(npu, d) ==
    IF Validate(d) THEN [npu EXCEPT !.desc = d, !.state = "IDLE", !.error = "NONE"]
    ELSE Failed(npu, "INVALID_DESC")

\* The largest tile of a plan is its first.
FirstTileFits(d) ==
    FitsBuffers(ClipTo(d.m, 0, d.tm), ClipTo(d.n, 0, d.tn), ClipTo(d.k, 0, d.tk))

\* Mutant of Ran: the loads of A are counted before the tile is checked.
RanCountsFirst(npu, bound) ==
    IF ~Validate(npu.desc) THEN Failed(npu, "INVALID_DESC")
    ELSE IF ~bound \/ ~InMemory(npu.desc) THEN Failed(npu, "OUT_OF_RANGE")
    ELSE IF ~FirstTileFits(npu.desc)
    THEN Failed([npu EXCEPT !.perf.reads = @ + npu.desc.tm * npu.desc.tk], "OUT_OF_RANGE")
    ELSE [npu EXCEPT !.state = "DONE", !.error = "NONE", !.perf = PerfAfter(npu.perf, npu.desc)]

\* Controller::run, seen from outside.
Ran(npu, bound) ==
    IF ~Validate(npu.desc) THEN Failed(npu, "INVALID_DESC")
    ELSE IF ~bound \/ ~InMemory(npu.desc) THEN Failed(npu, "OUT_OF_RANGE")
    ELSE IF ~FirstTileFits(npu.desc) THEN Failed(npu, "OUT_OF_RANGE")
    ELSE [npu EXCEPT !.state = "DONE", !.error = "NONE", !.perf = PerfAfter(npu.perf, npu.desc)]

\* The words C may have after C := A B: what they are when C overlaps an
\* operand is left open.
MayBecome(mem, d, memNext) ==
    IF Disjoint(d) THEN memNext = Multiply(mem, d)
    ELSE /\ memNext \in Memory
         /\ \A w \in Addresses \ CRegion(d) : memNext[w] = mem[w]
=============================================================================
