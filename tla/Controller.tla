----------------------------- MODULE Controller -----------------------------
(***************************************************************************)
(* Controller (maps-sim/src/npu/controller.cpp): the host's operations on  *)
(* the NPU and the run of one GEMM, tile by tile. A tile is moved by DMA   *)
(* into the input and weight buffers, its partial sums are read back from  *)
(* C unless its depth starts at 0, the array adds the tile's product, and  *)
(* the sums go back to C. The array appears by what SystolicArray shows it *)
(* computes, the DMA by what Dma shows it moves.                           *)
(* run() is synchronous: no operation of the host comes between its steps. *)
(***************************************************************************)
EXTENDS GemmOps, Transfer

CONSTANTS
    Descriptors, Payloads, Lengths,  \* what the host submits, loads and reads
    InitialMemory,                   \* the words of the memory at the start
    MaxCalls                         \* host operations of one behaviour

ASSUME ControllerAssumption ==
    /\ Descriptors \subseteq DescriptorType
    /\ Payloads \subseteq Seq(Int)
    /\ Lengths \subseteq Nat
    /\ InitialMemory \in Memory
    /\ MaxCalls \in Nat

VARIABLES
    mem, bound,             \* *memory_, and whether memory_ is set
    desc,                   \* current_desc_
    state, error, perf,     \* state_, error_, perf_
    input, weight, output,  \* the three buffers
    todo,                   \* the tiles of plan_ the loop of run has not done
    phase,                  \* "idle", or what run_tile does next
    readback,               \* what read_output_data returned last
    calls,                  \* operations called so far
    mem0, perf0, state0, error0  \* history: what run() found

buffers == <<input, weight, output>>
status == <<state, error>>
history == <<mem0, perf0, state0, error0>>
vars == <<mem, bound, desc, status, perf, buffers, todo, phase, readback, calls, history>>

RunPhases == {"loadA", "loadB", "loadC", "compute", "store"}

Slots == 0..(BufferSize - 1)
Buffer == [Slots -> Int]
EmptyBuffer == [s \in Slots |-> 0]

Init ==
    /\ mem = InitialMemory /\ bound \in BOOLEAN
    /\ desc = DefaultDescriptor
    /\ state = "IDLE" /\ error = "NONE" /\ perf = ZeroPerf
    /\ input = EmptyBuffer /\ weight = EmptyBuffer /\ output = EmptyBuffer
    /\ todo = <<>> /\ phase = "idle" /\ readback = <<>> /\ calls = 0
    /\ mem0 = mem /\ perf0 = perf /\ state0 = state /\ error0 = error

\* Mutant of Fail: the error code is forgotten.
FailStateOnly(why) == state' = "ERROR" /\ UNCHANGED error

Fail(why) == state' = "ERROR" /\ error' = why

\* One operation of the host, between operations.
Call ==
    /\ phase = "idle" /\ calls < MaxCalls
    /\ calls' = calls + 1
-----------------------------------------------------------------------------
(* The host's operations. *)

Submit(d) ==
    /\ Call
    /\ IF Validate(d)
       THEN desc' = d /\ state' = "IDLE" /\ error' = "NONE"
       ELSE Fail("INVALID_DESC") /\ UNCHANGED desc
    /\ UNCHANGED <<mem, bound, perf, buffers, todo, phase, readback, history>>

Load(base, data) ==
    /\ Call
    /\ IF ~bound
       THEN Fail("BUFFER_FAIL") /\ UNCHANGED <<mem, perf>>
       ELSE IF ~LoadFits(WordAddr(base), Len(data))
       THEN Fail("OUT_OF_RANGE") /\ UNCHANGED <<mem, perf>>
       ELSE /\ mem' = Loaded(mem, WordAddr(base), data)
            /\ perf' = [perf EXCEPT !.writes = @ + Len(data)]
            /\ UNCHANGED status
    /\ UNCHANGED <<bound, desc, buffers, todo, phase, readback, history>>

LoadWeightData == \E data \in Payloads : Load(desc.B, data)

LoadInputData == \E data \in Payloads : Load(desc.A, data)

\* load_weight_data or load_input_data with a null source.
LoadNull ==
    /\ Call
    /\ Fail("BUFFER_FAIL")
    /\ UNCHANGED <<mem, bound, desc, perf, buffers, todo, phase, readback, history>>

\* read_output_data: an engine and a buffer of its own.
ReadOutputData(len) ==
    /\ Call
    /\ LET req == Request("DRAM_TO_BUFFER", desc.C, 0, len, 1, len, len)
       IN  readback' = IF bound /\ WellFormed(req) /\ InRange(req, MemWords, BufferSize)
                       THEN [i \in 1..len |-> Transferred(req, mem, EmptyBuffer)[i - 1]]
                       ELSE <<>>
    /\ UNCHANGED <<mem, bound, desc, status, perf, buffers, todo, phase, history>>

BindMemory(b) ==
    /\ Call
    /\ bound' = b
    /\ UNCHANGED <<mem, desc, status, perf, buffers, todo, phase, readback, history>>

Reset ==
    /\ Call
    /\ input' = EmptyBuffer /\ weight' = EmptyBuffer /\ output' = EmptyBuffer
    /\ desc' = DefaultDescriptor
    /\ state' = "IDLE" /\ error' = "NONE" /\ perf' = ZeroPerf
    /\ UNCHANGED <<mem, bound, todo, phase, readback, history>>
-----------------------------------------------------------------------------
(* run(). *)

Run ==
    /\ Call
    /\ mem0' = mem /\ perf0' = perf /\ state0' = state /\ error0' = error
    /\ IF ~Validate(desc)
       THEN Fail("INVALID_DESC") /\ UNCHANGED <<todo, phase>>
       ELSE IF ~bound \/ ~InMemory(desc)
       THEN Fail("OUT_OF_RANGE") /\ UNCHANGED <<todo, phase>>
       ELSE /\ state' = "BUSY" /\ error' = "NONE"
            /\ todo' = PlanOf(desc) /\ phase' = "loadA"
    /\ UNCHANGED <<mem, bound, desc, perf, buffers, readback>>

tile == Head(todo)

\* byte_offset_a, byte_offset_b and byte_offset_c, added to the base in UINT32.
DramA == (desc.A + WordBytes * (tile.m0 * desc.k + tile.k0)) % Word
DramB == (desc.B + WordBytes * (tile.k0 * desc.n + tile.n0)) % Word
DramC == (desc.C + WordBytes * (tile.m0 * desc.n + tile.n0)) % Word

\* Mutant of RequestA: the rows are packed with the stride of the tile, not
\* with their own length.
RequestAUnpacked == Request("DRAM_TO_BUFFER", DramA, 0, tile.kLen, tile.mLen, desc.k, desc.tk)

RequestA == Request("DRAM_TO_BUFFER", DramA, 0, tile.kLen, tile.mLen, desc.k, tile.kLen)
RequestB == Request("DRAM_TO_BUFFER", DramB, 0, tile.nLen, tile.kLen, desc.n, tile.nLen)
RequestCIn == Request("DRAM_TO_BUFFER", DramC, 0, tile.nLen, tile.mLen, desc.n, tile.nLen)
RequestCOut == Request("BUFFER_TO_DRAM", DramC, 0, tile.nLen, tile.mLen, tile.nLen, desc.n)

\* dma_.submit on an idle engine; run_sync then moves the rectangle.
Accepted(req) == WellFormed(req) /\ InRange(req, MemWords, BufferSize)

\* Mutant of TileFails: the rest of the plan stays.
TileFailsKeepsPlan(why) == Fail(why) /\ phase' = "idle" /\ UNCHANGED todo

\* run() after run_tile returned false.
TileFails(why) == Fail(why) /\ phase' = "idle" /\ todo' = <<>>

Count(counter, n) == perf' = [perf EXCEPT ![counter] = @ + n]

\* Mutant of TileFitsBuffers: only the input buffer is checked.
TileFitsInput == tile.mLen * tile.kLen <= BufferSize

TileFitsBuffers == FitsBuffers(tile.mLen, tile.nLen, tile.kLen)

LoadA ==
    /\ phase = "loadA"
    /\ IF ~TileFitsBuffers THEN TileFails("OUT_OF_RANGE") /\ UNCHANGED <<input, perf>>
       ELSE IF ~Accepted(RequestA) THEN TileFails("BUFFER_FAIL") /\ UNCHANGED <<input, perf>>
       ELSE /\ input' = Transferred(RequestA, mem, input)
            /\ Count("reads", tile.kLen * tile.mLen)
            /\ phase' = "loadB" /\ UNCHANGED <<status, todo>>
    /\ UNCHANGED <<mem, bound, desc, weight, output, readback, calls, history>>

LoadB ==
    /\ phase = "loadB"
    /\ IF ~Accepted(RequestB) THEN TileFails("BUFFER_FAIL") /\ UNCHANGED <<weight, perf>>
       ELSE /\ weight' = Transferred(RequestB, mem, weight)
            /\ Count("reads", tile.nLen * tile.kLen)
            /\ phase' = "loadC" /\ UNCHANGED <<status, todo>>
    /\ UNCHANGED <<mem, bound, desc, input, output, readback, calls, history>>

\* The sums of the earlier depths, or zero.
LoadC ==
    /\ phase = "loadC"
    /\ IF tile.k0 = 0
       THEN output' = EmptyBuffer /\ phase' = "compute" /\ UNCHANGED <<status, todo, perf>>
       ELSE IF ~Accepted(RequestCIn)
       THEN output' = EmptyBuffer /\ TileFails("BUFFER_FAIL") /\ UNCHANGED perf
       ELSE /\ output' = Transferred(RequestCIn, mem, EmptyBuffer)
            /\ Count("reads", tile.nLen * tile.mLen)
            /\ phase' = "compute" /\ UNCHANGED <<status, todo>>
    /\ UNCHANGED <<mem, bound, desc, input, weight, readback, calls, history>>

\* The words the buffers dump, as the tile's operands.
ATile(i, p) == input[i * tile.kLen + p]
BTile(p, j) == weight[p * tile.nLen + j]

\* Mutant of CTile: the sums start from zero for every depth.
CTileZero(i, j) == 0

CTile(i, j) == IF tile.k0 # 0 THEN output[i * tile.nLen + j] ELSE 0

TileSum(i, j) ==
    CTile(i, j) + SumFunction([p \in 0..(tile.kLen - 1) |-> ATile(i, p) * BTile(p, j)])

\* array_.run_gemm_tile, and the result loaded into the cleared buffer.
Compute ==
    /\ phase = "compute"
    /\ IF ~SidesFit(desc.mode, tile.mLen, tile.nLen, tile.kLen)
       THEN TileFails("BUFFER_FAIL") /\ UNCHANGED <<output, perf>>
       ELSE /\ output' = [s \in Slots |->
                   IF s < tile.mLen * tile.nLen
                   THEN TileSum(s \div tile.nLen, s % tile.nLen) ELSE 0]
            /\ perf' = [perf EXCEPT
                   !.cycles = @ + tile.mLen + tile.nLen + tile.kLen - 2,
                   !.macs = @ + tile.mLen * tile.nLen * tile.kLen]
            /\ phase' = "store" /\ UNCHANGED <<status, todo>>
    /\ UNCHANGED <<mem, bound, desc, input, weight, readback, calls, history>>

\* The end of run_tile and of the loop's turn.
Store ==
    /\ phase = "store"
    /\ IF ~Accepted(RequestCOut) THEN TileFails("BUFFER_FAIL") /\ UNCHANGED <<mem, perf>>
       ELSE /\ mem' = Transferred(RequestCOut, output, mem)
            /\ Count("writes", tile.nLen * tile.mLen)
            /\ todo' = Tail(todo)
            /\ phase' = IF Tail(todo) = <<>> THEN "idle" ELSE "loadA"
            /\ state' = IF Tail(todo) = <<>> THEN "DONE" ELSE state
            /\ UNCHANGED error
    /\ UNCHANGED <<bound, desc, buffers, readback, calls, history>>

RunStep == LoadA \/ LoadB \/ LoadC \/ Compute \/ Store

Next ==
    \/ \E d \in Descriptors : Submit(d)
    \/ LoadWeightData \/ LoadInputData \/ LoadNull
    \/ \E len \in Lengths : ReadOutputData(len)
    \/ \E b \in BOOLEAN : BindMemory(b)
    \/ Reset
    \/ Run \/ RunStep

Spec == Init /\ [][Next]_vars
-----------------------------------------------------------------------------
TypeOK ==
    /\ mem \in Memory /\ bound \in BOOLEAN
    /\ desc \in Descriptors \cup {DefaultDescriptor}
    /\ state \in NpuStates /\ error \in NpuErrors /\ perf \in PerfType
    /\ input \in Buffer /\ weight \in Buffer /\ output \in Buffer
    /\ todo \in Seq(TileType) /\ phase \in RunPhases \cup {"idle"}
    /\ (phase = "idle") <=> (todo = <<>>)
    /\ calls \in 0..MaxCalls

\* STATUS and ERROR tell one story: an error code is set exactly in state
\* ERROR, and BUSY is left by the time an operation returns. The code sets
\* the two on some twenty lines (controller.cpp:22-156), and load_* keeps an
\* old pair.
StatusConsistent ==
    /\ state = "ERROR" <=> error # "NONE"
    /\ state = "BUSY" <=> phase # "idle"

\* A run that has passed its checks is never stopped by its own DMA engine
\* or its array: byte offsets stay inside the memory and below 2^32, every
\* tile fits the array. The BUFFER_FAIL branches of run_tile
\* (controller.cpp:215-312) are not taken.
ChecksSuffice ==
    [][ RunStep => error' # "BUFFER_FAIL" ]_vars

\* A run that fails has not touched memory or counted anything: the first
\* tile is the largest, so one that exceeds a buffer (controller.cpp:197-202)
\* is found before any tile is stored.
FailureLeavesMemory ==
    [][ (Run \/ RunStep) /\ state' = "ERROR" => mem' = mem0' /\ perf' = perf0' ]_vars

\* The tiles stored so far.
DoneTiles == {PlanOf(desc)[x] : x \in 1..(TilesOf(desc) - Len(todo))}

\* How far the sums of C[i, j] have come.
DepthDone(i, j) ==
    Max({0} \cup {t.k0 + t.kLen : t \in
            {u \in DoneTiles : i \in u.m0..(u.m0 + u.mLen - 1) /\ j \in u.n0..(u.n0 + u.nLen - 1)}})

\* Between the tiles of a run the memory holds the partial sums of exactly
\* the depths done, computed from the operands the run found; C not reached
\* yet and every word outside C are as they were. (Unless C overlaps A or B,
\* which the code does not check.)
PartialSums ==
    phase # "idle" /\ Disjoint(desc) =>
        \A w \in Addresses :
            LET o == w - WordAddr(desc.C)
                i == o \div desc.n
                j == o % desc.n
            IN  mem[w] = IF w \in CRegion(desc) /\ DepthDone(i, j) > 0
                         THEN Dot(mem0, desc, i, j, DepthDone(i, j))
                         ELSE mem0[w]

\* Outside a run the controller is the abstract NPU; a run is one step of it,
\* taken when the last tile is stored or the run fails.
Abstract == INSTANCE Gemm WITH
    mem <- IF phase = "idle" THEN mem ELSE mem0,
    npu <- [desc |-> desc,
            state |-> IF phase = "idle" THEN state ELSE state0,
            error |-> IF phase = "idle" THEN error ELSE error0,
            perf |-> IF phase = "idle" THEN perf ELSE perf0]

\* Every operation, and every run whatever its tiling and dataflow, does what
\* Gemm says: the product in C, nothing else written, the closed-form
\* counters, or a failure without effect.
ImplementsGemm == Abstract!Spec
=============================================================================
