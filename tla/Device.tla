------------------------------- MODULE Device -------------------------------
(***************************************************************************)
(* NpuDevice (maps-sim/src/npu/device.cpp): the NPU as its host sees it    *)
(* through memory-mapped registers. A START reads the descriptor at        *)
(* DESC_ADDR from the memory the matrices are in, submits it and runs it   *)
(* before the store to CMD returns. The controller is the one of module    *)
(* Gemm, which Controller implements.                                      *)
(***************************************************************************)
EXTENDS GemmOps

CONSTANTS
    InitialMemory,
    Bases,        \* addresses of descriptors, and other values of DESC_ADDR
    Images,       \* ten words a driver may store without checking them
    Descriptors,  \* descriptors the host stores with store_to_memory
    MaxCalls

ASSUME DeviceAssumption ==
    /\ InitialMemory \in Memory
    /\ Bases \subseteq 0..(Word - 1)
    /\ Images \subseteq [1..WordCount -> Int]
    /\ Descriptors \subseteq DescriptorType
    /\ MaxCalls \in Nat

VARIABLES
    mem, bound,  \* *memory_, and whether memory_ is set
    npu,         \* controller_
    descAddr,    \* desc_addr_
    reply,       \* whether the last access succeeded, and the value read
    calls

vars == <<mem, bound, npu, descAddr, reply, calls>>

Offsets == {"DESC_ADDR", "CMD", "STATUS", "ERROR", "CYCLE_COUNT", "DMA_READ_COUNT",
            "DMA_WRITE_COUNT", "MAC_COUNT", "unmapped"}
Halves == {"LO", "HI"}

Ok(value) == [ok |-> TRUE, value |-> value]
Refused == [ok |-> FALSE, value |-> 0]

Init ==
    /\ mem = InitialMemory /\ bound \in BOOLEAN
    /\ npu = ResetNpu /\ descAddr = 0
    /\ reply = Refused /\ calls = 0

Call == calls < MaxCalls /\ calls' = calls + 1

\* bind_memory, which binds the controller as well.
BindMemory(b) ==
    /\ Call
    /\ bound' = b
    /\ UNCHANGED <<mem, npu, descAddr, reply>>

\* A driver writes the words of a descriptor where it keeps it.
StoreImage(base, raw) ==
    /\ Call
    /\ IsWordAligned(base) /\ WordAddr(base) + WordCount <= MemWords
    /\ mem' = Loaded(mem, WordAddr(base), raw)
    /\ UNCHANGED <<bound, npu, descAddr, reply>>

StoreDescriptor(base, d) ==
    /\ Call
    /\ mem' = Stored(mem, d, base)
    /\ reply' = IF Storable(mem, d, base) THEN Ok(0) ELSE Refused
    /\ UNCHANGED <<bound, npu, descAddr>>

WriteDescAddr(value) ==
    /\ Call
    /\ descAddr' = value
    /\ reply' = Ok(0)
    /\ UNCHANGED <<mem, bound, npu>>

\* Mutant: the last accepted descriptor is run again.
SubmittedForStartStale == Failed(npu, npu.error)

\* submit(desc), whether load_from_memory succeeded or not.
SubmittedForStart == Submitted(npu, LoadFromMemory(mem, descAddr))

\* Mutant: run() whatever submit said.
RunAnyway(n) == TRUE

\* `submit(desc) && run()`.
RunAfter(n) == n.state # "ERROR"

Start ==
    /\ Call
    /\ IF ~bound
       THEN reply' = Refused /\ UNCHANGED <<mem, npu>>
       ELSE LET n == SubmittedForStart IN
            /\ npu' = IF RunAfter(n) THEN Ran(n, bound) ELSE n
            /\ IF npu'.state = "DONE" THEN MayBecome(mem, npu'.desc, mem') ELSE mem' = mem
            /\ reply' = IF npu'.state = "DONE" THEN Ok(0) ELSE Refused
    /\ UNCHANGED <<bound, descAddr>>

CommandReset ==
    /\ Call
    /\ descAddr' = 0 /\ npu' = ResetNpu
    /\ reply' = Ok(0)
    /\ UNCHANGED <<mem, bound>>

\* Another command, or a store to a register that is not writable.
WriteRefused ==
    /\ Call
    /\ reply' = Refused
    /\ UNCHANGED <<mem, bound, npu, descAddr>>

Half(count, half) == IF half = "LO" THEN count % Word ELSE count \div Word

\* read32; CMD is not readable.
Read(offset, half) ==
    /\ Call
    /\ reply' =
        CASE offset = "DESC_ADDR" -> Ok(descAddr)
          [] offset = "STATUS" -> Ok(StateCode[npu.state])
          [] offset = "ERROR" -> Ok(ErrorCode[npu.error])
          [] offset = "CYCLE_COUNT" -> Ok(Half(npu.perf.cycles, half))
          [] offset = "DMA_READ_COUNT" -> Ok(Half(npu.perf.reads, half))
          [] offset = "DMA_WRITE_COUNT" -> Ok(Half(npu.perf.writes, half))
          [] offset = "MAC_COUNT" -> Ok(Half(npu.perf.macs, half))
          [] OTHER -> Refused
    /\ UNCHANGED <<mem, bound, npu, descAddr>>

Next ==
    \/ \E b \in BOOLEAN : BindMemory(b)
    \/ \E base \in Bases, raw \in Images : StoreImage(base, raw)
    \/ \E base \in Bases, d \in Descriptors : StoreDescriptor(base, d)
    \/ \E value \in Bases : WriteDescAddr(value)
    \/ Start \/ CommandReset \/ WriteRefused
    \/ \E offset \in Offsets : \E half \in Halves : Read(offset, half)

Spec == Init /\ [][Next]_vars
-----------------------------------------------------------------------------
TypeOK ==
    /\ mem \in Memory /\ bound \in BOOLEAN
    /\ npu \in NpuType
    /\ (npu.state = "ERROR") <=> (npu.error # "NONE")
    /\ descAddr \in 0..(Word - 1) /\ reply.ok \in BOOLEAN /\ calls \in 0..MaxCalls

\* A START that is acknowledged has left STATUS = DONE and in memory the
\* product of the descriptor DESC_ADDR pointed at when it was written, not of
\* the one submitted before; one that is refused has left STATUS = ERROR and
\* an error code (device.cpp:92-102).
StartAnswers ==
    [][ Start /\ bound =>
          IF reply'.ok
          THEN LET d == LoadFromMemory(mem, descAddr) IN
               /\ npu'.state = "DONE" /\ Validate(d)
               /\ \A i \in 0..(d.m - 1), j \in 0..(d.n - 1) :
                     Disjoint(d) => mem'[CAt(d, i, j)] = Dot(mem, d, i, j, d.k)
          ELSE npu'.state = "ERROR" /\ npu'.error # "NONE" ]_vars

\* A refused START writes no word and counts nothing, whichever of the three
\* checks refused it.
RefusedStartIsInert ==
    [][ Start /\ ~reply'.ok => mem' = mem /\ npu'.perf = npu.perf ]_vars

\* A descriptor store_to_memory stored is the one load_from_memory reads back
\* at the same address, as long as its numbers are INT32 (descriptor.cpp:140-193).
StoredReadsBack ==
    \A base \in Bases, d \in Descriptors :
        /\ Storable(mem, d, base)
        /\ \A f \in {"m", "n", "k", "A", "B", "C", "tm", "tn", "tk"} : 2 * d[f] < Word
        => LoadFromMemory(Stored(mem, d, base), base) = d
=============================================================================
