-------------------------------- MODULE Gemm --------------------------------
(***************************************************************************)
(* What the NPU promises its host: Controller::run as one step that either *)
(* fails and changes no word of memory or leaves the product in C, and     *)
(* nothing else changed. Module Controller is how it is done, tile by tile *)
(* through buffers; this module is the interface the device and the        *)
(* operating system are modelled on.                                       *)
(***************************************************************************)
EXTENDS GemmOps

CONSTANTS
    Descriptors,  \* the descriptors the host submits
    Payloads,     \* the words it loads into A and B
    Lengths       \* the lengths it reads back

VARIABLES
    mem,      \* the memory bound to the controller
    bound,    \* memory_ is not null
    npu,      \* current_desc_, state_, error_ and perf_
    readback  \* the words read_output_data returned, <<>> when it failed

gemmVars == <<mem, bound, npu, readback>>

Init ==
    /\ mem \in Memory
    /\ bound \in BOOLEAN
    /\ npu = ResetNpu
    /\ readback = <<>>

Submit(d) ==
    /\ npu' = Submitted(npu, d)
    /\ UNCHANGED <<mem, bound, readback>>

Run ==
    /\ npu' = Ran(npu, bound)
    /\ IF Ran(npu, bound).state = "DONE" THEN MayBecome(mem, npu.desc, mem') ELSE mem' = mem
    /\ UNCHANGED <<bound, readback>>

\* load_weight_data and load_input_data: the host's words at B or at A.
Load(base, data) ==
    /\ IF ~bound THEN npu' = Failed(npu, "BUFFER_FAIL") /\ UNCHANGED mem
       ELSE IF ~LoadFits(WordAddr(base), Len(data))
       THEN npu' = Failed(npu, "OUT_OF_RANGE") /\ UNCHANGED mem
       ELSE /\ npu' = [npu EXCEPT !.perf.writes = @ + Len(data)]
            /\ mem' = Loaded(mem, WordAddr(base), data)
    /\ UNCHANGED <<bound, readback>>

\* Either of them with a null source.
LoadNull == npu' = Failed(npu, "BUFFER_FAIL") /\ UNCHANGED <<mem, bound, readback>>

\* read_output_data goes through a buffer of its own.
ReadOutput(len) ==
    /\ LET from == WordAddr(npu.desc.C)
       IN  readback' = IF bound /\ len \in 1..BufferSize /\ from + len <= MemWords
                       THEN [i \in 1..len |-> mem[from + i - 1]] ELSE <<>>
    /\ UNCHANGED <<mem, bound, npu>>

BindMemory(b) == bound' = b /\ UNCHANGED <<mem, npu, readback>>

Reset == npu' = ResetNpu /\ UNCHANGED <<mem, bound, readback>>

Next ==
    \/ \E d \in Descriptors : Submit(d)
    \/ Run
    \/ \E base \in {npu.desc.A, npu.desc.B}, data \in Payloads : Load(base, data)
    \/ LoadNull
    \/ \E len \in Lengths : ReadOutput(len)
    \/ \E b \in BOOLEAN : BindMemory(b)
    \/ Reset

Spec == Init /\ [][Next]_gemmVars
=============================================================================
