---------------------------- MODULE DeviceProofs ----------------------------
(***************************************************************************)
(* Proofs about Device: whatever words a driver leaves in memory and       *)
(* whatever order its accesses come in, a START answers for the descriptor *)
(* DESC_ADDR points at now, and one that is refused leaves no trace.       *)
(***************************************************************************)
EXTENDS Device, GemmOpsProofs

\* What submit and run of a START do: either both accept the descriptor, or
\* the controller is left in ERROR, its counters as they were.
LEMMA StartOutcome ==
    ASSUME TypeOK, Start, bound
    PROVE  LET d == LoadFromMemory(mem, descAddr) IN
           \/ /\ Validate(d) /\ InMemory(d)
              /\ npu' = [desc |-> d, state |-> "DONE", error |-> "NONE", perf |-> PerfAfter(npu.perf, d)]
              /\ MayBecome(mem, d, mem') /\ reply' = Ok(0)
           \/ /\ \E e \in {d, npu.desc}, why \in NpuErrors \ {"NONE"} :
                    npu' = [desc |-> e, state |-> "ERROR", error |-> why, perf |-> npu.perf]
              /\ mem' = mem /\ reply' = Refused
<1>. DEFINE d == LoadFromMemory(mem, descAddr)
<1>1. npu' = AfterStart(npu, d)
  BY DEF Start, SubmittedForStart, RunAfter, AfterStart
<1>2. /\ IF npu'.state = "DONE" THEN MayBecome(mem, npu'.desc, mem') ELSE mem' = mem
      /\ reply' = IF npu'.state = "DONE" THEN Ok(0) ELSE Refused
  BY DEF Start
<1>3. npu \in NpuType
  BY DEF TypeOK
<1>. HIDE DEF d
<1>4. \/ /\ Validate(d) /\ InMemory(d)
         /\ npu' = [desc |-> d, state |-> "DONE", error |-> "NONE", perf |-> PerfAfter(npu.perf, d)]
      \/ \E e \in {d, npu.desc}, why \in NpuErrors \ {"NONE"} :
             npu' = [desc |-> e, state |-> "ERROR", error |-> why, perf |-> npu.perf]
  BY <1>1, <1>3, StartVerdict
<1>. QED BY <1>2, <1>4 DEF d
-----------------------------------------------------------------------------
(* The invariant: the types, which no word a driver stores can break. *)

\* Initially.
LEMMA InitTyped == Init => TypeOK
<1>. SUFFICES ASSUME Init PROVE TypeOK
  OBVIOUS
<1>1. ResetNpu \in NpuType
  BY ResetTyped
<1>2. 0 \in 0..(Word - 1) /\ 0 \in 0..MaxCalls /\ InitialMemory \in Memory
  BY WordAssumption, DeviceAssumption
<1>3. Refused.ok \in BOOLEAN
  BY DEF Refused
<1>4. (ResetNpu.state = "ERROR") <=> (ResetNpu.error # "NONE")
  BY ResetTyped
<1>. QED BY <1>1, <1>2, <1>3, <1>4 DEF Init, TypeOK

\* A call is counted within the bound.
LEMMA CallCounts ==
    ASSUME TypeOK, Call
    PROVE  calls' \in 0..MaxCalls
BY DeviceAssumption DEF TypeOK, Call

\* Submit and run keep the types.
LEMMA StartTyped ==
    ASSUME TypeOK, Start
    PROVE  TypeOK'
<1>. DEFINE d == LoadFromMemory(mem, descAddr)
<1>1. calls' \in 0..MaxCalls /\ bound' = bound /\ descAddr' = descAddr
  BY CallCounts DEF Start
<1>2. CASE ~bound
  <2>1. npu' = npu /\ mem' = mem /\ reply' = Refused
    BY <1>2 DEF Start
  <2>. QED BY <1>1, <2>1 DEF TypeOK, Refused
<1>3. CASE bound
  <2>1. d \in DescriptorType /\ npu \in NpuType /\ mem \in Memory
    BY LoadedDescriptor DEF TypeOK
  <2>2. npu' = AfterStart(npu, d)
    BY <1>3 DEF Start, SubmittedForStart, RunAfter, AfterStart
  <2>3. npu' \in NpuType /\ ((npu'.state = "ERROR") <=> (npu'.error # "NONE"))
    <3>. HIDE DEF d
    <3>. QED BY <2>1, <2>2, StartKeepsTypes
  <2>4. mem' \in Memory /\ reply'.ok \in BOOLEAN
    <3>1. \/ Validate(d) /\ InMemory(d) /\ MayBecome(mem, d, mem') /\ reply' = Ok(0)
          \/ mem' = mem /\ reply' = Refused
      BY <1>3, StartOutcome
    <3>2. reply'.ok \in BOOLEAN
      <4>1. reply' = Ok(0) \/ reply' = Refused
        BY <3>1
      <4>2. Ok(0).ok \in BOOLEAN /\ Refused.ok \in BOOLEAN
        BY DEF Ok, Refused
      <4>. HIDE DEF d
      <4>. QED BY <4>1, <4>2
    <3>3. mem' \in Memory
      <4>. HIDE DEF d
      <4>. QED BY <2>1, <3>1, BecomesMemory
    <3>. QED BY <3>2, <3>3
  <2>. QED BY <1>1, <2>3, <2>4 DEF TypeOK
<1>. QED BY <1>2, <1>3

\* Every step keeps the types.
LEMMA NextTyped ==
    ASSUME TypeOK, [Next]_vars
    PROVE  TypeOK'
<1>0. /\ \A base \in Bases : base \in Nat /\ base \in 0..(Word - 1)
      /\ \A d \in Descriptors : d \in DescriptorType
      /\ \A raw \in Images : raw \in [1..WordCount -> Int]
  BY WordAssumption, DeviceAssumption
<1>1. ASSUME NEW b \in BOOLEAN, BindMemory(b) PROVE TypeOK'
  BY <1>1, CallCounts DEF BindMemory, TypeOK
<1>2. ASSUME NEW base \in Bases, NEW raw \in Images, StoreImage(base, raw) PROVE TypeOK'
  <2>1. mem' \in Memory
    BY <1>0, <1>2, ImageMemory DEF StoreImage, TypeOK
  <2>. QED BY <1>2, <2>1, CallCounts DEF StoreImage, TypeOK
<1>3. ASSUME NEW base \in Bases, NEW d \in Descriptors, StoreDescriptor(base, d) PROVE TypeOK'
  <2>1. mem' \in Memory
    BY <1>0, <1>3, StoredMemory DEF StoreDescriptor, TypeOK
  <2>2. reply'.ok \in BOOLEAN
    BY <1>3 DEF StoreDescriptor, Ok, Refused
  <2>. QED BY <1>3, <2>1, <2>2, CallCounts DEF StoreDescriptor, TypeOK
<1>4. ASSUME NEW value \in Bases, WriteDescAddr(value) PROVE TypeOK'
  BY <1>0, <1>4, CallCounts DEF WriteDescAddr, TypeOK, Ok
<1>5. CASE Start
  BY <1>5, StartTyped
<1>6. CASE CommandReset
  <2>1. ResetNpu \in NpuType
    BY ResetTyped
  <2>2. (ResetNpu.state = "ERROR") <=> (ResetNpu.error # "NONE")
    BY ResetTyped
  <2>3. 0 \in 0..(Word - 1)
    BY WordAssumption
  <2>. QED BY <1>6, <2>1, <2>2, <2>3, CallCounts DEF CommandReset, TypeOK, Ok
<1>7. CASE WriteRefused
  BY <1>7, CallCounts DEF WriteRefused, TypeOK, Refused
<1>8. ASSUME NEW offset \in Offsets, NEW half \in Halves, Read(offset, half) PROVE TypeOK'
  <2>1. reply'.ok \in BOOLEAN
    BY <1>8 DEF Read, Ok, Refused, Offsets
  <2>. QED BY <1>8, <2>1, CallCounts DEF Read, TypeOK
<1>9. CASE UNCHANGED vars
  BY <1>9 DEF vars, TypeOK
<1>. QED BY <1>1, <1>2, <1>3, <1>4, <1>5, <1>6, <1>7, <1>8, <1>9 DEF Next

\* The device's registers and the memory keep their types, whatever words a
\* driver stores where a START looks for a descriptor (device.cpp:33-115).
THEOREM TypeCorrect == Spec => []TypeOK
<1>1. Init => TypeOK
  BY InitTyped
<1>2. TypeOK /\ [Next]_vars => TypeOK'
  BY NextTyped
<1>. QED BY <1>1, <1>2, PTL DEF Spec

\* What an acknowledged START, and a refused one, has done.
LEMMA StartAnswer ==
    ASSUME TypeOK, Start, bound
    PROVE  IF reply'.ok
           THEN LET d == LoadFromMemory(mem, descAddr) IN
                /\ npu'.state = "DONE" /\ Validate(d)
                /\ \A i \in 0..(d.m - 1), j \in 0..(d.n - 1) :
                      Disjoint(d) => mem'[CAt(d, i, j)] = Dot(mem, d, i, j, d.k)
           ELSE npu'.state = "ERROR" /\ npu'.error # "NONE"
<1>. DEFINE d == LoadFromMemory(mem, descAddr)
<1>0. d \in DescriptorType /\ mem \in Memory
  BY LoadedDescriptor DEF TypeOK
<1>1. CASE reply'.ok
  <2>1. /\ Validate(d) /\ InMemory(d) /\ npu'.state = "DONE" /\ MayBecome(mem, d, mem')
    BY <1>1, StartOutcome DEF Refused
  <2>. HIDE DEF d
  <2>2. ASSUME NEW i \in 0..(d.m - 1), NEW j \in 0..(d.n - 1), Disjoint(d)
        PROVE  mem'[CAt(d, i, j)] = Dot(mem, d, i, j, d.k)
    <3>1. mem' = Multiply(mem, d)
      BY <2>1, <2>2 DEF MayBecome
    <3>. QED BY <1>0, <2>1, <3>1, ProductCells
  <2>. QED BY <1>1, <2>1, <2>2 DEF d
<1>2. CASE ~reply'.ok
  BY <1>2, StartOutcome DEF Ok
<1>. QED BY <1>1, <1>2

\* A START that is acknowledged has multiplied the matrices of the descriptor
\* DESC_ADDR points at when CMD is written, for every memory the host may have
\* left; one that is refused shows in STATUS and ERROR (device.cpp:92-102).
THEOREM AcknowledgedStartMultiplies == Spec => StartAnswers
<1>1. TypeOK /\ [Next]_vars =>
        [ Start /\ bound =>
            IF reply'.ok
            THEN LET d == LoadFromMemory(mem, descAddr) IN
                 /\ npu'.state = "DONE" /\ Validate(d)
                 /\ \A i \in 0..(d.m - 1), j \in 0..(d.n - 1) :
                       Disjoint(d) => mem'[CAt(d, i, j)] = Dot(mem, d, i, j, d.k)
            ELSE npu'.state = "ERROR" /\ npu'.error # "NONE" ]_vars
  BY StartAnswer
<1>. QED BY <1>1, TypeCorrect, PTL DEF Spec, StartAnswers

\* A START that is refused, by load_from_memory, submit or run, writes no word
\* of memory and leaves the counters (device.cpp:92-102, controller.cpp:113-202).
THEOREM RefusedStartLeavesNoTrace == Spec => RefusedStartIsInert
<1>1. TypeOK /\ [Next]_vars =>
        [ Start /\ ~reply'.ok => mem' = mem /\ npu'.perf = npu.perf ]_vars
  <2>. SUFFICES ASSUME TypeOK, Start, ~reply'.ok PROVE mem' = mem /\ npu'.perf = npu.perf
    OBVIOUS
  <2>1. CASE ~bound
    BY <2>1 DEF Start
  <2>2. CASE bound
    BY <2>2, StartOutcome DEF Ok
  <2>. QED BY <2>1, <2>2 DEF TypeOK
<1>. QED BY <1>1, TypeCorrect, PTL DEF Spec, RefusedStartIsInert

\* A descriptor that store_to_memory accepts is the one load_from_memory reads
\* back, for every descriptor whose numbers are INT32 (descriptor.cpp:140-193).
THEOREM StoredDescriptorsReadBack == Spec => []StoredReadsBack
<1>1. TypeOK => StoredReadsBack
  <2>. SUFFICES ASSUME TypeOK, NEW base \in Bases, NEW d \in Descriptors,
                       Storable(mem, d, base),
                       \A f \in {"m", "n", "k", "A", "B", "C", "tm", "tn", "tk"} : 2 * d[f] < Word
                PROVE  LoadFromMemory(Stored(mem, d, base), base) = d
    BY DEF StoredReadsBack
  <2>1. base \in Nat /\ d \in DescriptorType /\ mem \in Memory
    BY WordAssumption, DeviceAssumption DEF TypeOK
  <2>. QED BY <2>1, ReadsBack
<1>. QED BY <1>1, TypeCorrect, PTL
=============================================================================
