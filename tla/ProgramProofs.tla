--------------------------- MODULE ProgramProofs ----------------------------
(***************************************************************************)
(* Proofs about the programs of the machine: the bare-metal program that   *)
(* runs a GEMM, and the compiler that writes programs in C.                *)
(***************************************************************************)
EXTENDS Baremetal, GemmOpsProofs, TensorC, FiniteSetTheorems, WellFoundedInduction
-----------------------------------------------------------------------------
(***************************************************************************)
(* Baremetal: a GEMM of the driver delivers the product of the descriptor  *)
(* its address holds, and a program that halts reports what the driver     *)
(* told it, as long as nothing writes over the word of .bss.               *)
(***************************************************************************)

\* The ten words of a descriptor are at base.
Holds(m, base, d) == \A i \in 1..WordCount : m[WordAddr(base) + i - 1] = ToWords(d)[i]

\* What the driver is about to run, or has: the descriptor desc_addr holds, on
\* the memory that has the one it built.
Run == LoadFromMemory(asked.mem, asked.args.descAddr)

TypeOK ==
    /\ pc \in {"_start", "main", "start", "start_gemm", "wait", "report", "exit"}
    /\ back \in {"main", "report"}
    /\ mem \in Memory /\ npu \in NpuType /\ rc \in Int

Started ==
    /\ pc \in {"start_gemm", "wait"} =>
          /\ asked.args \in Gemms /\ asked.mem \in Memory
          /\ Holds(asked.mem, asked.args.desc, DescOf(asked.args))
    /\ pc = "start_gemm" => descAddr = asked.args.descAddr /\ mem = asked.mem
    /\ pc = "wait" => /\ npu.state = "DONE" /\ npu.error = "NONE"
                     /\ Validate(Run) /\ MayBecome(asked.mem, Run, mem)

\* What main has been told and what it has passed on.
Reported ==
    /\ pc = "start" => back = "main"
    /\ pc \in {"report", "exit"} /\ rc = 0 => npu.state = "DONE" /\ npu.error = "NONE"
    /\ console = IF pc = "exit" THEN IF rc = 0 THEN DoneText ELSE FailText ELSE <<>>
    /\ cpu = "halted" => pc = "exit" /\ exitCode = rc

IInv == TypeOK /\ Started /\ Reported

\* The word of .bss that main reads, and the status word that depends on it.
BssClear == pc \notin {"_start", "exit"} => mem[BssStart] = 0
StatusStored == pc = "exit" => mem[StatusWord] = AsInt32(IF rc = 0 THEN GOOD ELSE BAD - rc)

\* No store of a driver call lands on that word: the program's descriptors and
\* matrices are where the linker put them, apart from .bss (linker.ld, and the
\* section .maps_data of main.c).
BssSteady == pc \in {"main", "start", "start_gemm"} => mem'[BssStart] = mem[BssStart]
BssKept == [][BssSteady]_vars
-----------------------------------------------------------------------------
(* The descriptor the driver builds. *)

LEMMA DescOfIs ==
    ASSUME NEW g \in Gemms
    PROVE  /\ DescOf(g) \in DescriptorType /\ DescOf(g).mode = "OS" /\ DescOf(g).mode \in Modes
           /\ \A f \in {"m", "n", "k", "A", "B", "C", "tm", "tn", "tk"} : DescOf(g)[f] \in UInt32
<1>1. /\ g.m \in UInt32 /\ g.n \in UInt32 /\ g.k \in UInt32
      /\ g.a \in UInt32 /\ g.b \in UInt32 /\ g.c \in UInt32
  BY BaremetalAssumption DEF GemmType
<1>2. TileSize \in UInt32 /\ UInt32 \subseteq Nat
  BY BaremetalAssumption, ArrayAssumption, WordAssumption DEF UInt32
<1>. QED BY <1>1, <1>2 DEF DescOf, DescriptorType, Modes

\* Its words are where it was built.
LEMMA BuiltHolds ==
    ASSUME NEW m \in Memory, NEW g \in Gemms
    PROVE  LET built == Loaded(m, WordAddr(g.desc), ToWords(DescOf(g)))
           IN  built \in Memory /\ Holds(built, g.desc, DescOf(g))
<1>. DEFINE raw == ToWords(DescOf(g))
            at == WordAddr(g.desc)
            built == Loaded(m, at, raw)
<1>1. DescOf(g) \in DescriptorType /\ DescOf(g).mode \in Modes
  BY DescOfIs
<1>2. g.desc \in Nat /\ at + 10 <= MemWords
  BY BaremetalAssumption, WordAssumption DEF GemmType, UInt32, WordCount
<1>3. built \in Memory
  BY <1>1, <1>2, DescriptorMemory
<1>4. at \in Nat
  BY <1>2 DEF WordAddr, WordBytes
<1>5. Len(raw) = 10
  BY DEF ToWords
<1>. HIDE DEF raw, at
<1>6. ASSUME NEW i \in 1..10
      PROVE  built[at + i - 1] = raw[i]
  <2>1. at + i - 1 \in Addresses /\ (at + i - 1) - at = i - 1 /\ (at + i - 1) - at + 1 = i
    BY <1>2, <1>4, MemoryAssumption DEF Addresses
  <2>2. i - 1 \in 0..(Len(raw) - 1)
    BY <1>5
  <2>. QED BY <2>1, <2>2 DEF Loaded
<1>. QED BY <1>3, <1>6 DEF Holds, WordCount, raw, at

\* An INT32 that is not negative is the UINT32 it came from.
LEMMA ReadableWord ==
    ASSUME NEW x \in UInt32, AsInt32(x) >= 0
    PROVE  AsInt32(x) = x
BY WordAssumption DEF UInt32, AsInt32

\* What can be read where a descriptor was built is that descriptor.
LEMMA BuiltReadsBack ==
    ASSUME NEW m \in Memory, NEW g \in Gemms, Holds(m, g.desc, DescOf(g)), Readable(m, g.desc)
    PROVE  LoadFromMemory(m, g.desc) = DescOf(g)
<1>. DEFINE d == DescOf(g)
            c == CHOOSE x \in 0..2 : ModeOf[x + 1] = d.mode
            raw == WordsAt(m, g.desc)
<1>1. /\ d \in DescriptorType /\ d.mode \in Modes
      /\ d.m \in UInt32 /\ d.n \in UInt32 /\ d.k \in UInt32
      /\ d.A \in UInt32 /\ d.B \in UInt32 /\ d.C \in UInt32
      /\ d.tm \in UInt32 /\ d.tn \in UInt32 /\ d.tk \in UInt32
  BY DescOfIs
<1>. HIDE DEF d
<1>2. c \in 0..2 /\ ModeOf[c + 1] = d.mode
  BY <1>1, ModeWord
<1>3. \A i \in 1..10 : raw[i] = ToWords(d)[i]
  BY DEF WordsAt, Holds, WordCount, d
<1>4. WordAddr(g.desc) \in Nat
  BY BaremetalAssumption, WordAssumption DEF GemmType, UInt32, WordAddr, WordBytes
<1>5. \A i \in 1..10 : raw[i] >= 0
  <2>1. TAKE i \in 1..10
  <2>2. i - 1 \in 0..9 /\ WordAddr(g.desc) + (i - 1) = WordAddr(g.desc) + i - 1
    BY <1>4
  <2>3. m[WordAddr(g.desc) + (i - 1)] >= 0
    BY <2>2 DEF Readable, WordCount
  <2>. QED BY <2>2, <2>3 DEF WordsAt, WordCount
<1>. HIDE DEF c
<1>6. ToWords(d) = <<AsInt32(d.m), AsInt32(d.n), AsInt32(d.k), AsInt32(d.A), AsInt32(d.B), AsInt32(d.C),
                     c, AsInt32(d.tm), AsInt32(d.tn), AsInt32(d.tk)>>
  BY DEF ToWords, c
<1>. HIDE DEF raw
<1>7. /\ raw[1] = AsInt32(d.m) /\ raw[2] = AsInt32(d.n) /\ raw[3] = AsInt32(d.k)
      /\ raw[4] = AsInt32(d.A) /\ raw[5] = AsInt32(d.B) /\ raw[6] = AsInt32(d.C) /\ raw[7] = c
      /\ raw[8] = AsInt32(d.tm) /\ raw[9] = AsInt32(d.tn) /\ raw[10] = AsInt32(d.tk)
  BY <1>3, <1>6
<1>8. /\ raw[1] = d.m /\ raw[2] = d.n /\ raw[3] = d.k
      /\ raw[4] = d.A /\ raw[5] = d.B /\ raw[6] = d.C
      /\ raw[8] = d.tm /\ raw[9] = d.tn /\ raw[10] = d.tk
  <2>1. /\ 1 \in 1..10 /\ 2 \in 1..10 /\ 3 \in 1..10 /\ 4 \in 1..10 /\ 5 \in 1..10
        /\ 6 \in 1..10 /\ 8 \in 1..10 /\ 9 \in 1..10 /\ 10 \in 1..10
    OBVIOUS
  <2>. QED BY <1>1, <1>5, <1>7, <2>1, ReadableWord
<1>9. d = [m |-> d.m, n |-> d.n, k |-> d.k, A |-> d.A, B |-> d.B, C |-> d.C,
           mode |-> d.mode, tm |-> d.tm, tn |-> d.tn, tk |-> d.tk]
  BY <1>1 DEF DescriptorType
<1>10. FromWords(raw) = d
  BY <1>2, <1>7, <1>8, <1>9 DEF FromWords
<1>. QED BY <1>10 DEF LoadFromMemory, raw, d

\* A valid descriptor was read, not the default one.
LEMMA ValidWasRead ==
    ASSUME NEW m, NEW base, Validate(LoadFromMemory(m, base))
    PROVE  Readable(m, base)
<1>1. ~Validate(DefaultDescriptor)
  BY DEF Validate, DefaultDescriptor
<1>. QED BY <1>1 DEF LoadFromMemory
-----------------------------------------------------------------------------
(* The steps of the program. *)

LEMMA InitGood == Init => IInv
<1>1. ResetNpu \in NpuType /\ InitialMemory \in Memory
  BY ResetTyped, BaremetalAssumption
<1>. QED BY <1>1 DEF Init, IInv, TypeOK, Started, Reported

LEMMA StartKeeps ==
    ASSUME IInv, Start
    PROVE  IInv'
<1>1. Cleared(mem) \in Memory
  BY DEF IInv, TypeOK, Cleared, Memory
<1>. QED BY <1>1 DEF Start, At, IInv, TypeOK, Started, Reported

LEMMA NpuGemmKeeps ==
    ASSUME IInv, NEW g \in Gemms, NEW to \in {"main", "report"}, At("main"), NpuGemm(g, to)
    PROVE  IInv'
<1>1. mem \in Memory /\ pc = "main" /\ cpu = "running" /\ console = <<>>
  BY DEF IInv, TypeOK, Reported, At
<1>2. mem' \in Memory
  BY <1>1, BuiltHolds DEF NpuGemm
<1>3. CASE g.desc = 0 \/ ~DescValid(DescOf(g))
  <2>1. rc' = 0 - 3 /\ pc' = to /\ back' = to /\ UNCHANGED <<cpu, npu, console, exitCode>>
    BY <1>3 DEF NpuGemm
  <2>2. TypeOK'
    BY <2>1, <1>2 DEF IInv, TypeOK
  <2>3. Started'
    BY <2>1 DEF Started
  <2>4. Reported'
    BY <2>1, <1>1 DEF IInv, Reported
  <2>. QED BY <2>2, <2>3, <2>4 DEF IInv
<1>4. CASE ~(g.desc = 0 \/ ~DescValid(DescOf(g)))
  <2>1. /\ descAddr' = g.descAddr /\ pc' = "start_gemm" /\ back' = to
        /\ UNCHANGED <<rc, cpu, npu, console, exitCode>>
        /\ asked' = [args |-> g, mem |-> mem']
        /\ mem' = Loaded(mem, WordAddr(g.desc), ToWords(DescOf(g)))
    BY <1>4 DEF NpuGemm, StartWith
  <2>2. TypeOK'
    BY <2>1, <1>2 DEF IInv, TypeOK
  <2>3. Holds(mem', g.desc, DescOf(g))
    BY <1>1, <2>1, BuiltHolds
  <2>4. asked'.args = g /\ asked'.mem = mem'
    BY <2>1
  <2>5. Started'
    BY <1>2, <2>1, <2>3, <2>4 DEF Started
  <2>6. Reported'
    BY <2>1, <1>1 DEF IInv, Reported
  <2>. QED BY <2>2, <2>5, <2>6 DEF IInv
<1>. QED BY <1>3, <1>4

\* What a START of the program does.
LEMMA CmdStartIs ==
    ASSUME IInv, CmdStart
    PROVE  LET d == LoadFromMemory(mem, descAddr)
           IN  /\ npu' = AfterStart(npu, d) /\ npu' \in NpuType /\ mem' \in Memory
               /\ \/ /\ npu'.state = "DONE" /\ npu'.error = "NONE" /\ Validate(d)
                     /\ MayBecome(mem, d, mem')
                     /\ pc' = (IF pc = "start_gemm" THEN "wait" ELSE back) /\ UNCHANGED cpu
                  \/ mem' = mem /\ cpu' = "faulted" /\ UNCHANGED pc
<1>. DEFINE d == LoadFromMemory(mem, descAddr)
<1>1. npu \in NpuType /\ mem \in Memory
  BY DEF IInv, TypeOK
<1>2. d \in DescriptorType
  BY <1>1, LoadedDescriptor
<1>. HIDE DEF d
<1>3. /\ npu' = AfterStart(npu, d)
      /\ IF npu'.state = "DONE" THEN MayBecome(mem, npu'.desc, mem') ELSE mem' = mem
      /\ IF npu'.state = "DONE"
         THEN pc' = (IF pc = "start_gemm" THEN "wait" ELSE back) /\ UNCHANGED cpu
         ELSE cpu' = "faulted" /\ UNCHANGED pc
  BY DEF CmdStart, AfterStart, d
<1>4. npu' \in NpuType
  BY <1>1, <1>2, <1>3, StartKeepsTypes
<1>5. CASE /\ Validate(d) /\ InMemory(d)
           /\ AfterStart(npu, d) = [desc |-> d, state |-> "DONE", error |-> "NONE",
                                    perf |-> PerfAfter(npu.perf, d)]
  <2>1. npu'.state = "DONE" /\ npu'.error = "NONE" /\ npu'.desc = d
    BY <1>3, <1>5
  <2>2. MayBecome(mem, d, mem')
    BY <1>3, <2>1
  <2>3. mem' \in Memory
    BY <1>1, <1>2, <1>5, <2>2, BecomesMemory
  <2>. QED BY <1>3, <1>4, <1>5, <2>1, <2>2, <2>3 DEF d
<1>6. CASE \E e \in {d, npu.desc}, why \in NpuErrors \ {"NONE"} :
             AfterStart(npu, d) = [desc |-> e, state |-> "ERROR", error |-> why, perf |-> npu.perf]
  <2>1. npu'.state = "ERROR"
    BY <1>3, <1>6
  <2>. QED BY <1>1, <1>3, <1>4, <2>1 DEF d
<1>. QED BY <1>1, <1>5, <1>6, StartVerdict

LEMMA CmdStartKeeps ==
    ASSUME IInv, CmdStart
    PROVE  IInv'
<1>. DEFINE d == LoadFromMemory(mem, descAddr)
<1>1. /\ npu' \in NpuType /\ mem' \in Memory
      /\ \/ /\ npu'.state = "DONE" /\ npu'.error = "NONE" /\ Validate(d)
            /\ MayBecome(mem, d, mem')
            /\ pc' = (IF pc = "start_gemm" THEN "wait" ELSE back) /\ UNCHANGED cpu
         \/ mem' = mem /\ cpu' = "faulted" /\ UNCHANGED pc
  BY CmdStartIs
<1>2. /\ pc \in {"start_gemm", "start"} /\ cpu = "running"
      /\ UNCHANGED <<back, descAddr, console, exitCode, rc, calls, asked>>
  BY DEF CmdStart, At
<1>. HIDE DEF d
<1>3. TypeOK'
  BY <1>1, <1>2 DEF IInv, TypeOK
<1>4. Started'
  <2>1. CASE pc = "start_gemm"
    <3>1. d = Run /\ mem = asked.mem /\ Run' = Run
      BY <1>2, <2>1 DEF IInv, Started, Run, d
    <3>2. /\ asked.args \in Gemms /\ asked.mem \in Memory
          /\ Holds(asked.mem, asked.args.desc, DescOf(asked.args)) /\ descAddr = asked.args.descAddr
      BY <2>1 DEF IInv, Started
    <3>3. CASE pc' = "wait"
      <4>1. npu'.state = "DONE" /\ npu'.error = "NONE" /\ Validate(d) /\ MayBecome(mem, d, mem')
        BY <1>1, <2>1, <3>3
      <4>. QED BY <4>1, <3>1, <3>2, <3>3, <1>2 DEF Started
    <3>4. CASE pc' # "wait"
      <4>1. mem' = mem /\ pc' = pc
        BY <1>1, <2>1, <3>4
      <4>. QED BY <4>1, <3>1, <3>2, <3>4, <1>2 DEF Started
    <3>. QED BY <3>3, <3>4
  <2>2. CASE pc = "start"
    <3>1. pc' \in {"main", "start"}
      BY <1>1, <2>2 DEF IInv, Reported
    <3>. QED BY <3>1 DEF Started
  <2>. QED BY <2>1, <2>2, <1>2
<1>5. Reported'
  <2>1. pc' \in {"wait", "start_gemm", "start", "main"} /\ (pc' = "start" => pc = "start")
    BY <1>1, <1>2 DEF IInv, Reported
  <2>2. console = <<>> /\ cpu' # "halted"
    BY <1>1, <1>2 DEF IInv, Reported
  <2>. QED BY <2>1, <2>2, <1>2 DEF IInv, Reported
<1>. QED BY <1>3, <1>4, <1>5 DEF IInv

LEMMA WaitedIs ==
    ASSUME IInv, NEW polls \in Int
    PROVE  Waited(polls) \in Int /\ (npu.state = "DONE" /\ polls > 0 => Waited(polls) = 0)
BY DEF Waited, StateCode

LEMMA GemmWaitKeeps ==
    ASSUME IInv, GemmWait
    PROVE  IInv' /\ rc' = 0
<1>1. /\ pc = "wait" /\ cpu = "running" /\ rc' = Waited(1) /\ pc' = back
      /\ UNCHANGED <<back, cpu, mem, npu, descAddr, console, exitCode, calls, asked>>
  BY DEF GemmWait, At
<1>2. npu.state = "DONE" /\ npu.error = "NONE" /\ back \in {"main", "report"}
  BY <1>1 DEF IInv, Started, TypeOK
<1>3. rc' = 0
  <2>1. 1 \in Int /\ 1 > 0
    OBVIOUS
  <2>. QED BY <1>1, <1>2, <2>1, WaitedIs
<1>4. TypeOK'
  BY <1>1, <1>2, <1>3 DEF IInv, TypeOK
<1>5. Started'
  BY <1>1, <1>2 DEF Started
<1>6. Reported'
  BY <1>1, <1>2 DEF IInv, Reported
<1>. QED BY <1>3, <1>4, <1>5, <1>6 DEF IInv

LEMMA NpuResetKeeps ==
    ASSUME IInv, NpuReset
    PROVE  IInv'
<1>1. /\ pc = "main" /\ npu' = ResetNpu
      /\ UNCHANGED <<pc, back, cpu, mem, console, exitCode, rc, asked>>
  BY DEF NpuReset, EarlierCall, At
<1>. QED BY <1>1, ResetTyped DEF IInv, TypeOK, Started, Reported

LEMMA NpuStartKeeps ==
    ASSUME IInv, NEW addr, NpuStart(addr)
    PROVE  IInv'
<1>1. /\ pc = "main" /\ cpu = "running" /\ pc' = "start" /\ back' = "main"
      /\ UNCHANGED <<cpu, mem, npu, console, exitCode, rc, asked>>
  BY DEF NpuStart, EarlierCall, At
<1>. QED BY <1>1 DEF IInv, TypeOK, Started, Reported

LEMMA WaitDoneKeeps ==
    ASSUME IInv, NEW polls, WaitDone(polls)
    PROVE  IInv'
<1>1. /\ pc = "main" /\ rc' = Waited(polls) /\ cpu = "running"
      /\ UNCHANGED <<pc, back, cpu, mem, npu, descAddr, console, exitCode, asked>>
  BY DEF WaitDone, EarlierCall, At
<1>2. Waited(polls) \in Int
  BY DEF Waited
<1>. QED BY <1>1, <1>2 DEF IInv, TypeOK, Started, Reported

\* The status word is stored as an INT32.
LEMMA StatusIs ==
    /\ \A bss : rc \in Int => AsInt32(StatusOf(rc, bss)) \in Int
    /\ rc \in Int => StatusOf(rc, 0) = IF rc = 0 THEN GOOD ELSE BAD - rc
BY BaremetalAssumption, WordAssumption DEF StatusOf, AsInt32

LEMMA ReportKeeps ==
    ASSUME IInv, Report
    PROVE  IInv'
<1>1. /\ pc = "report" /\ cpu = "running" /\ pc' = "exit"
      /\ mem' = [mem EXCEPT ![StatusWord] = AsInt32(StatusOf(rc, mem[BssStart]))]
      /\ console' = console \o (IF rc = 0 THEN DoneText ELSE FailText)
      /\ UNCHANGED <<back, cpu, npu, descAddr, exitCode, rc, calls, asked>>
  BY DEF Report, At
<1>2. mem' \in Memory
  BY <1>1, StatusIs DEF IInv, TypeOK, Memory
<1>3. console = <<>> /\ (rc = 0 => npu.state = "DONE" /\ npu.error = "NONE")
  BY <1>1 DEF IInv, Reported
<1>4. console' = IF rc = 0 THEN DoneText ELSE FailText
  BY <1>1, <1>3, BaremetalAssumption
<1>. QED BY <1>1, <1>2, <1>3, <1>4 DEF IInv, TypeOK, Started, Reported

LEMMA ExitKeeps ==
    ASSUME IInv, Exit
    PROVE  IInv'
<1>1. /\ pc = "exit" /\ exitCode' = rc
      /\ UNCHANGED <<pc, back, mem, npu, descAddr, console, rc, calls, asked>>
  BY DEF Exit, At
<1>. QED BY <1>1 DEF IInv, TypeOK, Started, Reported

LEMMA StutterKeeps ==
    ASSUME IInv, UNCHANGED vars
    PROVE  IInv'
BY DEF vars, IInv, TypeOK, Started, Reported, Run

\* The steps of the program, one by one.
LEMMA StepIs ==
    ASSUME [Next]_vars
    PROVE  \/ Start \/ CmdStart \/ GemmWait \/ NpuReset \/ Report \/ Exit \/ UNCHANGED vars
           \/ \E g \in Gemms, to \in {"main", "report"} : At("main") /\ NpuGemm(g, to)
           \/ \E addr \in DescAddrs : NpuStart(addr)
           \/ \E polls \in Polls : WaitDone(polls)
BY DEF Next, EarlierGemm, MainGemm, EarlierCall, Stopped

LEMMA StepKeeps == IInv /\ [Next]_vars => IInv'
BY StepIs, StartKeeps, CmdStartKeeps, GemmWaitKeeps, NpuResetKeeps, ReportKeeps, ExitKeeps,
   StutterKeeps, NpuGemmKeeps, NpuStartKeeps, WaitDoneKeeps

\* The invariant holds of every program.
THEOREM Invariance == Spec => []IInv
BY InitGood, StepKeeps, PTL DEF Spec
-----------------------------------------------------------------------------
(* What a GEMM delivers. *)

\* The return of a GEMM.
LEMMA ReturnDelivers ==
    ASSUME IInv, GemmWait
    PROVE  /\ rc' = 0 /\ Validate(Run)
           /\ asked.args.descAddr = asked.args.desc => Run = DescOf(asked.args)
           /\ Disjoint(Run) => mem' = Multiply(asked.mem, Run)
<1>1. pc = "wait" /\ mem' = mem
  BY DEF GemmWait, At
<1>2. /\ asked.args \in Gemms /\ asked.mem \in Memory
      /\ Holds(asked.mem, asked.args.desc, DescOf(asked.args))
      /\ Validate(Run) /\ MayBecome(asked.mem, Run, mem)
  BY <1>1 DEF IInv, Started
<1>3. ASSUME asked.args.descAddr = asked.args.desc
      PROVE  Run = DescOf(asked.args)
  <2>1. Readable(asked.mem, asked.args.desc)
    BY <1>2, <1>3, ValidWasRead DEF Run
  <2>. QED BY <2>1, <1>2, <1>3, BuiltReadsBack DEF Run
<1>. QED BY <1>1, <1>2, <1>3, GemmWaitKeeps DEF MayBecome

\* A GEMM that returned before it reached the NPU.
LEMMA RefusedEarly ==
    ASSUME [Next]_vars, At("main"), pc' \in {"main", "report"}, asked' # asked
    PROVE  rc' = 0 - 3 /\ mem' = asked'.mem /\ npu' = npu
<1>1. pc = "main" /\ cpu = "running"
  BY DEF At
<1>2. \E g \in Gemms, to \in {"main", "report"} : NpuGemm(g, to)
  <2>1. ~Start /\ ~CmdStart /\ ~GemmWait /\ ~Report /\ ~Exit
    BY <1>1 DEF Start, CmdStart, GemmWait, Report, Exit, At
  <2>2. ~NpuReset /\ ~UNCHANGED vars
    BY DEF NpuReset, vars
  <2>3. ~(\E addr \in DescAddrs : NpuStart(addr)) /\ ~(\E polls \in Polls : WaitDone(polls))
    BY DEF NpuStart, WaitDone
  <2>. QED BY <2>1, <2>2, <2>3, StepIs
<1>3. PICK g \in Gemms, to \in {"main", "report"} : NpuGemm(g, to)
  BY <1>2
<1>4. g.desc = 0 \/ ~DescValid(DescOf(g))
  BY <1>3 DEF NpuGemm
<1>5. asked' = [args |-> g, mem |-> mem'] /\ rc' = 0 - 3 /\ npu' = npu
  BY <1>3, <1>4 DEF NpuGemm
<1>. QED BY <1>5

\* A GEMM of the driver that returns 0 has left the product of the descriptor
\* desc_addr holds, the one it built if it built it there; one that returns -3
\* has left the NPU alone (npu_driver.c:73-98). Whatever calls came before.
THEOREM GemmsDeliver == Spec => GemmDelivers
<1>. DEFINE Delivers ==
         /\ GemmWait =>
              LET run == LoadFromMemory(asked.mem, asked.args.descAddr) IN
              /\ rc' = 0 /\ Validate(run)
              /\ asked.args.descAddr = asked.args.desc => run = DescOf(asked.args)
              /\ Disjoint(run) => mem' = Multiply(asked.mem, run)
         /\ At("main") /\ pc' \in {"main", "report"} /\ asked' # asked =>
              rc' = 0 - 3 /\ mem' = asked'.mem /\ npu' = npu
<1>1. IInv /\ [Next]_vars => [Delivers]_vars
  <2>1. SUFFICES ASSUME IInv, [Next]_vars PROVE Delivers
    OBVIOUS
  <2>2. ASSUME GemmWait
        PROVE  LET run == LoadFromMemory(asked.mem, asked.args.descAddr) IN
               /\ rc' = 0 /\ Validate(run)
               /\ asked.args.descAddr = asked.args.desc => run = DescOf(asked.args)
               /\ Disjoint(run) => mem' = Multiply(asked.mem, run)
    BY <2>1, <2>2, ReturnDelivers DEF Run
  <2>. QED BY <2>1, <2>2, RefusedEarly
<1>. QED BY <1>1, Invariance, PTL DEF Spec, GemmDelivers
-----------------------------------------------------------------------------
(* What a program that halts has reported. *)

\* A part of a text that ends in it.
LEMMA WholeText ==
    ASSUME NEW text \in Seq(Int)
    PROVE  SubSeq(text, Len(text) - Len(text) + 1, Len(text)) = text
<1>1. Len(text) - Len(text) + 1 = 1
  OBVIOUS
<1>2. SubSeq(text, 1, Len(text)) = text
  OBVIOUS
<1>. QED BY <1>1, <1>2

LEMMA InitClear == Init => BssClear /\ StatusStored
BY DEF Init, BssClear, StatusStored

\* The status word follows the word of .bss.
LEMMA StatusKeeps ==
    /\ IInv /\ BssClear /\ StatusStored /\ [Next]_vars
    /\ [BssSteady]_vars
    => BssClear' /\ StatusStored'
<1>. SUFFICES ASSUME IInv, BssClear, StatusStored, [Next]_vars,
                     [BssSteady]_vars
              PROVE  BssClear' /\ StatusStored'
  OBVIOUS
<1>1. CASE Start
  <2>1. pc' = "main" /\ mem' = Cleared(mem)
    BY <1>1 DEF Start
  <2>2. BssStart \in Addresses /\ BssStart \in BssStart..(BssEnd - 1)
    BY BaremetalAssumption, MemoryAssumption DEF Addresses
  <2>3. mem'[BssStart] = 0
    BY <2>1, <2>2 DEF Cleared
  <2>. QED BY <2>1, <2>3 DEF BssClear, StatusStored
<1>2. CASE UNCHANGED vars
  BY <1>2 DEF vars, BssClear, StatusStored
<1>3. CASE pc \in {"main", "start", "start_gemm"} /\ mem'[BssStart] = mem[BssStart]
           /\ pc' \notin {"_start", "exit"}
  BY <1>3 DEF BssClear, StatusStored
<1>4. CASE GemmWait
  <2>1. pc = "wait" /\ mem' = mem /\ pc' \in {"main", "report"}
    BY <1>4 DEF GemmWait, At, IInv, TypeOK
  <2>. QED BY <2>1 DEF BssClear, StatusStored
<1>5. CASE Report
  <2>1. /\ pc = "report" /\ pc' = "exit" /\ rc' = rc
        /\ mem' = [mem EXCEPT ![StatusWord] = AsInt32(StatusOf(rc, mem[BssStart]))]
    BY <1>5 DEF Report, At
  <2>2. mem[BssStart] = 0 /\ rc \in Int /\ mem \in Memory
    BY <2>1 DEF BssClear, IInv, TypeOK
  <2>3. StatusOf(rc, 0) = IF rc = 0 THEN GOOD ELSE BAD - rc
    BY <2>2, StatusIs
  <2>4. mem'[StatusWord] = AsInt32(StatusOf(rc, 0))
    BY <2>1, <2>2, BaremetalAssumption DEF Memory
  <2>. QED BY <2>1, <2>3, <2>4 DEF BssClear, StatusStored
<1>6. CASE Exit
  BY <1>6 DEF Exit, At, BssClear, StatusStored
<1>7. CASE \/ CmdStart \/ NpuReset
           \/ \E g \in Gemms, to \in {"main", "report"} : At("main") /\ NpuGemm(g, to)
           \/ \E addr \in DescAddrs : NpuStart(addr)
           \/ \E polls \in Polls : WaitDone(polls)
  <2>1. pc \in {"main", "start", "start_gemm"}
    BY <1>7 DEF CmdStart, NpuReset, NpuStart, WaitDone, EarlierCall, At
  <2>2. pc' \notin {"_start", "exit"}
    <3>1. CASE CmdStart
      <4>1. pc' = (IF pc = "start_gemm" THEN "wait" ELSE back) \/ pc' = pc
        BY <3>1 DEF CmdStart
      <4>. QED BY <4>1, <2>1 DEF IInv, TypeOK
    <3>2. CASE \/ NpuReset
               \/ \E addr \in DescAddrs : NpuStart(addr)
               \/ \E polls \in Polls : WaitDone(polls)
      BY <3>2, <2>1 DEF NpuReset, NpuStart, WaitDone
    <3>3. CASE \E g \in Gemms, to \in {"main", "report"} : At("main") /\ NpuGemm(g, to)
      BY <3>3 DEF NpuGemm
    <3>. QED BY <1>7, <3>1, <3>2, <3>3
  <2>3. mem'[BssStart] = mem[BssStart]
    BY <2>1 DEF vars, BssSteady
  <2>. QED BY <2>1, <2>2, <2>3, <1>3
<1>. QED BY <1>1, <1>2, <1>4, <1>5, <1>6, <1>7, StepIs

\* What main returns is what the host reads three times (main.c:35-43,
\* crt0.S:20-30), for a program whose GEMMs leave the word of .bss alone: main
\* says bad when that word is not 0, whatever the driver returned.
THEOREM HaltedProgramsReport == Spec /\ BssKept => []HaltReportsStatus
<1>1. IInv /\ BssClear /\ StatusStored => HaltReportsStatus
  <2>1. SUFFICES ASSUME IInv, StatusStored, cpu = "halted"
                 PROVE  /\ exitCode = rc
                        /\ mem[StatusWord] = AsInt32(IF rc = 0 THEN GOOD ELSE BAD - rc)
                        /\ LET text == IF rc = 0 THEN DoneText ELSE FailText
                           IN  SubSeq(console, Len(console) - Len(text) + 1, Len(console)) = text
                        /\ rc = 0 => npu.state = "DONE" /\ npu.error = "NONE"
    BY DEF HaltReportsStatus
  <2>. DEFINE text == IF rc = 0 THEN DoneText ELSE FailText
  <2>2. /\ pc = "exit" /\ exitCode = rc /\ console = text
        /\ (rc = 0 => npu.state = "DONE" /\ npu.error = "NONE")
    BY <2>1 DEF IInv, Reported
  <2>3. text \in Seq(Int)
    BY BaremetalAssumption
  <2>4. SubSeq(console, Len(console) - Len(text) + 1, Len(console)) = text
    <3>. HIDE DEF text
    <3>. QED BY <2>2, <2>3, WholeText
  <2>. QED BY <2>1, <2>2, <2>4 DEF StatusStored
<1>. QED BY <1>1, Invariance, InitClear, StatusKeeps, PTL DEF Spec, BssKept
-----------------------------------------------------------------------------
(* Programs that leave .bss alone. *)

\* A program that starts only the descriptors it builds, as main.c does, with
\* them and its C matrices linked apart from the word of .bss.
LinkedApart ==
    /\ DescAddrs = {}
    /\ \A g \in Gemms : /\ g.descAddr = g.desc
                        /\ g.desc # 0 => BssStart - WordAddr(g.desc) \notin 0..(WordCount - 1)
                        /\ BssStart \notin CRegion(DescOf(g))

\* A word outside C stays.
LEMMA OutsideC ==
    ASSUME NEW d, NEW m, NEW next, MayBecome(m, d, next), NEW w \in Addresses, w \notin CRegion(d)
    PROVE  next[w] = m[w]
BY DEF MayBecome, Multiply

\* A word outside the descriptor stays.
LEMMA OutsideDescriptor ==
    ASSUME NEW m, NEW at, NEW d, NEW w \in Addresses, w - at \notin 0..(WordCount - 1)
    PROVE  Loaded(m, at, ToWords(d))[w] = m[w]
<1>1. Len(ToWords(d)) = 10
  BY DEF ToWords
<1>. QED BY <1>1 DEF Loaded, WordCount

LEMMA ApartSteps ==
    ASSUME LinkedApart, IInv, pc # "start", [Next]_vars
    PROVE  pc' # "start" /\ [BssSteady]_vars
<1>0. BssStart \in Addresses
  BY BaremetalAssumption
<1>1. ASSUME NEW g \in Gemms, NEW to \in {"main", "report"}, At("main"), NpuGemm(g, to)
      PROVE  pc' # "start" /\ BssSteady
  <2>1. pc' \in {"main", "report", "start_gemm"}
    BY <1>1 DEF NpuGemm
  <2>2. mem'[BssStart] = mem[BssStart]
    <3>1. CASE g.desc = 0
      BY <1>1, <3>1 DEF NpuGemm
    <3>2. CASE g.desc # 0
      BY <1>0, <1>1, <3>2, OutsideDescriptor DEF NpuGemm, LinkedApart
    <3>. QED BY <3>1, <3>2
  <2>. QED BY <2>1, <2>2 DEF BssSteady
<1>2. ASSUME CmdStart
      PROVE  pc' # "start" /\ BssSteady
  <2>1. pc = "start_gemm"
    BY <1>2 DEF CmdStart, At
  <2>2. /\ mem = asked.mem /\ descAddr = asked.args.descAddr /\ asked.args \in Gemms
        /\ asked.mem \in Memory /\ Holds(asked.mem, asked.args.desc, DescOf(asked.args))
    BY <2>1 DEF IInv, Started
  <2>3. asked.args.descAddr = asked.args.desc /\ BssStart \notin CRegion(DescOf(asked.args))
    BY <2>2 DEF LinkedApart
  <2>. DEFINE d == LoadFromMemory(mem, descAddr)
  <2>4. CASE Validate(d) /\ MayBecome(mem, d, mem') /\ pc' = "wait"
    <3>1. d = DescOf(asked.args)
      BY <2>2, <2>3, <2>4, ValidWasRead, BuiltReadsBack
    <3>2. mem'[BssStart] = mem[BssStart]
      BY <1>0, <2>3, <2>4, <3>1, OutsideC
    <3>. QED BY <2>4, <3>2 DEF BssSteady
  <2>5. CASE mem' = mem /\ pc' = pc
    BY <2>1, <2>5 DEF BssSteady
  <2>. QED BY <1>2, <2>1, <2>4, <2>5, CmdStartIs
<1>3. ASSUME Start \/ GemmWait \/ NpuReset \/ Report \/ Exit \/ \E polls \in Polls : WaitDone(polls)
      PROVE  pc' # "start" /\ BssSteady
  BY <1>3 DEF Start, GemmWait, NpuReset, Report, Exit, WaitDone, EarlierCall, At, BssSteady, IInv, TypeOK
<1>4. ~(\E addr \in DescAddrs : NpuStart(addr))
  BY DEF LinkedApart
<1>5. CASE UNCHANGED vars
  BY <1>5 DEF vars, BssSteady
<1>. QED BY <1>1, <1>2, <1>3, <1>4, <1>5, StepIs

\* Such a program never writes that word in a call of the driver, so that what
\* it reports needs no further hypothesis.
THEOREM LinkedProgramsReport ==
    ASSUME LinkedApart
    PROVE  Spec => []HaltReportsStatus
<1>. DEFINE OnlyGemms == pc # "start"
<1>1. Init => OnlyGemms
  BY DEF Init
<1>2. IInv /\ OnlyGemms /\ [Next]_vars => OnlyGemms' /\ [BssSteady]_vars
  BY ApartSteps
<1>. HIDE DEF OnlyGemms
<1>3. Spec => BssKept
  <2>1. Spec => []OnlyGemms
    BY <1>1, <1>2, Invariance, PTL DEF Spec
  <2>. QED BY <2>1, <1>2, Invariance, PTL DEF Spec, BssKept
<1>. QED BY <1>3, HaltedProgramsReport, PTL
-----------------------------------------------------------------------------
(***************************************************************************)
(* TensorC: what a name means in the C text is what sema.py took it for,   *)
(* for every program, except where one of five features of the program     *)
(* says otherwise.                                                         *)
(***************************************************************************)

SymbolType == [type : {"scalar", "tensor"}, shape : Seq(Int), id : Seq(Int)]
Table == UNION {[D -> SymbolType] : D \in SUBSET Names}
ScopeType ==
    [symbols : Table, block : Table, opens : {"program", "function", "block", "for"},
     name : Names \cup {None}]

\* A stack of scopes: one program, with a function at most just above it; each
\* scope has all symbols of those below, and those of its own C block.
Nested(stack) ==
    /\ stack \in Seq(ScopeType) /\ Len(stack) >= 1
    /\ \A i \in 1..Len(stack) :
          /\ stack[i].opens = "program" <=> i = 1
          /\ stack[i].opens = "function" => i = 2 /\ stack[i].name \in Names
          /\ \A n \in DOMAIN stack[i].block :
                n \in DOMAIN stack[i].symbols /\ stack[i].symbols[n] = stack[i].block[n]
    /\ \A i, j \in 1..Len(stack) : i <= j => \A n \in DOMAIN stack[i].symbols :
          n \in DOMAIN stack[j].symbols /\ stack[j].symbols[n] = stack[i].symbols[n]
    /\ \A n \in DOMAIN stack[1].block : stack[1].block[n].type = "scalar"

\* Every symbol is declared by a C block, or it is a tensor of the file.
Homes(stack, tensors) ==
    /\ tensors \in Table
    /\ \A i \in 1..Len(stack) : \A n \in DOMAIN stack[i].symbols :
          \/ \E j \in 1..i : n \in DOMAIN stack[j].block
          \/ n \in DOMAIN tensors /\ tensors[n] = stack[i].symbols[n]
    /\ \A n \in DOMAIN tensors :
          /\ n \in DOMAIN stack[1].symbols /\ stack[1].symbols[n] = tensors[n]
          /\ tensors[n].type = "tensor"

\* What a symbol is, a tensor or not.
Kind(symbol) == symbol.type

Good(stack, tensors) == Nested(stack) /\ Homes(stack, tensors)

SymbolsOf(stack) == stack[Len(stack)].symbols

Opened(stack) == Len(stack) > 1 /\ stack[2].opens = "function"

\* The functions printed so far, the last one open if one is.
Printed ==
    /\ DOMAIN functions \subseteq Names
    /\ emitted \in Seq(DOMAIN functions)
    /\ \A i, j \in 1..Len(emitted) : emitted[i] = emitted[j] => i = j
    /\ InFunction => Len(emitted) >= 1 /\ emitted[Len(emitted)] = scopes[2].name

\* A name left to the file: what it means is there, or a gap is on record.
Pending ==
    \A u \in outer :
        /\ u.means = Function \/ u.means.type \in {"scalar", "tensor"}
        /\ u.means.type = "tensor" => u.name \in DOMAIN file /\ file[u.name] = u.means
        /\ u.means.type = "scalar" => "outer scalar" \in gaps
        /\ u.means = Function =>
              /\ u.name \in DOMAIN functions
              /\ \/ u.from = None \/ "later function" \in gaps
                 \/ \E i, j \in 1..Len(emitted) : i <= j /\ emitted[i] = u.name /\ emitted[j] = u.from

\* What is wrong so far is of a program with a gap.
Excused == gaps = {} => flaws = {}

TCIInv ==
    /\ Good(scopes, file) /\ size \in Nat /\ Printed /\ Pending /\ Excused /\ NoSilentCapture
-----------------------------------------------------------------------------
(* Tables and stacks. *)

\* What a table has.
LEMMA TableHas ==
    ASSUME NEW f \in Table
    PROVE  DOMAIN f \subseteq Names /\ \A n \in DOMAIN f : f[n] \in SymbolType
BY DEF Table

\* A function on names to symbols is a table.
LEMMA TableIs ==
    ASSUME NEW D \in SUBSET Names, NEW f \in [D -> SymbolType]
    PROVE  f \in Table
BY DEF Table

\* A declaration is one entry more.
LEMMA WithIs ==
    \A f, n, v : /\ DOMAIN With(f, n, v) = DOMAIN f \cup {n}
                 /\ With(f, n, v)[n] = v
                 /\ \A m \in DOMAIN f : m # n => With(f, n, v)[m] = f[m]
BY DEF With, Over

LEMMA WithTable ==
    ASSUME NEW f \in Table, NEW n \in Names, NEW v \in SymbolType
    PROVE  With(f, n, v) \in Table
<1>1. With(f, n, v) = [m \in DOMAIN f \cup {n} |-> IF m = n THEN v ELSE f[m]]
  BY DEF With, Over
<1>2. DOMAIN f \subseteq Names /\ \A m \in DOMAIN f : f[m] \in SymbolType
  BY TableHas
<1>. DEFINE D == DOMAIN f \cup {n}
<1>3. D \in SUBSET Names /\ With(f, n, v) \in [D -> SymbolType]
  BY <1>1, <1>2
<1>. QED BY <1>3, TableIs

\* The symbols in a scope are not Missing and no functions.
LEMMA SymbolIs ==
    ASSUME NEW s \in SymbolType
    PROVE  s # Missing /\ s # Function /\ s.type \in {"scalar", "tensor"}
<1>1. s.type \in {"scalar", "tensor"}
  BY DEF SymbolType
<1>2. Missing.type = "none" /\ Function.type = "function"
  BY DEF Missing, Function
<1>. QED BY <1>1, <1>2

\* The fields of a scope.
LEMMA ScopeHas ==
    ASSUME NEW stack, Nested(stack), NEW i \in 1..Len(stack)
    PROVE  /\ stack[i] \in ScopeType
           /\ stack[i].symbols \in Table /\ stack[i].block \in Table
           /\ \A n \in DOMAIN stack[i].symbols : stack[i].symbols[n] \in SymbolType /\ n \in Names
           /\ \A n \in DOMAIN stack[i].block : stack[i].block[n] \in SymbolType /\ n \in Names
<1>1. stack[i] \in ScopeType
  BY DEF Nested
<1>2. stack[i].symbols \in Table /\ stack[i].block \in Table
  BY <1>1 DEF ScopeType
<1>. QED BY <1>1, <1>2, TableHas

\* What a declaration leaves of the stack.
LEMMA DeclaredIs ==
    ASSUME NEW stack \in Seq(ScopeType), Len(stack) >= 1, NEW n \in Names, NEW s \in SymbolType,
           NEW inBlock \in BOOLEAN
    PROVE  LET t == Declared(stack, n, s, inBlock)
               top == stack[Len(stack)]
           IN  /\ t \in Seq(ScopeType) /\ Len(t) = Len(stack)
               /\ \A i \in 1..Len(stack) : i # Len(stack) => t[i] = stack[i]
               /\ t[Len(stack)] = [symbols |-> With(top.symbols, n, s),
                                   block |-> IF inBlock THEN With(top.block, n, s) ELSE top.block,
                                   opens |-> top.opens, name |-> top.name]
<1>. DEFINE k == Len(stack)
            top == stack[k]
            new == [symbols |-> With(top.symbols, n, s),
                    block |-> IF inBlock THEN With(top.block, n, s) ELSE top.block,
                    opens |-> top.opens, name |-> top.name]
            t == Declared(stack, n, s, inBlock)
<1>1. k \in 1..k /\ top \in ScopeType /\ DOMAIN stack = 1..k
  OBVIOUS
<1>2. top.symbols \in Table /\ top.block \in Table
  BY <1>1 DEF ScopeType
<1>3. With(top.symbols, n, s) \in Table /\ With(top.block, n, s) \in Table
  BY <1>2, WithTable
<1>4. new \in ScopeType
  BY <1>1, <1>2, <1>3 DEF ScopeType
<1>5. t = [stack EXCEPT ![k] = new]
  <2>1. top = [symbols |-> top.symbols, block |-> top.block, opens |-> top.opens, name |-> top.name]
    BY <1>1 DEF ScopeType
  <2>. DEFINE one == [stack EXCEPT ![k].symbols = With(@, n, s)]
  <2>2. one = [stack EXCEPT ![k] = [top EXCEPT !.symbols = With(top.symbols, n, s)]]
    OBVIOUS
  <2>3. one[k] = [symbols |-> With(top.symbols, n, s), block |-> top.block, opens |-> top.opens,
                  name |-> top.name]
    BY <1>1, <2>1, <2>2
  <2>4. t = [one EXCEPT ![k].block = IF inBlock THEN With(@, n, s) ELSE @]
    BY DEF Declared
  <2>. HIDE DEF one
  <2>5. DOMAIN one = 1..k /\ \A i \in 1..k : i # k => one[i] = stack[i]
    BY <1>1, <2>2
  <2>6. t = [one EXCEPT ![k] = [one[k] EXCEPT !.block = IF inBlock THEN With(one[k].block, n, s) ELSE one[k].block]]
    BY <2>4
  <2>7. [one[k] EXCEPT !.block = IF inBlock THEN With(one[k].block, n, s) ELSE one[k].block] = new
    BY <2>3
  <2>8. t = [one EXCEPT ![k] = new]
    BY <2>6, <2>7
  <2>. HIDE DEF new, t
  <2>. QED BY <1>1, <2>2, <2>5, <2>8
<1>. HIDE DEF new, t
<1>. QED BY <1>1, <1>4, <1>5 DEF new, t
-----------------------------------------------------------------------------
(* What the statements do to the stack. *)

\* A scope with the symbols of the one around it and those of its own block.
LEMMA Pushed ==
    ASSUME NEW stack, NEW tensors, Good(stack, tensors), NEW scope \in ScopeType,
           scope.opens # "program",
           scope.opens = "function" => Len(stack) = 1 /\ scope.name \in Names,
           \A n \in DOMAIN scope.block : n \in DOMAIN scope.symbols /\ scope.symbols[n] = scope.block[n],
           \A n \in DOMAIN SymbolsOf(stack) :
              n \in DOMAIN scope.symbols /\ scope.symbols[n] = SymbolsOf(stack)[n],
           \A n \in DOMAIN scope.symbols : n \in DOMAIN scope.block \/ n \in DOMAIN SymbolsOf(stack)
    PROVE  Good(Append(stack, scope), tensors) /\ SymbolsOf(Append(stack, scope)) = scope.symbols
<1>. DEFINE k == Len(stack)
            t == Append(stack, scope)
<1>1. stack \in Seq(ScopeType) /\ k \in Nat /\ k >= 1
  BY DEF Good, Nested
<1>2. /\ t \in Seq(ScopeType) /\ Len(t) = k + 1 /\ t[k + 1] = scope
      /\ \A i \in 1..k : t[i] = stack[i]
  BY <1>1
<1>. HIDE DEF t
<1>3. Nested(t)
  <2>1. \A i \in 1..k : /\ t[i].opens = "program" <=> i = 1
                        /\ t[i].opens = "function" => i = 2 /\ t[i].name \in Names
                        /\ \A n \in DOMAIN t[i].block : n \in DOMAIN t[i].symbols /\ t[i].symbols[n] = t[i].block[n]
    BY <1>2 DEF Good, Nested
  <2>2. /\ t[k + 1].opens = "program" <=> k + 1 = 1
        /\ t[k + 1].opens = "function" => k + 1 = 2 /\ t[k + 1].name \in Names
        /\ \A n \in DOMAIN t[k + 1].block :
              n \in DOMAIN t[k + 1].symbols /\ t[k + 1].symbols[n] = t[k + 1].block[n]
    BY <1>1, <1>2
  <2>3. ASSUME NEW i \in 1..Len(t), NEW j \in 1..Len(t), i <= j, NEW n \in DOMAIN t[i].symbols
        PROVE  n \in DOMAIN t[j].symbols /\ t[j].symbols[n] = t[i].symbols[n]
    <3>1. CASE j \in 1..k
      BY <3>1, <2>3, <1>1, <1>2 DEF Good, Nested
    <3>2. CASE j = k + 1 /\ i = k + 1
      BY <3>2
    <3>3. CASE j = k + 1 /\ i \in 1..k
      <4>1. n \in DOMAIN stack[k].symbols /\ stack[k].symbols[n] = stack[i].symbols[n]
        BY <3>3, <2>3, <1>1, <1>2 DEF Good, Nested
      <4>. QED BY <4>1, <3>3, <1>2 DEF SymbolsOf
    <3>. QED BY <3>1, <3>2, <3>3, <1>1, <1>2
  <2>4. \A n \in DOMAIN t[1].block : t[1].block[n].type = "scalar"
    BY <1>1, <1>2 DEF Good, Nested
  <2>5. \A i \in 1..Len(t) : i \in 1..k \/ i = k + 1
    BY <1>1, <1>2
  <2>. QED BY <2>1, <2>2, <2>3, <2>4, <2>5, <1>1, <1>2 DEF Nested
<1>4. Homes(t, tensors)
  <2>1. ASSUME NEW i \in 1..Len(t), NEW n \in DOMAIN t[i].symbols
        PROVE  \/ \E j \in 1..i : n \in DOMAIN t[j].block
               \/ n \in DOMAIN tensors /\ tensors[n] = t[i].symbols[n]
    <3>1. CASE i \in 1..k
      <4>1. \A j \in 1..i : j \in 1..k /\ t[j] = stack[j]
        BY <3>1, <1>1, <1>2
      <4>. QED BY <4>1, <3>1, <2>1, <1>2 DEF Good, Homes
    <3>2. CASE i = k + 1
      <4>1. CASE n \in DOMAIN scope.block
        BY <4>1, <3>2, <1>1, <1>2
      <4>2. CASE n \in DOMAIN SymbolsOf(stack)
        <5>1. k \in 1..k /\ n \in DOMAIN stack[k].symbols /\ stack[k].symbols[n] = scope.symbols[n]
          BY <4>2, <1>1 DEF SymbolsOf
        <5>2. \/ \E j \in 1..k : n \in DOMAIN stack[j].block
              \/ n \in DOMAIN tensors /\ tensors[n] = stack[k].symbols[n]
          BY <5>1 DEF Good, Homes
        <5>3. \A j \in 1..k : j \in 1..i /\ t[j] = stack[j]
          BY <3>2, <1>1, <1>2
        <5>. QED BY <5>1, <5>2, <5>3, <3>2, <1>2
      <4>. QED BY <4>1, <4>2, <3>2, <2>1, <1>2
    <3>. QED BY <3>1, <3>2, <1>1, <1>2
  <2>. QED BY <2>1, <1>1, <1>2 DEF Good, Homes
<1>. QED BY <1>1, <1>2, <1>3, <1>4 DEF Good, SymbolsOf, t

\* The end of the innermost scope.
LEMMA Popped ==
    ASSUME NEW stack, NEW tensors, Good(stack, tensors), Len(stack) > 1
    PROVE  LET rest == SubSeq(stack, 1, Len(stack) - 1)
           IN  /\ Good(rest, tensors) /\ Len(rest) = Len(stack) - 1
               /\ \A i \in 1..Len(rest) : rest[i] = stack[i]
<1>. DEFINE k == Len(stack) - 1
            rest == SubSeq(stack, 1, k)
<1>1. stack \in Seq(ScopeType) /\ k \in Nat /\ k >= 1 /\ k <= Len(stack)
  BY DEF Good, Nested
<1>2. rest \in Seq(ScopeType) /\ Len(rest) = k /\ \A i \in 1..k : rest[i] = stack[i]
  BY <1>1
<1>. HIDE DEF rest
<1>3. \A i \in 1..k : i \in 1..Len(stack)
  BY <1>1
<1>4. Nested(rest)
  BY <1>1, <1>2, <1>3 DEF Good, Nested
<1>5. Homes(rest, tensors)
  <2>1. \A i \in 1..k : \A j \in 1..i : j \in 1..k /\ rest[j] = stack[j]
    BY <1>1, <1>2
  <2>2. ASSUME NEW i \in 1..k, NEW n \in DOMAIN rest[i].symbols
        PROVE  \/ \E j \in 1..i : n \in DOMAIN rest[j].block
               \/ n \in DOMAIN tensors /\ tensors[n] = rest[i].symbols[n]
    <3>1. i \in 1..Len(stack) /\ rest[i] = stack[i] /\ n \in DOMAIN stack[i].symbols
      BY <2>2, <1>2, <1>3
    <3>2. \/ \E j \in 1..i : n \in DOMAIN stack[j].block
          \/ n \in DOMAIN tensors /\ tensors[n] = stack[i].symbols[n]
      BY <3>1 DEF Good, Homes
    <3>. QED BY <3>1, <3>2, <2>1
  <2>. QED BY <2>2, <1>1, <1>2 DEF Good, Homes
<1>. QED BY <1>2, <1>4, <1>5 DEF Good, rest

\* A name no scope has yet, declared in the innermost block.
LEMMA DeclaredInBlock ==
    ASSUME NEW stack, NEW tensors, Good(stack, tensors), NEW n \in Names, NEW s \in SymbolType,
           n \notin DOMAIN SymbolsOf(stack), Len(stack) = 1 => Kind(s) = "scalar"
    PROVE  LET t == Declared(stack, n, s, TRUE)
           IN  /\ Good(t, tensors) /\ Len(t) = Len(stack)
               /\ \A i \in 1..Len(stack) : i # Len(stack) => t[i] = stack[i]
               /\ \A i \in 1..Len(stack) : t[i].opens = stack[i].opens /\ t[i].name = stack[i].name
               /\ SymbolsOf(t) = With(SymbolsOf(stack), n, s)
<1>. DEFINE k == Len(stack)
            t == Declared(stack, n, s, TRUE)
<1>1. stack \in Seq(ScopeType) /\ k \in Nat /\ k >= 1 /\ k \in 1..k
  BY DEF Good, Nested
<1>2. /\ t \in Seq(ScopeType) /\ Len(t) = k
      /\ \A i \in 1..k : i # k => t[i] = stack[i]
      /\ t[k].symbols = With(stack[k].symbols, n, s) /\ t[k].block = With(stack[k].block, n, s)
      /\ t[k].opens = stack[k].opens /\ t[k].name = stack[k].name
  <2>. DEFINE top == stack[k]
              new == [symbols |-> With(top.symbols, n, s), block |-> With(top.block, n, s),
                      opens |-> top.opens, name |-> top.name]
  <2>1. TRUE \in BOOLEAN
    OBVIOUS
  <2>2. /\ t \in Seq(ScopeType) /\ Len(t) = k
        /\ \A i \in 1..k : i # k => t[i] = stack[i]
    BY <1>1, <2>1, DeclaredIs
  <2>3. t[k] = new
    BY <1>1, <2>1, DeclaredIs
  <2>4. /\ t[k].symbols = With(top.symbols, n, s) /\ t[k].block = With(top.block, n, s)
        /\ t[k].opens = top.opens /\ t[k].name = top.name
    <3>. HIDE DEF t, top
    <3>. QED BY <2>3
  <2>. QED BY <2>2, <2>4
<1>. HIDE DEF t
<1>3. /\ DOMAIN t[k].symbols = DOMAIN stack[k].symbols \cup {n} /\ t[k].symbols[n] = s
      /\ \A m \in DOMAIN stack[k].symbols : t[k].symbols[m] = stack[k].symbols[m]
      /\ DOMAIN t[k].block = DOMAIN stack[k].block \cup {n} /\ t[k].block[n] = s
      /\ \A m \in DOMAIN stack[k].block : t[k].block[m] = stack[k].block[m]
  <2>1. \A m \in DOMAIN stack[k].block : m \in DOMAIN stack[k].symbols
    BY <1>1 DEF Good, Nested
  <2>2. With(stack[k].symbols, n, s)[n] = s
    BY WithIs
  <2>2a. DOMAIN With(stack[k].symbols, n, s) = DOMAIN stack[k].symbols \cup {n}
    BY WithIs
  <2>2b. \A m \in DOMAIN stack[k].symbols : m # n => With(stack[k].symbols, n, s)[m] = stack[k].symbols[m]
    BY WithIs
  <2>3. With(stack[k].block, n, s)[n] = s
    BY WithIs
  <2>3a. DOMAIN With(stack[k].block, n, s) = DOMAIN stack[k].block \cup {n}
    BY WithIs
  <2>3b. \A m \in DOMAIN stack[k].block : m # n => With(stack[k].block, n, s)[m] = stack[k].block[m]
    BY WithIs
  <2>4. n \notin DOMAIN stack[k].symbols
    BY DEF SymbolsOf
  <2>. QED BY <2>1, <2>2, <2>2a, <2>2b, <2>3, <2>3a, <2>3b, <2>4, <1>2
<1>4. \A i \in 1..k : /\ DOMAIN t[i].block \subseteq DOMAIN stack[i].block \cup {n}
                      /\ DOMAIN stack[i].block \subseteq DOMAIN t[i].block
                      /\ DOMAIN stack[i].symbols \subseteq DOMAIN t[i].symbols
                      /\ \A m \in DOMAIN stack[i].symbols : t[i].symbols[m] = stack[i].symbols[m]
                      /\ t[i].opens = stack[i].opens /\ t[i].name = stack[i].name
  BY <1>2, <1>3
<1>5. \A i \in 1..k : n \notin DOMAIN stack[i].symbols
  BY <1>1 DEF Good, Nested, SymbolsOf
<1>6. Nested(t)
  <2>1. \A i \in 1..k : \A m \in DOMAIN t[i].block : m \in DOMAIN t[i].symbols /\ t[i].symbols[m] = t[i].block[m]
    <3>1. TAKE i \in 1..k
    <3>2. CASE i = k
      BY <3>2, <1>3, <1>1 DEF Good, Nested
    <3>3. CASE i # k
      BY <3>3, <1>2 DEF Good, Nested
    <3>. QED BY <3>2, <3>3
  <2>2. ASSUME NEW i \in 1..k, NEW j \in 1..k, i <= j, NEW m \in DOMAIN t[i].symbols
        PROVE  m \in DOMAIN t[j].symbols /\ t[j].symbols[m] = t[i].symbols[m]
    <3>1. CASE i = k
      BY <3>1, <2>2, <1>1
    <3>2. CASE i # k
      <4>1. m \in DOMAIN stack[i].symbols /\ t[i] = stack[i]
        BY <3>2, <1>2
      <4>2. m \in DOMAIN stack[j].symbols /\ stack[j].symbols[m] = stack[i].symbols[m]
        BY <4>1, <2>2 DEF Good, Nested
      <4>. QED BY <4>1, <4>2, <1>4
    <3>. QED BY <3>1, <3>2
  <2>3. \A m \in DOMAIN t[1].block : t[1].block[m].type = "scalar"
    <3>1. CASE k = 1
      BY <3>1, <1>3 DEF Good, Nested, Kind
    <3>2. CASE k # 1
      BY <3>2, <1>1, <1>2 DEF Good, Nested
    <3>. QED BY <3>1, <3>2
  <2>4. \A i \in 1..k : /\ t[i].opens = "program" <=> i = 1
                        /\ t[i].opens = "function" => i = 2 /\ t[i].name \in Names
    BY <1>4 DEF Good, Nested
  <2>. QED BY <2>1, <2>2, <2>3, <2>4, <1>1, <1>2 DEF Nested
<1>7. Homes(t, tensors)
  <2>1. ASSUME NEW i \in 1..k, NEW m \in DOMAIN t[i].symbols
        PROVE  \/ \E j \in 1..i : m \in DOMAIN t[j].block
               \/ m \in DOMAIN tensors /\ tensors[m] = t[i].symbols[m]
    <3>1. CASE m \in DOMAIN stack[i].symbols
      <4>1. \/ \E j \in 1..i : m \in DOMAIN stack[j].block
            \/ m \in DOMAIN tensors /\ tensors[m] = stack[i].symbols[m]
        BY <3>1 DEF Good, Homes
      <4>2. \A j \in 1..i : j \in 1..k
        BY <1>1
      <4>. QED BY <4>1, <4>2, <3>1, <1>4
    <3>2. CASE m \notin DOMAIN stack[i].symbols
      <4>1. i = k /\ m = n
        BY <3>2, <2>1, <1>2, <1>3
      <4>. QED BY <4>1, <1>1, <1>3
    <3>. QED BY <3>1, <3>2
  <2>2. \A m \in DOMAIN tensors : m \in DOMAIN t[1].symbols /\ t[1].symbols[m] = tensors[m] /\ tensors[m].type = "tensor"
    BY <1>1, <1>4 DEF Good, Homes
  <2>. QED BY <2>1, <2>2, <1>2 DEF Good, Homes
<1>. QED BY <1>1, <1>2, <1>4, <1>6, <1>7 DEF Good, SymbolsOf, t

\* A tensor of the top level, declared in the file.
LEMMA DeclaredInFile ==
    ASSUME NEW stack, NEW tensors, Good(stack, tensors), NEW n \in Names, NEW s \in SymbolType,
           n \notin DOMAIN SymbolsOf(stack), Len(stack) = 1, Kind(s) = "tensor"
    PROVE  /\ Good(Declared(stack, n, s, FALSE), With(tensors, n, s))
           /\ Len(Declared(stack, n, s, FALSE)) = 1
<1>. DEFINE t == Declared(stack, n, s, FALSE)
            all == With(tensors, n, s)
<1>1. stack \in Seq(ScopeType) /\ 1 \in 1..Len(stack) /\ 1..Len(stack) = {1}
  BY DEF Good, Nested
<1>2. /\ t \in Seq(ScopeType) /\ Len(t) = 1
      /\ t[1].symbols = With(stack[1].symbols, n, s) /\ t[1].block = stack[1].block
      /\ t[1].opens = stack[1].opens /\ t[1].name = stack[1].name
  <2>. DEFINE top == stack[1]
              new == [symbols |-> With(top.symbols, n, s), block |-> top.block,
                      opens |-> top.opens, name |-> top.name]
  <2>1. FALSE \in BOOLEAN
    OBVIOUS
  <2>2. t \in Seq(ScopeType) /\ Len(t) = Len(stack)
    <3>1. Len(stack) >= 1
      OBVIOUS
    <3>2. t \in Seq(ScopeType)
      BY <1>1, <2>1, <3>1, DeclaredIs
    <3>3. Len(t) = Len(stack)
      BY <1>1, <2>1, <3>1, DeclaredIs
    <3>. QED BY <3>2, <3>3
  <2>3. t[Len(stack)] = new
    <3>1. top = stack[Len(stack)]
      OBVIOUS
    <3>. HIDE DEF top
    <3>2. Len(stack) >= 1
      OBVIOUS
    <3>. QED BY <1>1, <2>1, <3>1, <3>2, DeclaredIs
  <2>4. /\ t[1].symbols = With(top.symbols, n, s) /\ t[1].block = top.block
        /\ t[1].opens = top.opens /\ t[1].name = top.name
    <3>. HIDE DEF t, top
    <3>. QED BY <2>3
  <2>. QED BY <2>2, <2>4
<1>. HIDE DEF t
<1>3. /\ n \notin DOMAIN stack[1].symbols
      /\ DOMAIN t[1].symbols = DOMAIN stack[1].symbols \cup {n} /\ t[1].symbols[n] = s
      /\ \A m \in DOMAIN stack[1].symbols : t[1].symbols[m] = stack[1].symbols[m]
  <2>1. With(stack[1].symbols, n, s)[n] = s
    BY WithIs
  <2>1a. DOMAIN With(stack[1].symbols, n, s) = DOMAIN stack[1].symbols \cup {n}
    BY WithIs
  <2>1b. \A m \in DOMAIN stack[1].symbols : m # n => With(stack[1].symbols, n, s)[m] = stack[1].symbols[m]
    BY WithIs
  <2>2. n \notin DOMAIN stack[1].symbols
    BY DEF SymbolsOf
  <2>. QED BY <2>1, <2>1a, <2>1b, <2>2, <1>2
<1>4. tensors \in Table /\ n \notin DOMAIN tensors
  BY <1>3 DEF Good, Homes
<1>5. /\ all \in Table /\ DOMAIN all = DOMAIN tensors \cup {n} /\ all[n] = s
      /\ \A m \in DOMAIN tensors : all[m] = tensors[m]
  <2>1. all \in Table
    BY <1>4, WithTable
  <2>2. DOMAIN all = DOMAIN tensors \cup {n}
    BY WithIs
  <2>3. all[n] = s
    BY WithIs
  <2>4. \A m \in DOMAIN tensors : m # n => all[m] = tensors[m]
    BY WithIs
  <2>. QED BY <2>1, <2>2, <2>3, <2>4, <1>4
<1>. HIDE DEF all
<1>6. Nested(t)
  <2>1. 1..Len(t) = {1}
    BY <1>2
  <2>2. /\ t[1].opens = "program" /\ t[1].opens # "function"
        /\ \A m \in DOMAIN t[1].block : m \in DOMAIN t[1].symbols /\ t[1].symbols[m] = t[1].block[m]
        /\ \A m \in DOMAIN t[1].block : t[1].block[m].type = "scalar"
    BY <1>1, <1>2, <1>3 DEF Good, Nested
  <2>. QED BY <2>1, <2>2, <1>2 DEF Nested
<1>7. Homes(t, all)
  <2>1. 1..Len(t) = {1} /\ 1..1 = {1}
    BY <1>2
  <2>2. ASSUME NEW m \in DOMAIN t[1].symbols
        PROVE  \/ m \in DOMAIN t[1].block
               \/ m \in DOMAIN all /\ all[m] = t[1].symbols[m]
    <3>1. CASE m = n
      BY <3>1, <1>3, <1>5
    <3>2. CASE m # n
      <4>1. m \in DOMAIN stack[1].symbols
        BY <3>2, <1>3
      <4>2. \/ \E j \in 1..1 : m \in DOMAIN stack[j].block
            \/ m \in DOMAIN tensors /\ tensors[m] = stack[1].symbols[m]
        BY <4>1, <1>1 DEF Good, Homes
      <4>. QED BY <4>1, <4>2, <2>1, <1>2, <1>3, <1>5
    <3>. QED BY <3>1, <3>2
  <2>3. \A m \in DOMAIN all : m \in DOMAIN t[1].symbols /\ t[1].symbols[m] = all[m] /\ all[m].type = "tensor"
    BY <1>3, <1>5 DEF Good, Homes, Kind
  <2>. QED BY <2>1, <2>2, <2>3, <1>5 DEF Homes
<1>. QED BY <1>2, <1>6, <1>7 DEF Good, t, all
-----------------------------------------------------------------------------
(* What a name finds. *)

\* A set of indices has a last one.
LEMMA LastIndex ==
    ASSUME NEW m \in Nat, NEW S, S \subseteq 1..m, S # {}
    PROVE  \E i \in S : \A j \in S : j <= i
<1>. DEFINE T == {m - i : i \in S}
            R == OpToRel(<, Nat)
<1>1. T \subseteq Nat /\ T # {}
  <2>1. \A i \in S : i \in 1..m /\ m - i \in Nat
    OBVIOUS
  <2>. QED BY <2>1
<1>2. IsWellFoundedOn(R, Nat)
  BY NatLessThanWellFounded
<1>3. PICK x \in T : \A y \in T : ~(<<y, x>> \in R)
  <2>. HIDE DEF T, R
  <2>. QED BY <1>1, <1>2, WFMin
<1>4. PICK i \in S : x = m - i
  BY DEF T
<1>5. ASSUME NEW j \in S
      PROVE  j <= i
  <2>1. m - j \in T /\ m - j \in Nat /\ x \in Nat
    BY <1>1
  <2>2. ~(m - j < x)
    BY <1>3, <2>1 DEF OpToRel
  <2>. QED BY <2>2, <1>4, <2>1
<1>. QED BY <1>5

\* What the blocks of a function have for a name, one of them has.
LEMMA InBlocksIs ==
    ASSUME NEW blocks, NEW m \in Nat, DOMAIN blocks = 1..m, NEW n
    PROVE  \/ InBlocks(blocks, n) = Missing /\ \A i \in 1..m : n \notin DOMAIN blocks[i]
           \/ \E i \in 1..m : n \in DOMAIN blocks[i] /\ InBlocks(blocks, n) = blocks[i][n]
<1>. DEFINE having == {i \in DOMAIN blocks : n \in DOMAIN blocks[i]}
            last == CHOOSE i \in having : \A j \in having : j <= i
<1>1. CASE having = {}
  BY <1>1 DEF InBlocks
<1>2. CASE having # {}
  <2>1. having \subseteq 1..m
    OBVIOUS
  <2>2. \E i \in having : \A j \in having : j <= i
    <3>. HIDE DEF having
    <3>. QED BY <1>2, <2>1, LastIndex
  <2>3. last \in having
    <3>. HIDE DEF having
    <3>. QED BY <2>2
  <2>4. InBlocks(blocks, n) = blocks[last][n]
    BY <1>2 DEF InBlocks
  <2>. HIDE DEF last
  <2>. QED BY <2>3, <2>4
<1>. QED BY <1>1, <1>2

\* A block around a name has it for the symbol sema has, and what no block has
\* is a tensor of the file, or a scalar of the top level in a function.
LEMMA Lookup ==
    ASSUME NEW stack, NEW tensors, Good(stack, tensors), NEW n
    PROVE  LET found == InBlocks(CBlocks(stack), n)
               symbols == SymbolsOf(stack)
           IN  /\ found # Missing => n \in DOMAIN symbols /\ found = symbols[n]
               /\ found = Missing /\ n \in DOMAIN symbols =>
                     \/ n \in DOMAIN tensors /\ tensors[n] = symbols[n]
                     \/ /\ Opened(stack) /\ n \in DOMAIN stack[1].symbols
                        /\ symbols[n] = stack[1].symbols[n] /\ Kind(symbols[n]) = "scalar"
<1>. DEFINE k == Len(stack)
            first == IF Opened(stack) THEN 2 ELSE 1
            m == k - first + 1
            blocks == CBlocks(stack)
            found == InBlocks(blocks, n)
            symbols == SymbolsOf(stack)
<1>1. stack \in Seq(ScopeType) /\ k \in Nat /\ k >= 1
  BY DEF Good, Nested
<1>2. m \in Nat /\ first \in {1, 2} /\ first <= k
  BY <1>1 DEF Opened
<1>3. DOMAIN blocks = 1..m /\ \A i \in 1..m : blocks[i] = stack[i + first - 1].block
  BY DEF CBlocks, Opened
<1>. HIDE DEF first, m, blocks, found
<1>4. \A i \in 1..m : i + first - 1 \in 1..k
  BY <1>1, <1>2 DEF m
<1>5. ASSUME NEW i \in 1..k, n \in DOMAIN stack[i].block
      PROVE  n \in DOMAIN symbols /\ symbols[n] = stack[i].block[n]
  <2>1. n \in DOMAIN stack[i].symbols /\ stack[i].symbols[n] = stack[i].block[n]
    BY <1>5 DEF Good, Nested
  <2>2. k \in 1..k /\ i <= k
    BY <1>1
  <2>3. n \in DOMAIN stack[k].symbols /\ stack[k].symbols[n] = stack[i].symbols[n]
    BY <2>1, <2>2 DEF Good, Nested
  <2>. QED BY <2>1, <2>3 DEF SymbolsOf
<1>6. CASE \E i \in 1..m : n \in DOMAIN blocks[i] /\ found = blocks[i][n]
  <2>1. PICK i \in 1..m : n \in DOMAIN blocks[i] /\ found = blocks[i][n]
    BY <1>6
  <2>2. n \in DOMAIN symbols /\ found = symbols[n]
    BY <2>1, <1>3, <1>4, <1>5
  <2>3. symbols[n] # Missing
    <3>1. k \in 1..k
      BY <1>1
    <3>2. symbols[n] \in SymbolType
      BY <2>2, <3>1, ScopeHas DEF SymbolsOf, Good
    <3>. QED BY <3>2, SymbolIs
  <2>. QED BY <2>2, <2>3 DEF found, blocks
<1>7. CASE found = Missing /\ \A i \in 1..m : n \notin DOMAIN blocks[i]
  <2>1. ASSUME n \in DOMAIN symbols, ~(n \in DOMAIN tensors /\ tensors[n] = symbols[n])
        PROVE  /\ Opened(stack) /\ n \in DOMAIN stack[1].symbols
               /\ symbols[n] = stack[1].symbols[n] /\ Kind(symbols[n]) = "scalar"
    <3>1. k \in 1..k
      BY <1>1
    <3>2. PICK j \in 1..k : n \in DOMAIN stack[j].block
      BY <2>1, <3>1 DEF Good, Homes, SymbolsOf
    <3>3. j < first
      <4>1. SUFFICES ASSUME j >= first PROVE FALSE
        BY <1>1, <1>2, <3>2
      <4>2. j - first + 1 \in 1..m /\ (j - first + 1) + first - 1 = j
        BY <4>1, <1>1, <1>2 DEF m
      <4>. QED BY <4>2, <3>2, <1>3, <1>7
    <3>4. j = 1 /\ Opened(stack)
      BY <3>3, <1>2 DEF first
    <3>5. n \in DOMAIN symbols /\ symbols[n] = stack[1].block[n]
      BY <3>2, <3>4, <1>5
    <3>6. n \in DOMAIN stack[1].symbols /\ stack[1].symbols[n] = stack[1].block[n]
      BY <3>2, <3>4 DEF Good, Nested
    <3>7. stack[1].block[n].type = "scalar"
      BY <3>2, <3>4 DEF Good, Nested
    <3>8. Kind(symbols[n]) = "scalar"
      BY <3>5, <3>7 DEF Kind
    <3>. QED BY <3>4, <3>5, <3>6, <3>8
  <2>. QED BY <2>1, <1>7 DEF found, blocks
<1>8. \/ found = Missing /\ \A i \in 1..m : n \notin DOMAIN blocks[i]
      \/ \E i \in 1..m : n \in DOMAIN blocks[i] /\ found = blocks[i][n]
  BY <1>2, <1>3, InBlocksIs DEF found
<1>. QED BY <1>6, <1>7, <1>8

\* A use of a name: of a symbol there is, or a call of a function there is.
Sound(use, symbols) ==
    \/ use.name \in DOMAIN symbols /\ use.means = symbols[use.name]
    \/ use.name \in DOMAIN functions /\ use.means = Function

\* What sema accepts of an expression are sound uses.
LEMMA UsesSound ==
    ASSUME NEW e \in ExprType, NEW symbols \in Table, TypeOf(e, symbols) # None
    PROVE  \A u \in Uses(e, symbols) : Sound(u, symbols)
<1>1. \A i \in DOMAIN e.parts : IsScalar(symbols, e.parts[i])
  BY DEF TypeOf
<1>2. \A i \in DOMAIN e.parts : e.parts[i] \in DOMAIN symbols
  BY <1>1 DEF IsScalar
<1>3. e.form \in {"literal", "operator", "var", "index", "call"}
  BY DEF ExprType
<1>4. e.form \in {"var", "index"} => e.name \in DOMAIN symbols
  BY <1>1 DEF TypeOf, IsTensor
<1>5. e.form = "call" => e.name \in DOMAIN functions
  BY <1>1 DEF TypeOf
<1>6. ASSUME NEW u \in Uses(e, symbols)
      PROVE  Sound(u, symbols)
  <2>1. CASE \E i \in DOMAIN e.parts : u = [name |-> e.parts[i], means |-> symbols[e.parts[i]]]
    BY <2>1, <1>2 DEF Sound
  <2>2. CASE e.form \in {"var", "index"} /\ u = [name |-> e.name, means |-> symbols[e.name]]
    BY <2>2, <1>4 DEF Sound
  <2>3. CASE e.form = "call" /\ u = [name |-> e.name, means |-> Function]
    BY <2>3, <1>5 DEF Sound
  <2>. QED BY <2>1, <2>2, <2>3 DEF Uses
<1>. QED BY <1>6
-----------------------------------------------------------------------------
(* What a statement leaves behind. *)

\* Sound uses find what they mean in the blocks around them, or are left to the
\* file with a declaration there, or put a gap on record.
LEMMA EmitKeeps ==
    ASSUME TCIInv, NEW uses, NEW stack, Good(stack, file), Opened(stack) <=> InFunction,
           InFunction => stack[1] = scopes[1],
           \A u \in uses : Sound(u, SymbolsOf(stack)),
           Emit(uses, stack), UNCHANGED <<functions, file, emitted>>
    PROVE  Pending' /\ Excused' /\ NoSilentCapture'
<1>. DEFINE Found(u) == InBlocks(CBlocks(stack), u.name)
            symbols == SymbolsOf(stack)
            inner == IF InFunction THEN scopes[2].name ELSE None
            local == {u \in uses : Found(u) # Missing}
<1>1. /\ flaws' = flaws \cup UNION {Verdict(Found(u), u.means) : u \in local}
      /\ outer' = outer \cup {[name |-> u.name, means |-> u.means, from |-> inner] : u \in uses \ local}
      /\ gaps \subseteq gaps'
      /\ \A u \in uses : /\ InFunction /\ u.name \in DOMAIN scopes[1].symbols
                         /\ u.means = scopes[1].symbols[u.name] /\ u.means.type = "scalar"
                         => "outer scalar" \in gaps'
      /\ \A u \in uses : /\ u.means = Function /\ InFunction
                         /\ \A i \in DOMAIN emitted : emitted[i] # u.name
                         => "later function" \in gaps'
      /\ \A u \in uses : u.means = Function /\ u.name \in DOMAIN symbols => "hidden function" \in gaps'
  BY DEF Emit, SymbolsOf
<1>2. ASSUME NEW u \in uses, u.name \in DOMAIN symbols
      PROVE  symbols[u.name] \in SymbolType
  <2>1. Len(stack) \in 1..Len(stack)
    BY DEF Good, Nested
  <2>. QED BY <1>2, <2>1, ScopeHas DEF SymbolsOf, Good
<1>3. ASSUME NEW u \in uses
      PROVE  /\ Found(u) # Missing => u.name \in DOMAIN symbols /\ Found(u) = symbols[u.name]
             /\ Found(u) = Missing /\ u.name \in DOMAIN symbols =>
                   \/ u.name \in DOMAIN file /\ file[u.name] = symbols[u.name]
                   \/ /\ Opened(stack) /\ u.name \in DOMAIN stack[1].symbols
                      /\ symbols[u.name] = stack[1].symbols[u.name] /\ Kind(symbols[u.name]) = "scalar"
  BY Lookup
<1>. HIDE DEF Found, symbols, inner
<1>4. ASSUME NEW u \in local
      PROVE  \/ Verdict(Found(u), u.means) = {}
             \/ "hidden function" \in gaps' /\ "captured" \notin Verdict(Found(u), u.means)
  <2>1. u \in uses /\ u.name \in DOMAIN symbols /\ Found(u) = symbols[u.name]
    BY <1>3
  <2>2. CASE u.means = symbols[u.name]
    BY <2>1, <2>2 DEF Verdict
  <2>3. CASE u.means = Function
    <3>1. "hidden function" \in gaps'
      BY <2>1, <2>3, <1>1
    <3>2. Found(u).type # u.means.type
      <4>1. Found(u).type \in {"scalar", "tensor"}
        BY <2>1, <1>2, SymbolIs
      <4>2. u.means.type = "function"
        BY <2>3 DEF Function, Missing
      <4>. QED BY <4>1, <4>2
    <3>3. "captured" \notin Verdict(Found(u), u.means)
      BY <3>2 DEF Verdict
    <3>. QED BY <3>1, <3>3
  <2>. QED BY <2>1, <2>2, <2>3 DEF Sound, symbols
<1>5. Excused'
  <2>1. SUFFICES ASSUME gaps' = {} PROVE flaws' = {}
    BY DEF Excused
  <2>2. flaws = {}
    BY <2>1, <1>1 DEF TCIInv, Excused
  <2>3. \A u \in local : Verdict(Found(u), u.means) = {}
    BY <2>1, <1>4
  <2>. QED BY <2>2, <2>3, <1>1
<1>6. NoSilentCapture'
  <2>1. \A u \in local : "captured" \notin Verdict(Found(u), u.means)
    BY <1>4
  <2>2. "captured" \notin flaws
    BY DEF TCIInv, NoSilentCapture
  <2>. QED BY <2>1, <2>2, <1>1 DEF NoSilentCapture
<1>7. Pending'
  <2>1. SUFFICES ASSUME NEW v \in outer'
                 PROVE  /\ v.means = Function \/ v.means.type \in {"scalar", "tensor"}
                        /\ v.means.type = "tensor" => v.name \in DOMAIN file /\ file[v.name] = v.means
                        /\ v.means.type = "scalar" => "outer scalar" \in gaps'
                        /\ v.means = Function =>
                              /\ v.name \in DOMAIN functions
                              /\ \/ v.from = None \/ "later function" \in gaps'
                                 \/ \E i, j \in 1..Len(emitted) :
                                       i <= j /\ emitted[i] = v.name /\ emitted[j] = v.from
    BY DEF Pending
  <2>2. CASE v \in outer
    BY <2>2, <1>1 DEF TCIInv, Pending
  <2>3. CASE \E u \in uses \ local : v = [name |-> u.name, means |-> u.means, from |-> inner]
    <3>1. PICK u \in uses \ local : v = [name |-> u.name, means |-> u.means, from |-> inner]
      BY <2>3
    <3>2. v.name = u.name /\ v.means = u.means /\ v.from = inner /\ u \in uses /\ Found(u) = Missing
      BY <3>1
    <3>3. Function.type = "function"
      BY DEF Function, Missing
    <3>4. CASE u.name \in DOMAIN symbols /\ u.means = symbols[u.name]
      <4>1. u.means # Function /\ u.means.type \in {"scalar", "tensor"}
        BY <3>2, <3>4, <1>2, SymbolIs
      <4>2. CASE u.name \in DOMAIN file /\ file[u.name] = symbols[u.name]
        <5>1. u.means.type = "tensor"
          BY <4>2, <3>4 DEF TCIInv, Good, Homes
        <5>. QED BY <5>1, <4>1, <4>2, <3>2, <3>4
      <4>3. CASE /\ Opened(stack) /\ u.name \in DOMAIN stack[1].symbols
                 /\ symbols[u.name] = stack[1].symbols[u.name] /\ Kind(symbols[u.name]) = "scalar"
        <5>1. u.means.type = "scalar"
          BY <4>3, <3>4 DEF Kind
        <5>2. "outer scalar" \in gaps'
          BY <5>1, <4>3, <3>2, <3>4, <1>1
        <5>. QED BY <5>1, <5>2, <4>1, <3>2
      <4>. QED BY <4>2, <4>3, <3>2, <3>4, <1>3
    <3>5. CASE u.name \in DOMAIN functions /\ u.means = Function
      <4>1. CASE ~InFunction
        BY <4>1, <3>2, <3>3, <3>5 DEF inner
      <4>2. CASE InFunction /\ \A i \in DOMAIN emitted : emitted[i] # u.name
        <5>1. "later function" \in gaps'
          BY <4>2, <3>2, <3>5, <1>1
        <5>. QED BY <5>1, <3>2, <3>3, <3>5
      <4>3. CASE InFunction /\ \E i \in DOMAIN emitted : emitted[i] = u.name
        <5>1. Printed /\ v.from = scopes[2].name
          BY <4>3, <3>2 DEF TCIInv, inner
        <5>2. PICK i \in 1..Len(emitted) : emitted[i] = u.name
          BY <4>3, <5>1 DEF Printed
        <5>3. /\ Len(emitted) \in 1..Len(emitted) /\ i <= Len(emitted)
              /\ emitted[Len(emitted)] = v.from
          BY <4>3, <5>1, <5>2 DEF Printed
        <5>. QED BY <5>2, <5>3, <3>2, <3>3, <3>5
      <4>. QED BY <4>1, <4>2, <4>3
    <3>. QED BY <3>2, <3>4, <3>5 DEF Sound, symbols
  <2>. QED BY <2>1, <2>2, <2>3, <1>1
<1>. QED BY <1>5, <1>6, <1>7

\* Nothing is printed, and the function that is open stays the one it is.
LEMMA PrintedKept ==
    ASSUME Printed, UNCHANGED <<functions, emitted>>,
           Opened(scopes') => Opened(scopes) /\ scopes'[2].name = scopes[2].name
    PROVE  Printed'
BY DEF Printed, InFunction, Opened

\* Once as many functions are printed as there are, each is.
LEMMA AllPrinted ==
    ASSUME Printed, Len(emitted) = Cardinality(DOMAIN functions), NEW f \in DOMAIN functions
    PROVE  \E i \in 1..Len(emitted) : emitted[i] = f
<1>. DEFINE S == 1..Len(emitted)
            T == DOMAIN functions
<1>1. IsFiniteSet(T)
  BY TensorCAssumption, FS_Subset DEF Printed
<1>2. emitted \in Injection(S, T)
  BY DEF Printed, Injection, IsInjective
<1>3. Len(emitted) \in Nat
  BY DEF Printed
<1>4. IsFiniteSet(S) /\ Cardinality(S) = Len(emitted)
  BY <1>3, FS_Interval
<1>5. emitted \in Surjection(S, T)
  <2>. HIDE DEF S, T
  <2>1. Cardinality(S) = Cardinality(T)
    BY <1>4 DEF T
  <2>. QED BY <1>1, <1>2, <2>1, FS_Injection
<1>. QED BY <1>5 DEF Surjection
-----------------------------------------------------------------------------
(* The statements. *)

\* The innermost scope of the program.
LEMMA TopIs ==
    ASSUME TCIInv
    PROVE  /\ Symbols = SymbolsOf(scopes) /\ Symbols \in Table
           /\ scopes \in Seq(ScopeType) /\ Len(scopes) \in Nat /\ Len(scopes) >= 1
           /\ InFunction <=> Opened(scopes)
<1>1. Nested(scopes) /\ Len(scopes) \in 1..Len(scopes)
  BY DEF TCIInv, Good, Nested
<1>2. Symbols \in Table
  BY <1>1, ScopeHas DEF Symbols, Top
<1>3. InFunction <=> Opened(scopes)
  BY DEF InFunction, Opened
<1>4. Symbols = SymbolsOf(scopes)
  BY DEF Symbols, SymbolsOf, Top
<1>. QED BY <1>1, <1>2, <1>3, <1>4 DEF Nested

LEMMA TCInitGood == TCInit => TCIInv
<1>. SUFFICES ASSUME TCInit PROVE TCIInv
  OBVIOUS
<1>. DEFINE first == [symbols |-> NoSymbols, block |-> NoSymbols, opens |-> "program", name |-> None]
<1>1. DOMAIN NoSymbols = {} /\ NoSymbols \in Table
  <2>1. {} \in SUBSET Names /\ NoSymbols \in [{} -> SymbolType] /\ DOMAIN NoSymbols = {}
    BY DEF NoSymbols
  <2>. QED BY <2>1, TableIs
<1>2. first \in ScopeType
  BY <1>1 DEF ScopeType
<1>3. scopes = <<first>> /\ file = NoSymbols /\ emitted = <<>> /\ outer = {} /\ flaws = {} /\ gaps = {} /\ size = 0
  BY DEF TCInit
<1>4. /\ scopes \in Seq(ScopeType) /\ Len(scopes) = 1 /\ 1..Len(scopes) = {1}
      /\ scopes[1].symbols = NoSymbols /\ scopes[1].block = NoSymbols /\ scopes[1].opens = "program"
  BY <1>2, <1>3
<1>5. Good(scopes, file)
  <2>1. Nested(scopes)
    BY <1>1, <1>4 DEF Nested
  <2>2. Homes(scopes, file)
    BY <1>1, <1>3, <1>4 DEF Homes
  <2>. QED BY <2>1, <2>2 DEF Good
<1>6. Printed
  <2>1. DOMAIN functions \subseteq Names
    BY DEF TCInit
  <2>2. emitted \in Seq(DOMAIN functions) /\ Len(emitted) = 0 /\ ~InFunction
    BY <1>3, <1>4 DEF InFunction
  <2>. QED BY <2>1, <2>2 DEF Printed
<1>. QED BY <1>3, <1>5, <1>6 DEF TCIInv, Pending, Excused, NoSilentCapture

\* A program sema refuses.
LEMMA RejectKeeps ==
    ASSUME TCIInv, Reject, size' \in Nat
    PROVE  TCIInv'
<1>1. Good(scopes', file')
  BY DEF TCIInv, Reject
<1>2. Printed'
  BY DEF TCIInv, Reject, Printed, InFunction
<1>3. Pending'
  BY DEF TCIInv, Reject, Pending
<1>4. Excused' /\ NoSilentCapture'
  BY DEF TCIInv, Reject, Excused, NoSilentCapture
<1>. QED BY <1>1, <1>2, <1>3, <1>4 DEF TCIInv

\* The size of a program is counted.
LEMMA SizeKept ==
    ASSUME TCIInv, Statement
    PROVE  size' \in Nat /\ size \in Nat
BY DEF TCIInv, Statement

\* The shape of a declaration.
LEMMA ShapeIs ==
    ASSUME NEW form \in TensorForms
    PROVE  ShapeOf(form[1], form[2]) \in Seq(Int)
<1>1. form[1] \in Seq(Int) /\ form[2] \in Seq(Int) /\ NoShape \in Seq(Int)
  BY TensorCAssumption DEF NoShape
<1>. QED BY <1>1 DEF ShapeOf

LEMMA DeclareTensorKeeps ==
    ASSUME TCIInv, NEW n \in Names, NEW form \in TensorForms, DeclareTensor(n, form)
    PROVE  TCIInv'
<1>. DEFINE shape == ShapeOf(form[1], form[2])
            symbol == Tensor(shape)
<1>1. size' \in Nat /\ size \in Nat
  BY SizeKept DEF DeclareTensor
<1>2. CASE Reject
  BY <1>1, <1>2, RejectKeeps
<1>3. CASE /\ n \notin DOMAIN Symbols
           /\ scopes' = Declared(scopes, n, symbol, ~AtTop)
           /\ file' = IF AtTop THEN With(file, n, symbol) ELSE file
           /\ UNCHANGED <<functions, emitted, outer, flaws, gaps, status>>
  <2>1. symbol \in SymbolType /\ Kind(symbol) = "tensor"
    BY <1>1, ShapeIs DEF Tensor, SymbolType, Kind
  <2>. HIDE DEF symbol
  <2>2. n \notin DOMAIN SymbolsOf(scopes) /\ Good(scopes, file)
    BY <1>3, TopIs DEF TCIInv
  <2>3. Good(scopes', file')
    <3>1. CASE AtTop
      <4>1. Len(scopes) = 1
        BY <3>1 DEF AtTop
      <4>2. scopes' = Declared(scopes, n, symbol, FALSE) /\ file' = With(file, n, symbol)
        BY <1>3, <3>1
      <4>. QED BY <4>1, <4>2, <2>1, <2>2, DeclaredInFile
    <3>2. CASE ~AtTop
      <4>1. Len(scopes) # 1
        BY <3>2 DEF AtTop
      <4>2. scopes' = Declared(scopes, n, symbol, TRUE) /\ file' = file
        BY <1>3, <3>2
      <4>. QED BY <4>1, <4>2, <2>1, <2>2, DeclaredInBlock
    <3>. QED BY <3>1, <3>2
  <2>4. Opened(scopes') => Opened(scopes) /\ scopes'[2].name = scopes[2].name
    <3>1. CASE AtTop
      <4>1. Len(scopes) = 1
        BY <3>1 DEF AtTop
      <4>2. scopes' = Declared(scopes, n, symbol, FALSE)
        BY <1>3, <3>1
      <4>3. Len(scopes') = 1
        BY <4>1, <4>2, <2>1, <2>2, DeclaredInFile
      <4>. QED BY <4>3 DEF Opened
    <3>2. CASE ~AtTop
      <4>1. Len(scopes) # 1
        BY <3>2 DEF AtTop
      <4>2. scopes' = Declared(scopes, n, symbol, TRUE)
        BY <1>3, <3>2
      <4>3. /\ Len(scopes') = Len(scopes)
            /\ \A i \in 1..Len(scopes) : scopes'[i].opens = scopes[i].opens /\ scopes'[i].name = scopes[i].name
        BY <4>1, <4>2, <2>1, <2>2, DeclaredInBlock
      <4>. QED BY <4>3, TopIs DEF Opened
    <3>. QED BY <3>1, <3>2
  <2>5. Printed'
    BY <2>4, <1>3, PrintedKept DEF TCIInv
  <2>6. \A m \in DOMAIN file : m \in DOMAIN file' /\ file'[m] = file[m]
    <3>1. CASE AtTop
      <4>1. n \notin DOMAIN file
        <5>1. Len(scopes) = 1
          BY <3>1 DEF AtTop
        <5>. QED BY <5>1, <2>2 DEF Good, Homes, SymbolsOf
      <4>2. DOMAIN With(file, n, symbol) = DOMAIN file \cup {n}
        BY WithIs
      <4>3. \A m \in DOMAIN file : m # n => With(file, n, symbol)[m] = file[m]
        BY WithIs
      <4>. QED BY <4>1, <4>2, <4>3, <3>1, <1>3
    <3>2. CASE ~AtTop
      BY <3>2, <1>3
    <3>. QED BY <3>1, <3>2
  <2>7. Pending'
    BY <2>6, <1>3 DEF TCIInv, Pending
  <2>8. Excused' /\ NoSilentCapture'
    BY <1>3 DEF TCIInv, Excused, NoSilentCapture
  <2>. QED BY <1>1, <2>3, <2>5, <2>7, <2>8 DEF TCIInv
<1>. QED BY <1>2, <1>3 DEF DeclareTensor

\* A statement that leaves the stack alone and prints its uses.
LEMMA PrintsUses ==
    ASSUME TCIInv, NEW uses, \A u \in uses : Sound(u, Symbols), Emit(uses, scopes),
           UNCHANGED <<functions, file, emitted>>
    PROVE  Pending' /\ Excused' /\ NoSilentCapture'
<1>1. Good(scopes, file) /\ (Opened(scopes) <=> InFunction) /\ Symbols = SymbolsOf(scopes)
  BY TopIs DEF TCIInv
<1>. QED BY <1>1, EmitKeeps

\* The stack, the file and the functions stay.
LEMMA StackKept ==
    ASSUME TCIInv, UNCHANGED <<functions, scopes, file, emitted>>
    PROVE  Good(scopes', file') /\ Printed'
BY DEF TCIInv, Printed, InFunction

\* What sema makes of an expression of the program.
LEMMA ExprSound ==
    ASSUME TCIInv, NEW e \in Exprs \cup Targets, TypeOf(e, Symbols) # None
    PROVE  \A u \in Uses(e, Symbols) : Sound(u, Symbols)
<1>1. e \in ExprType /\ Symbols \in Table
  BY TensorCAssumption, TopIs
<1>. QED BY <1>1, UsesSound

LEMMA ExpressionKeeps ==
    ASSUME TCIInv, NEW e \in Exprs, NEW types, None \notin types, Expression(e, types)
    PROVE  TCIInv'
<1>1. size' \in Nat
  BY SizeKept DEF Expression
<1>2. CASE Reject
  BY <1>1, <1>2, RejectKeeps
<1>3. CASE /\ TypeOf(e, Symbols) \in types /\ Emit(Uses(e, Symbols), scopes)
           /\ UNCHANGED <<functions, scopes, file, emitted, status>>
  <2>1. \A u \in Uses(e, Symbols) : Sound(u, Symbols)
    BY <1>3, ExprSound
  <2>2. Pending' /\ Excused' /\ NoSilentCapture'
    BY <2>1, <1>3, PrintsUses
  <2>. QED BY <1>1, <1>3, <2>2, StackKept DEF TCIInv
<1>. QED BY <1>2, <1>3 DEF Expression

LEMMA AssignKeeps ==
    ASSUME TCIInv, NEW target \in Targets, NEW e \in Exprs, Assign(target, e)
    PROVE  TCIInv'
<1>1. size' \in Nat
  BY SizeKept DEF Assign
<1>2. CASE Reject
  BY <1>1, <1>2, RejectKeeps
<1>3. CASE /\ {TypeOf(target, Symbols), TypeOf(e, Symbols)} = {"scalar"}
           /\ Emit(Uses(target, Symbols) \cup Uses(e, Symbols), scopes)
           /\ UNCHANGED <<functions, scopes, file, emitted, status>>
  <2>1. TypeOf(target, Symbols) # None /\ TypeOf(e, Symbols) # None
    <3>1. TypeOf(target, Symbols) = "scalar" /\ TypeOf(e, Symbols) = "scalar"
      BY <1>3
    <3>. QED BY <3>1 DEF None
  <2>2. \A u \in Uses(target, Symbols) \cup Uses(e, Symbols) : Sound(u, Symbols)
    BY <2>1, ExprSound
  <2>3. Pending' /\ Excused' /\ NoSilentCapture'
    BY <2>2, <1>3, PrintsUses
  <2>. QED BY <1>1, <1>3, <2>3, StackKept DEF TCIInv
<1>4. CASE /\ flaws' = flaws \cup {"no place"} /\ gaps' = gaps \cup {"no place"}
           /\ UNCHANGED <<outer, functions, scopes, file, emitted, status>>
  <2>1. Pending'
    BY <1>4 DEF TCIInv, Pending
  <2>2. Excused' /\ NoSilentCapture'
    BY <1>4 DEF TCIInv, Excused, NoSilentCapture
  <2>. QED BY <1>1, <1>4, <2>1, <2>2, StackKept DEF TCIInv
<1>. QED BY <1>2, <1>3, <1>4 DEF Assign

LEMMA GemmKeeps ==
    ASSUME TCIInv, NEW a \in Names, NEW b \in Names, NEW c \in Names, Gemm(a, b, c)
    PROVE  TCIInv'
<1>. DEFINE uses == {[name |-> n, means |-> Symbols[n]] : n \in {a, b, c}}
<1>1. size' \in Nat
  BY SizeKept DEF Gemm
<1>2. CASE Reject
  BY <1>1, <1>2, RejectKeeps
<1>3. CASE /\ \A n \in {a, b, c} : IsTensor(Symbols, n)
           /\ Emit(uses, scopes)
           /\ UNCHANGED <<functions, scopes, file, emitted, status>>
  <2>1. \A u \in uses : Sound(u, Symbols)
    BY <1>3 DEF Sound, IsTensor
  <2>. HIDE DEF uses
  <2>2. Pending' /\ Excused' /\ NoSilentCapture'
    BY <2>1, <1>3, PrintsUses
  <2>. QED BY <1>1, <1>3, <2>2, StackKept DEF TCIInv
<1>. QED BY <1>2, <1>3 DEF Gemm

\* What a scope around a name has, an inner one has.
LEMMA SoundInside ==
    ASSUME NEW outside, NEW inside,
           \A n \in DOMAIN outside : n \in DOMAIN inside /\ inside[n] = outside[n],
           NEW u, Sound(u, outside)
    PROVE  Sound(u, inside)
BY DEF Sound

\* A variable is a symbol.
LEMMA ScalarIs ==
    ASSUME size \in Nat
    PROVE  /\ Scalar \in SymbolType /\ Kind(Scalar) = "scalar"
           /\ \A i \in Nat : Param(i) \in SymbolType
<1>1. NoShape \in Seq(Int) /\ <<size>> \in Seq(Int) /\ \A i \in Nat : <<size, i>> \in Seq(Int)
  BY DEF NoShape
<1>2. Scalar = [type |-> "scalar", shape |-> NoShape, id |-> <<size>>]
  BY DEF Scalar
<1>3. \A i \in Nat : Param(i) = [type |-> "scalar", shape |-> NoShape, id |-> <<size, i>>]
  BY DEF Param, Scalar
<1>4. Scalar \in SymbolType /\ Kind(Scalar) = "scalar"
  BY <1>1, <1>2 DEF SymbolType, Kind
<1>5. \A i \in Nat : Param(i) \in SymbolType
  <2>1. TAKE i \in Nat
  <2>2. <<size, i>> \in Seq(Int) /\ Param(i) = [type |-> "scalar", shape |-> NoShape, id |-> <<size, i>>]
    BY <1>1, <1>3
  <2>. QED BY <1>1, <2>2 DEF SymbolType
<1>. QED BY <1>4, <1>5

\* A scope that opens with the symbols around it.
LEMMA ScopeIs ==
    ASSUME TCIInv, NEW opens \in {"block", "for"}
    PROVE  /\ Scope(opens, None) \in ScopeType
           /\ Scope(opens, None) = [symbols |-> Symbols, block |-> NoSymbols, opens |-> opens, name |-> None]
           /\ DOMAIN NoSymbols = {} /\ NoSymbols \in Table
<1>1. DOMAIN NoSymbols = {} /\ NoSymbols \in Table
  <2>1. {} \in SUBSET Names /\ NoSymbols \in [{} -> SymbolType] /\ DOMAIN NoSymbols = {}
    BY DEF NoSymbols
  <2>. QED BY <2>1, TableIs
<1>2. Symbols \in Table
  BY TopIs
<1>. QED BY <1>1, <1>2 DEF Scope, ScopeType

LEMMA DeclareVarKeeps ==
    ASSUME TCIInv, NEW n \in Names, NEW e \in Exprs, DeclareVar(n, e)
    PROVE  TCIInv'
<1>1. size' \in Nat /\ size \in Nat
  BY SizeKept DEF DeclareVar
<1>2. CASE Reject
  BY <1>1, <1>2, RejectKeeps
<1>3. CASE /\ MayDeclare(scopes, n) /\ TypeOf(e, Symbols) = "scalar"
           /\ scopes' = Declared(scopes, n, Scalar, TRUE)
           /\ Emit(Uses(e, Symbols), scopes')
           /\ UNCHANGED <<functions, file, emitted, status>>
  <2>1. Scalar \in SymbolType /\ Kind(Scalar) = "scalar"
    BY <1>1, ScalarIs
  <2>. DEFINE symbol == Scalar
  <2>2. n \notin DOMAIN SymbolsOf(scopes) /\ Good(scopes, file) /\ Symbols = SymbolsOf(scopes)
    BY <1>3, TopIs DEF TCIInv, MayDeclare, SymbolsOf
  <2>3. /\ Good(scopes', file) /\ Len(scopes') = Len(scopes)
        /\ \A i \in 1..Len(scopes) : i # Len(scopes) => scopes'[i] = scopes[i]
        /\ \A i \in 1..Len(scopes) : scopes'[i].opens = scopes[i].opens /\ scopes'[i].name = scopes[i].name
        /\ SymbolsOf(scopes') = With(SymbolsOf(scopes), n, symbol)
    BY <1>3, <2>1, <2>2, DeclaredInBlock
  <2>4. (Opened(scopes') <=> InFunction) /\ (InFunction => scopes'[1] = scopes[1])
    BY <2>3, TopIs DEF Opened, InFunction
  <2>5. \A u \in Uses(e, Symbols) : Sound(u, SymbolsOf(scopes'))
    <3>1. \A u \in Uses(e, Symbols) : Sound(u, Symbols)
      BY <1>3, ExprSound DEF None
    <3>2. DOMAIN With(Symbols, n, symbol) = DOMAIN Symbols \cup {n}
      BY WithIs
    <3>3. \A m \in DOMAIN Symbols : m # n => With(Symbols, n, symbol)[m] = Symbols[m]
      BY WithIs
    <3>4. \A m \in DOMAIN Symbols : m \in DOMAIN SymbolsOf(scopes') /\ SymbolsOf(scopes')[m] = Symbols[m]
      BY <2>2, <2>3, <3>2, <3>3
    <3>. QED BY <3>1, <3>4, SoundInside
  <2>6. Pending' /\ Excused' /\ NoSilentCapture'
    BY <1>3, <2>3, <2>4, <2>5, EmitKeeps
  <2>7. Printed'
    <3>1. Opened(scopes') => Opened(scopes) /\ scopes'[2].name = scopes[2].name
      BY <2>3, TopIs DEF Opened
    <3>. QED BY <3>1, <1>3, PrintedKept DEF TCIInv
  <2>. QED BY <1>1, <1>3, <2>3, <2>6, <2>7 DEF TCIInv
<1>. QED BY <1>2, <1>3 DEF DeclareVar

LEMMA OpenBlockKeeps ==
    ASSUME TCIInv, NEW e \in Exprs, OpenBlock(e)
    PROVE  TCIInv'
<1>1. size' \in Nat
  BY SizeKept DEF OpenBlock
<1>2. CASE Reject
  BY <1>1, <1>2, RejectKeeps
<1>3. CASE /\ TypeOf(e, Symbols) = "scalar"
           /\ Emit(Uses(e, Symbols), scopes)
           /\ scopes' = Append(scopes, Scope("block", None))
           /\ UNCHANGED <<functions, file, emitted, status>>
  <2>. DEFINE scope == Scope("block", None)
  <2>1. \A u \in Uses(e, Symbols) : Sound(u, Symbols)
    BY <1>3, ExprSound DEF None
  <2>2. Pending' /\ Excused' /\ NoSilentCapture'
    BY <2>1, <1>3, PrintsUses
  <2>3. /\ scope \in ScopeType /\ scope.opens = "block"
        /\ scope.symbols = Symbols /\ DOMAIN scope.block = {}
    BY ScopeIs
  <2>. HIDE DEF scope
  <2>4. Good(scopes', file)
    <3>1. Good(scopes, file) /\ Symbols = SymbolsOf(scopes)
      BY TopIs DEF TCIInv
    <3>2. scope.opens # "program" /\ scope.opens # "function"
      BY <2>3
    <3>3. scopes' = Append(scopes, scope)
      BY <1>3 DEF scope
    <3>. QED BY <2>3, <3>1, <3>2, <3>3, Pushed
  <2>5. Printed'
    <3>1. Opened(scopes') => Opened(scopes) /\ scopes'[2].name = scopes[2].name
      BY <1>3, <2>3, TopIs DEF Opened, scope
    <3>. QED BY <3>1, <1>3, PrintedKept DEF TCIInv
  <2>. QED BY <1>1, <1>3, <2>2, <2>4, <2>5 DEF TCIInv
<1>. QED BY <1>2, <1>3 DEF OpenBlock

LEMMA OpenForKeeps ==
    ASSUME TCIInv, NEW n \in Names, NEW init \in Targets, NEW condition \in Exprs, NEW step \in Targets,
           OpenFor(n, init, condition, step)
    PROVE  TCIInv'
<1>. DEFINE outside == Append(scopes, Scope("for", None))
            head == Declared(outside, n, Scalar, TRUE)
            symbols == SymbolsOf(head)
            body == [symbols |-> symbols, block |-> NoSymbols, opens |-> "block", name |-> None]
            uses == Uses(init, Symbols) \cup Uses(condition, symbols) \cup Uses(step, symbols)
<1>1. size' \in Nat /\ size \in Nat
  BY SizeKept DEF OpenFor
<1>2. CASE Reject
  BY <1>1, <1>2, RejectKeeps
<1>3. CASE /\ MayDeclare(scopes, n) /\ TypeOf(init, Symbols) = "scalar"
           /\ TypeOf(condition, symbols) = "scalar" /\ TypeOf(step, symbols) # None
           /\ Emit(uses, head)
           /\ scopes' = Append(head, body)
           /\ UNCHANGED <<functions, file, emitted, status>>
  <2>1. Scalar \in SymbolType /\ Kind(Scalar) = "scalar"
    BY <1>1, ScalarIs
  <2>2. n \notin DOMAIN Symbols /\ Good(scopes, file) /\ Symbols = SymbolsOf(scopes)
    BY <1>3, TopIs DEF TCIInv, MayDeclare, SymbolsOf
  <2>3. /\ Good(outside, file) /\ SymbolsOf(outside) = Symbols
        /\ Len(outside) = Len(scopes) + 1 /\ outside[Len(outside)].opens = "for"
        /\ \A i \in 1..Len(scopes) : outside[i] = scopes[i]
    <3>. DEFINE scope == Scope("for", None)
    <3>1. /\ scope \in ScopeType /\ scope.opens = "for"
          /\ scope.symbols = Symbols /\ DOMAIN scope.block = {}
      BY ScopeIs
    <3>. HIDE DEF scope
    <3>2. scope.opens # "program" /\ scope.opens # "function"
      BY <3>1
    <3>3. Good(Append(scopes, scope), file) /\ SymbolsOf(Append(scopes, scope)) = scope.symbols
      BY <2>2, <3>1, <3>2, Pushed
    <3>4. /\ Len(Append(scopes, scope)) = Len(scopes) + 1
          /\ Append(scopes, scope)[Len(scopes) + 1] = scope
          /\ \A i \in 1..Len(scopes) : Append(scopes, scope)[i] = scopes[i]
      BY TopIs
    <3>. QED BY <3>1, <3>3, <3>4 DEF scope
  <2>. HIDE DEF outside
  <2>4. /\ Good(head, file) /\ Len(head) = Len(outside)
        /\ \A i \in 1..Len(outside) : i # Len(outside) => head[i] = outside[i]
        /\ \A i \in 1..Len(outside) : head[i].opens = outside[i].opens /\ head[i].name = outside[i].name
        /\ symbols = With(Symbols, n, Scalar)
    <3>1. n \notin DOMAIN SymbolsOf(outside) /\ (Len(outside) = 1 => Kind(Scalar) = "scalar")
      BY <2>1, <2>2, <2>3
    <3>2. Good(head, file) /\ Len(head) = Len(outside)
      BY <2>1, <2>3, <3>1, DeclaredInBlock
    <3>3. \A i \in 1..Len(outside) : i # Len(outside) => head[i] = outside[i]
      BY <2>1, <2>3, <3>1, DeclaredInBlock
    <3>4. \A i \in 1..Len(outside) : head[i].opens = outside[i].opens /\ head[i].name = outside[i].name
      BY <2>1, <2>3, <3>1, DeclaredInBlock
    <3>5. SymbolsOf(head) = With(SymbolsOf(outside), n, Scalar)
      BY <2>1, <2>3, <3>1, DeclaredInBlock
    <3>. QED BY <2>3, <3>2, <3>3, <3>4, <3>5
  <2>. HIDE DEF head
  <2>5. (Opened(head) <=> InFunction) /\ (InFunction => head[1] = scopes[1] /\ head[2].name = scopes[2].name)
    <3>1. CASE Len(scopes) = 1
      <4>1. Len(outside) = 2 /\ head[2].opens = "for"
        BY <3>1, <2>3, <2>4
      <4>. QED BY <4>1, <3>1 DEF Opened, InFunction
    <3>2. CASE Len(scopes) > 1
      <4>1. head[1] = scopes[1] /\ head[2] = scopes[2]
        BY <3>2, <2>3, <2>4, TopIs
      <4>. QED BY <4>1, <3>2, <2>3, <2>4, TopIs DEF Opened, InFunction
    <3>3. Len(scopes) = 1 \/ Len(scopes) > 1
      <4>1. Len(scopes) \in Nat /\ Len(scopes) >= 1
        BY TopIs
      <4>2. \A k \in Nat : k >= 1 => k = 1 \/ k > 1
        OBVIOUS
      <4>. QED BY <4>1, <4>2, Zenon
    <3>. QED BY <3>1, <3>2, <3>3
  <2>6. Symbols \in Table /\ symbols \in Table
    <3>1. Len(head) \in 1..Len(head)
      BY <2>4 DEF Good, Nested
    <3>. QED BY <3>1, <2>4, ScopeHas, TopIs DEF SymbolsOf, Good
  <2>7. \A u \in uses : Sound(u, symbols)
    <3>1. \A u \in Uses(init, Symbols) : Sound(u, Symbols)
      BY <1>3, ExprSound DEF None
    <3>2. DOMAIN With(Symbols, n, Scalar) = DOMAIN Symbols \cup {n}
      BY WithIs
    <3>3. \A m \in DOMAIN Symbols : m # n => With(Symbols, n, Scalar)[m] = Symbols[m]
      BY WithIs
    <3>4. \A m \in DOMAIN Symbols : m \in DOMAIN symbols /\ symbols[m] = Symbols[m]
      BY <2>2, <2>4, <3>2, <3>3
    <3>. HIDE DEF symbols
    <3>5. \A u \in Uses(init, Symbols) : Sound(u, symbols)
      BY <3>1, <3>4, SoundInside
    <3>6. condition \in ExprType /\ step \in ExprType
      BY TensorCAssumption
    <3>7. \A u \in Uses(condition, symbols) : Sound(u, symbols)
      BY <1>3, <2>6, <3>6, UsesSound DEF None
    <3>8. \A u \in Uses(step, symbols) : Sound(u, symbols)
      BY <1>3, <2>6, <3>6, UsesSound
    <3>. QED BY <3>5, <3>7, <3>8
  <2>8. Pending' /\ Excused' /\ NoSilentCapture'
    <3>. HIDE DEF uses
    <3>. QED BY <1>3, <2>4, <2>5, <2>7, EmitKeeps
  <2>9. Good(scopes', file) /\ Len(scopes') = Len(head) + 1 /\ \A i \in 1..Len(head) : scopes'[i] = head[i]
    <3>1. NoSymbols \in Table /\ DOMAIN NoSymbols = {}
      BY ScopeIs
    <3>. HIDE DEF symbols
    <3>2. /\ body \in ScopeType /\ body.opens # "program" /\ body.opens # "function"
          /\ body.symbols = symbols /\ DOMAIN body.block = {}
      BY <2>6, <3>1 DEF ScopeType
    <3>. HIDE DEF body
    <3>3. Good(Append(head, body), file)
      BY <2>4, <3>2, Pushed DEF symbols
    <3>4. head \in Seq(ScopeType)
      BY <2>4 DEF Good, Nested
    <3>. QED BY <3>3, <3>4, <1>3
  <2>10. Printed'
    <3>1. Opened(scopes') => Opened(head) /\ scopes'[2].name = head[2].name
      BY <2>3, <2>4, <2>9, TopIs DEF Opened
    <3>2. Opened(scopes') => Opened(scopes) /\ scopes'[2].name = scopes[2].name
      BY <3>1, <2>5, TopIs
    <3>. QED BY <3>2, <1>3, PrintedKept DEF TCIInv
  <2>. QED BY <1>1, <1>3, <2>8, <2>9, <2>10 DEF TCIInv
<1>4. [Scope("block", None) EXCEPT !.symbols = symbols] = body /\ head[Len(head)].symbols = symbols
  <2>. DEFINE scope == Scope("block", None)
  <2>1. scope = [symbols |-> Symbols, block |-> NoSymbols, opens |-> "block", name |-> None]
    BY ScopeIs
  <2>. HIDE DEF scope, head
  <2>2. [scope EXCEPT !.symbols = symbols] = body
    <3>. HIDE DEF symbols
    <3>. QED BY <2>1
  <2>. QED BY <2>2 DEF SymbolsOf, scope
<1>5. \/ Reject
      \/ /\ MayDeclare(scopes, n) /\ TypeOf(init, Symbols) = "scalar"
         /\ TypeOf(condition, symbols) = "scalar" /\ TypeOf(step, symbols) # None
         /\ Emit(uses, head)
         /\ scopes' = Append(head, body)
         /\ UNCHANGED <<functions, file, emitted, status>>
  BY <1>4 DEF OpenFor
<1>. QED BY <1>2, <1>3, <1>5

LEMMA OpenFunctionKeeps ==
    ASSUME TCIInv, NEW f \in Names, NEW params \in ParamLists, OpenFunction(f, params)
    PROVE  TCIInv'
<1>. DEFINE last(n) == CHOOSE i \in DOMAIN params : params[i] = n
            block == [n \in Range(params) |-> Param(last(n))]
            scope == [symbols |-> Over(block, Symbols), block |-> block, opens |-> "function", name |-> f]
<1>1. /\ size' \in Nat /\ size \in Nat /\ AtTop /\ Len(scopes) = 1
      /\ f \in DOMAIN functions /\ \A i \in DOMAIN emitted : emitted[i] # f
  BY SizeKept DEF OpenFunction, AtTop
<1>2. CASE Reject
  BY <1>1, <1>2, RejectKeeps
<1>3. CASE /\ \A i \in DOMAIN params : params[i] \notin DOMAIN Symbols
           /\ scopes' = Append(scopes, scope)
           /\ emitted' = Append(emitted, f)
           /\ UNCHANGED <<functions, file, outer, flaws, gaps, status>>
  <2>1. block \in Table /\ DOMAIN block = Range(params) /\ \A n \in DOMAIN block : n \notin DOMAIN Symbols
    <3>1. params \in Seq(Names)
      BY TensorCAssumption
    <3>2. Range(params) \in SUBSET Names
      BY <3>1 DEF Range
    <3>3. \A n \in Range(params) : last(n) \in DOMAIN params /\ DOMAIN params \subseteq Nat
      BY <3>1 DEF Range
    <3>. HIDE DEF last
    <3>4. \A n \in Range(params) : Param(last(n)) \in SymbolType
      BY <1>1, <3>3, ScalarIs
    <3>5. block \in [Range(params) -> SymbolType]
      BY <3>4
    <3>6. \A n \in Range(params) : n \notin DOMAIN Symbols
      BY <1>3 DEF Range
    <3>. QED BY <3>2, <3>5, <3>6, TableIs
  <2>. HIDE DEF block
  <2>. DEFINE symbols == Over(block, Symbols)
  <2>2. /\ DOMAIN symbols = DOMAIN block \cup DOMAIN Symbols
        /\ \A n \in DOMAIN block : symbols[n] = block[n]
        /\ \A n \in DOMAIN Symbols : symbols[n] = Symbols[n]
    BY <2>1 DEF Over
  <2>3. symbols \in Table
    <3>1. Symbols \in Table
      BY TopIs
    <3>2. /\ DOMAIN block \subseteq Names /\ \A n \in DOMAIN block : block[n] \in SymbolType
          /\ DOMAIN Symbols \subseteq Names /\ \A n \in DOMAIN Symbols : Symbols[n] \in SymbolType
      BY <2>1, <3>1, TableHas
    <3>. DEFINE D == DOMAIN block \cup DOMAIN Symbols
    <3>3. symbols \in [D -> SymbolType]
      BY <2>1, <3>2 DEF Over
    <3>4. D \in SUBSET Names
      BY <3>2
    <3>. HIDE DEF D, symbols
    <3>. QED BY <3>3, <3>4, TableIs
  <2>. HIDE DEF symbols
  <2>4. scope = [symbols |-> symbols, block |-> block, opens |-> "function", name |-> f]
    BY DEF symbols
  <2>. HIDE DEF scope
  <2>5. /\ scope \in ScopeType /\ scope.opens = "function" /\ scope.name = f
        /\ scope.symbols = symbols /\ scope.block = block
    BY <2>1, <2>3, <2>4 DEF ScopeType
  <2>6. Good(scopes', file)
    <3>1. Good(scopes, file) /\ Symbols = SymbolsOf(scopes)
      BY TopIs DEF TCIInv
    <3>2. scope.opens # "program" /\ (scope.opens = "function" => Len(scopes) = 1 /\ scope.name \in Names)
      BY <1>1, <2>5
    <3>. QED BY <3>1, <3>2, <2>2, <2>5, <1>3, Pushed
  <2>7. /\ emitted' \in Seq(DOMAIN functions) /\ Len(emitted') = Len(emitted) + 1
        /\ emitted'[Len(emitted) + 1] = f /\ Len(emitted) \in Nat
        /\ \A i \in 1..Len(emitted) : emitted'[i] = emitted[i] /\ emitted[i] # f
    BY <1>1, <1>3 DEF TCIInv, Printed
  <2>8. Printed'
    <3>1. DOMAIN functions' \subseteq Names /\ emitted' \in Seq(DOMAIN functions')
      BY <2>7, <1>3 DEF TCIInv, Printed
    <3>2. \A i, j \in 1..Len(emitted') : emitted'[i] = emitted'[j] => i = j
      <4>1. \A i \in 1..Len(emitted') : i \in 1..Len(emitted) \/ i = Len(emitted) + 1
        BY <2>7
      <4>2. \A i, j \in 1..Len(emitted) : emitted[i] = emitted[j] => i = j
        BY DEF TCIInv, Printed
      <4>. QED BY <4>1, <4>2, <2>7
    <3>3. scopes'[2].name = f
      <4>1. Append(scopes, scope)[Len(scopes) + 1] = scope
        BY TopIs
      <4>2. scopes' = Append(scopes, scope) /\ Len(scopes) + 1 = 2
        BY <1>1, <1>3 DEF scope, symbols, block
      <4>. QED BY <4>1, <4>2, <2>5
    <3>4. Len(emitted') >= 1 /\ emitted'[Len(emitted')] = scopes'[2].name
      BY <2>7, <3>3
    <3>. QED BY <3>1, <3>2, <3>4 DEF Printed
  <2>9. Pending'
    <3>1. \A i \in 1..Len(emitted) : i \in 1..Len(emitted')
      BY <2>7
    <3>2. SUFFICES ASSUME NEW u \in outer
                   PROVE  /\ u.means = Function \/ u.means.type \in {"scalar", "tensor"}
                          /\ u.means.type = "tensor" => u.name \in DOMAIN file /\ file[u.name] = u.means
                          /\ u.means.type = "scalar" => "outer scalar" \in gaps
                          /\ u.means = Function =>
                                /\ u.name \in DOMAIN functions
                                /\ \/ u.from = None \/ "later function" \in gaps
                                   \/ \E i, j \in 1..Len(emitted') :
                                         i <= j /\ emitted'[i] = u.name /\ emitted'[j] = u.from
      BY <1>3 DEF Pending
    <3>3. \/ \E i, j \in 1..Len(emitted) : i <= j /\ emitted[i] = u.name /\ emitted[j] = u.from
          \/ u.means # Function \/ u.from = None \/ "later function" \in gaps
      BY DEF TCIInv, Pending
    <3>. QED BY <3>1, <3>3, <2>7 DEF TCIInv, Pending
  <2>10. Excused' /\ NoSilentCapture'
    BY <1>3 DEF TCIInv, Excused, NoSilentCapture
  <2>. QED BY <1>1, <1>3, <2>6, <2>8, <2>9, <2>10 DEF TCIInv
<1>. QED BY <1>2, <1>3 DEF OpenFunction

LEMMA CloseKeeps ==
    ASSUME TCIInv, Close
    PROVE  TCIInv'
<1>. DEFINE rest == SubSeq(scopes, 1, Len(scopes) - 1)
            around == SubSeq(rest, 1, Len(rest) - 1)
<1>1. /\ scopes' = IF rest[Len(rest)].opens = "for" THEN around ELSE rest
      /\ UNCHANGED <<functions, file, emitted, outer, flaws, gaps, size>>
      /\ Len(scopes) > 1
  <2>1. Len(scopes) > 1
    <3>1. ~AtTop
      BY DEF Close
    <3>2. Len(scopes) \in Nat /\ Len(scopes) >= 1
      BY TopIs
    <3>. QED BY <3>1, <3>2 DEF AtTop
  <2>. QED BY <2>1 DEF Close
<1>2. Good(scopes, file)
  BY DEF TCIInv
<1>3. Good(rest, file) /\ Len(rest) = Len(scopes) - 1 /\ \A i \in 1..Len(rest) : rest[i] = scopes[i]
  BY <1>1, <1>2, Popped
<1>. HIDE DEF rest
<1>4. ASSUME rest[Len(rest)].opens = "for"
      PROVE  /\ Good(around, file) /\ Len(around) = Len(rest) - 1
             /\ \A i \in 1..Len(around) : around[i] = rest[i]
  <2>1. rest[1].opens = "program" /\ Len(rest) >= 1
    BY <1>3 DEF Good, Nested
  <2>2. Len(rest) > 1
    BY <2>1, <1>3, <1>4, TopIs
  <2>. QED BY <2>2, <1>3, Popped
<1>. HIDE DEF around
<1>5. /\ Good(scopes', file) /\ Len(scopes') <= Len(scopes) /\ Len(scopes') \in Nat
      /\ \A i \in 1..Len(scopes') : scopes'[i] = scopes[i]
  <2>1. CASE rest[Len(rest)].opens = "for"
    BY <2>1, <1>1, <1>3, <1>4, TopIs
  <2>2. CASE rest[Len(rest)].opens # "for"
    BY <2>2, <1>1, <1>3, TopIs
  <2>. QED BY <2>1, <2>2
<1>6. Printed'
  <2>1. Opened(scopes') => Opened(scopes) /\ scopes'[2].name = scopes[2].name
    BY <1>5, TopIs DEF Opened
  <2>. QED BY <2>1, <1>1, PrintedKept DEF TCIInv
<1>7. Pending'
  BY <1>1 DEF TCIInv, Pending
<1>8. Excused' /\ NoSilentCapture'
  BY <1>1 DEF TCIInv, Excused, NoSilentCapture
<1>. QED BY <1>1, <1>5, <1>6, <1>7, <1>8 DEF TCIInv

\* A name left to the file finds there what it means, unless a gap is on
\* record; it never finds another declaration of the same type.
LEMMA FileHas ==
    ASSUME TCIInv, NEW u \in outer, Len(emitted) = Cardinality(DOMAIN functions)
    PROVE  LET found == Verdict(FileScope(u.name, u.from), u.means)
           IN  /\ "captured" \notin found
               /\ found = {} \/ gaps # {} \/ DOMAIN file \cap DOMAIN functions # {}
<1>. DEFINE there == FileScope(u.name, u.from)
<1>1. /\ u.means = Function \/ u.means.type \in {"scalar", "tensor"}
      /\ u.means.type = "tensor" => u.name \in DOMAIN file /\ file[u.name] = u.means
      /\ u.means.type = "scalar" => "outer scalar" \in gaps
      /\ u.means = Function =>
            /\ u.name \in DOMAIN functions
            /\ \/ u.from = None \/ "later function" \in gaps
               \/ \E i, j \in 1..Len(emitted) : i <= j /\ emitted[i] = u.name /\ emitted[j] = u.from
  BY DEF TCIInv, Pending
<1>2. Function.type = "function" /\ Missing.type = "none" /\ Function # Missing
  BY DEF Function, Missing
<1>3. there \in {Missing, Function} \/ (u.name \in DOMAIN file /\ there = file[u.name])
  BY DEF FileScope
<1>4. \A n \in DOMAIN file : file[n].type = "tensor"
  BY DEF TCIInv, Good, Homes
<1>5. CASE u.means = Function
  <2>1. there = Function \/ there = Missing \/ there.type = "tensor"
    BY <1>3, <1>4
  <2>2. "captured" \notin Verdict(there, u.means)
    BY <2>1, <1>2, <1>5 DEF Verdict
  <2>3. ASSUME u.name \notin DOMAIN file, gaps = {}
        PROVE  Verdict(there, u.means) = {}
    <3>1. \E i \in DOMAIN emitted :
             /\ emitted[i] = u.name
             /\ u.from = None \/ \E j \in DOMAIN emitted : i <= j /\ emitted[j] = u.from
      <4>1. DOMAIN emitted = 1..Len(emitted) /\ Printed
        BY DEF TCIInv, Printed
      <4>2. CASE u.from = None
        BY <4>1, <4>2, <1>1, <1>5, AllPrinted
      <4>3. CASE u.from # None
        BY <4>1, <4>3, <1>1, <1>5, <2>3
      <4>. QED BY <4>2, <4>3
    <3>2. there = Function
      BY <3>1, <2>3 DEF FileScope
    <3>. QED BY <3>2, <1>5 DEF Verdict
  <2>. QED BY <2>2, <2>3, <1>1, <1>5
<1>6. CASE u.means.type = "tensor"
  <2>1. there = u.means
    BY <1>1, <1>6 DEF FileScope
  <2>. QED BY <2>1 DEF Verdict
<1>7. CASE u.means.type = "scalar"
  <2>1. there = Function \/ there = Missing \/ there.type = "tensor"
    BY <1>3, <1>4
  <2>2. there.type # "scalar"
    BY <2>1, <1>2
  <2>3. "captured" \notin Verdict(there, u.means)
    BY <2>2, <1>7 DEF Verdict
  <2>. QED BY <2>3, <1>1, <1>7
<1>. QED BY <1>1, <1>5, <1>6, <1>7

LEMMA FinishKeeps ==
    ASSUME TCIInv, Finish
    PROVE  TCIInv'
<1>. DEFINE Found(u) == Verdict(FileScope(u.name, u.from), u.means)
            shared == DOMAIN file \cap DOMAIN functions # {}
            found == UNION {Found(u) : u \in outer}
            again == IF shared THEN {"redefined"} ELSE {}
            more == IF shared THEN {"shared name"} ELSE {}
<1>1. /\ Len(emitted) = Cardinality(DOMAIN functions)
      /\ flaws' = flaws \cup found \cup again /\ gaps' = gaps \cup more
      /\ UNCHANGED <<functions, scopes, file, emitted, outer, size>>
  BY DEF Finish
<1>2. \A u \in outer : "captured" \notin Found(u) /\ (Found(u) = {} \/ gaps # {} \/ shared)
  BY <1>1, FileHas
<1>. HIDE DEF Found
<1>3. "captured" \notin found /\ (found = {} \/ gaps # {} \/ shared)
  BY <1>2
<1>4. "captured" \notin again /\ (shared => more # {}) /\ (~shared => again = {})
  OBVIOUS
<1>. HIDE DEF shared, found, again, more
<1>5. Excused'
  BY <1>1, <1>3, <1>4 DEF TCIInv, Excused
<1>6. NoSilentCapture'
  BY <1>1, <1>3, <1>4 DEF TCIInv, NoSilentCapture
<1>7. Pending'
  BY <1>1 DEF TCIInv, Pending
<1>. QED BY <1>1, <1>5, <1>6, <1>7, StackKept DEF TCIInv

\* Every statement keeps the names right.
LEMMA StatementKeeps == TCIInv /\ [TCNext]_tcVars => TCIInv'
<1>. SUFFICES ASSUME TCIInv, [TCNext]_tcVars PROVE TCIInv'
  OBVIOUS
<1>1. ASSUME NEW n \in Names, NEW form \in TensorForms, DeclareTensor(n, form)
      PROVE  TCIInv'
  BY <1>1, DeclareTensorKeeps
<1>2. ASSUME NEW n \in Names, NEW e \in Exprs, DeclareVar(n, e)
      PROVE  TCIInv'
  BY <1>2, DeclareVarKeeps
<1>3. ASSUME NEW n \in Names, NEW init \in Targets, NEW step \in Targets, NEW condition \in Exprs,
             OpenFor(n, init, condition, step)
      PROVE  TCIInv'
  BY <1>3, OpenForKeeps
<1>4. ASSUME NEW n \in Names, NEW params \in ParamLists, OpenFunction(n, params)
      PROVE  TCIInv'
  BY <1>4, OpenFunctionKeeps
<1>5. ASSUME NEW target \in Targets, NEW e \in Exprs, Assign(target, e)
      PROVE  TCIInv'
  BY <1>5, AssignKeeps
<1>6. ASSUME NEW a \in Names, NEW b \in Names, NEW c \in Names, Gemm(a, b, c)
      PROVE  TCIInv'
  BY <1>6, GemmKeeps
<1>7. ASSUME NEW e \in Exprs, Expression(e, {"scalar", "tensor"})
      PROVE  TCIInv'
  BY <1>7, ExpressionKeeps DEF None
<1>8. ASSUME NEW e \in Exprs, Expression(e, {"scalar"})
      PROVE  TCIInv'
  BY <1>8, ExpressionKeeps DEF None
<1>9. ASSUME NEW e \in Exprs, OpenBlock(e)
      PROVE  TCIInv'
  BY <1>9, OpenBlockKeeps
<1>10. CASE Close
  BY <1>10, CloseKeeps
<1>11. CASE Finish
  BY <1>11, FinishKeeps
<1>12. CASE UNCHANGED tcVars
  <2>1. UNCHANGED <<functions, scopes, file, emitted, outer, flaws, gaps, size, status>>
    BY <1>12 DEF tcVars
  <2>2. Pending'
    BY <2>1 DEF TCIInv, Pending
  <2>3. Excused' /\ NoSilentCapture'
    BY <2>1 DEF TCIInv, Excused, NoSilentCapture
  <2>. QED BY <2>1, <2>2, <2>3, StackKept DEF TCIInv
<1>. QED BY <1>1, <1>2, <1>3, <1>4, <1>5, <1>6, <1>7, <1>8, <1>9, <1>10, <1>11, <1>12 DEF TCNext

\* The invariant holds of every program.
THEOREM TCInvariance == TCSpec => []TCIInv
BY TCInitGood, StatementKeeps, PTL DEF TCSpec

\* No name of the C text is taken for another declaration of the same type,
\* whatever the program (sema.py:68, 103).
THEOREM NamesKeepTheirMeaning == TCSpec => []NoSilentCapture
<1>1. TCIInv => NoSilentCapture
  BY DEF TCIInv
<1>. QED BY <1>1, TCInvariance, PTL

\* What sema accepts is C, unless the program has one of the five features C
\* has otherwise (codegen_c.py prints the names as they are).
THEOREM AcceptedIsC == TCSpec => []CompilesUnlessGap
<1>1. TCIInv => CompilesUnlessGap
  BY DEF TCIInv, Excused, CompilesUnlessGap
<1>. QED BY <1>1, TCInvariance, PTL
=============================================================================
