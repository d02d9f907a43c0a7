----------------------------- MODULE Baremetal -----------------------------
(***************************************************************************)
(* A bare-metal program on the machine (maps-sim/src/runtime, examples/    *)
(* baremetal/main.c): crt0 clears .bss and calls main, main runs a GEMM    *)
(* through the NPU driver, leaves a status word and a line on the console  *)
(* and returns its result, which crt0 passes to the machine's EXIT. Before *)
(* its GEMM the program may make other calls of the driver.                *)
(***************************************************************************)
EXTENDS GemmOps

CONSTANTS
    InitialMemory,        \* the loaded image
    BssStart, BssEnd,     \* words of .bss; the first is maps_baremetal_bss_value
    StatusWord,           \* maps_baremetal_status
    GOOD, BAD,            \* 0x600d600d, 0xbad00000
    DoneText, FailText,
    Gemms,                \* what a program passes to maps_npu_gemm
    DescAddrs,            \* what it passes to maps_npu_start
    Polls,                \* and to maps_npu_wait_done
    MaxCalls              \* calls of the driver before main's own GEMM

\* A null desc is 0; another one is a descriptor's place in DRAM.
UInt32 == 0..(Word - 1)
GemmType ==
    [desc : UInt32, descAddr : UInt32, a : UInt32, b : UInt32, c : UInt32,
     m : UInt32, n : UInt32, k : UInt32]

ASSUME BaremetalAssumption ==
    /\ InitialMemory \in Memory
    /\ BssStart \in Addresses /\ BssEnd \in (BssStart + 1)..MemWords
    /\ StatusWord \in Addresses /\ GOOD \in 0..(Word - 1) /\ BAD \in 0..(Word - 4)
    /\ Gemms \subseteq GemmType
    /\ \A g \in Gemms : /\ IsWordAligned(g.desc)
                        /\ WordAddr(g.desc) + WordCount <= MemWords
    /\ TileSize < Word /\ DoneText \in Seq(Int) /\ FailText \in Seq(Int)
    /\ MaxCalls \in Nat

VARIABLES
    pc,        \* where the CPU is: a label of the code
    back,      \* where the driver returns to: main, or main's last lines
    cpu,       \* "running", "halted" or "faulted"
    mem, npu, descAddr, console, exitCode,
    rc,        \* what the last call of the driver returned
    calls,
    asked      \* history: the arguments of the last maps_npu_gemm, and memory with its descriptor

vars == <<pc, back, cpu, mem, npu, descAddr, console, exitCode, rc, calls, asked>>

NoGemm == [desc |-> 0, descAddr |-> 0, a |-> 0, b |-> 0, c |-> 0, m |-> 0, n |-> 0, k |-> 0]

Init ==
    /\ pc = "_start" /\ back = "main" /\ cpu = "running"
    /\ mem = InitialMemory /\ npu = ResetNpu /\ descAddr = 0
    /\ console = <<>> /\ exitCode = 0 /\ rc = 0 /\ calls = 0
    /\ asked = [args |-> NoGemm, mem |-> mem]

At(label) == cpu = "running" /\ pc = label

\* Mutant of Cleared: one word short.
ClearedShort(m) == [w \in Addresses |-> IF w \in (BssStart + 1)..(BssEnd - 1) THEN 0 ELSE m[w]]

Cleared(m) == [w \in Addresses |-> IF w \in BssStart..(BssEnd - 1) THEN 0 ELSE m[w]]

\* crt0 up to the call of main; maps_runtime_init is not there.
Start ==
    /\ At("_start")
    /\ pc' = "main" /\ mem' = Cleared(mem)
    /\ UNCHANGED <<back, cpu, npu, descAddr, console, exitCode, rc, calls, asked>>
-----------------------------------------------------------------------------
(* The driver: npu_driver.c. *)

\* maps_npu_desc_init of maps_npu_gemm: output stationary, tiles of 16.
DescOf(g) ==
    [m |-> g.m, n |-> g.n, k |-> g.k, A |-> g.a, B |-> g.b, C |-> g.c,
     mode |-> "OS", tm |-> TileSize, tn |-> TileSize, tk |-> TileSize]

\* maps_npu_desc_valid: a part of what the device's own validate checks.
DescValid(d) ==
    /\ d.m # 0 /\ d.n # 0 /\ d.k # 0 /\ d.tm # 0 /\ d.tn # 0 /\ d.tk # 0
    /\ \A base \in {d.A, d.B, d.C} : base # 0 /\ IsWordAligned(base)
    /\ d.mode \in Modes

\* Mutant of StartWith: the descriptor is started where it was built last.
StartWithOld(g) == IF descAddr # 0 THEN descAddr ELSE g.descAddr

\* What maps_npu_gemm passes to maps_npu_start: not its pointer.
StartWith(g) == g.descAddr

\* maps_npu_gemm up to the store of DESC_ADDR, or its `return -3`.
NpuGemm(g, to) ==
    /\ mem' = IF g.desc = 0 THEN mem ELSE Loaded(mem, WordAddr(g.desc), ToWords(DescOf(g)))
    /\ asked' = [args |-> g, mem |-> mem']
    /\ back' = to
    /\ IF g.desc = 0 \/ ~DescValid(DescOf(g))
       THEN rc' = 0 - 3 /\ pc' = to /\ UNCHANGED descAddr
       ELSE descAddr' = StartWith(g) /\ pc' = "start_gemm" /\ UNCHANGED rc
    /\ UNCHANGED <<cpu, npu, console, exitCode>>

\* The store of CMD_START, by maps_npu_gemm or by maps_npu_start itself: the
\* device runs to the end in it, and a store the device refuses is a fault.
CmdStart ==
    LET n == Submitted(npu, LoadFromMemory(mem, descAddr)) IN
    /\ At("start_gemm") \/ At("start")
    /\ npu' = IF n.state = "ERROR" THEN n ELSE Ran(n, TRUE)
    /\ IF npu'.state = "DONE" THEN MayBecome(mem, npu'.desc, mem') ELSE mem' = mem
    /\ IF npu'.state = "DONE"
       THEN pc' = (IF pc = "start_gemm" THEN "wait" ELSE back) /\ UNCHANGED cpu
       ELSE cpu' = "faulted" /\ UNCHANGED pc
    /\ UNCHANGED <<back, descAddr, console, exitCode, rc, calls, asked>>

\* maps_npu_wait_done: what STATUS says does not change between two polls.
Waited(polls) ==
    CASE polls > 0 /\ StateCode[npu.state] = 2 -> 0
      [] polls > 0 /\ StateCode[npu.state] = 3 -> 0 - 2
      [] OTHER -> 0 - 1

\* The million polls of maps_npu_gemm, and its return.
GemmWait ==
    /\ At("wait")
    /\ rc' = Waited(1) /\ pc' = back
    /\ UNCHANGED <<back, cpu, mem, npu, descAddr, console, exitCode, calls, asked>>
-----------------------------------------------------------------------------
(* The program. *)

EarlierCall == At("main") /\ calls < MaxCalls /\ calls' = calls + 1

EarlierGemm(g) == EarlierCall /\ NpuGemm(g, "main")

NpuReset ==
    /\ EarlierCall
    /\ npu' = ResetNpu /\ descAddr' = 0
    /\ UNCHANGED <<pc, back, cpu, mem, console, exitCode, rc, asked>>

NpuStart(addr) ==
    /\ EarlierCall
    /\ descAddr' = addr /\ pc' = "start" /\ back' = "main"
    /\ UNCHANGED <<cpu, mem, npu, console, exitCode, rc, asked>>

WaitDone(polls) ==
    /\ EarlierCall
    /\ rc' = Waited(polls)
    /\ UNCHANGED <<pc, back, cpu, mem, npu, descAddr, console, exitCode, asked>>

\* main's own GEMM.
MainGemm(g) == At("main") /\ NpuGemm(g, "report") /\ UNCHANGED calls

StatusOf(code, bss) == IF code = 0 /\ bss = 0 THEN GOOD ELSE BAD + (0 - code)

\* The rest of main: the status word and the line, through the machine's WRITE.
Report ==
    /\ At("report")
    /\ mem' = [mem EXCEPT ![StatusWord] = AsInt32(StatusOf(rc, mem[BssStart]))]
    /\ console' = console \o (IF rc = 0 THEN DoneText ELSE FailText)
    /\ pc' = "exit"
    /\ UNCHANGED <<back, cpu, npu, descAddr, exitCode, rc, calls, asked>>

\* crt0 after main: maps_sys_exit with what main returned.
Exit ==
    /\ At("exit")
    /\ exitCode' = rc /\ cpu' = "halted"
    /\ UNCHANGED <<pc, back, mem, npu, descAddr, console, rc, calls, asked>>

Stopped == cpu # "running" /\ UNCHANGED vars

Next ==
    \/ Start \/ CmdStart \/ GemmWait \/ NpuReset \/ Report \/ Exit \/ Stopped
    \/ \E g \in Gemms : EarlierGemm(g) \/ MainGemm(g)
    \/ \E addr \in DescAddrs : NpuStart(addr)
    \/ \E polls \in Polls : WaitDone(polls)

Spec == Init /\ [][Next]_vars
-----------------------------------------------------------------------------
\* A maps_npu_gemm that returns 0 has run the descriptor that desc_addr holds,
\* which is the one it built when this is desc's own address and else what
\* some earlier call left there; nothing but C and the descriptor changes.
\* Otherwise it returns -3 and has not touched the NPU: every refusal of the
\* device is a fault (npu_driver.c:73-98).
GemmDelivers ==
    [][ /\ GemmWait =>
             LET run == LoadFromMemory(asked.mem, asked.args.descAddr) IN
             /\ rc' = 0 /\ Validate(run)
             /\ asked.args.descAddr = asked.args.desc => run = DescOf(asked.args)
             /\ Disjoint(run) => mem' = Multiply(asked.mem, run)
        /\ At("main") /\ pc' \in {"main", "report"} /\ asked' # asked =>
             rc' = 0 - 3 /\ mem' = asked'.mem /\ npu' = npu ]_vars

\* A program that halts tells the host the same three times: the exit code is
\* what the driver returned to main, the status word is GOOD and the console
\* ends in done exactly when that is 0 (main.c:35-43, crt0.S:20-30).
HaltReportsStatus ==
    cpu = "halted" =>
        /\ exitCode = rc
        /\ mem[StatusWord] = AsInt32(IF rc = 0 THEN GOOD ELSE BAD - rc)
        /\ LET text == IF rc = 0 THEN DoneText ELSE FailText
           IN  SubSeq(console, Len(console) - Len(text) + 1, Len(console)) = text
        /\ rc = 0 => npu.state = "DONE" /\ npu.error = "NONE"
=============================================================================
