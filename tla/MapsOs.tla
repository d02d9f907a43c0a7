------------------------------- MODULE MapsOs -------------------------------
(***************************************************************************)
(* maps-os on the simulated machine: boot (crt0.S), a user program that    *)
(* calls the runtime API, the trap path of a system call (ecall, trap.S,   *)
(* os_syscall_dispatch, mret), the console and NPU drivers and the exit to *)
(* the host. The trap path is modelled register by register; the NPU is    *)
(* the device of module Device, reached by stores to DESC_ADDR and CMD.    *)
(***************************************************************************)
EXTENDS GemmOps

CONSTANTS
    InitialMemory,  \* the loaded image
    BssStart, BssEnd,                  \* words the linker puts in .bss
    UserDesc,                          \* &desc of user_npu_gemm
    BootText, DoneText, FailedText,    \* the kernel's messages
    Writes,      \* <<data, len>> the user passes to user_write
    Texts,       \* pointers it passes to user_write_cstr
    Gemms,       \* descriptors user_npu_gemm builds
    Pointers,    \* other pointers it submits
    Codes,       \* what user_main returns, and user_exit's code
    Unknowns,    \* numbers of no system call
    MaxCalls     \* calls the user program makes before it returns

ASSUME MapsOsAssumption ==
    /\ InitialMemory \in Memory
    /\ BssStart \in Nat /\ BssEnd \in BssStart..MemWords
    /\ Gemms \subseteq {d \in DescriptorType : d.mode = "OS"}
    /\ {BootText, DoneText, FailedText} \subseteq Seq(0..255)
    /\ Writes \subseteq Nat \X Nat /\ Texts \subseteq Nat
    /\ UserDesc \in Nat /\ Pointers \subseteq Nat /\ Codes \subseteq Int
    /\ Unknowns \subseteq Int \ 0..2 /\ MaxCalls \in Nat

OS_SYSCALL_EXIT == 0
OS_SYSCALL_WRITE == 1
OS_SYSCALL_NPU_SUBMIT == 2

MAPS_SYSCALL_EXIT == 0
MAPS_SYSCALL_PUTCHAR == 1
MAPS_SYSCALL_WRITE == 2

VARIABLES
    pc,       \* where the CPU is: a label of the code
    regs,     \* ra (a label), sp below the stack top, a0..a3 and a7
    csr,      \* mtvec is set, mepc (a label)
    saved,    \* the word at 12(sp) of the trap frame
    cpu,      \* "running", "halted" or "faulted"
    exitCode,
    console,  \* the bytes on the console
    mem,      \* DRAM, by words
    npu, descAddr,
    calls,    \* calls the user program has made
    rc,       \* what user_main returned
    asked     \* history: the last system call as its caller made it

vars == <<pc, regs, csr, saved, cpu, exitCode, console, mem, npu, descAddr, calls, rc, asked>>

DramBytes == WordBytes * MemWords

\* Bus::read8 of a DRAM address.
Byte(a) == (mem[a \div 4] \div (256 ^ (a % 4))) % 256

\* The bytes from ptr that can be read before the first that cannot.
ReadPrefix(ptr, len) ==
    [i \in 1..(IF ptr + len <= DramBytes THEN len ELSE IF ptr < DramBytes THEN DramBytes - ptr ELSE 0)
        |-> Byte(ptr + i - 1)]

\* Lengths at which a zero byte ends the text at ptr.
Terminators(ptr) == { l \in 0..(DramBytes - ptr - 1) : Byte(ptr + l) = 0 }

Init ==
    /\ pc = "_start"
    /\ regs = [ra |-> "reset", sp |-> 0, a0 |-> 0, a1 |-> 0, a2 |-> 0, a3 |-> 0, a7 |-> 0]
    /\ csr = [mtvec |-> FALSE, mepc |-> "reset"]
    /\ saved = "none" /\ cpu = "running" /\ exitCode = 0
    /\ console = <<>> /\ mem = InitialMemory
    /\ npu = ResetNpu /\ descAddr = 0
    /\ calls = 0 /\ rc = 0
    /\ asked = [number |-> 0, arg0 |-> 0, arg1 |-> 0, from |-> "user", sp |-> 0,
                printed |-> <<>>, mem |-> mem]

At(label) == cpu = "running" /\ pc = label

\* crt0.S up to the call of kmain: the stack, the trap vector, zeroed .bss.
Boot ==
    /\ At("_start")
    /\ pc' = "kmain"
    /\ regs' = [regs EXCEPT !.ra = "crt0"]
    /\ csr' = [csr EXCEPT !.mtvec = TRUE]
    /\ mem' = [w \in Addresses |-> IF w \in BssStart..(BssEnd - 1) THEN 0 ELSE mem[w]]
    /\ UNCHANGED <<saved, cpu, exitCode, console, npu, descAddr, calls, rc, asked>>

KmainEnter ==
    /\ At("kmain")
    /\ pc' = "user"
    /\ console' = console \o BootText
    /\ UNCHANGED <<regs, csr, saved, cpu, exitCode, mem, npu, descAddr, calls, rc, asked>>
-----------------------------------------------------------------------------
(* The user program calls the runtime API (user/runtime.c), which loads    *)
(* the argument registers and executes ecall (user/syscall.c).             *)

UserCall == At("user") /\ calls < MaxCalls /\ calls' = calls + 1

\* os_ecall1 and os_ecall2: a1 is loaded by the calls that have two arguments.
OsEcall(number, arg0, arg1, from) ==
    /\ pc' = "os_ecall"
    /\ regs' = [regs EXCEPT !.a0 = arg0, !.a7 = number, !.ra = from,
                            !.a1 = IF number = OS_SYSCALL_WRITE THEN arg1 ELSE @]
    /\ asked' = [number |-> number, arg0 |-> arg0, arg1 |-> arg1, from |-> from,
                 sp |-> regs.sp, printed |-> console, mem |-> mem']
    /\ UNCHANGED <<csr, saved, cpu, exitCode, console, npu, descAddr, rc>>

UserExit(code) == UserCall /\ mem' = mem /\ OsEcall(OS_SYSCALL_EXIT, code, 0, "user_exit")

UserWrite(ptr, len) == UserCall /\ mem' = mem /\ OsEcall(OS_SYSCALL_WRITE, ptr, len, "user")

\* user_write_cstr: -1 for a null text; the search for its end may leave the
\* memory, which faults.
UserWriteCstr(ptr) ==
    /\ UserCall
    /\ mem' = mem
    /\ IF ptr = 0 \/ Terminators(ptr) = {}
       THEN /\ cpu' = IF ptr = 0 THEN cpu ELSE "faulted"
            /\ UNCHANGED <<pc, regs, csr, saved, exitCode, console, npu, descAddr, rc, asked>>
       ELSE LET len == CHOOSE l \in Terminators(ptr) : \A t \in Terminators(ptr) : l <= t
            IN  OsEcall(OS_SYSCALL_WRITE, ptr, len, "user")

\* user_npu_gemm: npu_desc_init fills the static descriptor word by word.
UserNpuGemm(d) ==
    /\ UserCall
    /\ mem' = Loaded(mem, WordAddr(UserDesc), ToWords(d))
    /\ OsEcall(OS_SYSCALL_NPU_SUBMIT, UserDesc, 0, "user")

\* os_sys_npu_submit, and ecall with a number of no system call.
OsSysNpuSubmit(ptr) == UserCall /\ mem' = mem /\ OsEcall(OS_SYSCALL_NPU_SUBMIT, ptr, 0, "user")
OsSysUnknown(number) == UserCall /\ mem' = mem /\ OsEcall(number, 0, 0, "user")

\* Mutant: every result is a success.
VerdictDone(code) == DoneText

Verdict(code) == IF code = 0 THEN DoneText ELSE FailedText

\* user_main returns; kmain prints what became of it and returns to crt0.
KmainReturn(code) ==
    /\ At("user")
    /\ rc' = code
    /\ console' = console \o Verdict(code)
    /\ regs' = [regs EXCEPT !.a0 = code]
    /\ pc' = "machine_exit"
    /\ UNCHANGED <<csr, saved, cpu, exitCode, mem, npu, descAddr, calls, asked>>

\* Mutant: the trap vector stays set.
MachineExitTrapped ==
    /\ At("machine_exit")
    /\ regs' = [regs EXCEPT !.a7 = MAPS_SYSCALL_EXIT]
    /\ pc' = "machine_ecall"
    /\ UNCHANGED <<csr, saved, cpu, exitCode, console, mem, npu, descAddr, calls, rc, asked>>

\* machine_exit: without a trap vector the next ecall is the machine's.
MachineExit ==
    /\ At("machine_exit")
    /\ csr' = [csr EXCEPT !.mtvec = FALSE]
    /\ regs' = [regs EXCEPT !.a7 = MAPS_SYSCALL_EXIT]
    /\ pc' = "machine_ecall"
    /\ UNCHANGED <<saved, cpu, exitCode, console, mem, npu, descAddr, calls, rc, asked>>
-----------------------------------------------------------------------------
(* ecall, and what it enters. *)

AfterEcall == [os_ecall |-> "os_sys", machine_ecall |-> "machine_loop"]

Ecall ==
    /\ cpu = "running" /\ pc \in DOMAIN AfterEcall /\ csr.mtvec
    /\ csr' = [csr EXCEPT !.mepc = AfterEcall[pc]]
    /\ pc' = "trap_vector"
    /\ UNCHANGED <<regs, saved, cpu, exitCode, console, mem, npu, descAddr, calls, rc, asked>>

\* Machine::handle_syscall, after an ecall without a trap vector.
MachineSyscall ==
    LET text == ReadPrefix(regs.a0, regs.a1) IN
    /\ cpu = "running" /\ pc \in DOMAIN AfterEcall /\ ~csr.mtvec
    /\ pc' = AfterEcall[pc]
    /\ IF regs.a7 = MAPS_SYSCALL_EXIT
       THEN exitCode' = regs.a0 /\ cpu' = "halted" /\ UNCHANGED <<regs, console>>
       ELSE /\ regs' = [regs EXCEPT !.a0 =
                CASE regs.a7 = MAPS_SYSCALL_PUTCHAR -> 1
                  [] regs.a7 = MAPS_SYSCALL_WRITE /\ Len(text) = regs.a1 -> regs.a1
                  [] OTHER -> 0 - 1]
            /\ console' = CASE regs.a7 = MAPS_SYSCALL_PUTCHAR -> Append(console, regs.a0 % 256)
                            [] regs.a7 = MAPS_SYSCALL_WRITE -> console \o text
                            [] OTHER -> console
            /\ UNCHANGED <<exitCode, cpu>>
    /\ UNCHANGED <<csr, saved, mem, npu, descAddr, calls, rc, asked>>

\* Mutant: a0 is overwritten before it is moved.
MarshalledBackwards(r) == [r EXCEPT !.a0 = r.a7, !.a1 = r.a7, !.a2 = r.a7, !.a3 = r.a7]

\* The four moves of trap.S, each after the one before it.
Marshalled(r) == [r EXCEPT !.a3 = r.a2, !.a2 = r.a1, !.a1 = r.a0, !.a0 = r.a7]

\* trap.S up to the call of os_syscall_dispatch.
TrapEntry ==
    /\ At("trap_vector")
    /\ saved' = regs.ra
    /\ regs' = [Marshalled(regs) EXCEPT !.sp = regs.sp - 16, !.ra = "trap_return"]
    /\ pc' = "dispatch"
    /\ UNCHANGED <<csr, cpu, exitCode, console, mem, npu, descAddr, calls, rc, asked>>

\* A handler returns to where the call of dispatch left ra.
Answer(value) == pc' = regs.ra /\ regs' = [regs EXCEPT !.a0 = value]

DispatchExit ==
    /\ At("dispatch") /\ regs.a0 = OS_SYSCALL_EXIT
    /\ Answer(regs.a1)
    /\ UNCHANGED <<csr, saved, cpu, exitCode, console, mem, npu, descAddr, calls, rc, asked>>

\* console_write: nothing for a null pointer; a byte outside the memory faults
\* after the ones before it are out.
DispatchWrite ==
    LET text == IF regs.a1 = 0 THEN <<>> ELSE ReadPrefix(regs.a1, regs.a2)
        good == regs.a1 = 0 \/ Len(text) = regs.a2
    IN  /\ At("dispatch") /\ regs.a0 = OS_SYSCALL_WRITE
        /\ console' = console \o text
        /\ IF good THEN Answer(regs.a2) /\ UNCHANGED cpu
           ELSE cpu' = "faulted" /\ UNCHANGED <<pc, regs>>
        /\ UNCHANGED <<csr, saved, exitCode, mem, npu, descAddr, calls, rc, asked>>

\* Mutant: DESC_ADDR is written once.
DescAddrOnce(ptr) == IF descAddr = 0 THEN ptr ELSE descAddr

\* DESC_ADDR after the store of npu_submit.
DescAddrFor(ptr) == ptr

DispatchNpuSubmit ==
    /\ At("dispatch") /\ regs.a0 = OS_SYSCALL_NPU_SUBMIT
    /\ IF regs.a1 = 0
       THEN Answer(0 - 1) /\ UNCHANGED descAddr
       ELSE descAddr' = DescAddrFor(regs.a1) /\ pc' = "npu_start" /\ UNCHANGED regs
    /\ UNCHANGED <<csr, saved, cpu, exitCode, console, mem, npu, calls, rc, asked>>

DispatchUnknown ==
    /\ At("dispatch")
    /\ regs.a0 \notin {OS_SYSCALL_EXIT, OS_SYSCALL_WRITE, OS_SYSCALL_NPU_SUBMIT}
    /\ Answer(0 - 1)
    /\ UNCHANGED <<csr, saved, cpu, exitCode, console, mem, npu, descAddr, calls, rc, asked>>

\* NpuDevice::write32 of CMD returned true.
Acknowledged(n) == n.state = "DONE"

\* The store of CMD_START: the device runs to the end before it returns; a
\* store the bus refuses faults the CPU.
NpuStart ==
    LET n == Submitted(npu, LoadFromMemory(mem, descAddr)) IN
    /\ At("npu_start")
    /\ npu' = IF n.state = "ERROR" THEN n ELSE Ran(n, TRUE)
    /\ IF npu'.state = "DONE" THEN MayBecome(mem, npu'.desc, mem') ELSE mem' = mem
    /\ IF Acknowledged(npu') THEN pc' = "npu_poll" /\ UNCHANGED cpu
       ELSE cpu' = "faulted" /\ UNCHANGED pc
    /\ UNCHANGED <<regs, csr, saved, exitCode, console, descAddr, calls, rc, asked>>

\* The polling loop of npu_submit. The NPU is never busy when the CPU runs, so
\* a million equal reads are one.
NpuPoll ==
    /\ At("npu_poll")
    /\ Answer(CASE StateCode[npu.state] = 2 -> 0
                [] StateCode[npu.state] = 3 -> 0 - ErrorCode[npu.error]
                [] OTHER -> 0 - 2)
    /\ UNCHANGED <<csr, saved, cpu, exitCode, console, mem, npu, descAddr, calls, rc, asked>>

\* Mutant: ra is what the call of os_syscall_dispatch left in it.
RestoredNot(r) == [r EXCEPT !.sp = @ + 16]

Restored(r) == [r EXCEPT !.ra = saved, !.sp = @ + 16]

\* trap.S after the call, with mret.
TrapReturn ==
    /\ At("trap_return")
    /\ regs' = Restored(regs)
    /\ pc' = csr.mepc
    /\ UNCHANGED <<csr, saved, cpu, exitCode, console, mem, npu, descAddr, calls, rc, asked>>

\* os_sys_* returns to its caller.
OsSysReturn ==
    /\ At("os_sys")
    /\ pc' = regs.ra
    /\ UNCHANGED <<regs, csr, saved, cpu, exitCode, console, mem, npu, descAddr, calls, rc, asked>>

\* The machine has stopped, or is in one of the `for (;;) {}` loops.
Stopped ==
    /\ cpu # "running" \/ pc \in {"user_exit", "machine_loop"}
    /\ UNCHANGED vars

Kernel ==
    \/ Boot \/ KmainEnter \/ MachineExit \/ Ecall \/ MachineSyscall
    \/ TrapEntry \/ DispatchExit \/ DispatchWrite \/ DispatchNpuSubmit \/ DispatchUnknown
    \/ NpuStart \/ NpuPoll \/ TrapReturn \/ OsSysReturn

User ==
    \/ \E code \in Codes : UserExit(code) \/ KmainReturn(code)
    \/ \E w \in Writes : UserWrite(w[1], w[2])
    \/ \E ptr \in Texts : UserWriteCstr(ptr)
    \/ \E d \in Gemms : UserNpuGemm(d)
    \/ \E ptr \in Pointers : OsSysNpuSubmit(ptr)
    \/ \E number \in Unknowns : OsSysUnknown(number)

Next == Kernel \/ User \/ Stopped

Spec == Init /\ [][Next]_vars

\* The CPU executes one instruction after another as long as it runs.
FairSpec == Spec /\ WF_vars(Next)
-----------------------------------------------------------------------------
TypeOK ==
    /\ regs.ra \in {"reset", "crt0", "user", "user_exit", "trap_return"}
    /\ regs.sp \in {0, -16} /\ csr.mtvec \in BOOLEAN
    /\ \A a \in {"a0", "a1", "a2", "a3", "a7"} : regs[a] \in Int
    /\ cpu \in {"running", "halted", "faulted"}
    /\ mem \in Memory /\ console \in Seq(0..255)
    /\ npu \in NpuType
    /\ descAddr \in Nat /\ calls \in 0..MaxCalls

\* os_syscall_dispatch gets the number and the arguments its caller put in
\* a7, a0 and a1, although trap.S moves them through one another (trap.S:7-10).
DispatchGetsCall ==
    At("dispatch") =>
        /\ regs.a0 = asked.number /\ regs.a1 = asked.arg0
        /\ asked.number = OS_SYSCALL_WRITE => regs.a2 = asked.arg1

\* The instruction after ecall finds the return address and the stack of the
\* caller, who has not saved them, and the value of its own call.
ReturnsToCaller ==
    At("os_sys") =>
        /\ regs.ra = asked.from /\ regs.sp = asked.sp
        /\ asked.number = OS_SYSCALL_EXIT => regs.a0 = asked.arg0
        /\ asked.number \notin 0..2 => regs.a0 = 0 - 1

\* A submit that returns 0 has left in C the product of what A and B held when
\* the user called, and changed no other word; one that returns anything else
\* has changed nothing (npu.c:38-56, user/demo.c:19-25).
SubmitDelivers ==
    At("os_sys") /\ asked.number = OS_SYSCALL_NPU_SUBMIT =>
        IF regs.a0 = 0
        THEN LET d == LoadFromMemory(asked.mem, asked.arg0)
             IN  Validate(d) /\ (Disjoint(d) => mem = Multiply(asked.mem, d))
        ELSE mem = asked.mem

\* A program that halts gives the host the value user_main returned, and the
\* console tells the same: it ends in done exactly when that is 0.
HaltReportsResult ==
    cpu = "halted" =>
        /\ exitCode = rc
        /\ LET text == IF rc = 0 THEN DoneText ELSE FailedText
           IN  SubSeq(console, Len(console) - Len(text) + 1, Len(console)) = text

\* The program ends: it halts, faults or is in user_exit; it neither hangs in
\* a system call nor falls into the loop behind machine_exit's ecall.
ProgramEnds == <>(cpu # "running" \/ pc = "user_exit")

\* npu_submit returns what STATUS and ERROR say of a descriptor the NPU
\* refuses (npu.c:51-53, syscall.md:24): every call of it returns.
NpuSubmitReturns ==
    (At("dispatch") /\ regs.a0 = OS_SYSCALL_NPU_SUBMIT) ~> At("os_sys")

\* write returns the number of bytes written (syscall.md:23).
WriteReturnsBytesWritten ==
    At("os_sys") /\ asked.number = OS_SYSCALL_WRITE =>
        regs.a0 = Len(console) - Len(asked.printed)
=============================================================================
