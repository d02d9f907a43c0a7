------------------------------ MODULE Machine ------------------------------
(***************************************************************************)
(* Machine (maps-sim/src/system/machine.cpp): the CPU, the bus and what is *)
(* on it, driven by a host that loads images, resets, runs, steps and sets *)
(* registers in any order. run() is one instruction, with the system call  *)
(* it may have made, after the other; between two of them no host acts.    *)
(***************************************************************************)
EXTENDS Cpu, Loader

CONSTANTS
    InitialMemories,   \* what hosts have put in memory before
    Images,            \* ELF files
    Files,             \* <<base, bytes>> for load_file
    WordLists,         \* <<base, words>> for load_words
    Entries,           \* pcs of reset
    Budgets,           \* step limits of run
    HostWrites,        \* <<register, value>> a host sets
    MaxCalls           \* calls of the host

ASSUME MachineAssumption ==
    /\ InitialMemories \subseteq Memory
    /\ Images \subseteq ElfType
    /\ Files \subseteq Nat \X Seq(0..(Byte - 1)) /\ WordLists \subseteq Nat \X Seq(0..(Word - 1))
    /\ Entries \subseteq 0..(Word - 1) /\ HostWrites \subseteq Regs \X (0..(Word - 1))
    /\ Budgets \subseteq Nat /\ MaxCalls \in Nat

MAPS_SYSCALL_EXIT == 0
MAPS_SYSCALL_PUTCHAR == 1
MAPS_SYSCALL_WRITE == 2

VARIABLES
    cpu, bus,    \* cpu_, and bus_ with memory_, npu_ and console_output_
    exitCode,    \* exit_code_
    loop,        \* the loop the host waits for, and the turns it has left
    reply,       \* whether the last call that answers answered true
    calls,
    stop         \* history: who halted the CPU since the reset, and with what

vars == <<cpu, bus, exitCode, loop, reply, calls, stop>>

Loops == {"none", "Machine::run", "Cpu::run"}
NotStopped == [by |-> "none", code |-> 0]

Init ==
    /\ cpu = [regs |-> [r \in Regs |-> 0], pc |-> 0, csr |-> [x \in Csrs |-> 0],
              halted |-> FALSE, faulted |-> FALSE, pending |-> FALSE]
    /\ \E m \in InitialMemories :
          bus = [mem |-> m, console |-> <<>>, npu |-> ResetNpu, descAddr |-> 0]
    /\ exitCode = 0 /\ loop = [of |-> "none", left |-> 0]
    /\ reply = FALSE /\ calls = 0 /\ stop = NotStopped

\* The longest run of bytes from ptr, of at most len, that the bus reads.
Text(b, ptr, len) ==
    LET ends == {i \in 0..(len - 1) : Read8(b, (ptr + i) % Word) = NoValue}
        n == IF ends = {} THEN len ELSE CHOOSE i \in ends : \A j \in ends : i <= j
    IN  [i \in 1..n |-> Read8(b, (ptr + i - 1) % Word)]

\* Mutant of WriteAnswer: the number of bytes that came out.
WriteAnswerCount(text, len) == Len(text)

\* What WRITE puts in a0.
WriteAnswer(text, len) == IF Len(text) = len THEN len ELSE Word - 1

\* Machine::handle_syscall.
Served(o, exit) ==
    LET number == o.cpu.regs["a7"]
        arg0 == o.cpu.regs["a0"]
        arg1 == o.cpu.regs["a1"]
        text == Text(o.bus, arg0, arg1)
        Answer(value, printed) ==
            [cpu |-> [o.cpu EXCEPT !.regs["a0"] = value, !.pending = FALSE],
             bus |-> [o.bus EXCEPT !.console = @ \o printed], exit |-> exit]
    IN  CASE number = MAPS_SYSCALL_EXIT ->
               [cpu |-> HaltCpu(o.cpu), bus |-> o.bus, exit |-> AsInt32(arg0)]
          [] number = MAPS_SYSCALL_PUTCHAR -> Answer(1, <<arg0 % Byte>>)
          [] number = MAPS_SYSCALL_WRITE -> Answer(WriteAnswer(text, arg1), text)
          [] OTHER -> Answer(Word - 1, <<>>)

Running == loop.of # "none" /\ loop.left > 0 /\ ~cpu.halted /\ ~cpu.faulted

\* A turn of the loop of Machine::run; a step that fails ends it.
RunStep ==
    /\ Running /\ loop.of = "Machine::run"
    /\ \E o \in Step(cpu, bus) :
          LET served == IF o.ok /\ o.cpu.pending THEN Served(o, exitCode)
                        ELSE [cpu |-> o.cpu, bus |-> o.bus, exit |-> exitCode]
          IN  /\ cpu' = served.cpu /\ bus' = served.bus /\ exitCode' = served.exit
              /\ loop' = IF o.ok THEN [loop EXCEPT !.left = @ - 1] ELSE [of |-> "none", left |-> 0]
              /\ reply' = (o.ok /\ reply)
              /\ stop' = IF served.cpu.halted THEN [by |-> "exit", code |-> cpu.regs["a0"]] ELSE stop
    /\ UNCHANGED calls

\* A turn of Cpu::run, whose ecall halts.
CpuRunStep ==
    /\ Running /\ loop.of = "Cpu::run"
    /\ \E o \in Step(cpu, bus) :
          /\ cpu' = IF o.ok /\ o.cpu.pending THEN HaltCpu(o.cpu) ELSE o.cpu
          /\ bus' = o.bus
          /\ loop' = IF o.ok THEN [loop EXCEPT !.left = @ - 1] ELSE [of |-> "none", left |-> 0]
          /\ reply' = (o.ok /\ reply)
          /\ stop' = IF o.ok /\ o.cpu.pending THEN [by |-> "host", code |-> 0] ELSE stop
    /\ UNCHANGED <<exitCode, calls>>

\* `return halted() && !faulted()` of either loop.
RunReturn ==
    /\ loop.of # "none" /\ ~Running
    /\ reply' = (cpu.halted /\ ~cpu.faulted)
    /\ loop' = [of |-> "none", left |-> 0]
    /\ UNCHANGED <<cpu, bus, exitCode, calls, stop>>
-----------------------------------------------------------------------------
(* What a host does between two runs. *)

HostCall == loop.of = "none" /\ calls < MaxCalls /\ calls' = calls + 1

\* Machine::reset; memory stays.
Reset(pc) ==
    /\ HostCall
    /\ cpu' = ResetCpu(cpu, pc)
    /\ bus' = [bus EXCEPT !.console = <<>>, !.npu = ResetNpu, !.descAddr = 0]
    /\ exitCode' = 0 /\ stop' = NotStopped
    /\ UNCHANGED <<loop, reply>>

Run(of, n) ==
    /\ HostCall
    /\ loop' = [of |-> of, left |-> n] /\ reply' = TRUE
    /\ UNCHANGED <<cpu, bus, exitCode, stop>>

\* cpu().step(); nobody serves the system call it may make.
StepCpu ==
    /\ HostCall
    /\ \E o \in Step(cpu, bus) : cpu' = o.cpu /\ bus' = o.bus /\ reply' = o.ok
    /\ UNCHANGED <<exitCode, loop, stop>>

Halt ==
    /\ HostCall
    /\ cpu' = HaltCpu(cpu)
    /\ stop' = IF stop.by = "none" THEN [by |-> "host", code |-> 0] ELSE stop
    /\ UNCHANGED <<bus, exitCode, loop, reply>>

ClearEcall ==
    /\ HostCall
    /\ cpu' = [cpu EXCEPT !.pending = FALSE]
    /\ UNCHANGED <<bus, exitCode, loop, reply, stop>>

SetRegister(r, value) ==
    /\ HostCall
    /\ cpu' = SetReg(cpu, r, value)
    /\ UNCHANGED <<bus, exitCode, loop, reply, stop>>

Loading(outcome) ==
    /\ HostCall
    /\ UNCHANGED <<cpu, exitCode, loop, stop>>
    /\ bus' = outcome.bus /\ reply' = outcome.ok

Load(elf) == Loading(LoadElf(bus, elf))

\* load_file; an empty file is loaded.
LoadFile(base, bytes) == Loading(PutBytes(Accepted(bus), base, bytes))

LoadList(base, words) == Loading(LoadWords(bus, base, words))

Next ==
    \/ RunStep \/ CpuRunStep \/ RunReturn
    \/ \E pc \in Entries : Reset(pc)
    \/ \E of \in Loops \ {"none"}, n \in Budgets : Run(of, n)
    \/ StepCpu \/ Halt \/ ClearEcall
    \/ \E w \in HostWrites : SetRegister(w[1], w[2])
    \/ \E elf \in Images : Load(elf)
    \/ \E f \in Files : LoadFile(f[1], f[2])
    \/ \E f \in WordLists : LoadList(f[1], f[2])

Spec == Init /\ [][Next]_vars
-----------------------------------------------------------------------------
\* An unstopped CPU has x0 = 0 and aligned trap addresses, whatever a program
\* writes to them: a jump that faults is the one thing that leaves x0 changed.
TypeOK ==
    /\ cpu \in CpuType
    /\ IsWordAligned(cpu.csr["mtvec"]) /\ IsWordAligned(cpu.csr["mepc"])
    /\ cpu.regs["x0"] = 0 \/ cpu.faulted \/ cpu.halted
    /\ bus \in BusType
    /\ exitCode \in Int /\ reply \in BOOLEAN /\ calls \in 0..MaxCalls
    /\ loop \in [of : Loops, left : Nat]
    /\ stop \in [by : {"none", "exit", "host"}, code : 0..(Word - 1)]

\* The instruction at pc, of a CPU that can execute it.
Fetched == Decode[Read32(bus, cpu.pc)]
Executes == CanStep(cpu) /\ Read32(bus, cpu.pc) \in DOMAIN Decode
Turn == RunStep \/ CpuRunStep \/ StepCpu

\* A step that faults has no effect: memory, console, CSRs, pc and registers
\* are as before it, but for the link of a jump and what a refused START
\* leaves in the NPU. No access is done half (bus.cpp:96-102, cpu.cpp:34-55).
StepIsPrecise ==
    [][ Turn /\ cpu'.faulted =>
          /\ bus'.mem = bus.mem /\ bus'.console = bus.console /\ bus'.descAddr = bus.descAddr
          /\ cpu'.csr = cpu.csr /\ cpu'.pc = cpu.pc /\ cpu'.pending = cpu.pending
          /\ \A r \in Regs : \/ cpu'.regs[r] = cpu.regs[r]
                             \/ Executes /\ Fetched.op \in {"jal", "jalr"} /\ r = Fetched.rd
          /\ exitCode' = exitCode ]_vars

\* A store to DRAM that is done has changed the bytes it addresses, and no
\* other byte: seen by bytes, whatever the size (bus.cpp:77-126).
StoreHitsItsBytes ==
    [][ Turn /\ Executes /\ ~cpu'.faulted /\ Fetched.op \in Stores =>
          LET addr == (cpu.regs[Fetched.rs1] + Fetched.imm) % Word
              size == [sb |-> 1, sh |-> 2, sw |-> 4][Fetched.op]
          IN  IsDram(addr) =>
                \A a \in 0..(WordBytes * MemWords - 1) :
                   Read8(bus', a) = IF a - addr \in 0..(size - 1)
                                    THEN Digit(cpu.regs[Fetched.src], a - addr) ELSE Read8(bus, a) ]_vars

\* run returns true exactly to a host whose program has ended since the last
\* reset, and exit_code is then what this program passed to EXIT; a turn of
\* the loop leaves no system call unserved on a CPU that goes on.
RunReports ==
    [][ /\ loop.of = "Machine::run" /\ loop'.of = "none" /\ reply' =>
             /\ cpu'.halted /\ stop.by # "none"
             /\ exitCode' = IF stop.by = "exit" THEN AsInt32(stop.code) ELSE 0
        /\ RunStep /\ cpu'.pending => cpu'.faulted ]_vars

\* The machine's WRITE answers its length when all its bytes are on the
\* console, and -1 when those before the first unreadable one are.
WriteAnswers ==
    [][ /\ RunStep /\ Executes /\ Fetched.op = "ecall"
        /\ cpu.csr["mtvec"] = 0 /\ cpu.regs["a7"] = MAPS_SYSCALL_WRITE
        => LET before == Len(bus.console)
               out == Len(bus'.console) - before
               ptr == cpu.regs["a0"]
           IN  /\ \A i \in 1..before : bus'.console[i] = bus.console[i]
               /\ \A i \in 1..out : bus'.console[before + i] = Read8(bus, (ptr + i - 1) % Word)
               /\ \/ cpu'.regs["a0"] = cpu.regs["a1"] /\ out = cpu.regs["a1"]
                  \/ /\ cpu'.regs["a0"] = Word - 1 /\ out < cpu.regs["a1"]
                     /\ Read8(bus, (ptr + out) % Word) = NoValue ]_vars

\* After a load that succeeded each byte of DRAM is that of the last segment
\* that covers it, a zero past the segment's data; what no segment covers is
\* as before, and so it is after a load that failed (loader.cpp:115-154).
LoadedImage ==
    [][ \A elf \in Images : Load(elf) =>
          \A a \in 0..(WordBytes * MemWords - 1) :
             LET at == [i \in DOMAIN elf.segments |->
                           LET s == elf.segments[i] IN IF s.paddr = 0 THEN s.vaddr ELSE s.paddr]
                 covering == {i \in DOMAIN elf.segments :
                                 elf.segments[i].load /\ a - at[i] \in 0..(elf.segments[i].memsz - 1)}
             IN  IF covering = {} THEN Read8(bus', a) = Read8(bus, a)
                 ELSE reply' =>
                   LET i == CHOOSE i \in covering : \A j \in covering : j <= i
                       data == elf.segments[i].data
                   IN  Read8(bus', a) = IF a - at[i] < Len(data) THEN data[a - at[i] + 1] ELSE 0 ]_vars
=============================================================================
