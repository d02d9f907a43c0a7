-------------------------------- MODULE Bus --------------------------------
(***************************************************************************)
(* Bus (maps-sim/src/common/bus.cpp): the address map of the machine, with *)
(* DRAM from 0, the registers of the NPU and the console. The bus and what *)
(* is bound to it are one record: mem is DRAM by words, console the text,  *)
(* npu and descAddr the device. A word has four bytes of Byte values.      *)
(***************************************************************************)
EXTENDS GemmOps

CONSTANTS
    Byte,                        \* 2^8
    NPU_BASE, NPU_SIZE,
    CONSOLE_BASE, CONSOLE_SIZE

\* DRAM is below the devices, and the console has room for its two registers
\* (address_map, config::DRAM_SIZES).
ASSUME BusAssumption ==
    /\ Byte \in Nat \ {0, 1} /\ Word = Byte * Byte * Byte * Byte
    /\ {NPU_BASE, NPU_SIZE, CONSOLE_BASE, CONSOLE_SIZE} \subseteq Nat
    /\ WordBytes * MemWords <= NPU_BASE
    /\ NPU_BASE + NPU_SIZE <= CONSOLE_BASE /\ CONSOLE_BASE + CONSOLE_SIZE <= Word
    /\ 8 <= CONSOLE_SIZE

\* The state of the bus and of what is bound to it.
BusType ==
    [mem : Memory, console : Seq(0..(Byte - 1)), npu : NpuType, descAddr : 0..(Word - 1)]

NoValue == 0 - 1     \* a read that is refused

IsDram(addr) == WordAddr(addr) < MemWords
IsNpu(addr) == addr \in NPU_BASE..(NPU_BASE + NPU_SIZE - 1)
IsConsole(addr) == addr \in CONSOLE_BASE..(CONSOLE_BASE + CONSOLE_SIZE - 1)

\* The values of the bytes of a word, the lowest first.
Scale == <<1, Byte, Byte * Byte, Byte * Byte * Byte>>

Digit(x, i) == (x \div Scale[i + 1]) % Byte

\* A register of the NPU; CMD, the other offsets and what is between them
\* cannot be read.
NpuRegister(b, offset) ==
    LET counts == <<b.npu.perf.cycles, b.npu.perf.reads, b.npu.perf.writes, b.npu.perf.macs>>
    IN  CASE offset = 0 -> b.descAddr
          [] offset = 8 -> StateCode[b.npu.state]
          [] offset = 12 -> ErrorCode[b.npu.error]
          [] offset \in {16, 24, 32, 40} -> counts[(offset - 8) \div 8] % Word
          [] offset \in {20, 28, 36, 44} -> (counts[(offset - 12) \div 8] \div Word) % Word
          [] OTHER -> NoValue

Read8(b, addr) ==
    IF IsDram(addr) THEN Digit(b.mem[WordAddr(addr)] % Word, addr % WordBytes) ELSE NoValue

Read16(b, addr) ==
    IF addr % 2 = 0 /\ IsDram(addr) THEN Read8(b, addr) + Byte * Read8(b, addr + 1) ELSE NoValue

Read32(b, addr) ==
    IF ~IsWordAligned(addr) THEN NoValue
    ELSE CASE IsNpu(addr) -> NpuRegister(b, addr - NPU_BASE)
           [] addr = CONSOLE_BASE + 4 -> 1
           [] IsDram(addr) -> b.mem[WordAddr(addr)] % Word
           [] OTHER -> NoValue

Accepted(b) == [ok |-> TRUE, bus |-> b]
Denied(b) == [ok |-> FALSE, bus |-> b]

\* write_console: the DATA register is the only one.
PutConsole(b, addr, value) ==
    IF addr = CONSOLE_BASE THEN Accepted([b EXCEPT !.console = Append(@, value % Byte)]) ELSE Denied(b)

\* Mutant of Write8: the old byte is not cleared.
Write8Merges(b, addr, value) ==
    IF IsConsole(addr) THEN PutConsole(b, addr, value)
    ELSE IF ~IsDram(addr) THEN Denied(b)
    ELSE LET raw == b.mem[WordAddr(addr)] % Word
         IN  Accepted([b EXCEPT !.mem[WordAddr(addr)] =
                          AsInt32((raw + value * Scale[(addr % WordBytes) + 1]) % Word)])

Write8(b, addr, value) ==
    IF IsConsole(addr) THEN PutConsole(b, addr, value)
    ELSE IF ~IsDram(addr) THEN Denied(b)
    ELSE LET raw == b.mem[WordAddr(addr)] % Word
             i == addr % WordBytes
         IN  Accepted([b EXCEPT !.mem[WordAddr(addr)] =
                          AsInt32(raw + (value - Digit(raw, i)) * Scale[i + 1])])

\* Mutant of Write16: any address.
Write16Anywhere(b, addr, value) ==
    IF ~IsDram(addr) THEN Denied(b)
    ELSE LET low == Write8(b, addr, value % Byte)
         IN  Write8(low.bus, addr + 1, (value \div Byte) % Byte)

Write16(b, addr, value) ==
    IF addr % 2 # 0 \/ ~IsDram(addr) THEN Denied(b)
    ELSE LET low == Write8(b, addr, value % Byte)
         IN  Write8(low.bus, addr + 1, (value \div Byte) % Byte)

\* What memory may be after C := A B: module GemmOps, MayBecome.
Products(mem, d) ==
    IF Disjoint(d) THEN {Multiply(mem, d)} ELSE {m \in Memory : MayBecome(mem, d, m)}

\* NpuDevice::start.
Started(b) ==
    LET n == Submitted(b.npu, LoadFromMemory(b.mem, b.descAddr))
        r == IF n.state = "ERROR" THEN n ELSE Ran(n, TRUE)
    IN  IF r.state # "DONE" THEN {Denied([b EXCEPT !.npu = r])}
        ELSE {Accepted([b EXCEPT !.npu = r, !.mem = m]) : m \in Products(b.mem, r.desc)}

\* NpuDevice::write32: CMD_START is 1, CMD_RESET is 2.
WriteNpu(b, offset, value) ==
    CASE offset = 0 -> {Accepted([b EXCEPT !.descAddr = value])}
      [] offset = 4 /\ value = 1 -> Started(b)
      [] offset = 4 /\ value = 2 -> {Accepted([b EXCEPT !.descAddr = 0, !.npu = ResetNpu])}
      [] OTHER -> {Denied(b)}

\* The set of what write32 may leave; more than one only where C overlaps A or B.
Write32(b, addr, value) ==
    IF ~IsWordAligned(addr) THEN {Denied(b)}
    ELSE CASE IsNpu(addr) -> WriteNpu(b, addr - NPU_BASE, value)
           [] IsConsole(addr) -> {PutConsole(b, addr, value)}
           [] IsDram(addr) -> {Accepted([b EXCEPT !.mem[WordAddr(addr)] = AsInt32(value)])}
           [] OTHER -> {Denied(b)}
=============================================================================
