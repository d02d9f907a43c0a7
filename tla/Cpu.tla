-------------------------------- MODULE Cpu --------------------------------
(***************************************************************************)
(* Cpu (maps-sim/src/cpu/cpu.cpp): one instruction of the RV32I core with  *)
(* its ecall, mret and CSR instructions. The fields of an instruction word *)
(* come from the table Decode, the immediate with its sign extended; every *)
(* other word is one execute() refuses. A step is the set of what it may   *)
(* leave, since the store it executes may start the NPU.                   *)
(***************************************************************************)
EXTENDS Bus

CONSTANTS
    Regs,     \* the registers an instance has, by their names
    Decode    \* instruction words, and the fields they decode to

Csrs == {"mstatus", "mtvec", "mepc", "mcause"}
Loads == {"lb", "lh", "lw", "lbu", "lhu"}
Stores == {"sb", "sh", "sw"}
Branches == {"beq", "bne", "blt", "bge", "bltu", "bgeu"}
AluOps == {"add", "sub", "sll", "slt", "sltu", "xor", "srl", "sra", "or", "and"}
CsrOps == {"csrrw", "csrrs", "csrrc"}

\* src is the second source: a register, or "imm" where imm takes its place.
Instructions ==
    [op : AluOps \cup Loads \cup Stores \cup Branches \cup CsrOps
            \cup {"lui", "auipc", "jal", "jalr", "ecall", "mret"},
     rd : Regs, rs1 : Regs, src : Regs \cup {"imm"}, imm : 0..(Word - 1),
     csr : Csrs \cup {"unknown"}]

\* The powers of two, as a function that proofs can unfold.
Pow2[n \in 0..Word] == IF n = 0 THEN 1 ELSE 2 * Pow2[n - 1]

ASSUME CpuAssumption ==
    /\ \E n \in 0..Word : Pow2[n] = Word
    /\ {"x0", "a0", "a1", "a7"} \subseteq Regs /\ "imm" \notin Regs
    /\ DOMAIN Decode \subseteq 0..(Word - 1)
    /\ \A w \in DOMAIN Decode :
          Decode[w] \in Instructions /\ (Decode[w].op \in Stores => Decode[w].src \in Regs)

CpuType ==
    [regs : [Regs -> 0..(Word - 1)], pc : 0..(Word - 1), csr : [Csrs -> 0..(Word - 1)],
     halted : BOOLEAN, faulted : BOOLEAN, pending : BOOLEAN]

\* Mutant of ResetCpu: halted_ is left as it was.
ResetCpuHalted(c, pc) ==
    [regs |-> [r \in Regs |-> 0], pc |-> pc, csr |-> [x \in Csrs |-> 0],
     halted |-> c.halted, faulted |-> FALSE, pending |-> FALSE]

\* Cpu::reset.
ResetCpu(c, pc) ==
    [c EXCEPT !.regs = [r \in Regs |-> 0], !.pc = pc, !.csr = [x \in Csrs |-> 0],
              !.halted = FALSE, !.faulted = FALSE, !.pending = FALSE]

\* set_reg: x0 is not set.
SetReg(c, r, value) == IF r = "x0" THEN c ELSE [c EXCEPT !.regs[r] = value]

HaltCpu(c) == [c EXCEPT !.halted = TRUE, !.pending = FALSE]
-----------------------------------------------------------------------------
SignExtend(value, range) == IF 2 * value >= range THEN value - range + Word ELSE value

WordBits == CHOOSE n \in 0..Word : Pow2[n] = Word
BitsOf(x) == {i \in 0..(WordBits - 1) : (x \div Pow2[i]) % 2 = 1}
FromBits(S) == SumFunction([i \in S |-> Pow2[i]])
Flag(holds) == IF holds THEN 1 ELSE 0

Alu(op, x, y) ==
    CASE op = "add" -> (x + y) % Word
      [] op = "sub" -> (x - y) % Word
      [] op = "sll" -> (x * Pow2[y % WordBits]) % Word
      [] op = "slt" -> Flag(AsInt32(x) < AsInt32(y))
      [] op = "sltu" -> Flag(x < y)
      [] op = "xor" -> FromBits((BitsOf(x) \cup BitsOf(y)) \ (BitsOf(x) \cap BitsOf(y)))
      [] op = "srl" -> x \div Pow2[y % WordBits]
      [] op = "sra" -> (AsInt32(x) \div Pow2[y % WordBits]) % Word
      [] op = "or" -> FromBits(BitsOf(x) \cup BitsOf(y))
      [] op = "and" -> FromBits(BitsOf(x) \cap BitsOf(y))

Taken(op, x, y) ==
    CASE op = "beq" -> x = y
      [] op = "bne" -> x # y
      [] op = "blt" -> AsInt32(x) < AsInt32(y)
      [] op = "bge" -> AsInt32(x) >= AsInt32(y)
      [] op = "bltu" -> x < y
      [] op = "bgeu" -> x >= y

\* Cpu::load: the value for rd, or NoValue.
LoadValue(op, b, addr) ==
    LET byte == Read8(b, addr)
        half == Read16(b, addr)
    IN  CASE op = "lw" -> Read32(b, addr)
          [] op = "lbu" -> byte
          [] op = "lhu" -> half
          [] op = "lb" -> IF byte = NoValue THEN NoValue ELSE SignExtend(byte, Byte)
          [] op = "lh" -> IF half = NoValue THEN NoValue ELSE SignExtend(half, Byte * Byte)

\* Cpu::store.
StoreOutcomes(op, b, addr, value) ==
    CASE op = "sb" -> {Write8(b, addr, value % Byte)}
      [] op = "sh" -> {Write16(b, addr, value % (Byte * Byte))}
      [] op = "sw" -> Write32(b, addr, value)

\* Mutant of CsrValue: the low bits are kept.
CsrValueRaw(csr, value) == value

\* write_csr: mtvec and mepc lose their low bits.
CsrValue(csr, value) == IF csr \in {"mtvec", "mepc"} THEN value - (value % 4) ELSE value

CsrNext(op, old, operand) ==
    CASE op = "csrrw" -> operand
      [] op = "csrrs" -> FromBits(BitsOf(old) \cup BitsOf(operand))
      [] op = "csrrc" -> FromBits(BitsOf(old) \ BitsOf(operand))
-----------------------------------------------------------------------------
Fault(c, b) == [ok |-> FALSE, cpu |-> [c EXCEPT !.faulted = TRUE], bus |-> b]

\* The end of step(): x0 is cleared and the instruction is left.
Retire(c, b, next) == [ok |-> TRUE, cpu |-> [c EXCEPT !.regs["x0"] = 0, !.pc = next], bus |-> b]

\* The link is written whether or not the target is aligned.
Jump(c, b, target) == IF IsWordAligned(target) THEN Retire(c, b, target) ELSE Fault(c, b)

\* ecall: through the trap vector if there is one, to the host if not.
Ecall(c, b, next) ==
    IF c.csr["mtvec"] # 0
    THEN Retire([c EXCEPT !.csr["mepc"] = next, !.csr["mcause"] = 11 % Word], b, c.csr["mtvec"])
    ELSE Retire([c EXCEPT !.pending = TRUE], b, next)

\* An unknown CSR; else rd gets the old value, and a set or clear from x0, or
\* of no bits, does not write.
CsrAccess(c, b, i, operand, next) ==
    LET old == c.csr[i.csr]
        value == CsrValue(i.csr, CsrNext(i.op, old, operand))
        reads == SetReg(c, i.rd, old)
        keeps == i.op # "csrrw" /\ (i.src = "x0" \/ (i.src = "imm" /\ i.imm = 0))
    IN  IF i.csr = "unknown" THEN Fault(c, b)
        ELSE Retire(IF keeps THEN reads ELSE [reads EXCEPT !.csr[i.csr] = value], b, next)

\* execute() of a decoded instruction and the rest of step().
Execute(c, b, i) ==
    LET x == c.regs[i.rs1]
        y == IF i.src = "imm" THEN i.imm ELSE c.regs[i.src]
        next == (c.pc + 4) % Word
        addr == (x + i.imm) % Word
        Wrote(value) == [c EXCEPT !.regs[i.rd] = value]
    IN  CASE i.op = "lui" -> {Retire(Wrote(i.imm), b, next)}
          [] i.op = "auipc" -> {Retire(Wrote((c.pc + i.imm) % Word), b, next)}
          [] i.op \in AluOps -> {Retire(Wrote(Alu(i.op, x, y)), b, next)}
          [] i.op = "jal" -> {Jump(Wrote(next), b, (c.pc + i.imm) % Word)}
          [] i.op = "jalr" -> {Jump(Wrote(next), b, addr - (addr % 2))}
          [] i.op \in Branches ->
                {IF Taken(i.op, x, y) THEN Jump(c, b, (c.pc + i.imm) % Word) ELSE Retire(c, b, next)}
          [] i.op \in Loads ->
                LET v == LoadValue(i.op, b, addr)
                IN  {IF v = NoValue THEN Fault(c, b) ELSE Retire(Wrote(v), b, next)}
          [] i.op \in Stores ->
                {IF o.ok THEN Retire(c, o.bus, next) ELSE Fault(c, o.bus) :
                    o \in StoreOutcomes(i.op, b, addr, y)}
          [] i.op = "ecall" -> {Ecall(c, b, next)}
          [] i.op = "mret" -> {Jump(c, b, c.csr["mepc"])}
          [] i.op \in CsrOps -> {CsrAccess(c, b, i, y, next)}

CanStep(c) == ~c.halted /\ ~c.faulted /\ ~c.pending /\ IsWordAligned(c.pc)

\* Cpu::step.
Step(c, b) ==
    LET inst == Read32(b, c.pc)
    IN  IF ~CanStep(c)
        THEN {[ok |-> FALSE, cpu |-> [c EXCEPT !.faulted = ~c.halted], bus |-> b]}
        ELSE IF inst \notin DOMAIN Decode THEN {Fault(c, b)} ELSE Execute(c, b, Decode[inst])
=============================================================================
