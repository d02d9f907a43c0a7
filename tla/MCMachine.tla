----------------------------- MODULE MCMachine -----------------------------
(* Words 0..6 hold a program, 7 the trap handler, 10..19 a descriptor, 20   *)
(* and 21 its A and B, 22 its C. The devices are at 128 and 192.            *)
EXTENDS Machine

I(op, rd, rs1, src, imm) ==
    [op |-> op, rd |-> rd, rs1 |-> rs1, src |-> src, imm |-> imm, csr |-> "unknown"]
Lui(rd, imm) == I("lui", rd, "x0", "imm", imm)
Csr(op, rd, src, imm, csr) == [I(op, rd, "x0", src, imm) EXCEPT !.csr = csr]

MCDecode == <<
    Lui("a0", 128), Lui("a0", 192), Lui("a0", 94), Lui("a0", 40), Lui("a0", 250),   \* 1-5
    Lui("a7", 1), Lui("a7", 2), Lui("a1", 3), Lui("a1", 1), Lui("x0", 9),           \* 6-10
    I("ecall", "x0", "x0", "x0", 0), I("mret", "x0", "x0", "x0", 0),                \* 11-12
    Csr("csrrw", "x0", "imm", 30, "mtvec"), Csr("csrrw", "a1", "a0", 0, "mepc"),    \* 13-14
    Csr("csrrs", "a0", "a1", 0, "unknown"), Csr("csrrs", "a1", "a0", 0, "mstatus"), \* 15-16
    Csr("csrrc", "a1", "imm", 0, "mtvec"),                                          \* 17
    I("jal", "x0", "x0", "x0", 6), I("jalr", "ra", "a0", "x0", 4),                  \* 18-19
    I("sw", "x0", "a0", "a1", 0), I("sw", "x0", "a0", "a1", 4),                     \* 20-21
    I("sh", "x0", "a0", "a1", 0), I("sh", "x0", "a0", "a1", 1),                     \* 22-23
    I("sb", "x0", "a0", "a1", 0), I("sb", "x0", "a0", "a1", 1),                     \* 24-25
    I("lb", "a1", "a0", "x0", 0), I("lh", "a1", "a0", "x0", 0),                     \* 26-27
    I("lw", "a1", "a0", "x0", 8), I("lbu", "a1", "a0", "x0", 1),                    \* 28-29
    I("lhu", "a1", "a0", "x0", 0), I("add", "a0", "a0", "imm", 255),                \* 30-31
    I("sub", "a1", "x0", "a0", 0), I("sra", "a1", "a0", "imm", 2),                  \* 32-33
    I("xor", "a1", "a0", "imm", 255), I("and", "a0", "a0", "a1", 0),                \* 34-35
    I("beq", "x0", "a0", "a1", 8), I("blt", "x0", "a0", "a1", 250),                 \* 36-37
    I("auipc", "a0", "x0", "imm", 16), I("slt", "a1", "a0", "imm", 0),              \* 38-39
    I("or", "a1", "a0", "imm", 3), I("sll", "a1", "a1", "imm", 5),                  \* 40-41
    I("bgeu", "x0", "a0", "a1", 8), I("lw", "a0", "a0", "x0", 4),                   \* 42-43
    I("csrrs", "a0", "x0", "x0", 0) >>                                             \* 44

\* A store, load or jump of any kind at any address, and a call of the machine.
Probes ==
    { <<address, 9, op, 7, 11>> : address \in {2, 3}, op \in {22, 23, 24, 25, 27, 28} }

Programs == Probes \cup
    { <<3, 7, 8, 11, 11>>,                      \* WRITE of 3 bytes of which 2 are there
      <<4, 8, 7, 11, 31, 6, 11, 11>>,
      <<4, 31, 9, 8, 32, 11>>,
      <<1, 20, 9, 21, 28, 11>>,                 \* START, with what DESC_ADDR the host gave
      <<13, 6, 11, 3, 8, 7, 11>>,               \* a system call with a handler
      <<13, 14, 12>>, <<3, 14, 12>>, <<18>>, <<3, 19, 11>>,
      <<13, 6, 11, 14, 11, 12, 8>>,             \* one without, and mepc written
      <<2, 8, 24, 7, 11, 20, 11>>,              \* the console by stores and by WRITE
      <<5, 33, 34, 35, 39, 41, 11>>, <<5, 16, 17, 37, 12>>,
      <<4, 38, 36, 40, 42, 30, 11>>, <<2, 43, 10, 9, 24, 11>>, <<15>>, <<44>> }

MCInitialMemories ==
    { [w \in Addresses |->
          CASE w \in 0..6 -> IF w < Len(p) THEN p[w + 1] ELSE 0
            [] w = 7 -> 12
            [] w \in 10..19 -> <<1, 1, 1, 80, 84, 88, 1, 1, 1, 1>>[w - 9]
            [] w = 20 -> 3 [] w = 21 -> 0 - 5
            [] OTHER -> 27] : p \in Programs }

Bytes(x) == <<x % 4, (x \div 4) % 4, (x \div 16) % 4, x \div 64>>
Segment(vaddr, paddr, data, memsz) ==
    [load |-> TRUE, vaddr |-> vaddr, paddr |-> paddr, data |-> data, inFile |-> TRUE, memsz |-> memsz]
Elf(segments) == [header |-> TRUE, table |-> TRUE, segments |-> segments]

MCImages ==
    { Elf(<<Segment(4, 0, Bytes(11) \o Bytes(12), 10), Segment(60, 9, <<3, 2>>, 4)>>),
      Elf(<<Segment(4, 4, Bytes(6), 4), Segment(92, 0, Bytes(7), 6), Segment(8, 0, <<1>>, 1)>>),
      Elf(<<Segment(4, 0, Bytes(9), 4), Segment(8, 0, Bytes(9), 3)>>),
      Elf(<<[Segment(4, 0, <<3>>, 1) EXCEPT !.load = FALSE], Segment(192, 0, <<2>>, 1)>>),
      [Elf(<<Segment(4, 0, <<1>>, 1)>>) EXCEPT !.table = FALSE] }

MCFiles == { <<94, <<1, 2, 3>>>> }
MCWordLists == { <<23, <<11, 11>>>> }
MCHostWrites == { <<"a1", 40>>, <<"x0", 9>> }
=============================================================================
