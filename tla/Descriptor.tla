----------------------------- MODULE Descriptor -----------------------------
(***************************************************************************)
(* The GEMM descriptor (maps-sim/src/npu/descriptor.cpp): the record the   *)
(* host fills in, the ten memory words it is read from, and the validation *)
(* every layer repeats before it acts on one.                              *)
(***************************************************************************)
EXTENDS Integers, Sequences

CONSTANTS
    ArrayRows,    \* config::ARRAY_ROWS
    ArrayCols,    \* config::ARRAY_COLS
    TileSize,     \* config::TILE_SIZES, the tile of a default descriptor
    Word          \* 2^32: UINT32 arithmetic is modulo Word

ASSUME ArrayAssumption == /\ ArrayRows \in Nat \ {0}
                          /\ ArrayCols \in Nat \ {0}
                          /\ TileSize \in Nat \ {0}

ASSUME WordAssumption == Word \in Nat \ {0}

WordBytes == 4

\* enum class dataflow: the code of a mode is its position.
Modes == {"WS", "OS", "IS"}
ModeOf == <<"WS", "OS", "IS">>
Unknown == "unknown"

DescriptorType ==
    [m : Nat, n : Nat, k : Nat, A : Nat, B : Nat, C : Nat,
     mode : Modes \cup {Unknown}, tm : Nat, tn : Nat, tk : Nat]

\* Descriptor::reset.
DefaultDescriptor ==
    [m |-> 0, n |-> 0, k |-> 0, A |-> 0, B |-> 0, C |-> 0,
     mode |-> "OS", tm |-> TileSize, tn |-> TileSize, tk |-> TileSize]

IsWordAligned(addr) == addr % WordBytes = 0

WordAddr(addr) == addr \div WordBytes

\* The tile sides a dataflow pins to the array's rows and columns.
SidesFit(mode, m, n, k) ==
    \/ mode = "OS" /\ m <= ArrayRows /\ n <= ArrayCols
    \/ mode = "WS" /\ k <= ArrayRows /\ n <= ArrayCols
    \/ mode = "IS" /\ m <= ArrayRows /\ k <= ArrayCols

Validate(d) ==
    /\ d.m # 0 /\ d.n # 0 /\ d.k # 0
    /\ d.tm # 0 /\ d.tn # 0 /\ d.tk # 0
    /\ SidesFit(d.mode, d.tm, d.tn, d.tk)
    /\ \A base \in {d.A, d.B, d.C} : base # 0 /\ IsWordAligned(base)
-----------------------------------------------------------------------------
(* The memory image: ten INT32 words from the descriptor's base address.   *)

WordCount == 10

\* The descriptor the ten words of raw describe: the dataflow word selects
\* an enumerator, any other value is no mode at all.
FromWords(raw) ==
    [m |-> raw[1], n |-> raw[2], k |-> raw[3],
     A |-> raw[4], B |-> raw[5], C |-> raw[6],
     mode |-> IF raw[7] \in 0..2 THEN ModeOf[raw[7] + 1] ELSE Unknown,
     tm |-> raw[8], tn |-> raw[9], tk |-> raw[10]]

\* load_from_memory reads every word (a base that is misaligned, a word
\* outside the memory and a negative word all end it) before it stores one.
Readable(mem, base) ==
    /\ IsWordAligned(base)
    /\ \A i \in 0..(WordCount - 1) : /\ WordAddr(base) + i \in DOMAIN mem
                                     /\ mem[WordAddr(base) + i] >= 0

WordsAt(mem, base) == [i \in 1..WordCount |-> mem[WordAddr(base) + i - 1]]

\* What desc holds after load_from_memory on a fresh Descriptor, whether or
\* not it succeeded. It succeeded when this descriptor is valid.
LoadFromMemory(mem, base) ==
    IF Readable(mem, base) THEN FromWords(WordsAt(mem, base)) ELSE DefaultDescriptor

\* static_cast<INT32> of a UINT32.
AsInt32(x) == IF 2 * x >= Word THEN x - Word ELSE x

\* Mutant of ToWords: the depth and the rows of the tile change places.
ToWordsSwapped(d) ==
    <<d.m, d.n, d.k, AsInt32(d.A), AsInt32(d.B), AsInt32(d.C),
      CHOOSE x \in 0..2 : ModeOf[x + 1] = d.mode, d.tk, d.tn, d.tm>>

\* The words store_to_memory writes for a descriptor with a known mode.
ToWords(d) ==
    <<AsInt32(d.m), AsInt32(d.n), AsInt32(d.k), AsInt32(d.A), AsInt32(d.B), AsInt32(d.C),
      CHOOSE x \in 0..2 : ModeOf[x + 1] = d.mode, AsInt32(d.tm), AsInt32(d.tn), AsInt32(d.tk)>>

\* store_to_memory succeeds; words it cannot write end it, those before stay.
Storable(mem, d, base) ==
    /\ Validate(d) /\ IsWordAligned(base)
    /\ \A i \in 0..(WordCount - 1) : WordAddr(base) + i \in DOMAIN mem

Stored(mem, d, base) ==
    IF ~Validate(d) \/ ~IsWordAligned(base) THEN mem
    ELSE [w \in DOMAIN mem |->
            IF w - WordAddr(base) \in 0..(WordCount - 1) THEN ToWords(d)[w - WordAddr(base) + 1]
            ELSE mem[w]]
=============================================================================
