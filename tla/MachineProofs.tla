--------------------------- MODULE MachineProofs ---------------------------
(***************************************************************************)
(* Proofs about the machine, for every table of instructions, memory and   *)
(* sequence of host calls: types, with trap addresses aligned and x0 zero, *)
(* precise faults, what WRITE answers, stores and images seen by bytes,    *)
(* and that run reports the program that ended since the last reset.       *)
(***************************************************************************)
EXTENDS Machine, GemmOpsProofs, SequenceTheorems

-----------------------------------------------------------------------------
(* The powers of two and the bits of a word.                               *)

\* The powers of two over 0..N.
LEMMA PowersExist ==
    ASSUME NEW N \in Nat
    PROVE  \E f : f = [n \in 0..N |-> IF n = 0 THEN 1 ELSE 2 * f[n - 1]]
<1>. DEFINE P == {m \in Nat : \E f : f = [n \in 0..m |-> IF n = 0 THEN 1 ELSE 2 * f[n - 1]]}
<1>1. 0 \in P
  <2>. DEFINE f == [n \in 0..0 |-> 1]
  <2>1. f = [n \in 0..0 |-> IF n = 0 THEN 1 ELSE 2 * f[n - 1]]
    OBVIOUS
  <2>. QED BY <2>1
<1>2. ASSUME NEW m \in P PROVE m + 1 \in P
  <2>1. PICK f : f = [n \in 0..m |-> IF n = 0 THEN 1 ELSE 2 * f[n - 1]]
    OBVIOUS
  <2>. DEFINE g == [n \in 0..(m + 1) |-> IF n = 0 THEN 1 ELSE 2 * f[n - 1]]
  <2>2. ASSUME NEW n \in 0..(m + 1), n # 0 PROVE g[n - 1] = f[n - 1]
    <3>1. n - 1 \in 0..m /\ n - 1 \in 0..(m + 1)
      BY <2>2
    <3>2. f[n - 1] = IF n - 1 = 0 THEN 1 ELSE 2 * f[n - 1 - 1]
      BY <2>1, <3>1
    <3>. QED BY <3>1, <3>2
  <2>3. g = [n \in 0..(m + 1) |-> IF n = 0 THEN 1 ELSE 2 * g[n - 1]]
    BY <2>2
  <2>. HIDE DEF g
  <2>4. \E h : h = [n \in 0..(m + 1) |-> IF n = 0 THEN 1 ELSE 2 * h[n - 1]]
    BY <2>3
  <2>. QED BY <2>4
<1>. HIDE DEF P
<1>3. P = Nat
  <2>1. P \in SUBSET Nat
    BY DEF P
  <2>. QED BY <1>1, <1>2, <2>1, NatSetInduction
<1>. QED BY <1>3 DEF P

\* The definition of a power of two, unfolded.
LEMMA PowerOfTwo ==
    /\ 0 \in 0..Word /\ Pow2[0] = 1
    /\ \A n \in 0..Word : n # 0 => Pow2[n] = 2 * Pow2[n - 1]
<1>1. Word \in Nat
  BY WordAssumption
<1>2. Pow2 = [n \in 0..Word |-> IF n = 0 THEN 1 ELSE 2 * Pow2[n - 1]]
  BY <1>1, PowersExist DEF Pow2
<1>. QED BY <1>1, <1>2

\* They are positive.
LEMMA PowersPositive == \A n \in 0..Word : Pow2[n] \in Nat \ {0}
<1>. DEFINE P == {n \in Nat : n <= Word => Pow2[n] \in Nat \ {0}}
<1>0. Word \in Nat
  BY WordAssumption
<1>1. 0 \in P
  BY PowerOfTwo
<1>2. ASSUME NEW n \in P PROVE n + 1 \in P
  <2>. SUFFICES ASSUME n + 1 <= Word PROVE Pow2[n + 1] \in Nat \ {0}
    OBVIOUS
  <2>1. n \in Nat /\ n + 1 \in 0..Word /\ (n + 1) - 1 = n /\ n + 1 # 0
    BY <1>0
  <2>2. Pow2[n] \in Nat \ {0}
    BY <1>0, <2>1
  <2>3. Pow2[n + 1] = 2 * Pow2[n]
    BY <2>1, PowerOfTwo
  <2>. QED BY <2>2, <2>3
<1>. HIDE DEF P
<1>3. P = Nat
  <2>1. P \in SUBSET Nat
    BY DEF P
  <2>. QED BY <1>1, <1>2, <2>1, NatSetInduction
<1>. QED BY <1>0, <1>3 DEF P

\* A word has a whole number of bits, at least four of them.
LEMMA WordBitsDef ==
    /\ WordBits \in 0..Word /\ Pow2[WordBits] = Word
    /\ Word \in Nat /\ Word >= 16 /\ Word % 4 = 0
    /\ WordBits \in Nat \ {0} /\ Byte \in Nat /\ Byte >= 2 /\ Byte * Byte <= Word
<1>1. WordBits \in 0..Word /\ Pow2[WordBits] = Word
  BY CpuAssumption DEF WordBits
<1>2. Byte \in Nat /\ Byte >= 2 /\ Word = Byte * Byte * Byte * Byte
  BY BusAssumption
<1>3. Word \in Nat /\ Word >= 16 /\ Byte * Byte <= Word
  <2>1. 2 * 2 <= Byte * 2 /\ 2 * Byte <= Byte * Byte
    BY <1>2, TimesMonotone
  <2>. DEFINE q == Byte * Byte
  <2>2. q \in Nat /\ q >= 4
    BY <1>2, <2>1
  <2>3. Word = q * q
    BY <1>2
  <2>. HIDE DEF q
  <2>4. 4 * q <= q * q
    BY <2>2, TimesMonotone
  <2>. QED BY <2>2, <2>3, <2>4 DEF q
<1>4. WordBits >= 2
  <2>1. Pow2[0] = 1 /\ Pow2[1] = 2
    BY <1>3, PowerOfTwo
  <2>2. WordBits # 0 /\ WordBits # 1
    BY <1>1, <1>3, <2>1
  <2>. QED BY <1>1, <2>2
<1>5. Word % 4 = 0
  <2>. DEFINE n == WordBits
  <2>1. n \in 0..Word /\ n - 1 \in 0..Word /\ n - 2 \in 0..Word /\ n # 0 /\ n - 1 # 0 /\ (n - 1) - 1 = n - 2
    BY <1>1, <1>3, <1>4
  <2>. HIDE DEF n
  <2>2. Pow2[n] = 2 * Pow2[n - 1] /\ Pow2[n - 1] = 2 * Pow2[n - 2]
    BY <2>1, PowerOfTwo
  <2>3. Pow2[n - 2] \in Nat
    BY <2>1, PowersPositive
  <2>4. Pow2[n] = 4 * Pow2[n - 2]
    BY <2>2, <2>3
  <2>. QED BY <1>1, <2>3, <2>4 DEF n
<1>. QED BY <1>1, <1>2, <1>3, <1>4, <1>5

\* Distinct powers of two below the n-th add up to less than it.
LEMMA SumOfPowers ==
    ASSUME NEW N \in 0..Word, NEW S \in SUBSET (0..(N - 1))
    PROVE  FromBits(S) \in 0..(Pow2[N] - 1)
<1>. DEFINE Sum(T) == SumFunctionOnSet(Pow2, T)
            P == {n \in Nat : n <= Word => \A T \in SUBSET (0..(n - 1)) : Sum(T) \in 0..(Pow2[n] - 1)}
<1>0. Word \in Nat
  BY WordAssumption
<1>1. 0 \in P
  <2>1. Pow2[0] - 1 = 0 /\ Sum({}) = 0
    BY PowerOfTwo, SumEmpty
  <2>2. ASSUME NEW T \in SUBSET (0..(0 - 1)) PROVE Sum(T) \in 0..(Pow2[0] - 1)
    <3>1. T = {}
      OBVIOUS
    <3>2. Sum(T) = 0
      BY <2>1, <3>1
    <3>. QED BY <2>1, <3>2
  <2>. QED BY <2>2
<1>2. ASSUME NEW n \in P PROVE n + 1 \in P
  <2>. SUFFICES ASSUME n + 1 <= Word, NEW T \in SUBSET (0..n) PROVE Sum(T) \in 0..(Pow2[n + 1] - 1)
    OBVIOUS
  <2>1. n \in Nat /\ n \in 0..Word /\ n + 1 \in 0..Word /\ (n + 1) - 1 = n /\ n + 1 # 0
    BY <1>0
  <2>2. Pow2[n + 1] = 2 * Pow2[n] /\ Pow2[n] \in Nat \ {0}
    <3>1. Pow2[n + 1] = 2 * Pow2[(n + 1) - 1]
      BY <2>1, PowerOfTwo
    <3>. QED BY <2>1, <3>1, PowersPositive
  <2>3. \A R \in SUBSET (0..(n - 1)) : Sum(R) \in 0..(Pow2[n] - 1)
    BY <2>1
  <2>. HIDE DEF P
  <2>4. CASE n \notin T
    <3>1. T \in SUBSET (0..(n - 1))
      BY <2>1, <2>4
    <3>2. Sum(T) \in 0..(Pow2[n] - 1)
      BY <2>3, <3>1
    <3>. HIDE DEF Sum
    <3>. QED BY <2>2, <3>2
  <2>5. CASE n \in T
    <3>1. T \ {n} \in SUBSET (0..(n - 1))
      BY <2>1
    <3>2. IsFiniteSet(T) /\ \A x \in T : Pow2[x] \in Int
      <4>1. IsFiniteSet(0..n)
        BY <2>1, FS_Interval
      <4>2. \A x \in T : Pow2[x] \in Int
        BY <1>0, <2>1, PowersPositive
      <4>3. IsFiniteSet(T)
        BY <4>1, FS_Subset
      <4>. QED BY <4>2, <4>3
    <3>3. Sum(T) = Pow2[n] + Sum(T \ {n})
      BY <2>5, <3>2, SumRemove
    <3>4. Sum(T \ {n}) \in 0..(Pow2[n] - 1)
      BY <2>3, <3>1
    <3>. HIDE DEF Sum
    <3>. QED BY <2>2, <3>3, <3>4
  <2>. QED BY <2>4, <2>5
<1>. HIDE DEF P
<1>3. P = Nat
  <2>1. P \in SUBSET Nat
    BY DEF P
  <2>. QED BY <1>1, <1>2, <2>1, NatSetInduction
<1>4. Sum(S) \in 0..(Pow2[N] - 1)
  BY <1>0, <1>3 DEF P
<1>5. FromBits(S) = Sum(S)
  <2>. DEFINE F == [i \in S |-> Pow2[i]]
  <2>1. FromBits(S) = SumFunctionOnSet(F, S)
    BY DEF FromBits, SumFunction, SumFunctionOnSet, FoldFunction
  <2>2. IsFiniteSet(S)
    <3>1. IsFiniteSet(0..(N - 1))
      BY <1>0, FS_Interval
    <3>. QED BY <3>1, FS_Subset
  <2>3. \A x \in S : F[x] = Pow2[x]
    OBVIOUS
  <2>. HIDE DEF F
  <2>. QED BY <2>1, <2>2, <2>3, SumCongruence
<1>. QED BY <1>4, <1>5

-----------------------------------------------------------------------------
(* What the bus reads.                                                     *)

\* What a write or a load answers.
OutcomeType == [ok : BOOLEAN, bus : BusType]

\* The numbers of the bus.
LEMMA BusNumbers ==
    /\ Byte \in Nat /\ Byte >= 2 /\ Word \in Nat /\ Word >= 16 /\ Word % 4 = 0
    /\ Byte * Byte \in Nat /\ Byte * Byte <= Word /\ Byte <= Byte * Byte /\ Byte <= Word
    /\ NPU_BASE \in Nat /\ NPU_SIZE \in Nat /\ CONSOLE_BASE \in Nat /\ CONSOLE_SIZE \in Nat
    /\ 4 * MemWords <= NPU_BASE /\ NPU_BASE + NPU_SIZE <= CONSOLE_BASE
    /\ CONSOLE_BASE + CONSOLE_SIZE <= Word
    /\ MemWords \in Nat \ {0} /\ \A i \in 0..3 : Scale[i + 1] \in Nat \ {0}
<1>1. Byte \in Nat /\ Byte >= 2 /\ Word \in Nat /\ Word >= 16 /\ Word % 4 = 0 /\ Byte * Byte <= Word
  BY WordBitsDef
<1>2. Byte * Byte \in Nat /\ Byte <= Byte * Byte
  <2>1. 1 * Byte <= Byte * Byte
    BY <1>1, TimesMonotone
  <2>. QED BY <1>1, <2>1
<1>3. \A i \in 0..3 : Scale[i + 1] \in Nat \ {0}
  <2>1. Scale[1] = 1 /\ Scale[2] = Byte /\ Scale[3] = Byte * Byte /\ Scale[4] = Byte * Byte * Byte
    BY DEF Scale
  <2>2. Byte * Byte * Byte \in Nat \ {0}
    <3>. DEFINE q == Byte * Byte
    <3>1. q \in Nat /\ q >= 1
      BY <1>1, <1>2
    <3>. HIDE DEF q
    <3>2. 1 * Byte <= q * Byte /\ q * Byte \in Nat
      BY <1>1, <3>1, TimesMonotone
    <3>. QED BY <1>1, <3>2 DEF q
  <2>. QED BY <1>1, <1>2, <2>1, <2>2
<1>4. MemWords \in Nat \ {0}
  BY MemoryAssumption
<1>5. /\ NPU_BASE \in Nat /\ NPU_SIZE \in Nat /\ CONSOLE_BASE \in Nat /\ CONSOLE_SIZE \in Nat
      /\ 4 * MemWords <= NPU_BASE /\ NPU_BASE + NPU_SIZE <= CONSOLE_BASE
      /\ CONSOLE_BASE + CONSOLE_SIZE <= Word
  BY BusAssumption DEF WordBytes
<1>. QED BY <1>1, <1>2, <1>3, <1>4, <1>5

\* A word as the program sees it is one it can hold.
LEMMA SignedWord == \A x \in Int : AsInt32(x) \in Int /\ x % Word \in 0..(Word - 1)
BY BusNumbers DEF AsInt32

\* A digit of a word is a byte.
LEMMA DigitTyped ==
    ASSUME NEW x \in Nat, NEW i \in 0..3
    PROVE  Digit(x, i) \in 0..(Byte - 1)
<1>. DEFINE s == Scale[i + 1]
<1>1. s \in Nat \ {0} /\ Byte \in Nat \ {0}
  BY BusNumbers
<1>. HIDE DEF s
<1>. DEFINE q == x \div s
<1>2. q \in Nat
  BY <1>1, DivMod
<1>. HIDE DEF q
<1>3. q % Byte \in 0..(Byte - 1)
  BY <1>1, <1>2, DivMod
<1>. QED BY <1>3 DEF Digit, q, s

\* The word of an address, and the byte in it.
LEMMA Quarters ==
    ASSUME NEW a \in Nat
    PROVE  a \div 4 \in Nat /\ a % 4 \in 0..3 /\ a = 4 * (a \div 4) + (a % 4)
<1>1. a \div 4 \in Nat
  OBVIOUS
<1>2. a % 4 \in 0..3
  OBVIOUS
<1>3. a = 4 * (a \div 4) + (a % 4)
  OBVIOUS
<1>. QED BY <1>1, <1>2, <1>3

\* DRAM is words of memory, and no device is in it.
LEMMA DramWord ==
    ASSUME NEW addr \in Nat, IsDram(addr)
    PROVE  WordAddr(addr) \in Addresses /\ addr < NPU_BASE /\ ~IsNpu(addr) /\ ~IsConsole(addr)
           /\ addr % 4 \in 0..3 /\ addr = 4 * WordAddr(addr) + (addr % 4) /\ WordAddr(addr) \in Nat
<1>. DEFINE w == addr \div 4
<1>1. w \in Nat /\ addr % 4 \in 0..3 /\ addr = 4 * w + (addr % 4)
  BY Quarters
<1>2. w < MemWords /\ WordAddr(addr) = w
  BY DEF IsDram, WordAddr, WordBytes
<1>. HIDE DEF w
<1>3. w \in Addresses /\ addr < NPU_BASE
  BY <1>1, <1>2, BusNumbers DEF Addresses
<1>4. ~IsNpu(addr) /\ ~IsConsole(addr)
  BY <1>3, BusNumbers DEF IsNpu, IsConsole
<1>. QED BY <1>1, <1>2, <1>3, <1>4

\* The fields of the bus.
LEMMA BusFields ==
    ASSUME NEW b \in BusType
    PROVE  /\ b.mem \in Memory /\ b.console \in Seq(0..(Byte - 1)) /\ b.npu \in NpuType
           /\ b.descAddr \in 0..(Word - 1)
           /\ b = [mem |-> b.mem, console |-> b.console, npu |-> b.npu, descAddr |-> b.descAddr]
BY DEF BusType

\* A word of memory, as the bus reads it.
LEMMA RawTyped ==
    ASSUME NEW b \in BusType, NEW w \in Addresses
    PROVE  b.mem[w] \in Int /\ b.mem[w] % Word \in 0..(Word - 1)
<1>1. b.mem[w] \in Int
  BY BusFields DEF Memory
<1>. QED BY <1>1, SignedWord

\* A byte read is a byte, or none;
LEMMA Read8Typed ==
    ASSUME NEW b \in BusType, NEW addr \in Nat
    PROVE  /\ IsDram(addr) => Read8(b, addr) \in 0..(Byte - 1)
           /\ ~IsDram(addr) => Read8(b, addr) = NoValue
<1>1. ASSUME IsDram(addr) PROVE Digit(b.mem[WordAddr(addr)] % Word, addr % 4) \in 0..(Byte - 1)
  <2>1. WordAddr(addr) \in Addresses /\ addr % 4 \in 0..3
    BY <1>1, DramWord
  <2>2. b.mem[WordAddr(addr)] % Word \in Nat
    BY <2>1, RawTyped
  <2>. QED BY <2>1, <2>2, DigitTyped
<1>. QED BY <1>1 DEF Read8, WordBytes

\* a half is a half,
LEMMA Read16Typed ==
    ASSUME NEW b \in BusType, NEW addr \in Nat
    PROVE  \/ Read16(b, addr) = NoValue
           \/ Read16(b, addr) \in 0..(Byte * Byte - 1)
<1>1. CASE addr % 2 = 0 /\ IsDram(addr)
  <2>1. IsDram(addr + 1) /\ addr + 1 \in Nat
    BY <1>1, BusNumbers DEF IsDram, WordAddr, WordBytes
  <2>. DEFINE x == Read8(b, addr)
              y == Read8(b, addr + 1)
              v == Read16(b, addr)
  <2>2. x \in 0..(Byte - 1) /\ y \in 0..(Byte - 1)
    BY <1>1, <2>1, Read8Typed
  <2>3. v = x + Byte * y
    BY <1>1 DEF Read16
  <2>. HIDE DEF x, y, v
  <2>4. y * Byte <= (Byte - 1) * Byte /\ y * Byte \in Nat
    BY <2>2, BusNumbers, TimesMonotone
  <2>5. (Byte - 1) * Byte = Byte * Byte - Byte
    BY BusNumbers
  <2>6. v \in 0..(Byte * Byte - 1)
    <3>. DEFINE z == y * Byte
                q == Byte * Byte
    <3>1. v = x + z /\ z \in Nat /\ z <= q - Byte /\ q \in Nat
      BY <2>2, <2>3, <2>4, <2>5, BusNumbers
    <3>. HIDE DEF z, q
    <3>2. v \in 0..(q - 1)
      BY <2>2, <3>1, BusNumbers
    <3>. QED BY <3>2 DEF q
  <2>. QED BY <2>6 DEF v
<1>2. CASE ~(addr % 2 = 0 /\ IsDram(addr))
  BY <1>2 DEF Read16
<1>. QED BY <1>1, <1>2

\* A register of the device is a word.
LEMMA RegisterTyped ==
    ASSUME NEW b \in BusType, NEW offset \in Nat
    PROVE  NpuRegister(b, offset) = NoValue \/ NpuRegister(b, offset) \in 0..(Word - 1)
<1>. DEFINE counts == <<b.npu.perf.cycles, b.npu.perf.reads, b.npu.perf.writes, b.npu.perf.macs>>
            v == NpuRegister(b, offset)
<1>1. b.npu \in NpuType /\ b.descAddr \in 0..(Word - 1) /\ Word \in Nat /\ Word >= 16
  BY BusFields, BusNumbers
<1>2. b.npu.state \in NpuStates /\ b.npu.error \in NpuErrors /\ b.npu.perf \in PerfType
  BY <1>1 DEF NpuType
<1>3. \A n \in 1..4 : counts[n] \in Nat
  BY <1>2 DEF PerfType
<1>. HIDE DEF counts
<1>4. \A n \in 1..4 : counts[n] % Word \in 0..(Word - 1) /\ (counts[n] \div Word) % Word \in 0..(Word - 1)
  <2>. TAKE n \in 1..4
  <2>. DEFINE q == counts[n]
  <2>1. q \in Nat /\ Word \in Nat \ {0}
    BY <1>1, <1>3
  <2>. HIDE DEF q
  <2>2. q % Word \in 0..(Word - 1) /\ q \div Word \in Nat
    BY <1>1, <2>1, DivMod
  <2>. DEFINE u == q \div Word
  <2>. HIDE DEF u
  <2>3. u \in Nat /\ Word \in Nat \ {0}
    BY <2>1, <2>2 DEF u
  <2>4. u % Word \in 0..(Word - 1)
    BY <2>3, DivMod
  <2>. QED BY <2>2, <2>4 DEF q, u
<1>5. CASE offset = 0
  BY <1>1, <1>5 DEF NpuRegister
<1>6. CASE offset = 8
  <2>1. StateCode[b.npu.state] \in 0..15
    BY <1>2 DEF StateCode, NpuStates
  <2>2. v = StateCode[b.npu.state]
    BY <1>6 DEF NpuRegister
  <2>. QED BY <1>1, <2>1, <2>2
<1>7. CASE offset = 12
  <2>1. ErrorCode[b.npu.error] \in 0..15
    BY <1>2 DEF ErrorCode, NpuErrors
  <2>2. v = ErrorCode[b.npu.error]
    BY <1>7 DEF NpuRegister
  <2>. QED BY <1>1, <2>1, <2>2
<1>8. CASE offset \in {16, 24, 32, 40}
  <2>1. (offset - 8) \div 8 \in 1..4
    BY <1>8
  <2>2. v = counts[(offset - 8) \div 8] % Word
    BY <1>8 DEF NpuRegister, counts
  <2>. QED BY <1>4, <2>1, <2>2
<1>9. CASE offset \in {20, 28, 36, 44}
  <2>1. (offset - 12) \div 8 \in 1..4
    BY <1>9
  <2>2. v = (counts[(offset - 12) \div 8] \div Word) % Word
    BY <1>9 DEF NpuRegister, counts
  <2>. QED BY <1>4, <2>1, <2>2
<1>10. CASE offset \notin {0, 8, 12} \cup {16, 24, 32, 40} \cup {20, 28, 36, 44}
  BY <1>10 DEF NpuRegister
<1>. QED BY <1>5, <1>6, <1>7, <1>8, <1>9, <1>10

\* and a word is a word.
LEMMA Read32Typed ==
    ASSUME NEW b \in BusType, NEW addr \in Nat
    PROVE  Read32(b, addr) = NoValue \/ Read32(b, addr) \in 0..(Word - 1)
<1>. DEFINE v == Read32(b, addr)
<1>1. CASE ~IsWordAligned(addr)
  BY <1>1 DEF Read32
<1>2. CASE IsWordAligned(addr) /\ IsNpu(addr)
  <2>1. addr - NPU_BASE \in Nat
    BY <1>2, BusNumbers DEF IsNpu
  <2>2. v = NpuRegister(b, addr - NPU_BASE)
    <3>1. addr # CONSOLE_BASE + 4 /\ ~IsDram(addr)
      <4>1. addr < CONSOLE_BASE
        BY <1>2, BusNumbers DEF IsNpu
      <4>2. ~IsDram(addr)
        BY <1>2, DramWord
      <4>. QED BY <4>1, <4>2, BusNumbers
    <3>. QED BY <1>2, <3>1 DEF Read32
  <2>. QED BY <2>1, <2>2, RegisterTyped
<1>3. CASE IsWordAligned(addr) /\ ~IsNpu(addr) /\ addr = CONSOLE_BASE + 4
  <2>1. ~IsDram(addr)
    <3>1. addr >= NPU_BASE
      BY <1>3, BusNumbers
    <3>. QED BY <3>1, DramWord, BusNumbers
  <2>2. v = 1
    BY <1>3, <2>1 DEF Read32
  <2>. QED BY <2>2, BusNumbers
<1>4. CASE IsWordAligned(addr) /\ ~IsNpu(addr) /\ addr # CONSOLE_BASE + 4 /\ IsDram(addr)
  <2>1. v = b.mem[WordAddr(addr)] % Word
    BY <1>4 DEF Read32
  <2>. QED BY <1>4, <2>1, DramWord, RawTyped
<1>5. CASE IsWordAligned(addr) /\ ~IsNpu(addr) /\ addr # CONSOLE_BASE + 4 /\ ~IsDram(addr)
  BY <1>5 DEF Read32
<1>. QED BY <1>1, <1>2, <1>3, <1>4, <1>5

-----------------------------------------------------------------------------
(* What the bus writes: bytes, halves and the console.                     *)

\* What the bus leaves when it refuses an access to all but the NPU.
SameBus(b, c) == c.mem = b.mem /\ c.console = b.console /\ c.descAddr = b.descAddr

\* A write: its type, and that a refused one is as if it was not made.
WriteKeeps(b, o) == o \in OutcomeType /\ (~o.ok => SameBus(b, o.bus))

\* A refused access leaves the bus as it was.
LEMMA DeniedTyped ==
    ASSUME NEW b \in BusType
    PROVE  WriteKeeps(b, Denied(b)) /\ ~Denied(b).ok /\ Denied(b).bus = b
BY DEF Denied, OutcomeType, WriteKeeps, SameBus

\* An accepted one leaves what it wrote.
LEMMA AcceptedTyped ==
    ASSUME NEW b, NEW c \in BusType
    PROVE  WriteKeeps(b, Accepted(c)) /\ Accepted(c).ok /\ Accepted(c).bus = c
BY DEF Accepted, OutcomeType, WriteKeeps

\* A word of memory is written.
LEMMA WordWritten ==
    ASSUME NEW b \in BusType, NEW w \in Addresses, NEW x \in Int
    PROVE  [b EXCEPT !.mem[w] = x] \in BusType
<1>1. [b.mem EXCEPT ![w] = x] \in Memory
  BY BusFields DEF Memory
<1>2. [b EXCEPT !.mem[w] = x] = [mem |-> [b.mem EXCEPT ![w] = x], console |-> b.console,
                                 npu |-> b.npu, descAddr |-> b.descAddr]
  BY DEF BusType
<1>. QED BY <1>1, <1>2, BusFields DEF BusType

\* A byte for the console.
LEMMA PutConsoleTyped ==
    ASSUME NEW b \in BusType, NEW addr, NEW value \in Nat
    PROVE  WriteKeeps(b, PutConsole(b, addr, value))
<1>1. CASE addr = CONSOLE_BASE
  <2>. DEFINE x == Append(b.console, value % Byte)
              c == [b EXCEPT !.console = x]
  <2>1. value % Byte \in 0..(Byte - 1)
    <3>1. Byte \in Nat \ {0}
      BY BusNumbers
    <3>. QED BY <3>1, DivMod
  <2>2. Append(b.console, value % Byte) \in Seq(0..(Byte - 1))
    BY <2>1, BusFields, AppendProperties
  <2>3. PutConsole(b, addr, value) = Accepted(c)
    BY <1>1 DEF PutConsole
  <2>4. x \in Seq(0..(Byte - 1))
    BY <2>2
  <2>. HIDE DEF x
  <2>5. c \in BusType
    BY <2>4 DEF BusType
  <2>. HIDE DEF c
  <2>. QED BY <2>3, <2>5, AcceptedTyped
<1>2. CASE addr # CONSOLE_BASE
  BY <1>2, DeniedTyped DEF PutConsole
<1>. QED BY <1>1, <1>2

\* A byte put into a word of DRAM.
ByteWord(raw, i, value) == AsInt32(raw + (value - Digit(raw, i)) * Scale[i + 1])

\* Write8 to DRAM, in these terms.
LEMMA Write8Dram ==
    ASSUME NEW b \in BusType, NEW addr \in Nat, IsDram(addr), NEW value \in Nat
    PROVE  LET w == WordAddr(addr)
               c == [b EXCEPT !.mem[w] = ByteWord(b.mem[w] % Word, addr % 4, value)]
           IN  Write8(b, addr, value) = Accepted(c) /\ c \in BusType
<1>. DEFINE w == WordAddr(addr)
            raw == b.mem[w] % Word
            i == addr % 4
            c == [b EXCEPT !.mem[w] = ByteWord(raw, i, value)]
<1>1. w \in Addresses /\ i \in 0..3 /\ ~IsConsole(addr)
  BY DramWord
<1>2. raw \in Nat /\ raw \in 0..(Word - 1)
  BY <1>1, RawTyped
<1>3. Write8(b, addr, value) = Accepted(c)
  BY <1>1 DEF Write8, ByteWord, WordBytes
<1>. HIDE DEF raw, i
<1>4. ByteWord(raw, i, value) \in Int
  <2>1. Digit(raw, i) \in Int /\ Scale[i + 1] \in Int
    BY <1>1, <1>2, DigitTyped, BusNumbers
  <2>. DEFINE d == value - Digit(raw, i)
              s == Scale[i + 1]
  <2>2. d \in Int /\ s \in Int
    BY <2>1
  <2>. HIDE DEF d, s
  <2>3. raw + d * s \in Int
    BY <1>2, <2>2
  <2>. QED BY <2>3, SignedWord DEF ByteWord, d, s
<1>5. c \in BusType
  BY <1>1, <1>4, WordWritten
<1>. QED BY <1>3, <1>5 DEF raw, i

\* A byte written to the bus;
LEMMA Write8Typed ==
    ASSUME NEW b \in BusType, NEW addr \in Nat, NEW value \in Nat
    PROVE  WriteKeeps(b, Write8(b, addr, value))
<1>1. CASE IsConsole(addr)
  BY <1>1, PutConsoleTyped DEF Write8
<1>2. CASE ~IsConsole(addr) /\ ~IsDram(addr)
  BY <1>2, DeniedTyped DEF Write8
<1>3. CASE ~IsConsole(addr) /\ IsDram(addr)
  <2>. DEFINE c == [b EXCEPT !.mem[WordAddr(addr)] =
                       ByteWord(b.mem[WordAddr(addr)] % Word, addr % 4, value)]
  <2>1. Write8(b, addr, value) = Accepted(c) /\ c \in BusType
    BY <1>3, Write8Dram
  <2>. HIDE DEF c
  <2>. QED BY <2>1, AcceptedTyped
<1>. QED BY <1>1, <1>2, <1>3

\* Both bytes of a half are in one word of DRAM, or none is.
LEMMA HalfWord ==
    ASSUME NEW addr \in Nat, addr % 2 = 0, IsDram(addr)
    PROVE  IsDram(addr + 1) /\ WordAddr(addr + 1) = WordAddr(addr) /\ (addr + 1) % 4 = (addr % 4) + 1
BY BusNumbers DEF IsDram, WordAddr, WordBytes

\* a half, which is written whole or not at all;
LEMMA Write16Typed ==
    ASSUME NEW b \in BusType, NEW addr \in Nat, NEW value \in Nat
    PROVE  WriteKeeps(b, Write16(b, addr, value))
<1>1. CASE addr % 2 # 0 \/ ~IsDram(addr)
  BY <1>1, DeniedTyped DEF Write16
<1>2. CASE addr % 2 = 0 /\ IsDram(addr)
  <2>. DEFINE low == Write8(b, addr, value % Byte)
              high == (value \div Byte) % Byte
              o == Write8(low.bus, addr + 1, high)
  <2>0. Byte \in Nat \ {0}
    BY BusNumbers
  <2>1. value % Byte \in Nat /\ value \div Byte \in Nat
    BY <2>0, DivMod
  <2>2. high \in Nat
    <3>. DEFINE q == value \div Byte
    <3>1. q \in Nat
      BY <2>1
    <3>. HIDE DEF q
    <3>2. q % Byte \in Nat
      BY <2>0, <3>1, DivMod
    <3>. QED BY <3>2 DEF q
  <2>3. low \in OutcomeType
    BY <2>1, Write8Typed DEF WriteKeeps
  <2>4. low.bus \in BusType
    BY <2>3 DEF OutcomeType
  <2>5. Write16(b, addr, value) = o
    BY <1>2 DEF Write16
  <2>. HIDE DEF low, high
  <2>6. IsDram(addr + 1) /\ addr + 1 \in Nat
    BY <1>2, HalfWord
  <2>. DEFINE c == [low.bus EXCEPT !.mem[WordAddr(addr + 1)] =
                       ByteWord(low.bus.mem[WordAddr(addr + 1)] % Word, (addr + 1) % 4, high)]
  <2>7. o = Accepted(c) /\ c \in BusType
    BY <2>2, <2>4, <2>6, Write8Dram
  <2>. HIDE DEF c, o
  <2>. QED BY <2>5, <2>7, AcceptedTyped
<1>. QED BY <1>1, <1>2

-----------------------------------------------------------------------------
(* The registers of the NPU, and words.                                    *)

\* The other fields of the bus.
LEMMA DeviceWritten ==
    ASSUME NEW b \in BusType, NEW n \in NpuType, NEW m \in Memory, NEW a \in 0..(Word - 1)
    PROVE  /\ [b EXCEPT !.npu = n] \in BusType /\ SameBus(b, [b EXCEPT !.npu = n])
           /\ [b EXCEPT !.npu = n, !.mem = m] \in BusType
           /\ [b EXCEPT !.descAddr = a] \in BusType
           /\ [b EXCEPT !.descAddr = a, !.npu = n] \in BusType
           /\ [b EXCEPT !.console = <<>>, !.npu = n, !.descAddr = a] \in BusType
<1>1. <<>> \in Seq(0..(Byte - 1))
  OBVIOUS
<1>2. \A c \in BusType : [c EXCEPT !.npu = n] \in BusType
  BY DEF BusType
<1>3. \A c \in BusType : [c EXCEPT !.mem = m] \in BusType
  BY DEF BusType
<1>4. \A c \in BusType : [c EXCEPT !.descAddr = a] \in BusType
  BY DEF BusType
<1>5. \A c \in BusType : [c EXCEPT !.console = <<>>] \in BusType
  BY <1>1 DEF BusType
<1>6. [b EXCEPT !.npu = n, !.mem = m] = [[b EXCEPT !.npu = n] EXCEPT !.mem = m]
  OBVIOUS
<1>7. [b EXCEPT !.descAddr = a, !.npu = n] = [[b EXCEPT !.descAddr = a] EXCEPT !.npu = n]
  OBVIOUS
<1>8. [b EXCEPT !.console = <<>>, !.npu = n, !.descAddr = a] =
        [[[b EXCEPT !.console = <<>>] EXCEPT !.npu = n] EXCEPT !.descAddr = a]
  OBVIOUS
<1>9. [b EXCEPT !.npu = n] = [mem |-> b.mem, console |-> b.console, npu |-> n, descAddr |-> b.descAddr]
  BY DEF BusType
<1>10. SameBus(b, [b EXCEPT !.npu = n])
  BY <1>9 DEF SameBus
<1>. QED BY <1>2, <1>3, <1>4, <1>5, <1>6, <1>7, <1>8, <1>10

\* START: a refused one changes the NPU only.
LEMMA StartedTyped ==
    ASSUME NEW b \in BusType, NEW o \in Started(b)
    PROVE  WriteKeeps(b, o)
<1>. DEFINE d == LoadFromMemory(b.mem, b.descAddr)
            r == AfterStart(b.npu, d)
<1>1. b.npu \in NpuType /\ b.mem \in Memory /\ b.descAddr \in 0..(Word - 1)
  BY BusFields
<1>2. d \in DescriptorType
  BY <1>1, LoadedDescriptor
<1>3. Started(b) = IF r.state # "DONE" THEN {Denied([b EXCEPT !.npu = r])}
                   ELSE {Accepted([b EXCEPT !.npu = r, !.mem = m]) : m \in Products(b.mem, r.desc)}
  BY DEF Started, AfterStart
<1>. HIDE DEF d
<1>4. r \in NpuType
  BY <1>1, <1>2, StartKeepsTypes
<1>5. r.state = "DONE" => Validate(d) /\ InMemory(d) /\ r.desc = d
  BY <1>1, StartVerdict
<1>. HIDE DEF r
<1>6. CASE r.state # "DONE"
  <2>. DEFINE c == [b EXCEPT !.npu = r]
  <2>1. c \in BusType /\ SameBus(b, c)
    BY <1>1, <1>4, DeviceWritten
  <2>2. o = Denied(c)
    BY <1>3, <1>6
  <2>. HIDE DEF c
  <2>. QED BY <2>1, <2>2, DeniedTyped DEF WriteKeeps, Denied
<1>7. CASE r.state = "DONE"
  <2>1. PICK m \in Products(b.mem, r.desc) : o = Accepted([b EXCEPT !.npu = r, !.mem = m])
    BY <1>3, <1>7
  <2>2. m \in Memory
    <3>1. CASE Disjoint(d)
      <4>1. m = Multiply(b.mem, d)
        BY <1>5, <1>7, <3>1 DEF Products
      <4>. QED BY <1>1, <1>2, <1>5, <1>7, <4>1, ProductMemory
    <3>2. CASE ~Disjoint(d)
      BY <1>5, <1>7, <3>2 DEF Products
    <3>. QED BY <3>1, <3>2
  <2>3. [b EXCEPT !.npu = r, !.mem = m] \in BusType
    BY <1>1, <1>4, <2>2, DeviceWritten
  <2>. QED BY <2>1, <2>3, AcceptedTyped
<1>. QED BY <1>6, <1>7

\* a register of the NPU,
LEMMA WriteNpuTyped ==
    ASSUME NEW b \in BusType, NEW offset, NEW value \in 0..(Word - 1), NEW o \in WriteNpu(b, offset, value)
    PROVE  WriteKeeps(b, o)
<1>0. 0 \in 0..(Word - 1)
  BY BusNumbers
<1>1. CASE offset = 0
  <2>1. [b EXCEPT !.descAddr = value] \in BusType
    BY BusFields, DeviceWritten
  <2>2. o = Accepted([b EXCEPT !.descAddr = value])
    BY <1>1 DEF WriteNpu
  <2>. QED BY <2>1, <2>2, AcceptedTyped
<1>2. CASE offset = 4 /\ value = 1
  BY <1>2, StartedTyped DEF WriteNpu
<1>3. CASE offset = 4 /\ value = 2
  <2>1. [b EXCEPT !.descAddr = 0, !.npu = ResetNpu] \in BusType
    BY <1>0, BusFields, ResetTyped, DeviceWritten
  <2>2. o = Accepted([b EXCEPT !.descAddr = 0, !.npu = ResetNpu])
    BY <1>3 DEF WriteNpu
  <2>. QED BY <2>1, <2>2, AcceptedTyped
<1>4. CASE offset # 0 /\ ~(offset = 4 /\ value \in {1, 2})
  <2>1. o = Denied(b)
    BY <1>4 DEF WriteNpu
  <2>. QED BY <2>1, DeniedTyped
<1>. QED BY <1>1, <1>2, <1>3, <1>4

\* and a word anywhere.
LEMMA Write32Typed ==
    ASSUME NEW b \in BusType, NEW addr \in Nat, NEW value \in 0..(Word - 1), NEW o \in Write32(b, addr, value)
    PROVE  WriteKeeps(b, o)
<1>0. IsNpu(addr) => ~IsConsole(addr) /\ ~IsDram(addr)
  <2>1. IsNpu(addr) => ~IsConsole(addr)
    BY BusNumbers DEF IsNpu, IsConsole
  <2>. QED BY <2>1, DramWord
<1>1. CASE ~IsWordAligned(addr)
  <2>1. o = Denied(b)
    BY <1>1 DEF Write32
  <2>. QED BY <2>1, DeniedTyped
<1>2. CASE IsWordAligned(addr) /\ IsNpu(addr)
  <2>1. o \in WriteNpu(b, addr - NPU_BASE, value)
    BY <1>0, <1>2 DEF Write32
  <2>. QED BY <2>1, WriteNpuTyped
<1>3. CASE IsWordAligned(addr) /\ ~IsNpu(addr) /\ IsConsole(addr)
  <2>1. o = PutConsole(b, addr, value)
    BY <1>3, DramWord DEF Write32
  <2>. QED BY <2>1, PutConsoleTyped
<1>4. CASE IsWordAligned(addr) /\ ~IsNpu(addr) /\ ~IsConsole(addr) /\ IsDram(addr)
  <2>. DEFINE c == [b EXCEPT !.mem[WordAddr(addr)] = AsInt32(value)]
  <2>1. o = Accepted(c)
    BY <1>4 DEF Write32
  <2>2. WordAddr(addr) \in Addresses /\ AsInt32(value) \in Int
    BY <1>4, DramWord, SignedWord
  <2>3. c \in BusType
    BY <2>2, WordWritten
  <2>. QED BY <2>1, <2>3, AcceptedTyped
<1>5. CASE IsWordAligned(addr) /\ ~IsNpu(addr) /\ ~IsConsole(addr) /\ ~IsDram(addr)
  <2>1. o = Denied(b)
    BY <1>5 DEF Write32
  <2>. QED BY <2>1, DeniedTyped
<1>. QED BY <1>1, <1>2, <1>3, <1>4, <1>5

-----------------------------------------------------------------------------
(* The arithmetic of the CPU, its loads and its stores.                    *)

\* The values of a register.
Words == 0..(Word - 1)

\* Some of the bits of a word make up a word.
LEMMA BitsMakeWord ==
    ASSUME NEW S \in SUBSET (0..(WordBits - 1))
    PROVE  FromBits(S) \in Words
BY SumOfPowers, WordBitsDef DEF Words

\* Shifted words are words.
LEMMA ShiftTyped ==
    ASSUME NEW y \in Nat
    PROVE  Pow2[y % WordBits] \in Nat \ {0}
<1>1. WordBits \in Nat \ {0} /\ WordBits <= Word /\ Word \in Nat
  BY WordBitsDef
<1>2. y % WordBits \in 0..(WordBits - 1)
  BY <1>1, DivMod
<1>3. y % WordBits \in 0..Word
  <2>. DEFINE r == y % WordBits
  <2>1. r \in 0..(WordBits - 1)
    BY <1>2
  <2>. HIDE DEF r
  <2>2. r \in 0..Word
    BY <1>1, <2>1
  <2>. QED BY <2>2 DEF r
<1>. QED BY <1>3, PowersPositive

\* A quotient is not more than what is divided.
LEMMA SmallQuotient ==
    ASSUME NEW x \in Nat, NEW p \in Nat \ {0}
    PROVE  x \div p \in 0..x
<1>. DEFINE q == x \div p
<1>1. q \in Nat /\ x % p \in Nat /\ x = q * p + (x % p)
  BY DivMod
<1>. DEFINE r == x % p
<1>2. r \in Nat /\ x = q * p + r
  BY <1>1
<1>. HIDE DEF q, r
<1>3. 1 * q <= p * q
  BY <1>1, TimesMonotone
<1>4. p * q = q * p /\ q * p \in Nat
  BY <1>1
<1>5. q \in 0..x
  BY <1>1, <1>2, <1>3, <1>4
<1>. QED BY <1>5 DEF q

\* An ALU operation makes a word of two.
LEMMA AluTyped ==
    ASSUME NEW op \in AluOps, NEW x \in Words, NEW y \in Words
    PROVE  Alu(op, x, y) \in Words
<1>0. Word \in Nat /\ Word >= 16 /\ x \in Nat /\ y \in Nat /\ AsInt32(x) \in Int
  BY BusNumbers, SignedWord DEF Words
<1>1. \A z \in Int : z % Word \in Words
  BY SignedWord DEF Words
<1>2. \A S \in SUBSET (0..(WordBits - 1)) : FromBits(S) \in Words
  BY BitsMakeWord
<1>. DEFINE p == Pow2[y % WordBits]
<1>3. p \in Nat \ {0}
  BY <1>0, ShiftTyped
<1>4. CASE op = "add"
  BY <1>0, <1>1, <1>4 DEF Alu
<1>5. CASE op = "sub"
  BY <1>0, <1>1, <1>5 DEF Alu
<1>6. CASE op = "sll"
  <2>1. Alu(op, x, y) = (x * p) % Word
    BY <1>6 DEF Alu
  <2>. HIDE DEF p
  <2>2. x * p \in Int
    BY <1>0, <1>3
  <2>. QED BY <1>1, <2>1, <2>2
<1>7. CASE op \in {"slt", "sltu"}
  <2>1. Alu(op, x, y) \in {0, 1}
    BY <1>7 DEF Alu, Flag
  <2>. QED BY <1>0, <2>1 DEF Words
<1>8. CASE op \in {"xor", "or", "and"}
  <2>. DEFINE xs == BitsOf(x)
              ys == BitsOf(y)
  <2>1. xs \in SUBSET (0..(WordBits - 1)) /\ ys \in SUBSET (0..(WordBits - 1))
    BY DEF BitsOf
  <2>2. Alu(op, x, y) \in {FromBits((xs \cup ys) \ (xs \cap ys)), FromBits(xs \cup ys), FromBits(xs \cap ys)}
    BY <1>8 DEF Alu
  <2>. HIDE DEF xs, ys
  <2>3. /\ (xs \cup ys) \ (xs \cap ys) \in SUBSET (0..(WordBits - 1))
        /\ xs \cup ys \in SUBSET (0..(WordBits - 1)) /\ xs \cap ys \in SUBSET (0..(WordBits - 1))
    BY <2>1
  <2>. QED BY <1>2, <2>2, <2>3
<1>9. CASE op = "srl"
  <2>1. Alu(op, x, y) = x \div p
    BY <1>9 DEF Alu
  <2>. HIDE DEF p
  <2>2. x \div p \in 0..x
    BY <1>0, <1>3, SmallQuotient
  <2>. QED BY <1>0, <2>1, <2>2 DEF Words
<1>10. CASE op = "sra"
  <2>. DEFINE s == AsInt32(x)
  <2>1. Alu(op, x, y) = (s \div p) % Word
    BY <1>10 DEF Alu
  <2>2. s \in Int
    BY <1>0
  <2>. HIDE DEF p, s
  <2>3. s \div p \in Int
    BY <1>3, <2>2
  <2>. QED BY <1>1, <2>1, <2>3
<1>. QED BY <1>4, <1>5, <1>6, <1>7, <1>8, <1>9, <1>10 DEF AluOps

\* A sign-extended byte or half is a word.
LEMMA SignExtendTyped ==
    ASSUME NEW range \in Nat, range <= Word, NEW value \in 0..(range - 1)
    PROVE  SignExtend(value, range) \in Words
BY BusNumbers DEF SignExtend, Words

\* A load finds a word, or is refused.
LEMMA LoadTyped ==
    ASSUME NEW op \in Loads, NEW b \in BusType, NEW addr \in Nat, LoadValue(op, b, addr) # NoValue
    PROVE  LoadValue(op, b, addr) \in Words
<1>. DEFINE byte == Read8(b, addr)
            half == Read16(b, addr)
            v == LoadValue(op, b, addr)
<1>1. byte = NoValue \/ byte \in 0..(Byte - 1)
  BY Read8Typed
<1>2. half = NoValue \/ half \in 0..(Byte * Byte - 1)
  BY Read16Typed
<1>. DEFINE q == Byte * Byte
<1>3. q \in Nat /\ q <= Word /\ Byte \in Nat /\ Byte <= Word /\ Word \in Nat
  BY BusNumbers
<1>4. CASE op = "lw"
  BY <1>4, Read32Typed DEF LoadValue, Words
<1>5. CASE op = "lbu"
  <2>1. v = byte
    BY <1>5 DEF LoadValue
  <2>. HIDE DEF byte
  <2>. QED BY <1>1, <1>3, <2>1 DEF Words
<1>6. CASE op = "lhu"
  <2>1. v = half
    BY <1>6 DEF LoadValue
  <2>. HIDE DEF half, q
  <2>2. half \in 0..(q - 1)
    BY <1>2, <2>1 DEF q
  <2>. QED BY <1>3, <2>1, <2>2 DEF Words
<1>7. CASE op = "lb"
  <2>1. v = IF byte = NoValue THEN NoValue ELSE SignExtend(byte, Byte)
    BY <1>7 DEF LoadValue
  <2>. HIDE DEF byte
  <2>. QED BY <1>1, <1>3, <2>1, SignExtendTyped
<1>8. CASE op = "lh"
  <2>1. v = IF half = NoValue THEN NoValue ELSE SignExtend(half, q)
    BY <1>8 DEF LoadValue
  <2>. HIDE DEF half
  <2>2. half \in 0..(q - 1) \/ half = NoValue
    BY <1>2
  <2>. HIDE DEF q
  <2>. QED BY <1>3, <2>1, <2>2, SignExtendTyped
<1>. QED BY <1>4, <1>5, <1>6, <1>7, <1>8 DEF Loads

\* A store keeps the bus, and leaves it when it is refused.
LEMMA StoreTyped ==
    ASSUME NEW op \in Stores, NEW b \in BusType, NEW addr \in Nat, NEW value \in Words,
           NEW s \in StoreOutcomes(op, b, addr, value)
    PROVE  WriteKeeps(b, s)
<1>0. value \in Nat /\ Byte \in Nat \ {0} /\ Byte * Byte \in Nat \ {0}
  BY BusNumbers DEF Words
<1>1. CASE op = "sb"
  <2>1. value % Byte \in Nat
    BY <1>0, DivMod
  <2>2. s = Write8(b, addr, value % Byte)
    BY <1>1 DEF StoreOutcomes
  <2>. QED BY <2>1, <2>2, Write8Typed
<1>2. CASE op = "sh"
  <2>1. value % (Byte * Byte) \in Nat
    BY <1>0, DivMod
  <2>2. s = Write16(b, addr, value % (Byte * Byte))
    BY <1>2 DEF StoreOutcomes
  <2>. QED BY <2>1, <2>2, Write16Typed
<1>3. CASE op = "sw"
  BY <1>3, Write32Typed DEF StoreOutcomes, Words
<1>. QED BY <1>1, <1>2, <1>3 DEF Stores

\* The trap addresses stay word aligned.
LEMMA AlignedDown ==
    ASSUME NEW x \in Words
    PROVE  x - (x % 4) \in Words /\ IsWordAligned(x - (x % 4))
<1>1. x \in Nat /\ Word \in Nat
  BY BusNumbers DEF Words
<1>2. x - (x % 4) = 4 * (x \div 4) /\ x \div 4 \in Nat /\ x % 4 \in 0..3
  BY <1>1, Quarters
<1>. DEFINE q == x \div 4
            r == x % 4
<1>3. x - r = 4 * q /\ q \in Nat /\ r \in 0..3
  BY <1>2
<1>. HIDE DEF q, r
<1>4. (x - r) % 4 = 0
  BY <1>3
<1>5. x - r \in Words
  BY <1>1, <1>3 DEF Words
<1>. QED BY <1>4, <1>5 DEF IsWordAligned, WordBytes, r

\* What is written to a CSR is a word, aligned in mtvec and mepc.
LEMMA CsrTyped ==
    ASSUME NEW op \in CsrOps, NEW old \in Words, NEW operand \in Words, NEW csr
    PROVE  /\ CsrValue(csr, CsrNext(op, old, operand)) \in Words
           /\ csr \in {"mtvec", "mepc"} => IsWordAligned(CsrValue(csr, CsrNext(op, old, operand)))
<1>. DEFINE v == CsrNext(op, old, operand)
<1>1. v \in Words
  <2>1. CASE op = "csrrw"
    BY <2>1 DEF CsrNext
  <2>2. CASE op = "csrrs"
    <3>1. v = FromBits(BitsOf(old) \cup BitsOf(operand))
      BY <2>2 DEF CsrNext
    <3>2. BitsOf(old) \cup BitsOf(operand) \in SUBSET (0..(WordBits - 1))
      BY DEF BitsOf
    <3>. QED BY <3>1, <3>2, BitsMakeWord
  <2>3. CASE op = "csrrc"
    <3>1. v = FromBits(BitsOf(old) \ BitsOf(operand))
      BY <2>3 DEF CsrNext
    <3>2. BitsOf(old) \ BitsOf(operand) \in SUBSET (0..(WordBits - 1))
      BY DEF BitsOf
    <3>. QED BY <3>1, <3>2, BitsMakeWord
  <2>. QED BY <2>1, <2>2, <2>3 DEF CsrOps
<1>. HIDE DEF v
<1>2. CsrValue(csr, v) \in Words /\ (csr \in {"mtvec", "mepc"} => IsWordAligned(CsrValue(csr, v)))
  BY <1>1, AlignedDown DEF CsrValue
<1>. QED BY <1>2 DEF v

\* The next instruction of an aligned one is aligned.
LEMMA NextTyped ==
    ASSUME NEW pc \in Words
    PROVE  (pc + 4) % Word \in Words /\ (IsWordAligned(pc) => IsWordAligned((pc + 4) % Word))
<1>1. pc + 4 \in Int /\ Word \in Nat /\ Word >= 16 /\ Word % 4 = 0 /\ pc \in Nat
  BY BusNumbers DEF Words
<1>2. (pc + 4) % Word \in Words
  BY <1>1, SignedWord DEF Words
<1>3. ASSUME IsWordAligned(pc) PROVE IsWordAligned((pc + 4) % Word)
  <2>1. pc % 4 = 0
    BY <1>3 DEF IsWordAligned, WordBytes
  <2>2. CASE pc + 4 < Word
    <3>1. (pc + 4) % Word = pc + 4
      BY <1>1, <2>2
    <3>2. (pc + 4) % 4 = 0
      BY <1>1, <2>1
    <3>. QED BY <3>1, <3>2 DEF IsWordAligned, WordBytes
  <2>3. CASE pc + 4 >= Word
    <3>1. pc + 4 = Word
      BY <1>1, <2>1, <2>3 DEF Words
    <3>2. (pc + 4) % Word = 0
      BY <1>1, <3>1
    <3>. QED BY <3>2 DEF IsWordAligned, WordBytes
  <2>. QED BY <1>1, <2>2, <2>3
<1>. QED BY <1>2, <1>3

-----------------------------------------------------------------------------
(* The outcomes of an instruction.                                         *)

\* A CPU whose trap addresses are word aligned.
Sound(c) == c \in CpuType /\ IsWordAligned(c.csr["mtvec"]) /\ IsWordAligned(c.csr["mepc"])

\* What a step of the CPU leaves.
SoundOutcome(o) ==
    /\ o.ok \in BOOLEAN /\ Sound(o.cpu) /\ o.bus \in BusType
    /\ o.cpu.regs["x0"] = 0 \/ o.cpu.faulted

\* The fields of a CPU.
LEMMA CpuFields ==
    ASSUME NEW c \in CpuType
    PROVE  /\ c.regs \in [Regs -> Words] /\ c.pc \in Words /\ c.csr \in [Csrs -> Words]
           /\ c.halted \in BOOLEAN /\ c.faulted \in BOOLEAN /\ c.pending \in BOOLEAN
           /\ \A r \in Regs : c.regs[r] \in Words
           /\ \A x \in Csrs : c.csr[x] \in Words
           /\ "x0" \in Regs /\ "a0" \in Regs /\ "a1" \in Regs /\ "a7" \in Regs
           /\ "mtvec" \in Csrs /\ "mepc" \in Csrs
BY CpuAssumption DEF CpuType, Words, Csrs

\* Writing a register, a CSR or a flag keeps a CPU sound.
LEMMA RegisterWritten ==
    ASSUME NEW c, Sound(c), NEW r \in Regs, NEW v \in Words
    PROVE  Sound([c EXCEPT !.regs[r] = v])
<1>1. [c EXCEPT !.regs[r] = v] \in CpuType
  BY DEF Sound, CpuType, Words
<1>2. [c EXCEPT !.regs[r] = v].csr = c.csr
  BY DEF Sound, CpuType
<1>. QED BY <1>1, <1>2 DEF Sound

\* A CSR that holds a trap address takes an aligned one.
LEMMA CsrWritten ==
    ASSUME NEW c, Sound(c), NEW x \in Csrs, NEW v \in Words,
           x \in {"mtvec", "mepc"} => IsWordAligned(v)
    PROVE  Sound([c EXCEPT !.csr[x] = v])
<1>1. [c EXCEPT !.csr[x] = v] \in CpuType
  BY DEF Sound, CpuType, Words
<1>2. /\ [c EXCEPT !.csr[x] = v].csr["mtvec"] = IF x = "mtvec" THEN v ELSE c.csr["mtvec"]
      /\ [c EXCEPT !.csr[x] = v].csr["mepc"] = IF x = "mepc" THEN v ELSE c.csr["mepc"]
  BY DEF Sound, CpuType, Csrs
<1>. QED BY <1>1, <1>2 DEF Sound

\* The flags say nothing of the registers.
LEMMA FlagWritten ==
    ASSUME NEW c, Sound(c), NEW v \in BOOLEAN
    PROVE  /\ Sound([c EXCEPT !.faulted = v]) /\ [c EXCEPT !.faulted = v].regs = c.regs
           /\ Sound([c EXCEPT !.pending = v]) /\ [c EXCEPT !.pending = v].regs = c.regs
           /\ Sound([c EXCEPT !.halted = v]) /\ [c EXCEPT !.halted = v].regs = c.regs
BY DEF Sound, CpuType

\* The outcomes of an instruction are sound: a fault,
LEMMA FaultTyped ==
    ASSUME NEW c, Sound(c), NEW b \in BusType
    PROVE  SoundOutcome(Fault(c, b))
<1>1. Sound([c EXCEPT !.faulted = TRUE])
  BY FlagWritten
<1>2. [c EXCEPT !.faulted = TRUE].faulted = TRUE
  BY DEF Sound, CpuType
<1>. QED BY <1>1, <1>2 DEF Fault, SoundOutcome

\* an instruction that is left,
LEMMA RetireTyped ==
    ASSUME NEW c, Sound(c), NEW b \in BusType, NEW next \in Words
    PROVE  SoundOutcome(Retire(c, b, next))
<1>. DEFINE d == [c EXCEPT !.regs["x0"] = 0]
            e == [d EXCEPT !.pc = next]
<1>0. "x0" \in Regs /\ 0 \in Words
  BY CpuAssumption, BusNumbers DEF Words
<1>1. Sound(d)
  BY <1>0, RegisterWritten
<1>2. d.regs["x0"] = 0
  BY <1>0 DEF Sound, CpuType
<1>. HIDE DEF d
<1>3. e \in CpuType /\ e.regs = d.regs /\ e.csr = d.csr
  BY <1>1 DEF Sound, CpuType, Words
<1>4. Sound(e)
  BY <1>1, <1>3 DEF Sound
<1>5. [c EXCEPT !.regs["x0"] = 0, !.pc = next] = e
  BY DEF d
<1>6. Retire(c, b, next) = [ok |-> TRUE, cpu |-> e, bus |-> b]
  BY <1>5 DEF Retire
<1>7. e.regs["x0"] = 0
  BY <1>2, <1>3
<1>. HIDE DEF e
<1>. QED BY <1>4, <1>6, <1>7 DEF SoundOutcome

\* a jump,
LEMMA JumpTyped ==
    ASSUME NEW c, Sound(c), NEW b \in BusType, NEW target \in Words
    PROVE  SoundOutcome(Jump(c, b, target))
BY FaultTyped, RetireTyped DEF Jump

\* a system call, through the trap vector or not,
LEMMA EcallTyped ==
    ASSUME NEW c, Sound(c), NEW b \in BusType, NEW next \in Words, IsWordAligned(next)
    PROVE  SoundOutcome(Ecall(c, b, next))
<1>1. CASE c.csr["mtvec"] # 0
  <2>. DEFINE d == [c EXCEPT !.csr["mepc"] = next]
              e == [d EXCEPT !.csr["mcause"] = 11 % Word]
  <2>1. 11 % Word \in Words
    BY SignedWord DEF Words
  <2>2. "mepc" \in Csrs /\ "mcause" \in Csrs
    BY DEF Csrs
  <2>3. Sound(d)
    BY <2>2, CsrWritten
  <2>. HIDE DEF d
  <2>4. Sound(e)
    BY <2>1, <2>2, <2>3, CsrWritten
  <2>5. [c EXCEPT !.csr["mepc"] = next, !.csr["mcause"] = 11 % Word] = e
    BY DEF d
  <2>6. c.csr["mtvec"] \in Words
    BY CpuFields DEF Sound
  <2>7. Ecall(c, b, next) = Retire(e, b, c.csr["mtvec"])
    BY <1>1, <2>5 DEF Ecall
  <2>. HIDE DEF e
  <2>. QED BY <2>4, <2>6, <2>7, RetireTyped
<1>2. CASE c.csr["mtvec"] = 0
  <2>1. Sound([c EXCEPT !.pending = TRUE])
    BY FlagWritten
  <2>2. Ecall(c, b, next) = Retire([c EXCEPT !.pending = TRUE], b, next)
    BY <1>2 DEF Ecall
  <2>. QED BY <2>1, <2>2, RetireTyped
<1>. QED BY <1>1, <1>2

\* and an access to a CSR.
LEMMA CsrAccessTyped ==
    ASSUME NEW c, Sound(c), NEW b \in BusType, NEW i \in Instructions, i.op \in CsrOps,
           NEW operand \in Words, NEW next \in Words
    PROVE  SoundOutcome(CsrAccess(c, b, i, operand, next))
<1>. DEFINE old == c.csr[i.csr]
            value == CsrValue(i.csr, CsrNext(i.op, old, operand))
            reads == SetReg(c, i.rd, old)
            writes == [reads EXCEPT !.csr[i.csr] = value]
<1>1. CASE i.csr = "unknown"
  BY <1>1, FaultTyped DEF CsrAccess
<1>2. CASE i.csr # "unknown"
  <2>1. i.csr \in Csrs /\ i.rd \in Regs
    BY <1>2 DEF Instructions
  <2>2. old \in Words
    BY <2>1, CpuFields DEF Sound
  <2>3. value \in Words /\ (i.csr \in {"mtvec", "mepc"} => IsWordAligned(value))
    BY <2>2, CsrTyped
  <2>4. Sound(reads)
    <3>. HIDE DEF old
    <3>. QED BY <2>1, <2>2, RegisterWritten DEF SetReg
  <2>5. Sound(writes)
    <3>. HIDE DEF reads, value
    <3>. QED BY <2>1, <2>3, <2>4, CsrWritten
  <2>6. CsrAccess(c, b, i, operand, next) \in {Retire(reads, b, next), Retire(writes, b, next)}
    BY <1>2 DEF CsrAccess
  <2>. HIDE DEF reads, writes
  <2>. QED BY <2>4, <2>5, <2>6, RetireTyped
<1>. QED BY <1>1, <1>2

-----------------------------------------------------------------------------
(* Execute and Step: the ways an instruction ends.                         *)

\* The ways an instruction ends, from CPU c and bus b: what it writes are
\* words, a jump that faults has written its link, and nothing else has.
Ends(c, b, i, o) ==
    LET next == (c.pc + 4) % Word
        Wrote(value) == [c EXCEPT !.regs[i.rd] = value]
    IN  \/ \E v \in Words : o = Retire(Wrote(v), b, next)
        \/ o = Retire(c, b, next)
        \/ \E t \in Words : o = Jump(c, b, t)
        \/ i.op \in {"jal", "jalr"} /\ \E t \in Words : o = Jump(Wrote(next), b, t)
        \/ o = Fault(c, b)
        \/ \E s : /\ WriteKeeps(b, s)
                  /\ o = IF s.ok THEN Retire(c, s.bus, next) ELSE Fault(c, s.bus)
        \/ o = Ecall(c, b, next)
        \/ \E y \in Words : i.op \in CsrOps /\ o = CsrAccess(c, b, i, y, next)

\* The operands of an instruction are words.
LEMMA OperandsTyped ==
    ASSUME NEW c, Sound(c), NEW i \in Instructions
    PROVE  /\ i.rd \in Regs /\ i.imm \in Words
           /\ c.regs[i.rs1] \in Words
           /\ (IF i.src = "imm" THEN i.imm ELSE c.regs[i.src]) \in Words
           /\ (c.regs[i.rs1] + i.imm) % Word \in Words
           /\ (c.pc + i.imm) % Word \in Words /\ (c.pc + 4) % Word \in Words
           /\ c.csr["mepc"] \in Words
<1>1. i.rd \in Regs /\ i.rs1 \in Regs /\ i.imm \in Words /\ i.src \in Regs \cup {"imm"}
  BY DEF Instructions, Words
<1>2. c.pc \in Words /\ c.csr["mepc"] \in Words /\ \A r \in Regs : c.regs[r] \in Words
  BY CpuFields DEF Sound
<1>3. \A x, y \in Words : (x + y) % Word \in Words
  BY SignedWord, BusNumbers DEF Words
<1>. QED BY <1>1, <1>2, <1>3, NextTyped

\* Every instruction ends in one of these ways,
LEMMA ExecuteEnds ==
    ASSUME NEW c, Sound(c), NEW b \in BusType, NEW i \in Instructions,
           NEW o \in Execute(c, b, i)
    PROVE  Ends(c, b, i, o)
<1>. DEFINE x == c.regs[i.rs1]
            y == IF i.src = "imm" THEN i.imm ELSE c.regs[i.src]
            next == (c.pc + 4) % Word
            addr == (x + i.imm) % Word
            Wrote(value) == [c EXCEPT !.regs[i.rd] = value]
<1>0. ASSUME
      \/ \E v \in Words : o = Retire(Wrote(v), b, next)
      \/ o = Retire(c, b, next)
      \/ \E t \in Words : o = Jump(c, b, t)
      \/ i.op \in {"jal", "jalr"} /\ \E t \in Words : o = Jump(Wrote(next), b, t)
      \/ o = Fault(c, b)
      \/ \E s : WriteKeeps(b, s) /\ o = IF s.ok THEN Retire(c, s.bus, next) ELSE Fault(c, s.bus)
      \/ o = Ecall(c, b, next)
      \/ \E z \in Words : i.op \in CsrOps /\ o = CsrAccess(c, b, i, z, next)
      PROVE  Ends(c, b, i, o)
  BY <1>0 DEF Ends
<1>1. /\ i.imm \in Words /\ x \in Words /\ y \in Words /\ addr \in Words
      /\ (c.pc + i.imm) % Word \in Words /\ next \in Words /\ c.csr["mepc"] \in Words
  BY OperandsTyped
<1>2. CASE i.op \in {"lui", "auipc"}
  <2>1. o = Retire(Wrote(i.imm), b, next) \/ o = Retire(Wrote((c.pc + i.imm) % Word), b, next)
    <3>1. CASE i.op = "lui"
      BY <3>1 DEF Execute, AluOps, Branches, Loads, Stores, CsrOps
    <3>2. CASE i.op = "auipc"
      BY <3>2 DEF Execute, AluOps, Branches, Loads, Stores, CsrOps
    <3>. QED BY <1>2, <3>1, <3>2
  <2>. HIDE DEF Wrote, next
  <2>. QED BY <1>0, <1>1, <2>1
<1>3. CASE i.op \in AluOps
  <2>1. o = Retire(Wrote(Alu(i.op, x, y)), b, next)
    BY <1>3 DEF Execute, AluOps, Branches, Loads, Stores, CsrOps
  <2>2. Alu(i.op, x, y) \in Words
    BY <1>1, <1>3, AluTyped
  <2>. HIDE DEF Wrote, next
  <2>. QED BY <1>0, <2>1, <2>2
<1>4. CASE i.op = "jal"
  <2>1. o = Jump(Wrote(next), b, (c.pc + i.imm) % Word)
    BY <1>4 DEF Execute, AluOps, Branches, Loads, Stores, CsrOps
  <2>. HIDE DEF Wrote, next
  <2>. QED BY <1>0, <1>1, <1>4, <2>1
<1>5. CASE i.op = "jalr"
  <2>1. o = Jump(Wrote(next), b, addr - (addr % 2))
    BY <1>5 DEF Execute, AluOps, Branches, Loads, Stores, CsrOps
  <2>. HIDE DEF addr
  <2>2. addr - (addr % 2) \in Words
    BY <1>1, BusNumbers DEF Words
  <2>. HIDE DEF Wrote, next
  <2>. QED BY <1>0, <1>5, <2>1, <2>2
<1>6. CASE i.op \in Branches
  <2>1. o = Jump(c, b, (c.pc + i.imm) % Word) \/ o = Retire(c, b, next)
    BY <1>6 DEF Execute, AluOps, Branches, Loads, Stores, CsrOps
  <2>. HIDE DEF Wrote, next
  <2>. QED BY <1>0, <1>1, <2>1
<1>7. CASE i.op \in Loads
  <2>. DEFINE v == LoadValue(i.op, b, addr)
  <2>1. o = IF v = NoValue THEN Fault(c, b) ELSE Retire(Wrote(v), b, next)
    BY <1>7 DEF Execute, AluOps, Branches, Loads, Stores, CsrOps
  <2>2. v = NoValue \/ v \in Words
    <3>1. addr \in Nat
      BY <1>1, BusNumbers DEF Words
    <3>. HIDE DEF addr
    <3>. QED BY <1>7, <3>1, LoadTyped
  <2>. HIDE DEF Wrote, next, v
  <2>. QED BY <1>0, <2>1, <2>2
<1>8. CASE i.op \in Stores
  <2>1. PICK s \in StoreOutcomes(i.op, b, addr, y) :
           o = IF s.ok THEN Retire(c, s.bus, next) ELSE Fault(c, s.bus)
    BY <1>8 DEF Execute, AluOps, Branches, Loads, Stores, CsrOps
  <2>2. WriteKeeps(b, s)
    <3>1. addr \in Nat /\ y \in Words
      BY <1>1, BusNumbers DEF Words
    <3>. HIDE DEF addr, y
    <3>. QED BY <1>8, <3>1, StoreTyped
  <2>. HIDE DEF Wrote, next
  <2>. QED BY <1>0, <2>1, <2>2
<1>9. CASE i.op = "ecall"
  <2>1. o = Ecall(c, b, next)
    BY <1>9 DEF Execute, AluOps, Branches, Loads, Stores, CsrOps
  <2>. QED BY <1>0, <2>1
<1>10. CASE i.op = "mret"
  <2>1. o = Jump(c, b, c.csr["mepc"])
    BY <1>10 DEF Execute, AluOps, Branches, Loads, Stores, CsrOps
  <2>. HIDE DEF Wrote, next
  <2>. QED BY <1>0, <1>1, <2>1
<1>11. CASE i.op \in CsrOps
  <2>1. o = CsrAccess(c, b, i, y, next)
    BY <1>11 DEF Execute, AluOps, Branches, Loads, Stores, CsrOps
  <2>. HIDE DEF next, y
  <2>. QED BY <1>0, <1>1, <1>11, <2>1
<1>. QED BY <1>2, <1>3, <1>4, <1>5, <1>6, <1>7, <1>8, <1>9, <1>10, <1>11 DEF Instructions

\* each of which is sound,
LEMMA EndsTyped ==
    ASSUME NEW c, Sound(c), IsWordAligned(c.pc), NEW b \in BusType, NEW i \in Instructions,
           NEW o, Ends(c, b, i, o)
    PROVE  SoundOutcome(o)
<1>. DEFINE next == (c.pc + 4) % Word
            Wrote(value) == [c EXCEPT !.regs[i.rd] = value]
<1>1. c.pc \in Words /\ next \in Words /\ IsWordAligned(next) /\ i.rd \in Regs
  BY CpuFields, NextTyped, OperandsTyped DEF Sound
<1>2. \A v \in Words : Sound(Wrote(v))
  BY <1>1, RegisterWritten
<1>3. ASSUME NEW s, WriteKeeps(b, s), o = IF s.ok THEN Retire(c, s.bus, next) ELSE Fault(c, s.bus)
      PROVE  SoundOutcome(o)
  <2>1. s.bus \in BusType
    BY <1>3 DEF WriteKeeps, OutcomeType
  <2>. HIDE DEF next
  <2>. QED BY <1>1, <1>3, <2>1, FaultTyped, RetireTyped
<1>4. \/ \E v \in Words : o = Retire(Wrote(v), b, next)
      \/ o = Retire(c, b, next)
      \/ \E t \in Words : o = Jump(c, b, t)
      \/ \E t \in Words : o = Jump(Wrote(next), b, t)
      \/ o = Fault(c, b)
      \/ \E s : WriteKeeps(b, s) /\ o = IF s.ok THEN Retire(c, s.bus, next) ELSE Fault(c, s.bus)
      \/ o = Ecall(c, b, next)
      \/ \E y \in Words : i.op \in CsrOps /\ o = CsrAccess(c, b, i, y, next)
  BY DEF Ends
<1>. HIDE DEF next, Wrote
<1>. QED BY <1>1, <1>2, <1>3, <1>4, FaultTyped, RetireTyped, JumpTyped, EcallTyped, CsrAccessTyped

\* and so is a step of the CPU.
LEMMA StepTyped ==
    ASSUME NEW c, Sound(c), NEW b \in BusType, NEW o \in Step(c, b)
    PROVE  o.ok \in BOOLEAN /\ Sound(o.cpu) /\ o.bus \in BusType
           /\ (o.cpu.regs["x0"] = 0 \/ o.cpu.faulted \/ o.cpu.halted)
<1>1. CASE ~CanStep(c)
  <2>. DEFINE d == [c EXCEPT !.faulted = ~c.halted]
  <2>1. o = [ok |-> FALSE, cpu |-> d, bus |-> b]
    BY <1>1 DEF Step
  <2>2. (~c.halted) \in BOOLEAN
    OBVIOUS
  <2>3. Sound(d)
    BY <2>2, FlagWritten
  <2>4. d.faulted = ~c.halted /\ d.halted = c.halted
    BY DEF Sound, CpuType
  <2>. HIDE DEF d
  <2>. QED BY <2>1, <2>3, <2>4
<1>2. CASE CanStep(c) /\ Read32(b, c.pc) \notin DOMAIN Decode
  <2>1. o = Fault(c, b)
    BY <1>2 DEF Step
  <2>. QED BY <2>1, FaultTyped DEF SoundOutcome
<1>3. CASE CanStep(c) /\ Read32(b, c.pc) \in DOMAIN Decode
  <2>. DEFINE i == Decode[Read32(b, c.pc)]
  <2>1. o \in Execute(c, b, i)
    BY <1>3 DEF Step
  <2>2. i \in Instructions /\ IsWordAligned(c.pc)
    BY <1>3, CpuAssumption DEF CanStep
  <2>. HIDE DEF i
  <2>3. Ends(c, b, i, o)
    BY <2>1, <2>2, ExecuteEnds
  <2>. QED BY <2>2, <2>3, EndsTyped DEF SoundOutcome
<1>. QED BY <1>1, <1>2, <1>3

-----------------------------------------------------------------------------
(* The folds of the loader. A fold over 1..n is a function on its subsets, *)
(* and is the chain of its steps.                                          *)

\* A set of numbers up to n has a largest, and 1..k has k.
LEMMA MaxOf ==
    ASSUME NEW n \in Nat
    PROVE  /\ \A s \in SUBSET (1..n) : s # {} => Max(s) \in s /\ \A y \in s : Max(s) >= y
           /\ \A k \in 1..n : Max(1..k) = k /\ (1..k) \ {k} = 1..(k - 1)
<1>. DEFINE HasMax(s) == \E x \in s : \A y \in s : x >= y
            P == {m \in Nat : \A s \in SUBSET (1..m) : s # {} => HasMax(s)}
<1>1. 0 \in P
  <2>1. \A s \in SUBSET (1..0) : s = {}
    OBVIOUS
  <2>. QED BY <2>1
<1>2. ASSUME NEW m \in P PROVE m + 1 \in P
  <2>. SUFFICES ASSUME NEW s \in SUBSET (1..(m + 1)), s # {} PROVE HasMax(s)
    OBVIOUS
  <2>1. CASE m + 1 \in s
    <3>1. \A y \in s : m + 1 >= y
      OBVIOUS
    <3>. QED BY <2>1, <3>1
  <2>2. CASE m + 1 \notin s
    <3>1. s \in SUBSET (1..m)
      BY <2>2
    <3>. HIDE DEF HasMax
    <3>. QED BY <3>1
  <2>. QED BY <2>1, <2>2
<1>. HIDE DEF P
<1>3. P = Nat
  <2>1. P \in SUBSET Nat
    BY DEF P
  <2>. QED BY <1>1, <1>2, <2>1, NatSetInduction
<1>4. \A s \in SUBSET (1..n) : s # {} => Max(s) \in s /\ \A y \in s : Max(s) >= y
  <2>1. \A s \in SUBSET (1..n) : s # {} => HasMax(s)
    BY <1>3 DEF P
  <2>. QED BY <2>1 DEF Max
<1>5. ASSUME NEW k \in 1..n PROVE Max(1..k) = k /\ (1..k) \ {k} = 1..(k - 1)
  <2>1. k \in 1..k /\ \A y \in 1..k : k >= y
    OBVIOUS
  <2>2. \A x \in 1..k : (\A y \in 1..k : x >= y) => x = k
    BY <2>1
  <2>. QED BY <2>1, <2>2 DEF Max
<1>. QED BY <1>4, <1>5

\* h folds G over the sets of numbers up to n, the largest number last.
Folded(T, e, n, G, h) ==
    /\ h \in [SUBSET (1..n) -> T]
    /\ \A s \in SUBSET (1..n) : h[s] = IF s = {} THEN e ELSE G[<<h[s \ {Max(s)}], Max(s)>>]

\* A recursion over the sets of numbers up to n that removes the largest has a
\* solution, where each step stays in T.
LEMMA FoldExists ==
    ASSUME NEW T, NEW e \in T, NEW n \in Nat, NEW G \in [T \X (1..n) -> T]
    PROVE  \E h : Folded(T, e, n, G, h)
<1>. DEFINE Fold(m, h) ==
               \A s \in SUBSET (1..m) : h[s] = IF s = {} THEN e ELSE G[<<h[s \ {Max(s)}], Max(s)>>]
            Solved(m) == \E h \in [SUBSET (1..m) -> T] : Fold(m, h)
            P == {m \in Nat : m <= n => Solved(m)}
<1>1. 0 \in P
  <2>. DEFINE h == [s \in SUBSET (1..0) |-> e]
  <2>1. \A s \in SUBSET (1..0) : s = {}
    OBVIOUS
  <2>2. h \in [SUBSET (1..0) -> T] /\ Fold(0, h)
    BY <2>1
  <2>. QED BY <2>2
<1>2. ASSUME NEW m \in P PROVE m + 1 \in P
  <2>. SUFFICES ASSUME m + 1 <= n PROVE Solved(m + 1)
    <3>. HIDE DEF Solved
    <3>. QED OBVIOUS
  <2>0. m \in Nat /\ m + 1 \in 1..n /\ m + 1 \in Nat /\ Solved(m)
    <3>. HIDE DEF Solved
    <3>. QED OBVIOUS
  <2>1. PICK h \in [SUBSET (1..m) -> T] : Fold(m, h)
    BY <2>0
  <2>. DEFINE g == [s \in SUBSET (1..(m + 1)) |->
                      IF m + 1 \in s THEN G[<<h[s \ {m + 1}], m + 1>>] ELSE h[s]]
  <2>2. \A s \in SUBSET (1..(m + 1)) : s \ {m + 1} \in SUBSET (1..m)
    BY <2>0
  <2>3. \A s \in SUBSET (1..(m + 1)) : m + 1 \notin s => s \in SUBSET (1..m)
    BY <2>0
  <2>4. g \in [SUBSET (1..(m + 1)) -> T]
    <3>. SUFFICES ASSUME NEW s \in SUBSET (1..(m + 1)) PROVE g[s] \in T
      OBVIOUS
    <3>1. CASE m + 1 \in s
      <4>1. h[s \ {m + 1}] \in T
        BY <2>2
      <4>2. G[<<h[s \ {m + 1}], m + 1>>] \in T
        BY <2>0, <4>1
      <4>. QED BY <3>1, <4>2
    <3>2. CASE m + 1 \notin s
      BY <2>3, <3>2
    <3>. QED BY <3>1, <3>2
  <2>5. ASSUME NEW s \in SUBSET (1..(m + 1))
        PROVE  g[s] = IF s = {} THEN e ELSE G[<<g[s \ {Max(s)}], Max(s)>>]
    <3>1. CASE m + 1 \in s
      <4>1. Max(s) = m + 1
        <5>1. \A y \in s : m + 1 >= y
          BY <2>0
        <5>2. \A x \in s : (\A y \in s : x >= y) => x = m + 1
          BY <2>0, <3>1
        <5>. QED BY <3>1, <5>1, <5>2 DEF Max
      <4>. DEFINE r == s \ {m + 1}
      <4>2. r \in SUBSET (1..(m + 1)) /\ m + 1 \notin r
        OBVIOUS
      <4>3. g[r] = h[r]
        <5>. HIDE DEF r
        <5>. QED BY <4>2
      <4>4. g[s] = G[<<h[r], m + 1>>]
        BY <3>1
      <4>. HIDE DEF g
      <4>. QED BY <3>1, <4>1, <4>3, <4>4
    <3>2. CASE m + 1 \notin s
      <4>1. s \in SUBSET (1..m)
        BY <2>3, <3>2
      <4>2. h[s] = IF s = {} THEN e ELSE G[<<h[s \ {Max(s)}], Max(s)>>]
        BY <2>1, <4>1
      <4>3. g[s] = h[s]
        BY <3>2
      <4>. DEFINE r == s \ {Max(s)}
      <4>4. r \in SUBSET (1..(m + 1)) /\ m + 1 \notin r
        BY <3>2
      <4>5. g[r] = h[r]
        <5>. HIDE DEF r
        <5>. QED BY <4>4
      <4>. HIDE DEF g
      <4>. QED BY <4>2, <4>3, <4>5
    <3>. QED BY <3>1, <3>2
  <2>. HIDE DEF g
  <2>. QED BY <2>4, <2>5
<1>. HIDE DEF P
<1>3. P = Nat
  <2>1. P \in SUBSET Nat
    BY DEF P
  <2>. QED BY <1>1, <1>2, <2>1, NatSetInduction
<1>4. Solved(n)
  <2>. HIDE DEF Solved
  <2>. QED BY <1>3 DEF P
<1>. QED BY <1>4 DEF Folded

\* A turn of load_bytes keeps the bus.
LEMMA PutTyped ==
    ASSUME NEW o \in OutcomeType, NEW addr \in Nat, NEW value \in Nat
    PROVE  Put(o, addr, value) \in OutcomeType
<1>1. addr % Word \in Nat
  BY BusNumbers
<1>2. o.bus \in BusType
  BY DEF OutcomeType
<1>. QED BY <1>1, <1>2, Write8Typed DEF Put, WriteKeeps

\* load_bytes is one Put after another.
LEMMA PutBytesRuns ==
    ASSUME NEW o \in OutcomeType, NEW base \in Nat, NEW bytes \in Seq(Nat)
    PROVE  \E f : /\ f[0] = o /\ PutBytes(o, base, bytes) = f[Len(bytes)]
                  /\ \A k \in 1..Len(bytes) : f[k] = Put(f[k - 1], base + k - 1, bytes[k])
                  /\ \A k \in 0..Len(bytes) : f[k] \in OutcomeType
<1>. DEFINE n == Len(bytes)
            idx == [i \in DOMAIN bytes |-> i]
            R(it) == it = [s \in SUBSET (DOMAIN idx) |->
                              IF s = {} THEN o
                              ELSE Put(it[s \ {Max(s)}], base + idx[Max(s)] - 1, bytes[idx[Max(s)]])]
            iter == CHOOSE it : R(it)
<1>1. PutBytes(o, base, bytes) = iter[DOMAIN idx]
  BY DEF PutBytes, FoldLeftDomain, FoldLeft, MapThenFoldSet
<1>2. DOMAIN idx = 1..n /\ n \in Nat /\ \A k \in 1..n : bytes[k] \in Nat /\ idx[k] = k
  OBVIOUS
<1>. HIDE DEF n
<1>3. \E it : R(it)
  <2>. DEFINE G == [p \in OutcomeType \X (1..n) |-> Put(p[1], base + p[2] - 1, bytes[p[2]])]
  <2>1. G \in [OutcomeType \X (1..n) -> OutcomeType]
    <3>1. ASSUME NEW p \in OutcomeType \X (1..n)
          PROVE  Put(p[1], base + p[2] - 1, bytes[p[2]]) \in OutcomeType
      BY <1>2, PutTyped
    <3>. QED BY <3>1
  <2>. HIDE DEF G
  <2>0. PICK h : Folded(OutcomeType, o, n, G, h)
    BY <1>2, <2>1, FoldExists
  <2>2. /\ h \in [SUBSET (1..n) -> OutcomeType]
        /\ \A s \in SUBSET (1..n) : h[s] = IF s = {} THEN o ELSE G[<<h[s \ {Max(s)}], Max(s)>>]
    BY <2>0 DEF Folded
  <2>3. ASSUME NEW s \in SUBSET (1..n), s # {}
        PROVE  h[s] = Put(h[s \ {Max(s)}], base + idx[Max(s)] - 1, bytes[idx[Max(s)]])
    <3>1. Max(s) \in 1..n
      BY <1>2, <2>3, MaxOf
    <3>2. h[s \ {Max(s)}] \in OutcomeType
      BY <2>2
    <3>3. <<h[s \ {Max(s)}], Max(s)>> \in OutcomeType \X (1..n)
      BY <3>1, <3>2
    <3>4. h[s] = G[<<h[s \ {Max(s)}], Max(s)>>]
      BY <2>2, <2>3
    <3>5. idx[Max(s)] = Max(s)
      BY <1>2, <3>1
    <3>6. G[<<h[s \ {Max(s)}], Max(s)>>] = Put(h[s \ {Max(s)}], base + Max(s) - 1, bytes[Max(s)])
      BY <3>3 DEF G
    <3>. QED BY <3>4, <3>5, <3>6
  <2>4. R(h)
    <3>. HIDE DEF idx
    <3>. QED BY <1>2, <2>2, <2>3
  <2>. QED BY <2>4
<1>4. R(iter)
  BY <1>3
<1>. HIDE DEF iter, idx
<1>. DEFINE f == [k \in 0..n |-> iter[1..k]]
<1>5. f[0] = o
  <2>1. 1..0 = {} /\ {} \in SUBSET (DOMAIN idx)
    OBVIOUS
  <2>2. iter[{}] = o
    BY <1>4, <2>1
  <2>3. f[0] = iter[1..0]
    BY <1>2
  <2>. QED BY <2>1, <2>2, <2>3
<1>6. ASSUME NEW k \in 1..n PROVE f[k] = Put(f[k - 1], base + k - 1, bytes[k])
  <2>1. 1..k \in SUBSET (DOMAIN idx) /\ 1..k # {}
    <3>1. 1..k \in SUBSET (1..n) /\ k \in 1..k
      BY <1>2
    <3>. QED BY <1>2, <3>1
  <2>2. Max(1..k) = k /\ (1..k) \ {k} = 1..(k - 1) /\ idx[k] = k
    BY <1>2, MaxOf
  <2>. DEFINE s == 1..k
  <2>. HIDE DEF s
  <2>3. iter[s] = Put(iter[s \ {Max(s)}], base + idx[Max(s)] - 1, bytes[idx[Max(s)]])
    BY <1>4, <2>1 DEF s
  <2>4. k \in 0..n /\ k - 1 \in 0..n
    BY <1>2
  <2>. QED BY <2>2, <2>3, <2>4 DEF s
<1>7. PutBytes(o, base, bytes) = f[n]
  BY <1>1, <1>2
<1>. HIDE DEF f
<1>8. \A k \in 0..n : f[k] \in OutcomeType
  <2>. DEFINE P == {k \in Nat : k <= n => f[k] \in OutcomeType}
  <2>1. 0 \in P
    BY <1>5
  <2>2. ASSUME NEW k \in P PROVE k + 1 \in P
    <3>. SUFFICES ASSUME k + 1 <= n PROVE f[k + 1] \in OutcomeType
      OBVIOUS
    <3>1. k + 1 \in 1..n /\ f[k] \in OutcomeType /\ (k + 1) - 1 = k /\ base + (k + 1) - 1 \in Nat
      BY <1>2
    <3>2. f[k + 1] = Put(f[k], base + (k + 1) - 1, bytes[k + 1])
      BY <1>6, <3>1
    <3>. DEFINE a == base + (k + 1) - 1
                v == bytes[k + 1]
    <3>3. a \in Nat /\ v \in Nat /\ f[k + 1] = Put(f[k], a, v)
      BY <1>2, <3>1, <3>2
    <3>. HIDE DEF a, v
    <3>. QED BY <3>1, <3>3, PutTyped
  <2>. HIDE DEF P
  <2>3. P = Nat
    <3>1. P \in SUBSET Nat
      BY DEF P
    <3>. QED BY <2>1, <2>2, <3>1, NatSetInduction
  <2>. QED BY <1>2, <2>3 DEF P
<1>. QED BY <1>5, <1>6, <1>7, <1>8 DEF n

-----------------------------------------------------------------------------
(* load_words.                                                             *)

\* A turn of load_words.
PutWord(acc, w, value) ==
    IF ~acc.ok \/ w \notin Addresses THEN Denied(acc.bus)
    ELSE Accepted([acc.bus EXCEPT !.mem[w] = AsInt32(value)])

\* It keeps the bus.
LEMMA PutWordTyped ==
    ASSUME NEW o \in OutcomeType, NEW w, NEW value \in Nat
    PROVE  PutWord(o, w, value) \in OutcomeType
<1>1. o.bus \in BusType
  BY DEF OutcomeType
<1>2. CASE ~o.ok \/ w \notin Addresses
  <2>1. PutWord(o, w, value) = Denied(o.bus)
    BY <1>2 DEF PutWord
  <2>. QED BY <1>1, <2>1, DeniedTyped DEF WriteKeeps
<1>3. CASE o.ok /\ w \in Addresses
  <2>. DEFINE c == [o.bus EXCEPT !.mem[w] = AsInt32(value)]
  <2>1. PutWord(o, w, value) = Accepted(c)
    BY <1>3 DEF PutWord
  <2>2. AsInt32(value) \in Int
    BY SignedWord
  <2>3. c \in BusType
    BY <1>1, <1>3, <2>2, WordWritten
  <2>. HIDE DEF c
  <2>. QED BY <2>1, <2>3, AcceptedTyped DEF WriteKeeps
<1>. QED BY <1>2, <1>3

\* load_words is one of them after another.
LEMMA LoadWordsRuns ==
    ASSUME NEW b \in BusType, NEW base \in Nat, NEW bytes \in Seq(Nat)
    PROVE  \E f : /\ f[0] = Accepted(b) /\ LoadWords(b, base, bytes) = f[Len(bytes)]
                  /\ \A k \in 1..Len(bytes) : f[k] = PutWord(f[k - 1], (base + k - 1) % Word, bytes[k])
                  /\ \A k \in 0..Len(bytes) : f[k] \in OutcomeType
<1>. DEFINE o == Accepted(b)
<1>0. o \in OutcomeType
  BY AcceptedTyped DEF WriteKeeps
<1>. DEFINE n == Len(bytes)
            idx == [i \in DOMAIN bytes |-> i]
            R(it) == it = [s \in SUBSET (DOMAIN idx) |->
                              IF s = {} THEN o
                              ELSE PutWord(it[s \ {Max(s)}], (base + idx[Max(s)] - 1) % Word, bytes[idx[Max(s)]])]
            iter == CHOOSE it : R(it)
<1>1. LoadWords(b, base, bytes) = iter[DOMAIN idx]
  BY DEF LoadWords, PutWord, FoldLeftDomain, FoldLeft, MapThenFoldSet
<1>2. DOMAIN idx = 1..n /\ n \in Nat /\ \A k \in 1..n : bytes[k] \in Nat /\ idx[k] = k
  OBVIOUS
<1>. HIDE DEF n, o
<1>3. \E it : R(it)
  <2>. DEFINE G == [p \in OutcomeType \X (1..n) |-> PutWord(p[1], (base + p[2] - 1) % Word, bytes[p[2]])]
  <2>1. G \in [OutcomeType \X (1..n) -> OutcomeType]
    <3>1. ASSUME NEW p \in OutcomeType \X (1..n)
          PROVE  PutWord(p[1], (base + p[2] - 1) % Word, bytes[p[2]]) \in OutcomeType
      BY <1>2, PutWordTyped
    <3>. QED BY <3>1
  <2>. HIDE DEF G
  <2>0. PICK h : Folded(OutcomeType, o, n, G, h)
    BY <1>0, <1>2, <2>1, FoldExists
  <2>2. /\ h \in [SUBSET (1..n) -> OutcomeType]
        /\ \A s \in SUBSET (1..n) : h[s] = IF s = {} THEN o ELSE G[<<h[s \ {Max(s)}], Max(s)>>]
    BY <2>0 DEF Folded
  <2>3. ASSUME NEW s \in SUBSET (1..n), s # {}
        PROVE  h[s] = PutWord(h[s \ {Max(s)}], (base + idx[Max(s)] - 1) % Word, bytes[idx[Max(s)]])
    <3>1. Max(s) \in 1..n
      BY <1>2, <2>3, MaxOf
    <3>2. h[s \ {Max(s)}] \in OutcomeType
      BY <2>2
    <3>3. <<h[s \ {Max(s)}], Max(s)>> \in OutcomeType \X (1..n)
      BY <3>1, <3>2
    <3>4. h[s] = G[<<h[s \ {Max(s)}], Max(s)>>]
      BY <2>2, <2>3
    <3>5. idx[Max(s)] = Max(s)
      BY <1>2, <3>1
    <3>6. G[<<h[s \ {Max(s)}], Max(s)>>] = PutWord(h[s \ {Max(s)}], (base + Max(s) - 1) % Word, bytes[Max(s)])
      BY <3>3 DEF G
    <3>. QED BY <3>4, <3>5, <3>6
  <2>4. R(h)
    <3>. HIDE DEF idx
    <3>. QED BY <1>2, <2>2, <2>3
  <2>. QED BY <2>4
<1>4. R(iter)
  BY <1>3
<1>. HIDE DEF iter, idx
<1>. DEFINE f == [k \in 0..n |-> iter[1..k]]
<1>5. f[0] = o
  <2>1. 1..0 = {} /\ {} \in SUBSET (DOMAIN idx)
    OBVIOUS
  <2>2. iter[{}] = o
    BY <1>4, <2>1
  <2>3. f[0] = iter[1..0]
    BY <1>2
  <2>. QED BY <2>1, <2>2, <2>3
<1>6. ASSUME NEW k \in 1..n PROVE f[k] = PutWord(f[k - 1], (base + k - 1) % Word, bytes[k])
  <2>1. 1..k \in SUBSET (DOMAIN idx) /\ 1..k # {}
    <3>1. 1..k \in SUBSET (1..n) /\ k \in 1..k
      BY <1>2
    <3>. QED BY <1>2, <3>1
  <2>2. Max(1..k) = k /\ (1..k) \ {k} = 1..(k - 1) /\ idx[k] = k
    BY <1>2, MaxOf
  <2>. DEFINE s == 1..k
  <2>. HIDE DEF s
  <2>3. iter[s] = PutWord(iter[s \ {Max(s)}], (base + idx[Max(s)] - 1) % Word, bytes[idx[Max(s)]])
    BY <1>4, <2>1 DEF s
  <2>4. k \in 0..n /\ k - 1 \in 0..n
    BY <1>2
  <2>. QED BY <2>2, <2>3, <2>4 DEF s
<1>7. LoadWords(b, base, bytes) = f[n]
  BY <1>1, <1>2
<1>. HIDE DEF f
<1>8. \A k \in 0..n : f[k] \in OutcomeType
  <2>. DEFINE P == {k \in Nat : k <= n => f[k] \in OutcomeType}
  <2>1. 0 \in P
    BY <1>0, <1>5
  <2>2. ASSUME NEW k \in P PROVE k + 1 \in P
    <3>. SUFFICES ASSUME k + 1 <= n PROVE f[k + 1] \in OutcomeType
      OBVIOUS
    <3>1. k + 1 \in 1..n /\ f[k] \in OutcomeType /\ (k + 1) - 1 = k
      BY <1>2
    <3>2. f[k + 1] = PutWord(f[k], (base + (k + 1) - 1) % Word, bytes[k + 1])
      BY <1>6, <3>1
    <3>. DEFINE a == (base + (k + 1) - 1) % Word
                v == bytes[k + 1]
    <3>3. v \in Nat /\ f[k + 1] = PutWord(f[k], a, v)
      BY <1>2, <3>1, <3>2
    <3>. HIDE DEF a, v
    <3>. QED BY <3>1, <3>3, PutWordTyped
  <2>. HIDE DEF P
  <2>3. P = Nat
    <3>1. P \in SUBSET Nat
      BY DEF P
    <3>. QED BY <2>1, <2>2, <3>1, NatSetInduction
  <2>. QED BY <1>2, <2>3 DEF P
<1>. QED BY <1>5, <1>6, <1>7, <1>8 DEF n, o

-----------------------------------------------------------------------------
(* The segments of an image.                                               *)

\* What a segment puts in memory.
LEMMA ContentTyped ==
    ASSUME NEW s \in SegmentType, Len(s.data) <= s.memsz
    PROVE  /\ Content(s) \in Seq(Nat) /\ Len(Content(s)) = s.memsz /\ LoadAddress(s) \in Nat
           /\ \A i \in 1..s.memsz : Content(s)[i] = IF i <= Len(s.data) THEN s.data[i] ELSE 0
<1>. DEFINE d == s.data
            n == Len(d)
            m == s.memsz
            z == [i \in 1..(m - n) |-> 0]
<1>1. d \in Seq(0..(Byte - 1)) /\ m \in Nat /\ s.vaddr \in Nat /\ s.paddr \in Nat
  BY DEF SegmentType
<1>2. d \in Seq(Nat) /\ n \in Nat /\ m - n \in Nat
  BY <1>1, BusNumbers
<1>3. z \in Seq(Nat) /\ Len(z) = m - n /\ \A i \in 1..(m - n) : z[i] = 0
  <2>. DEFINE k == m - n
  <2>1. k \in Nat
    BY <1>2
  <2>. HIDE DEF k
  <2>. QED BY <2>1 DEF k
<1>4. Content(s) = d \o z
  BY DEF Content
<1>. HIDE DEF d, n, m, z
<1>5. d \o z \in Seq(Nat) /\ Len(d \o z) = m
  BY <1>1, <1>2, <1>3 DEF n
<1>6. \A i \in 1..m : (d \o z)[i] = IF i <= n THEN d[i] ELSE 0
  BY <1>1, <1>2, <1>3 DEF n
<1>7. LoadAddress(s) \in Nat
  BY <1>1 DEF LoadAddress
<1>. QED BY <1>4, <1>5, <1>6, <1>7 DEF m, n, d

\* Loading a segment keeps the bus.
LEMMA LoadSegmentTyped ==
    ASSUME NEW o \in OutcomeType, NEW s \in SegmentType
    PROVE  LoadSegment(o, s) \in OutcomeType
<1>1. o.bus \in BusType
  BY DEF OutcomeType
<1>2. CASE ~o.ok \/ ~s.load
  BY <1>2 DEF LoadSegment
<1>3. CASE o.ok /\ s.load /\ (Len(s.data) > s.memsz \/ ~s.inFile)
  <2>1. LoadSegment(o, s) = Denied(o.bus)
    BY <1>3 DEF LoadSegment
  <2>. QED BY <1>1, <2>1, DeniedTyped DEF WriteKeeps
<1>4. CASE o.ok /\ s.load /\ ~(Len(s.data) > s.memsz) /\ s.inFile
  <2>1. LoadSegment(o, s) = PutBytes(o, LoadAddress(s), Content(s))
    BY <1>4 DEF LoadSegment
  <2>2. Len(s.data) <= s.memsz
    BY <1>4 DEF SegmentType
  <2>3. Content(s) \in Seq(Nat) /\ LoadAddress(s) \in Nat
    BY <2>2, ContentTyped
  <2>4. Len(Content(s)) \in 0..Len(Content(s))
    BY <2>3
  <2>. DEFINE x == Content(s)
              a == LoadAddress(s)
  <2>. HIDE DEF x, a
  <2>5. PutBytes(o, a, x) \in OutcomeType
    BY <2>3, <2>4, PutBytesRuns DEF x, a
  <2>. QED BY <2>1, <2>5 DEF x, a
<1>. QED BY <1>2, <1>3, <1>4

\* The segments of an image are loaded one after another.
LEMMA SegmentsRun ==
    ASSUME NEW o \in OutcomeType, NEW segments \in Seq(SegmentType)
    PROVE  \E f : /\ f[0] = o /\ FoldLeft(LoadSegment, o, segments) = f[Len(segments)]
                  /\ \A k \in 1..Len(segments) : f[k] = LoadSegment(f[k - 1], segments[k])
                  /\ \A k \in 0..Len(segments) : f[k] \in OutcomeType
<1>. DEFINE n == Len(segments)
            R(it) == it = [s \in SUBSET (DOMAIN segments) |->
                              IF s = {} THEN o
                              ELSE LoadSegment(it[s \ {Max(s)}], segments[Max(s)])]
            iter == CHOOSE it : R(it)
<1>1. FoldLeft(LoadSegment, o, segments) = iter[DOMAIN segments]
  BY DEF  FoldLeft, MapThenFoldSet
<1>2. DOMAIN segments = 1..n /\ n \in Nat /\ \A k \in 1..n : segments[k] \in SegmentType
  OBVIOUS
<1>. HIDE DEF n
<1>3. \E it : R(it)
  <2>. DEFINE G == [p \in OutcomeType \X (1..n) |-> LoadSegment(p[1], segments[p[2]])]
  <2>1. G \in [OutcomeType \X (1..n) -> OutcomeType]
    <3>1. ASSUME NEW p \in OutcomeType \X (1..n)
          PROVE  LoadSegment(p[1], segments[p[2]]) \in OutcomeType
      BY <1>2, LoadSegmentTyped
    <3>. QED BY <3>1
  <2>. HIDE DEF G
  <2>0. PICK h : Folded(OutcomeType, o, n, G, h)
    BY <1>2, <2>1, FoldExists
  <2>2. /\ h \in [SUBSET (1..n) -> OutcomeType]
        /\ \A s \in SUBSET (1..n) : h[s] = IF s = {} THEN o ELSE G[<<h[s \ {Max(s)}], Max(s)>>]
    BY <2>0 DEF Folded
  <2>3. ASSUME NEW s \in SUBSET (1..n), s # {}
        PROVE  h[s] = LoadSegment(h[s \ {Max(s)}], segments[Max(s)])
    <3>1. Max(s) \in 1..n
      BY <1>2, <2>3, MaxOf
    <3>2. h[s \ {Max(s)}] \in OutcomeType
      BY <2>2
    <3>3. <<h[s \ {Max(s)}], Max(s)>> \in OutcomeType \X (1..n)
      BY <3>1, <3>2
    <3>4. h[s] = G[<<h[s \ {Max(s)}], Max(s)>>]
      BY <2>2, <2>3
    <3>6. G[<<h[s \ {Max(s)}], Max(s)>>] = LoadSegment(h[s \ {Max(s)}], segments[Max(s)])
      BY <3>3 DEF G
    <3>. QED BY <3>4, <3>6
  <2>4. R(h)
    <3>. QED BY <1>2, <2>2, <2>3
  <2>. QED BY <2>4
<1>4. R(iter)
  BY <1>3
<1>. HIDE DEF iter
<1>. DEFINE f == [k \in 0..n |-> iter[1..k]]
<1>5. f[0] = o
  <2>1. 1..0 = {} /\ {} \in SUBSET (DOMAIN segments)
    OBVIOUS
  <2>2. iter[{}] = o
    BY <1>4, <2>1
  <2>3. f[0] = iter[1..0]
    BY <1>2
  <2>. QED BY <2>1, <2>2, <2>3
<1>6. ASSUME NEW k \in 1..n PROVE f[k] = LoadSegment(f[k - 1], segments[k])
  <2>1. 1..k \in SUBSET (DOMAIN segments) /\ 1..k # {}
    <3>1. 1..k \in SUBSET (1..n) /\ k \in 1..k
      BY <1>2
    <3>. QED BY <1>2, <3>1
  <2>2. Max(1..k) = k /\ (1..k) \ {k} = 1..(k - 1)
    BY <1>2, MaxOf
  <2>. DEFINE s == 1..k
  <2>. HIDE DEF s
  <2>3. iter[s] = LoadSegment(iter[s \ {Max(s)}], segments[Max(s)])
    BY <1>4, <2>1 DEF s
  <2>4. k \in 0..n /\ k - 1 \in 0..n
    BY <1>2
  <2>. QED BY <2>2, <2>3, <2>4 DEF s
<1>7. FoldLeft(LoadSegment, o, segments) = f[n]
  BY <1>1, <1>2
<1>. HIDE DEF f
<1>8. \A k \in 0..n : f[k] \in OutcomeType
  <2>. DEFINE P == {k \in Nat : k <= n => f[k] \in OutcomeType}
  <2>1. 0 \in P
    BY <1>5
  <2>2. ASSUME NEW k \in P PROVE k + 1 \in P
    <3>. SUFFICES ASSUME k + 1 <= n PROVE f[k + 1] \in OutcomeType
      OBVIOUS
    <3>1. k + 1 \in 1..n /\ f[k] \in OutcomeType /\ (k + 1) - 1 = k
      BY <1>2
    <3>2. f[k + 1] = LoadSegment(f[k], segments[k + 1])
      BY <1>6, <3>1
    <3>. DEFINE v == segments[k + 1]
    <3>3. v \in SegmentType /\ f[k + 1] = LoadSegment(f[k], v)
      BY <1>2, <3>1, <3>2
    <3>. HIDE DEF v
    <3>. QED BY <3>1, <3>3, LoadSegmentTyped
  <2>. HIDE DEF P
  <2>3. P = Nat
    <3>1. P \in SUBSET Nat
      BY DEF P
    <3>. QED BY <2>1, <2>2, <3>1, NatSetInduction
  <2>. QED BY <1>2, <2>3 DEF P
<1>. QED BY <1>5, <1>6, <1>7, <1>8 DEF n

-----------------------------------------------------------------------------
(* What the machine answers to a system call.                              *)

\* A set of numbers has a least.
LEMMA LeastNumber ==
    ASSUME NEW S \in SUBSET Nat, S # {}
    PROVE  \E i \in S : \A j \in S : i <= j
<1>. DEFINE P == {n \in Nat : \A i \in S : i <= n => \E m \in S : \A j \in S : m <= j}
<1>1. 0 \in P
  <2>1. ASSUME NEW i \in S, i <= 0 PROVE \E m \in S : \A j \in S : m <= j
    <3>1. i = 0
      BY <2>1
    <3>. QED BY <3>1
  <2>. QED BY <2>1
<1>2. ASSUME NEW n \in P PROVE n + 1 \in P
  <2>1. ASSUME NEW i \in S, i <= n + 1 PROVE \E m \in S : \A j \in S : m <= j
    <3>1. CASE \E j \in S : j <= n
      BY <3>1
    <3>2. CASE ~ \E j \in S : j <= n
      <4>1. \A j \in S : i <= j
        BY <2>1, <3>2
      <4>. QED BY <4>1
    <3>. QED BY <3>1, <3>2
  <2>. QED BY <2>1
<1>. HIDE DEF P
<1>3. P = Nat
  <2>1. P \in SUBSET Nat
    BY DEF P
  <2>. QED BY <1>1, <1>2, <2>1, NatSetInduction
<1>4. PICK i : i \in S
  OBVIOUS
<1>5. i \in P /\ i <= i
  BY <1>3, <1>4
<1>. QED BY <1>4, <1>5 DEF P

\* What WRITE prints: the bytes up to the first that cannot be read.
LEMMA TextBytes ==
    ASSUME NEW b \in BusType, NEW ptr \in Nat, NEW len \in Nat
    PROVE  LET text == Text(b, ptr, len)
           IN  /\ text \in Seq(0..(Byte - 1)) /\ Len(text) \in 0..len
               /\ \A i \in 1..Len(text) : text[i] = Read8(b, (ptr + i - 1) % Word)
               /\ Len(text) < len => Read8(b, (ptr + Len(text)) % Word) = NoValue
<1>. DEFINE ends == {i \in 0..(len - 1) : Read8(b, (ptr + i) % Word) = NoValue}
            n == IF ends = {} THEN len ELSE CHOOSE i \in ends : \A j \in ends : i <= j
            text == [i \in 1..n |-> Read8(b, (ptr + i - 1) % Word)]
<1>1. Text(b, ptr, len) = text
  BY DEF Text
<1>2. /\ n \in 0..len /\ (n < len => Read8(b, (ptr + n) % Word) = NoValue)
      /\ \A i \in 0..(n - 1) : Read8(b, (ptr + i) % Word) # NoValue
  <2>1. CASE ends = {}
    <3>1. n = len
      BY <2>1
    <3>2. \A i \in 0..(len - 1) : Read8(b, (ptr + i) % Word) # NoValue
      BY <2>1
    <3>. HIDE DEF n
    <3>. QED BY <3>1, <3>2
  <2>2. CASE ends # {}
    <3>1. ends \in SUBSET Nat
      OBVIOUS
    <3>. DEFINE IsLeast(i) == i \in ends /\ \A j \in ends : i <= j
    <3>2. \E i : IsLeast(i)
      <4>. HIDE DEF ends
      <4>. QED BY <2>2, <3>1, LeastNumber
    <3>3. n = CHOOSE i \in ends : \A j \in ends : i <= j
      BY <2>2
    <3>4. IsLeast(n)
      <4>. HIDE DEF ends, n
      <4>. QED BY <3>2, <3>3
    <3>5. n \in 0..(len - 1) /\ Read8(b, (ptr + n) % Word) = NoValue
      <4>. HIDE DEF n
      <4>. QED BY <3>4
    <3>6. ASSUME NEW i \in 0..(n - 1) PROVE Read8(b, (ptr + i) % Word) # NoValue
      <4>. HIDE DEF n
      <4>1. i \in 0..(len - 1) /\ ~(n <= i)
        BY <3>5
      <4>2. i \notin ends
        BY <3>4, <4>1
      <4>. QED BY <4>1, <4>2
    <3>. HIDE DEF n, ends
    <3>. QED BY <3>5, <3>6
  <2>. QED BY <2>1, <2>2
<1>. HIDE DEF n
<1>3. ASSUME NEW i \in 1..n PROVE Read8(b, (ptr + i - 1) % Word) \in 0..(Byte - 1)
  <2>. DEFINE a == (ptr + i - 1) % Word
  <2>1. i - 1 \in 0..(n - 1) /\ ptr + (i - 1) = ptr + i - 1
    BY <1>2
  <2>2. Read8(b, a) # NoValue
    BY <1>2, <2>1
  <2>3. a \in Nat
    BY <1>2, BusNumbers
  <2>. HIDE DEF a
  <2>4. Read8(b, a) \in 0..(Byte - 1)
    BY <2>2, <2>3, Read8Typed
  <2>. QED BY <2>4 DEF a
<1>4. text \in Seq(0..(Byte - 1)) /\ Len(text) = n
  BY <1>2, <1>3
<1>5. \A i \in 1..n : text[i] = Read8(b, (ptr + i - 1) % Word)
  OBVIOUS
<1>. HIDE DEF text
<1>. QED BY <1>1, <1>2, <1>4, <1>5

\* A CPU between two actions of the machine.
Settled(c) == Sound(c) /\ (c.regs["x0"] = 0 \/ c.faulted \/ c.halted)

\* A halted CPU is settled,
LEMMA HaltTyped ==
    ASSUME NEW c, Settled(c)
    PROVE  Settled(HaltCpu(c))
<1>. DEFINE d == [c EXCEPT !.halted = TRUE]
            e == [d EXCEPT !.pending = FALSE]
<1>1. Sound(d) /\ d.halted = TRUE
  BY FlagWritten DEF Settled, Sound, CpuType
<1>. HIDE DEF d
<1>2. Sound(e) /\ e.halted = TRUE
  BY <1>1, FlagWritten DEF Sound, CpuType
<1>3. HaltCpu(c) = e
  BY DEF HaltCpu, d
<1>. QED BY <1>2, <1>3 DEF Settled

\* as is one with a register other than x0 set,
LEMMA RegisterSettled ==
    ASSUME NEW c, Settled(c), NEW r \in Regs, r # "x0", NEW v \in Words
    PROVE  Settled([c EXCEPT !.regs[r] = v])
<1>1. Sound([c EXCEPT !.regs[r] = v])
  BY RegisterWritten DEF Settled
<1>2. /\ [c EXCEPT !.regs[r] = v].regs["x0"] = c.regs["x0"]
      /\ [c EXCEPT !.regs[r] = v].faulted = c.faulted
      /\ [c EXCEPT !.regs[r] = v].halted = c.halted
  BY DEF Settled, Sound, CpuType
<1>. QED BY <1>1, <1>2 DEF Settled

\* or with its system call cleared.
LEMMA PendingSettled ==
    ASSUME NEW c, Settled(c)
    PROVE  Settled([c EXCEPT !.pending = FALSE])
<1>1. Sound([c EXCEPT !.pending = FALSE])
  BY FlagWritten DEF Settled
<1>2. /\ [c EXCEPT !.pending = FALSE].regs = c.regs
      /\ [c EXCEPT !.pending = FALSE].faulted = c.faulted
      /\ [c EXCEPT !.pending = FALSE].halted = c.halted
  BY DEF Settled, Sound, CpuType
<1>. QED BY <1>1, <1>2 DEF Settled

\* Printed text is on the console after what was there.
LEMMA Printed ==
    ASSUME NEW b \in BusType, NEW text \in Seq(0..(Byte - 1))
    PROVE  [b EXCEPT !.console = @ \o text] \in BusType
<1>. DEFINE t == b.console \o text
<1>1. t \in Seq(0..(Byte - 1))
  BY BusFields
<1>2. [b EXCEPT !.console = @ \o text] = [b EXCEPT !.console = t]
  OBVIOUS
<1>. HIDE DEF t
<1>3. [b EXCEPT !.console = t] \in BusType
  BY <1>1 DEF BusType
<1>. QED BY <1>2, <1>3

\* A served call leaves a settled CPU and a bus.
LEMMA ServedTyped ==
    ASSUME NEW o, Settled(o.cpu), o.bus \in BusType, NEW exit \in Int
    PROVE  LET s == Served(o, exit)
           IN  Settled(s.cpu) /\ s.bus \in BusType /\ s.exit \in Int
<1>. DEFINE number == o.cpu.regs["a7"]
            arg0 == o.cpu.regs["a0"]
            arg1 == o.cpu.regs["a1"]
            text == Text(o.bus, arg0, arg1)
            answered(value) == [o.cpu EXCEPT !.regs["a0"] = value, !.pending = FALSE]
            printed(t) == [o.bus EXCEPT !.console = @ \o t]
            s == Served(o, exit)
<1>0. arg0 \in Words /\ arg1 \in Words /\ arg0 \in Nat /\ arg1 \in Nat /\ "a0" \in Regs
      /\ 1 \in Words /\ Word - 1 \in Words
  <2>1. o.cpu \in CpuType
    BY DEF Settled, Sound
  <2>2. 1 \in Words /\ Word - 1 \in Words /\ Words \subseteq Nat
    BY BusNumbers DEF Words
  <2>. QED BY <2>1, <2>2, CpuFields
<1>1. ASSUME NEW value \in Words PROVE Settled(answered(value))
  <2>. DEFINE d == [o.cpu EXCEPT !.regs["a0"] = value]
  <2>1. Settled(d)
    BY <1>0, RegisterSettled
  <2>2. answered(value) = [d EXCEPT !.pending = FALSE]
    OBVIOUS
  <2>. HIDE DEF d
  <2>. QED BY <2>1, <2>2, PendingSettled
<1>2. \A t \in Seq(0..(Byte - 1)) : printed(t) \in BusType
  BY Printed
<1>3. text \in Seq(0..(Byte - 1)) /\ Len(text) \in 0..arg1
  BY <1>0, TextBytes
<1>4. WriteAnswer(text, arg1) \in Words
  BY <1>0 DEF WriteAnswer
<1>5. <<arg0 % Byte>> \in Seq(0..(Byte - 1)) /\ <<>> \in Seq(0..(Byte - 1))
  <2>1. Byte \in Nat \ {0}
    BY BusNumbers
  <2>2. arg0 % Byte \in 0..(Byte - 1)
    BY <1>0, <2>1, DivMod
  <2>. QED BY <2>2
<1>6. AsInt32(arg0) \in Int /\ Settled(HaltCpu(o.cpu))
  BY <1>0, SignedWord, HaltTyped
<1>7. \/ s.cpu = HaltCpu(o.cpu) /\ s.bus = o.bus /\ s.exit = AsInt32(arg0)
      \/ s.cpu = answered(1) /\ s.bus = printed(<<arg0 % Byte>>) /\ s.exit = exit
      \/ s.cpu = answered(WriteAnswer(text, arg1)) /\ s.bus = printed(text) /\ s.exit = exit
      \/ s.cpu = answered(Word - 1) /\ s.bus = printed(<<>>) /\ s.exit = exit
  <2>. USE DEF MAPS_SYSCALL_EXIT, MAPS_SYSCALL_PUTCHAR, MAPS_SYSCALL_WRITE
  <2>1. CASE number = 0
    <3>1. s.cpu = HaltCpu(o.cpu) /\ s.bus = o.bus /\ s.exit = AsInt32(arg0)
      BY <2>1 DEF Served
    <3>. QED BY <3>1
  <2>2. CASE number = 1
    <3>1. s = [cpu |-> answered(1), bus |-> printed(<<arg0 % Byte>>), exit |-> exit]
      BY <2>2 DEF Served
    <3>. HIDE DEF s, answered, printed
    <3>. QED BY <3>1
  <2>3. CASE number = 2
    <3>1. s = [cpu |-> answered(WriteAnswer(text, arg1)), bus |-> printed(text), exit |-> exit]
      BY <2>3 DEF Served
    <3>. HIDE DEF s, answered, printed
    <3>. QED BY <3>1
  <2>4. CASE number \notin {0, 1, 2}
    <3>1. s.cpu = answered(Word - 1) /\ s.bus = printed(<<>>) /\ s.exit = exit
      BY <2>4 DEF Served
    <3>. QED BY <3>1
  <2>. QED BY <2>1, <2>2, <2>3, <2>4
<1>. HIDE DEF answered, printed, s, text
<1>8. Settled(s.cpu) /\ s.bus \in BusType /\ s.exit \in Int
  BY <1>0, <1>1, <1>2, <1>3, <1>4, <1>5, <1>6, <1>7
<1>. QED BY <1>8 DEF s

-----------------------------------------------------------------------------
(* Type correctness, for every action of the machine.                      *)

\* The loop a host waits for, and who halted the CPU.
LoopType == [of : Loops, left : Nat]
StopType == [by : {"none", "exit", "host"}, code : 0..(Word - 1)]

\* TypeOK, in parts.
LEMMA TypeParts ==
    TypeOK <=> /\ Settled(cpu) /\ bus \in BusType /\ exitCode \in Int /\ reply \in BOOLEAN
               /\ calls \in 0..MaxCalls /\ loop \in LoopType /\ stop \in StopType
BY DEF TypeOK, Settled, Sound, LoopType, StopType

\* A CPU that was reset is settled, with zeros everywhere.
LEMMA ResetCpuTyped ==
    ASSUME NEW c, Settled(c), NEW pc \in Words
    PROVE  Settled(ResetCpu(c, pc))
<1>. DEFINE d == ResetCpu(c, pc)
<1>0. 0 \in Words /\ "x0" \in Regs /\ "mtvec" \in Csrs /\ "mepc" \in Csrs
  BY BusNumbers, CpuAssumption DEF Words, Csrs
<1>1. c = [regs |-> c.regs, pc |-> c.pc, csr |-> c.csr, halted |-> c.halted, faulted |-> c.faulted,
           pending |-> c.pending]
  BY DEF Settled, Sound, CpuType
<1>2. /\ d.regs = [r \in Regs |-> 0] /\ d.csr = [x \in Csrs |-> 0]
      /\ d = [regs |-> [r \in Regs |-> 0], pc |-> pc, csr |-> [x \in Csrs |-> 0],
              halted |-> FALSE, faulted |-> FALSE, pending |-> FALSE]
  <2>. DEFINE z == [r \in Regs |-> 0]
              y == [x \in Csrs |-> 0]
              no == FALSE
              d1 == [c EXCEPT !.regs = z]
              d2 == [d1 EXCEPT !.csr = y]
              d3 == [d2 EXCEPT !.pc = pc]
              d4 == [d3 EXCEPT !.halted = no]
              d5 == [d4 EXCEPT !.faulted = no]
              d6 == [d5 EXCEPT !.pending = no]
  <2>1. d = d6
    BY DEF ResetCpu
  <2>. HIDE DEF d, z, y, no
  <2>2. d1 = [regs |-> z, pc |-> c.pc, csr |-> c.csr, halted |-> c.halted, faulted |-> c.faulted,
              pending |-> c.pending]
    BY <1>1
  <2>. HIDE DEF d1
  <2>3. d2 = [regs |-> z, pc |-> c.pc, csr |-> y, halted |-> c.halted, faulted |-> c.faulted,
              pending |-> c.pending]
    BY <2>2
  <2>. HIDE DEF d2
  <2>4. d3 = [regs |-> z, pc |-> pc, csr |-> y, halted |-> c.halted, faulted |-> c.faulted,
              pending |-> c.pending]
    BY <2>3
  <2>. HIDE DEF d3
  <2>5. d4 = [regs |-> z, pc |-> pc, csr |-> y, halted |-> no, faulted |-> c.faulted,
              pending |-> c.pending]
    BY <2>4
  <2>. HIDE DEF d4
  <2>6. d5 = [regs |-> z, pc |-> pc, csr |-> y, halted |-> no, faulted |-> no,
              pending |-> c.pending]
    BY <2>5
  <2>. HIDE DEF d5
  <2>7. d = [regs |-> z, pc |-> pc, csr |-> y, halted |-> no, faulted |-> no, pending |-> no]
    BY <2>1, <2>6
  <2>. QED BY <2>7 DEF z, y, no
<1>. HIDE DEF d
<1>3. d \in CpuType
  BY <1>0, <1>2 DEF CpuType, Words
<1>4. d.csr["mtvec"] = 0 /\ d.csr["mepc"] = 0 /\ d.regs["x0"] = 0
  BY <1>0, <1>2
<1>5. IsWordAligned(0)
  BY DEF IsWordAligned, WordBytes
<1>. QED BY <1>3, <1>4, <1>5 DEF Settled, Sound, d

\* The machine starts well typed.
LEMMA InitTyped == Init => TypeOK
<1>. SUFFICES ASSUME Init PROVE TypeOK
  OBVIOUS
<1>0. 0 \in Words /\ "x0" \in Regs /\ "mtvec" \in Csrs /\ "mepc" \in Csrs
  BY BusNumbers, CpuAssumption DEF Words, Csrs
<1>1. cpu \in CpuType
  BY <1>0 DEF Init, CpuType, Words
<1>2. cpu.csr["mtvec"] = 0 /\ cpu.csr["mepc"] = 0 /\ cpu.regs["x0"] = 0
  BY <1>0 DEF Init
<1>3. IsWordAligned(0)
  BY DEF IsWordAligned, WordBytes
<1>4. Settled(cpu)
  BY <1>1, <1>2, <1>3 DEF Settled, Sound
<1>5. bus \in BusType
  <2>1. PICK m \in InitialMemories : bus = [mem |-> m, console |-> <<>>, npu |-> ResetNpu, descAddr |-> 0]
    BY DEF Init
  <2>2. m \in Memory /\ <<>> \in Seq(0..(Byte - 1)) /\ ResetNpu \in NpuType /\ 0 \in 0..(Word - 1)
    BY MachineAssumption, ResetTyped, BusNumbers
  <2>. HIDE DEF ResetNpu
  <2>. QED BY <2>1, <2>2 DEF BusType
<1>6. loop \in LoopType /\ stop \in StopType
  <2>1. loop = [of |-> "none", left |-> 0] /\ stop = [by |-> "none", code |-> 0]
    BY DEF Init, NotStopped
  <2>2. 0 \in 0..(Word - 1) /\ 0 \in Nat
    BY BusNumbers
  <2>3. loop \in LoopType
    BY <2>1, <2>2 DEF LoopType, Loops
  <2>4. stop \in StopType
    <3>. DEFINE N == 0..(Word - 1)
    <3>1. 0 \in N
      BY <2>2
    <3>. HIDE DEF N
    <3>2. stop \in [by : {"none", "exit", "host"}, code : N]
      BY <2>1, <3>1
    <3>. QED BY <3>2 DEF StopType, N
  <2>. QED BY <2>3, <2>4
<1>7. exitCode \in Int /\ reply \in BOOLEAN /\ calls \in 0..MaxCalls
  <2>1. exitCode = 0 /\ reply = FALSE /\ calls = 0
    BY DEF Init
  <2>2. MaxCalls \in Nat
    BY MachineAssumption
  <2>3. exitCode \in Int /\ calls \in 0..MaxCalls
    BY <2>1, <2>2
  <2>. QED BY <2>1, <2>3
<1>. QED BY <1>4, <1>5, <1>6, <1>7, TypeParts

\* A turn of either loop, and a step of a host.
LEMMA TurnTyped ==
    ASSUME TypeOK, NEW o \in Step(cpu, bus)
    PROVE  o.ok \in BOOLEAN /\ Settled(o.cpu) /\ o.bus \in BusType
BY StepTyped, TypeParts DEF Settled

\* The loop of a run that has turns left.
LEMMA LoopTyped ==
    ASSUME TypeOK, Running
    PROVE  [loop EXCEPT !.left = @ - 1] \in LoopType /\ [of |-> "none", left |-> 0] \in LoopType
<1>1. loop \in LoopType /\ loop.left > 0
  BY TypeParts DEF Running
<1>. QED BY <1>1 DEF LoopType, Loops

\* A turn of Machine::run, with the system call it serves.
LEMMA RunStepTyped ==
    ASSUME TypeOK, RunStep
    PROVE  TypeOK'
<1>1. PICK o \in Step(cpu, bus) :
          LET served == IF o.ok /\ o.cpu.pending THEN Served(o, exitCode)
                        ELSE [cpu |-> o.cpu, bus |-> o.bus, exit |-> exitCode]
          IN  /\ cpu' = served.cpu /\ bus' = served.bus /\ exitCode' = served.exit
              /\ loop' = IF o.ok THEN [loop EXCEPT !.left = @ - 1] ELSE [of |-> "none", left |-> 0]
              /\ reply' = (o.ok /\ reply)
              /\ stop' = IF served.cpu.halted THEN [by |-> "exit", code |-> cpu.regs["a0"]] ELSE stop
  BY DEF RunStep
<1>2. o.ok \in BOOLEAN /\ Settled(o.cpu) /\ o.bus \in BusType
  BY TurnTyped
<1>3. exitCode \in Int /\ reply \in BOOLEAN /\ calls \in 0..MaxCalls /\ stop \in StopType /\ Sound(cpu)
  BY TypeParts DEF Settled
<1>4. Settled(cpu') /\ bus' \in BusType /\ exitCode' \in Int
  <2>1. CASE o.ok /\ o.cpu.pending
    <3>. DEFINE s == Served(o, exitCode)
    <3>1. cpu' = s.cpu /\ bus' = s.bus /\ exitCode' = s.exit
      BY <1>1, <2>1
    <3>2. Settled(s.cpu) /\ s.bus \in BusType /\ s.exit \in Int
      BY <1>2, <1>3, ServedTyped
    <3>. HIDE DEF s
    <3>. QED BY <3>1, <3>2
  <2>2. CASE ~(o.ok /\ o.cpu.pending)
    <3>1. cpu' = o.cpu /\ bus' = o.bus /\ exitCode' = exitCode
      BY <1>1, <2>2
    <3>. QED BY <1>2, <1>3, <3>1
  <2>. QED BY <2>1, <2>2
<1>5. loop' \in LoopType
  <2>1. Running
    BY DEF RunStep
  <2>2. loop' = [loop EXCEPT !.left = @ - 1] \/ loop' = [of |-> "none", left |-> 0]
    BY <1>1
  <2>. QED BY <2>1, <2>2, LoopTyped
<1>6. stop' \in StopType
  <2>1. cpu.regs["a0"] \in 0..(Word - 1)
    BY <1>3, CpuFields DEF Sound, Words
  <2>2. stop' = stop \/ stop' = [by |-> "exit", code |-> cpu.regs["a0"]]
    BY <1>1
  <2>. QED BY <1>3, <2>1, <2>2 DEF StopType
<1>7. reply' \in BOOLEAN /\ calls' \in 0..MaxCalls
  <2>1. reply' = (o.ok /\ reply) /\ calls' = calls
    BY <1>1 DEF RunStep
  <2>. QED BY <1>3, <2>1
<1>8. /\ Settled(cpu') /\ bus' \in BusType /\ exitCode' \in Int /\ reply' \in BOOLEAN
      /\ calls' \in 0..MaxCalls /\ loop' \in LoopType /\ stop' \in StopType
  BY <1>4, <1>5, <1>6, <1>7
<1>. QED BY <1>8 DEF TypeOK, Settled, Sound, LoopType, StopType

\* A turn of Cpu::run.
LEMMA CpuRunStepTyped ==
    ASSUME TypeOK, CpuRunStep
    PROVE  TypeOK'
<1>1. PICK o \in Step(cpu, bus) :
          /\ cpu' = IF o.ok /\ o.cpu.pending THEN HaltCpu(o.cpu) ELSE o.cpu
          /\ bus' = o.bus
          /\ loop' = IF o.ok THEN [loop EXCEPT !.left = @ - 1] ELSE [of |-> "none", left |-> 0]
          /\ reply' = (o.ok /\ reply)
          /\ stop' = IF o.ok /\ o.cpu.pending THEN [by |-> "host", code |-> 0] ELSE stop
  BY DEF CpuRunStep
<1>2. o.ok \in BOOLEAN /\ Settled(o.cpu) /\ o.bus \in BusType
  BY TurnTyped
<1>3. exitCode \in Int /\ reply \in BOOLEAN /\ calls \in 0..MaxCalls /\ stop \in StopType
  BY TypeParts
<1>4. Settled(cpu') /\ bus' \in BusType /\ exitCode' \in Int
  <2>1. exitCode' = exitCode
    BY DEF CpuRunStep
  <2>. QED BY <1>1, <1>2, <1>3, <2>1, HaltTyped
<1>5. loop' \in LoopType
  <2>1. Running
    BY DEF CpuRunStep
  <2>2. loop' = [loop EXCEPT !.left = @ - 1] \/ loop' = [of |-> "none", left |-> 0]
    BY <1>1
  <2>. QED BY <2>1, <2>2, LoopTyped
<1>6. stop' \in StopType
  <2>1. 0 \in 0..(Word - 1)
    BY BusNumbers
  <2>2. stop' = stop \/ stop' = [by |-> "host", code |-> 0]
    BY <1>1
  <2>. QED BY <1>3, <2>1, <2>2 DEF StopType
<1>7. reply' \in BOOLEAN /\ calls' \in 0..MaxCalls
  <2>1. reply' = (o.ok /\ reply) /\ calls' = calls
    BY <1>1 DEF CpuRunStep
  <2>. QED BY <1>3, <2>1
<1>8. /\ Settled(cpu') /\ bus' \in BusType /\ exitCode' \in Int /\ reply' \in BOOLEAN
      /\ calls' \in 0..MaxCalls /\ loop' \in LoopType /\ stop' \in StopType
  BY <1>4, <1>5, <1>6, <1>7
<1>. QED BY <1>8 DEF TypeOK, Settled, Sound, LoopType, StopType

\* What loads leave on the bus.
LEMMA LoadingTyped ==
    ASSUME TypeOK, NEW outcome \in OutcomeType, Loading(outcome)
    PROVE  TypeOK'
<1>1. outcome.ok \in BOOLEAN /\ outcome.bus \in BusType
  BY DEF OutcomeType
<1>2. calls' \in 0..MaxCalls
  BY TypeParts, MachineAssumption DEF Loading, HostCall
<1>3. /\ Settled(cpu') /\ bus' \in BusType /\ exitCode' \in Int /\ reply' \in BOOLEAN
      /\ calls' \in 0..MaxCalls /\ loop' \in LoopType /\ stop' \in StopType
  BY <1>1, <1>2, TypeParts DEF Loading
<1>. QED BY <1>3 DEF TypeOK, Settled, Sound, LoopType, StopType

\* What loads leave on the bus, whether or not they succeed.
LEMMA PutBytesTyped ==
    ASSUME NEW o \in OutcomeType, NEW base \in Nat, NEW bytes \in Seq(Nat)
    PROVE  PutBytes(o, base, bytes) \in OutcomeType
<1>. DEFINE R(f) == /\ f[0] = o /\ PutBytes(o, base, bytes) = f[Len(bytes)]
                    /\ \A k \in 1..Len(bytes) : f[k] = Put(f[k - 1], base + k - 1, bytes[k])
                    /\ \A k \in 0..Len(bytes) : f[k] \in OutcomeType
<1>1. \E f : R(f)
  BY PutBytesRuns, Zenon
<1>2. PICK f : R(f)
  BY <1>1
<1>3. Len(bytes) \in 0..Len(bytes)
  OBVIOUS
<1>. QED BY <1>2, <1>3

\* The three loads of the host.
LEMMA LoadsTyped ==
    ASSUME NEW b \in BusType
    PROVE  /\ \A elf \in Images : LoadElf(b, elf) \in OutcomeType
           /\ \A f \in Files : PutBytes(Accepted(b), f[1], f[2]) \in OutcomeType
           /\ \A f \in WordLists : LoadWords(b, f[1], f[2]) \in OutcomeType
<1>0. Accepted(b) \in OutcomeType /\ Denied(b) \in OutcomeType
  BY AcceptedTyped, DeniedTyped DEF WriteKeeps
<1>1. ASSUME NEW elf \in Images PROVE LoadElf(b, elf) \in OutcomeType
  <2>1. elf.segments \in Seq(SegmentType)
    BY MachineAssumption DEF ElfType
  <2>2. Len(elf.segments) \in 0..Len(elf.segments)
    BY <2>1
  <2>. DEFINE r == FoldLeft(LoadSegment, Accepted(b), elf.segments)
  <2>3. PICK f : r = f[Len(elf.segments)] /\ \A k \in 0..Len(elf.segments) : f[k] \in OutcomeType
    BY <1>0, <2>1, SegmentsRun
  <2>4. LoadElf(b, elf) = Denied(b) \/ LoadElf(b, elf) = r
    BY DEF LoadElf
  <2>. HIDE DEF r
  <2>. QED BY <1>0, <2>2, <2>3, <2>4
<1>2. ASSUME NEW f \in Files PROVE PutBytes(Accepted(b), f[1], f[2]) \in OutcomeType
  <2>1. f[1] \in Nat /\ f[2] \in Seq(0..(Byte - 1))
    BY MachineAssumption
  <2>2. f[2] \in Seq(Nat) /\ Len(f[2]) \in 0..Len(f[2])
    BY <2>1, BusNumbers
  <2>. DEFINE base == f[1]
              bytes == f[2]
              o == Accepted(b)
  <2>. HIDE DEF base, bytes, o
  <2>3. o \in OutcomeType /\ base \in Nat /\ bytes \in Seq(Nat) /\ Len(bytes) \in 0..Len(bytes)
    BY <1>0, <2>1, <2>2 DEF base, bytes, o
  <2>5. PutBytes(o, base, bytes) \in OutcomeType
    BY <2>3, PutBytesTyped
  <2>. QED BY <2>5 DEF base, bytes, o
<1>3. ASSUME NEW f \in WordLists PROVE LoadWords(b, f[1], f[2]) \in OutcomeType
  <2>1. f[1] \in Nat /\ f[2] \in Seq(0..(Word - 1))
    BY MachineAssumption
  <2>2. f[2] \in Seq(Nat) /\ Len(f[2]) \in 0..Len(f[2])
    BY <2>1, BusNumbers
  <2>. DEFINE x == f[2]
              a == f[1]
  <2>. HIDE DEF x, a
  <2>3. LoadWords(b, a, x) \in OutcomeType
    BY <2>1, <2>2, LoadWordsRuns DEF x, a
  <2>. QED BY <2>3 DEF x, a
<1>. QED BY <1>1, <1>2, <1>3

\* Every call of the host, and the end of a run.
LEMMA HostTyped ==
    ASSUME TypeOK, Next, ~RunStep, ~CpuRunStep
    PROVE  TypeOK'
<1>. DEFINE Parts == /\ Settled(cpu') /\ bus' \in BusType /\ exitCode' \in Int /\ reply' \in BOOLEAN
                     /\ calls' \in 0..MaxCalls /\ loop' \in LoopType /\ stop' \in StopType
<1>0. Parts => TypeOK'
  BY DEF TypeOK, Settled, Sound, LoopType, StopType
<1>1. /\ Settled(cpu) /\ bus \in BusType /\ exitCode \in Int /\ reply \in BOOLEAN
      /\ calls \in 0..MaxCalls /\ loop \in LoopType /\ stop \in StopType
  BY TypeParts
<1>2. HostCall => calls' \in 0..MaxCalls
  BY <1>1, MachineAssumption DEF HostCall
<1>3. CASE RunReturn
  <2>1. [of |-> "none", left |-> 0] \in LoopType
    BY DEF LoopType, Loops
  <2>2. (cpu.halted /\ ~cpu.faulted) \in BOOLEAN
    OBVIOUS
  <2>3. Parts
    BY <1>1, <1>3, <2>1, <2>2 DEF RunReturn
  <2>. QED BY <1>0, <2>3
<1>4. ASSUME NEW pc \in Entries, Reset(pc) PROVE TypeOK'
  <2>1. pc \in Words /\ 0 \in 0..(Word - 1)
    BY MachineAssumption, BusNumbers DEF Words
  <2>2. Settled(ResetCpu(cpu, pc))
    BY <1>1, <2>1, ResetCpuTyped
  <2>3. [bus EXCEPT !.console = <<>>, !.npu = ResetNpu, !.descAddr = 0] \in BusType
    BY <1>1, <2>1, BusFields, ResetTyped, DeviceWritten
  <2>4. NotStopped \in StopType
    BY <2>1 DEF NotStopped, StopType
  <2>5. Parts
    BY <1>1, <1>2, <1>4, <2>2, <2>3, <2>4 DEF Reset
  <2>. QED BY <1>0, <2>5
<1>5. ASSUME NEW of \in Loops \ {"none"}, NEW n \in Budgets, Run(of, n) PROVE TypeOK'
  <2>1. [of |-> of, left |-> n] \in LoopType
    BY MachineAssumption DEF LoopType
  <2>2. Parts
    BY <1>1, <1>2, <1>5, <2>1 DEF Run
  <2>. QED BY <1>0, <2>2
<1>6. CASE StepCpu
  <2>1. PICK o \in Step(cpu, bus) : cpu' = o.cpu /\ bus' = o.bus /\ reply' = o.ok
    BY <1>6 DEF StepCpu
  <2>2. Parts
    BY <1>1, <1>2, <1>6, <2>1, TurnTyped DEF StepCpu
  <2>. QED BY <1>0, <2>2
<1>7. CASE Halt
  <2>1. [by |-> "host", code |-> 0] \in StopType
    BY BusNumbers DEF StopType
  <2>2. Parts
    BY <1>1, <1>2, <1>7, <2>1, HaltTyped DEF Halt
  <2>. QED BY <1>0, <2>2
<1>8. CASE ClearEcall
  <2>1. Parts
    BY <1>1, <1>2, <1>8, PendingSettled DEF ClearEcall
  <2>. QED BY <1>0, <2>1
<1>9. ASSUME NEW w \in HostWrites, SetRegister(w[1], w[2]) PROVE TypeOK'
  <2>1. w[1] \in Regs /\ w[2] \in Words
    BY MachineAssumption DEF Words
  <2>2. Settled(SetReg(cpu, w[1], w[2]))
    BY <1>1, <2>1, RegisterSettled DEF SetReg
  <2>3. Parts
    BY <1>1, <1>2, <1>9, <2>2 DEF SetRegister
  <2>. QED BY <1>0, <2>3
<1>10. ASSUME NEW elf \in Images, Load(elf) PROVE TypeOK'
  BY <1>1, <1>10, LoadsTyped, LoadingTyped DEF Load
<1>11. ASSUME NEW f \in Files, LoadFile(f[1], f[2]) PROVE TypeOK'
  BY <1>1, <1>11, LoadsTyped, LoadingTyped DEF LoadFile
<1>12. ASSUME NEW f \in WordLists, LoadList(f[1], f[2]) PROVE TypeOK'
  BY <1>1, <1>12, LoadsTyped, LoadingTyped DEF LoadList
<1>. QED BY <1>3, <1>4, <1>5, <1>6, <1>7, <1>8, <1>9, <1>10, <1>11, <1>12 DEF Next

\* Nothing a program does leaves a value outside its type: registers, pc and
\* CSRs are words, trap addresses are word aligned whatever is written to them,
\* x0 is 0 on a CPU that goes on, and memory, console and NPU keep their types
\* under every access and every load (cpu.cpp:68-122,146-449, bus.cpp:77-126).
THEOREM TypeCorrect == Spec => []TypeOK
<1>1. TypeOK /\ [Next]_vars => TypeOK'
  <2>1. TypeOK /\ UNCHANGED vars => TypeOK'
    BY DEF vars, TypeOK
  <2>. QED BY <2>1, RunStepTyped, CpuRunStepTyped, HostTyped
<1>. QED BY <1>1, InitTyped, PTL DEF Spec

-----------------------------------------------------------------------------
(* Faults.                                                                 *)

\* An instruction that is left is left unfaulted, as it was entered.
LEMMA RetireRuns ==
    ASSUME NEW c, Sound(c), ~c.faulted, NEW b, NEW next
    PROVE  ~Retire(c, b, next).cpu.faulted
BY DEF Retire, Sound, CpuType

\* A fault marks the CPU, and nothing else of it.
LEMMA FaultMarks ==
    ASSUME NEW c, Sound(c), NEW b
    PROVE  LET d == Fault(c, b).cpu
           IN  /\ d.regs = c.regs /\ d.csr = c.csr /\ d.pc = c.pc /\ d.pending = c.pending
               /\ Fault(c, b).bus = b /\ ~Fault(c, b).ok
BY DEF Fault, Sound, CpuType

\* What a step that faults leaves: all as it was, but for a jump's link.
Unmoved(c, b, o) ==
    /\ ~o.ok /\ SameBus(b, o.bus)
    /\ o.cpu.csr = c.csr /\ o.cpu.pc = c.pc /\ o.cpu.pending = c.pending

\* An instruction that ends in a fault has moved nothing but its link.
LEMMA EndsPrecisely ==
    ASSUME NEW c, Sound(c), ~c.faulted, NEW b \in BusType, NEW i \in Instructions,
           NEW o, Ends(c, b, i, o), o.cpu.faulted
    PROVE  /\ Unmoved(c, b, o)
           /\ \A r \in Regs : o.cpu.regs[r] = c.regs[r] \/ (i.op \in {"jal", "jalr"} /\ r = i.rd)
<1>. DEFINE next == (c.pc + 4) % Word
            Wrote(value) == [c EXCEPT !.regs[i.rd] = value]
            Goal == /\ Unmoved(c, b, o)
                    /\ \A r \in Regs : o.cpu.regs[r] = c.regs[r] \/ (i.op \in {"jal", "jalr"} /\ r = i.rd)
<1>1. c.pc \in Words /\ next \in Words /\ i.rd \in Regs
  BY CpuFields, NextTyped, OperandsTyped DEF Sound
<1>2. ASSUME NEW v \in Words
      PROVE  /\ Sound(Wrote(v)) /\ ~Wrote(v).faulted
             /\ Wrote(v).csr = c.csr /\ Wrote(v).pc = c.pc /\ Wrote(v).pending = c.pending
             /\ \A r \in Regs : Wrote(v).regs[r] = c.regs[r] \/ r = i.rd
  <2>1. Sound(Wrote(v))
    BY <1>1, RegisterWritten
  <2>. QED BY <1>1, <2>1 DEF Sound, CpuType
<1>3. SameBus(b, b)
  BY DEF SameBus
<1>4. ASSUME NEW s, WriteKeeps(b, s), o = IF s.ok THEN Retire(c, s.bus, next) ELSE Fault(c, s.bus)
      PROVE  Goal
  <2>1. ~s.ok /\ o = Fault(c, s.bus)
    <3>. HIDE DEF next
    <3>. QED BY <1>4, RetireRuns
  <2>2. SameBus(b, s.bus)
    BY <1>4, <2>1 DEF WriteKeeps
  <2>. QED BY <2>1, <2>2, FaultMarks DEF Unmoved
<1>5. o = Fault(c, b) => Goal
  BY <1>3, FaultMarks DEF Unmoved
<1>6. ASSUME i.op \in {"jal", "jalr"}, NEW t \in Words, o = Jump(Wrote(next), b, t)
      PROVE  Goal
  <2>. DEFINE d == Wrote(next)
  <2>1. /\ Sound(d) /\ ~d.faulted
        /\ d.csr = c.csr /\ d.pc = c.pc /\ d.pending = c.pending
        /\ \A r \in Regs : d.regs[r] = c.regs[r] \/ r = i.rd
    BY <1>1, <1>2
  <2>2. o = Jump(d, b, t)
    BY <1>6
  <2>. HIDE DEF d
  <2>3. o = Fault(d, b)
    BY <2>1, <2>2, RetireRuns DEF Jump
  <2>4. /\ o.cpu.regs = d.regs /\ o.cpu.csr = d.csr /\ o.cpu.pc = d.pc /\ o.cpu.pending = d.pending
        /\ o.bus = b /\ ~o.ok
    BY <2>1, <2>3, FaultMarks
  <2>5. Unmoved(c, b, o)
    BY <1>3, <2>1, <2>4 DEF Unmoved
  <2>. QED BY <1>6, <2>1, <2>4, <2>5
<1>7. ASSUME NEW t \in Words, o = Jump(c, b, t) PROVE Goal
  <2>1. o = Fault(c, b)
    BY <1>7, RetireRuns DEF Jump
  <2>. QED BY <1>5, <2>1
<1>8. o # Ecall(c, b, next)
  <2>. SUFFICES ASSUME o = Ecall(c, b, next) PROVE FALSE
    OBVIOUS
  <2>. HIDE DEF next
  <2>1. CASE c.csr["mtvec"] = 0
    <3>. DEFINE d == [c EXCEPT !.pending = TRUE]
    <3>1. Sound(d) /\ ~d.faulted
      BY FlagWritten DEF Sound, CpuType
    <3>2. o = Retire(d, b, next)
      BY <2>1 DEF Ecall
    <3>. HIDE DEF d
    <3>. QED BY <3>1, <3>2, RetireRuns
  <2>2. CASE c.csr["mtvec"] # 0
    <3>. DEFINE d == [c EXCEPT !.csr["mepc"] = next, !.csr["mcause"] = 11 % Word]
    <3>1. d.faulted = c.faulted
      BY DEF Sound, CpuType
    <3>2. o = Retire(d, b, c.csr["mtvec"])
      BY <2>2 DEF Ecall
    <3>3. Retire(d, b, c.csr["mtvec"]).cpu.faulted = c.faulted
      BY DEF Retire, Sound, CpuType
    <3>. QED BY <3>2, <3>3
  <2>. QED BY <2>1, <2>2
<1>9. ASSUME NEW y \in Words, i.op \in CsrOps, o = CsrAccess(c, b, i, y, next) PROVE Goal
  <2>. DEFINE old == c.csr[i.csr]
              value == CsrValue(i.csr, CsrNext(i.op, old, y))
              reads == SetReg(c, i.rd, old)
              writes == [reads EXCEPT !.csr[i.csr] = value]
  <2>. HIDE DEF next
  <2>1. reads.faulted = c.faulted /\ DOMAIN reads = DOMAIN c
    BY DEF SetReg, Sound, CpuType
  <2>2. o \in {Fault(c, b), Retire(reads, b, next), Retire(writes, b, next)}
    BY <1>9 DEF CsrAccess
  <2>3. "faulted" \in DOMAIN c
    BY DEF Sound, CpuType
  <2>. HIDE DEF reads, value
  <2>4. Retire(reads, b, next).cpu.faulted = reads.faulted
    BY <2>1, <2>3 DEF Retire
  <2>5. Retire(writes, b, next).cpu.faulted = reads.faulted
    BY <2>1, <2>3 DEF Retire
  <2>. HIDE DEF writes
  <2>6. o = Fault(c, b)
    BY <2>1, <2>2, <2>4, <2>5
  <2>. QED BY <1>5, <2>6
<1>10. \A v \in Words : o # Retire(Wrote(v), b, next)
  <2>. HIDE DEF Wrote, next
  <2>. QED BY <1>2, RetireRuns
<1>11. o # Retire(c, b, next)
  <2>. HIDE DEF next
  <2>. QED BY RetireRuns
<1>12. \/ \E v \in Words : o = Retire(Wrote(v), b, next)
       \/ o = Retire(c, b, next)
       \/ \E t \in Words : o = Jump(c, b, t)
       \/ i.op \in {"jal", "jalr"} /\ \E t \in Words : o = Jump(Wrote(next), b, t)
       \/ o = Fault(c, b)
       \/ \E s : WriteKeeps(b, s) /\ o = IF s.ok THEN Retire(c, s.bus, next) ELSE Fault(c, s.bus)
       \/ o = Ecall(c, b, next)
       \/ \E y \in Words : i.op \in CsrOps /\ o = CsrAccess(c, b, i, y, next)
  BY DEF Ends
<1>13. Goal
  <2>. HIDE DEF next, Wrote, Goal
  <2>. QED BY <1>4, <1>5, <1>6, <1>7, <1>8, <1>9, <1>10, <1>11, <1>12
<1>. QED BY <1>13

\* The link of the jump at pc.
Linked(c, b, r) ==
    /\ CanStep(c) /\ Read32(b, c.pc) \in DOMAIN Decode
    /\ Decode[Read32(b, c.pc)].op \in {"jal", "jalr"} /\ r = Decode[Read32(b, c.pc)].rd

\* A step of the CPU that faults, from any CPU.
LEMMA StepPrecise ==
    ASSUME NEW c, Sound(c), NEW b \in BusType, NEW o \in Step(c, b), o.cpu.faulted
    PROVE  Unmoved(c, b, o) /\ \A r \in Regs : o.cpu.regs[r] = c.regs[r] \/ Linked(c, b, r)
<1>1. CASE ~CanStep(c)
  <2>. DEFINE d == [c EXCEPT !.faulted = ~c.halted]
  <2>1. o = [ok |-> FALSE, cpu |-> d, bus |-> b]
    BY <1>1 DEF Step
  <2>2. d.regs = c.regs /\ d.csr = c.csr /\ d.pc = c.pc /\ d.pending = c.pending
    BY DEF Sound, CpuType
  <2>. HIDE DEF d
  <2>. QED BY <2>1, <2>2 DEF Unmoved, SameBus
<1>2. CASE CanStep(c) /\ Read32(b, c.pc) \notin DOMAIN Decode
  <2>1. o = Fault(c, b)
    BY <1>2 DEF Step
  <2>. QED BY <2>1, FaultMarks DEF Unmoved, SameBus
<1>3. CASE CanStep(c) /\ Read32(b, c.pc) \in DOMAIN Decode
  <2>. DEFINE i == Decode[Read32(b, c.pc)]
  <2>1. o \in Execute(c, b, i)
    BY <1>3 DEF Step
  <2>2. i \in Instructions /\ ~c.faulted
    BY <1>3, CpuAssumption DEF CanStep
  <2>3. i.op \in {"jal", "jalr"} /\ i.rd = Decode[Read32(b, c.pc)].rd => Linked(c, b, i.rd)
    BY <1>3 DEF Linked
  <2>. HIDE DEF i
  <2>4. Ends(c, b, i, o)
    BY <2>1, <2>2, ExecuteEnds
  <2>5. /\ Unmoved(c, b, o)
        /\ \A r \in Regs : o.cpu.regs[r] = c.regs[r] \/ (i.op \in {"jal", "jalr"} /\ r = i.rd)
    BY <2>2, <2>4, EndsPrecisely
  <2>. QED BY <2>3, <2>5 DEF i
<1>. QED BY <1>1, <1>2, <1>3

\* Serving a call does not fault the CPU.
LEMMA ServedRuns ==
    ASSUME NEW o, Sound(o.cpu), NEW exit
    PROVE  Served(o, exit).cpu.faulted = o.cpu.faulted
<1>. DEFINE answered(value) == [o.cpu EXCEPT !.regs["a0"] = value, !.pending = FALSE]
            s == Served(o, exit)
<1>1. \A value : answered(value).faulted = o.cpu.faulted
  BY DEF Sound, CpuType
<1>2. HaltCpu(o.cpu).faulted = o.cpu.faulted
  BY DEF Sound, CpuType, HaltCpu
<1>3. s.cpu = HaltCpu(o.cpu) \/ \E value : s.cpu = answered(value)
  <2>. USE DEF MAPS_SYSCALL_EXIT, MAPS_SYSCALL_PUTCHAR, MAPS_SYSCALL_WRITE
  <2>. DEFINE number == o.cpu.regs["a7"]
              text == Text(o.bus, o.cpu.regs["a0"], o.cpu.regs["a1"])
  <2>1. CASE number = 0
    <3>1. s.cpu = HaltCpu(o.cpu)
      BY <2>1 DEF Served
    <3>. QED BY <3>1
  <2>2. CASE number = 1
    <3>1. s.cpu = answered(1)
      BY <2>2 DEF Served
    <3>. QED BY <3>1
  <2>3. CASE number = 2
    <3>1. s.cpu = answered(WriteAnswer(text, o.cpu.regs["a1"]))
      BY <2>3 DEF Served
    <3>. QED BY <3>1
  <2>4. CASE number \notin {0, 1, 2}
    <3>1. s.cpu = answered(Word - 1)
      BY <2>4 DEF Served
    <3>. QED BY <3>1
  <2>. QED BY <2>1, <2>2, <2>3, <2>4
<1>. HIDE DEF answered, s
<1>4. s.cpu.faulted = o.cpu.faulted
  BY <1>1, <1>2, <1>3
<1>. QED BY <1>4 DEF s

\* A turn takes over what the step leaves, unless it serves the call it made,
\* which does not fault the CPU.
LEMMA TurnMoves ==
    ASSUME Sound(cpu), bus \in BusType, Turn
    PROVE  \E o \in Step(cpu, bus) :
              /\ ~(o.ok /\ o.cpu.pending) => cpu' = o.cpu /\ bus' = o.bus /\ exitCode' = exitCode
              /\ cpu'.faulted = o.cpu.faulted
<1>1. CASE RunStep
  <2>1. PICK o \in Step(cpu, bus) :
           LET served == IF o.ok /\ o.cpu.pending THEN Served(o, exitCode)
                         ELSE [cpu |-> o.cpu, bus |-> o.bus, exit |-> exitCode]
           IN  cpu' = served.cpu /\ bus' = served.bus /\ exitCode' = served.exit
    BY <1>1 DEF RunStep
  <2>2. ~(o.ok /\ o.cpu.pending) => cpu' = o.cpu /\ bus' = o.bus /\ exitCode' = exitCode
    BY <2>1
  <2>3. Sound(o.cpu)
    BY StepTyped
  <2>4. ASSUME o.ok, o.cpu.pending PROVE cpu'.faulted = o.cpu.faulted
    <3>1. cpu' = Served(o, exitCode).cpu
      BY <2>1, <2>4
    <3>. QED BY <2>3, <3>1, ServedRuns
  <2>. QED BY <2>2, <2>4
<1>2. CASE CpuRunStep
  <2>1. PICK o \in Step(cpu, bus) :
           /\ cpu' = IF o.ok /\ o.cpu.pending THEN HaltCpu(o.cpu) ELSE o.cpu
           /\ bus' = o.bus
    BY <1>2 DEF CpuRunStep
  <2>2. HaltCpu(o.cpu).faulted = o.cpu.faulted
    BY StepTyped DEF HaltCpu, Sound, CpuType
  <2>. QED BY <1>2, <2>1, <2>2 DEF CpuRunStep
<1>3. CASE StepCpu
  <2>1. PICK o \in Step(cpu, bus) : cpu' = o.cpu /\ bus' = o.bus
    BY <1>3 DEF StepCpu
  <2>. QED BY <1>3, <2>1 DEF StepCpu
<1>. QED BY <1>1, <1>2, <1>3 DEF Turn

\* Faults are precise: no instruction that faults has changed memory, console,
\* CSRs, pc or a register other than the link of a jump, whichever check of the
\* CPU, the bus or the NPU refused it (cpu.cpp:34-55,124-144, bus.cpp:96-126).
THEOREM FaultsArePrecise == Spec => StepIsPrecise
<1>. DEFINE Precise ==
        /\ bus'.mem = bus.mem /\ bus'.console = bus.console /\ bus'.descAddr = bus.descAddr
        /\ cpu'.csr = cpu.csr /\ cpu'.pc = cpu.pc /\ cpu'.pending = cpu.pending
        /\ \A r \in Regs : \/ cpu'.regs[r] = cpu.regs[r]
                           \/ Executes /\ Fetched.op \in {"jal", "jalr"} /\ r = Fetched.rd
        /\ exitCode' = exitCode
<1>1. ASSUME TypeOK, Turn, cpu'.faulted PROVE Precise
  <2>1. Sound(cpu) /\ bus \in BusType
    BY <1>1, TypeParts DEF Settled
  <2>2. PICK o \in Step(cpu, bus) :
           /\ ~(o.ok /\ o.cpu.pending) => cpu' = o.cpu /\ bus' = o.bus /\ exitCode' = exitCode
           /\ cpu'.faulted = o.cpu.faulted
    BY <1>1, <2>1, TurnMoves
  <2>4. o.cpu.faulted
    BY <1>1, <2>2
  <2>3. Unmoved(cpu, bus, o) /\ \A r \in Regs : o.cpu.regs[r] = cpu.regs[r] \/ Linked(cpu, bus, r)
    BY <2>1, <2>4, StepPrecise
  <2>5. cpu' = o.cpu /\ bus' = o.bus /\ exitCode' = exitCode
    BY <2>2, <2>3 DEF Unmoved
  <2>. QED BY <2>3, <2>5 DEF Unmoved, SameBus, Linked, Executes, Fetched
<1>2. TypeOK /\ [Next]_vars => [Turn /\ cpu'.faulted => Precise]_vars
  BY <1>1
<1>. QED BY <1>2, TypeCorrect, PTL DEF Spec, StepIsPrecise

-----------------------------------------------------------------------------
(* The WRITE system call.                                                  *)

\* ecall without a trap vector hands the registers to the host as they are.
LEMMA CallMade ==
    ASSUME NEW c, Sound(c), NEW b, CanStep(c), Read32(b, c.pc) \in DOMAIN Decode,
           Decode[Read32(b, c.pc)].op = "ecall", c.csr["mtvec"] = 0,
           NEW o \in Step(c, b)
    PROVE  /\ o.ok /\ o.cpu.pending /\ o.bus = b /\ "a0" \in DOMAIN o.cpu.regs
           /\ \A r \in {"a0", "a1", "a7"} : o.cpu.regs[r] = c.regs[r]
           /\ DOMAIN o.cpu = {"regs", "pc", "csr", "halted", "faulted", "pending"}
<1>. DEFINE i == Decode[Read32(b, c.pc)]
            d == [c EXCEPT !.pending = TRUE]
            next == (c.pc + 4) % Word
<1>1. o \in Execute(c, b, i)
  BY DEF Step
<1>2. o = Ecall(c, b, next)
  BY <1>1 DEF Execute, AluOps, Branches, Loads, Stores, CsrOps
<1>3. o = Retire(d, b, next)
  BY <1>2 DEF Ecall
<1>4. /\ d.pending = TRUE /\ d.regs = c.regs /\ {"a0", "a1", "a7"} \subseteq DOMAIN c.regs
      /\ DOMAIN d = {"regs", "pc", "csr", "halted", "faulted", "pending"}
  BY CpuAssumption DEF Sound, CpuType
<1>. HIDE DEF d, next
<1>. QED BY <1>3, <1>4 DEF Retire

\* Text appended to the console: what was there, then its bytes.
LEMMA Appended ==
    ASSUME NEW s \in Seq(0..(Byte - 1)), NEW t \in Seq(0..(Byte - 1))
    PROVE  /\ Len(s \o t) - Len(s) = Len(t)
           /\ \A i \in 1..Len(s) : (s \o t)[i] = s[i]
           /\ \A i \in 1..Len(t) : (s \o t)[Len(s) + i] = t[i]
OBVIOUS

\* WRITE answers the length it printed: all of it, or -1 and the bytes before
\* the first one that cannot be read (machine.cpp:89-125).
THEOREM WriteAnswersTruly == Spec => WriteAnswers
<1>. DEFINE Calls == /\ RunStep /\ Executes /\ Fetched.op = "ecall"
                     /\ cpu.csr["mtvec"] = 0 /\ cpu.regs["a7"] = MAPS_SYSCALL_WRITE
            Told == LET before == Len(bus.console)
                        out == Len(bus'.console) - before
                        ptr == cpu.regs["a0"]
                    IN  /\ \A i \in 1..before : bus'.console[i] = bus.console[i]
                        /\ \A i \in 1..out : bus'.console[before + i] = Read8(bus, (ptr + i - 1) % Word)
                        /\ \/ cpu'.regs["a0"] = cpu.regs["a1"] /\ out = cpu.regs["a1"]
                           \/ /\ cpu'.regs["a0"] = Word - 1 /\ out < cpu.regs["a1"]
                              /\ Read8(bus, (ptr + out) % Word) = NoValue
<1>1. ASSUME TypeOK, Calls PROVE Told
  <2>. DEFINE ptr == cpu.regs["a0"]
              len == cpu.regs["a1"]
              text == Text(bus, ptr, len)
  <2>1. Sound(cpu) /\ bus \in BusType
    BY <1>1, TypeParts DEF Settled
  <2>2. ptr \in Nat /\ len \in Nat
    BY <2>1, CpuFields, BusNumbers DEF Sound, Words
  <2>3. PICK o \in Step(cpu, bus) :
           LET served == IF o.ok /\ o.cpu.pending THEN Served(o, exitCode)
                         ELSE [cpu |-> o.cpu, bus |-> o.bus, exit |-> exitCode]
           IN  cpu' = served.cpu /\ bus' = served.bus
    BY <1>1 DEF RunStep
  <2>4. /\ o.ok /\ o.cpu.pending /\ o.bus = bus /\ "a0" \in DOMAIN o.cpu.regs
        /\ \A r \in {"a0", "a1", "a7"} : o.cpu.regs[r] = cpu.regs[r]
        /\ DOMAIN o.cpu = {"regs", "pc", "csr", "halted", "faulted", "pending"}
    BY <1>1, <2>1, CallMade DEF Executes, Fetched
  <2>5. cpu' = Served(o, exitCode).cpu /\ bus' = Served(o, exitCode).bus
    BY <2>3, <2>4
  <2>6. /\ cpu' = [o.cpu EXCEPT !.regs["a0"] = WriteAnswer(text, len), !.pending = FALSE]
        /\ bus' = [bus EXCEPT !.console = @ \o text]
    <3>1. o.cpu.regs["a7"] = 2 /\ o.cpu.regs["a0"] = ptr /\ o.cpu.regs["a1"] = len
      BY <1>1, <2>4 DEF MAPS_SYSCALL_WRITE
    <3>. DEFINE said == Text(o.bus, o.cpu.regs["a0"], o.cpu.regs["a1"])
                answer == WriteAnswer(said, o.cpu.regs["a1"])
    <3>2. Served(o, exitCode) = [cpu |-> [o.cpu EXCEPT !.regs["a0"] = answer, !.pending = FALSE],
                                 bus |-> [o.bus EXCEPT !.console = @ \o said], exit |-> exitCode]
      BY <3>1 DEF Served, MAPS_SYSCALL_EXIT, MAPS_SYSCALL_PUTCHAR, MAPS_SYSCALL_WRITE
    <3>3. said = text /\ answer = WriteAnswer(text, len)
      BY <2>4, <3>1
    <3>. HIDE DEF said, answer, text
    <3>. QED BY <2>4, <2>5, <3>2, <3>3
  <2>7. /\ text \in Seq(0..(Byte - 1)) /\ Len(text) \in 0..len
        /\ \A i \in 1..Len(text) : text[i] = Read8(bus, (ptr + i - 1) % Word)
        /\ Len(text) < len => Read8(bus, (ptr + Len(text)) % Word) = NoValue
    BY <2>1, <2>2, TextBytes
  <2>. HIDE DEF text
  <2>8. cpu'.regs["a0"] = WriteAnswer(text, len)
    BY <2>4, <2>6
  <2>9. bus.console \in Seq(0..(Byte - 1)) /\ bus'.console = bus.console \o text
    BY <2>1, <2>6, BusFields DEF BusType
  <2>10. /\ Len(bus'.console) - Len(bus.console) = Len(text)
         /\ \A i \in 1..Len(bus.console) : bus'.console[i] = bus.console[i]
         /\ \A i \in 1..Len(text) : bus'.console[Len(bus.console) + i] = text[i]
    BY <2>7, <2>9, Appended
  <2>11. \/ cpu'.regs["a0"] = len /\ Len(text) = len
         \/ /\ cpu'.regs["a0"] = Word - 1 /\ Len(text) < len
            /\ Read8(bus, (ptr + Len(text)) % Word) = NoValue
    BY <2>2, <2>7, <2>8 DEF WriteAnswer
  <2>. HIDE DEF ptr, len
  <2>12. Len(bus'.console) - Len(bus.console) = Len(text)
    BY <2>10
  <2>. QED BY <2>7, <2>10, <2>11 DEF ptr, len
<1>2. TypeOK /\ [Next]_vars => [Calls => Told]_vars
  BY <1>1
<1>. QED BY <1>2, TypeCorrect, PTL DEF Spec, WriteAnswers

-----------------------------------------------------------------------------
(* The bytes of a word.                                                    *)

\* The word of four bytes, the lowest first.
Value(d) == d[0] + d[1] * Byte + d[2] * (Byte * Byte) + d[3] * (Byte * Byte * Byte)

\* Its digits are the bytes.
LEMMA DigitsOfBytes ==
    ASSUME NEW d \in [0..3 -> 0..(Byte - 1)]
    PROVE  Value(d) \in Words /\ \A i \in 0..3 : Digit(Value(d), i) = d[i]
<1>. DEFINE b == Byte
            c == b * b
            e == b * b * b
            x == Value(d)
            d0 == d[0]
            d1 == d[1]
            d2 == d[2]
            d3 == d[3]
<1>1. b \in Nat \ {0} /\ c \in Nat \ {0} /\ e \in Nat \ {0} /\ Word = e * b
  <2>1. Scale[1] = 1 /\ Scale[2] = b /\ Scale[3] = c /\ Scale[4] = e
    BY DEF Scale
  <2>. QED BY <2>1, BusNumbers, BusAssumption
<1>2. d0 \in 0..(b - 1) /\ d1 \in 0..(b - 1) /\ d2 \in 0..(b - 1) /\ d3 \in 0..(b - 1)
  OBVIOUS
<1>3. x = d0 + d1 * b + d2 * c + d3 * e
  BY DEF Value
<1>. HIDE DEF d0, d1, d2, d3, x
<1>4. c = b * b /\ e = c * b /\ e = b * c
  BY <1>1
<1>5. Scale[1] = 1 /\ Scale[2] = b /\ Scale[3] = c /\ Scale[4] = e
  BY DEF Scale
<1>. HIDE DEF b, c, e
<1>. DEFINE low2 == d1 * b + d0
            low3 == d2 * c + low2
            high2 == d3 * b + d2
            high3 == high2 * b + d1
<1>6. low2 \in 0..(c - 1)
  <2>1. d1 * b <= (b - 1) * b /\ (b - 1) * b = c - b /\ d1 * b \in Nat
    BY <1>1, <1>2, <1>4, TimesMonotone
  <2>. QED BY <1>1, <1>2, <2>1
<1>7. low3 \in 0..(e - 1)
  <2>1. d2 * c <= (b - 1) * c /\ (b - 1) * c = e - c /\ d2 * c \in Nat
    BY <1>1, <1>2, <1>4, TimesMonotone
  <2>. HIDE DEF low2
  <2>. QED BY <1>1, <1>6, <2>1
<1>8. x \in Words
  <2>1. d3 * e <= (b - 1) * e /\ (b - 1) * e = Word - e /\ d3 * e \in Nat
    BY <1>1, <1>2, TimesMonotone
  <2>2. x = d3 * e + low3
    BY <1>3, <1>2, <1>1
  <2>. HIDE DEF low3
  <2>. QED BY <1>1, <1>7, <2>1, <2>2, BusNumbers DEF Words
<1>9. high2 \in Nat /\ high3 \in Nat
  BY <1>1, <1>2
<1>10. x = high3 * b + d0 /\ x = high2 * c + low2 /\ x = d3 * e + low3
  <2>1. high2 * b = d3 * c + d2 * b
    BY <1>1, <1>2, <1>4
  <2>2. high3 * b = d3 * e + d2 * c + d1 * b
    BY <1>1, <1>2, <1>4
  <2>3. high2 * c = d3 * e + d2 * c
    BY <1>1, <1>2, <1>4
  <2>. QED BY <1>1, <1>2, <1>3, <2>2, <2>3
<1>11. x % b = d0 /\ x \div b = high3
  <2>. HIDE DEF high3
  <2>. QED BY <1>1, <1>2, <1>9, <1>10, Quotient
<1>12. x \div c = high2
  <2>. HIDE DEF high2, low2
  <2>. QED BY <1>1, <1>6, <1>9, <1>10, Quotient
<1>13. x \div e = d3
  <2>. HIDE DEF low3
  <2>. QED BY <1>1, <1>2, <1>7, <1>10, Quotient
<1>14. high3 % b = d1
  <2>. HIDE DEF high2
  <2>. QED BY <1>1, <1>2, <1>9, Quotient
<1>15. high2 % b = d2
  <2>1. d3 \in Nat
    BY <1>1, <1>2
  <2>. QED BY <1>1, <1>2, <2>1, Quotient
<1>16. d3 % b = d3 /\ x \div 1 = x
  BY <1>1, <1>2, <1>8, BusNumbers DEF Words
<1>17. Digit(x, 0) = d0 /\ Digit(x, 1) = d1 /\ Digit(x, 2) = d2 /\ Digit(x, 3) = d3
  <2>. HIDE DEF high3, high2
  <2>1. 0 + 1 = 1 /\ 1 + 1 = 2 /\ 2 + 1 = 3 /\ 3 + 1 = 4
    OBVIOUS
  <2>. QED BY <1>5, <1>11, <1>12, <1>13, <1>14, <1>15, <1>16, <2>1 DEF Digit, b
<1>18. \A i \in 0..3 : Digit(x, i) = d[i]
  BY <1>17 DEF d0, d1, d2, d3
<1>. QED BY <1>8, <1>18 DEF x

\* Every word is the word of its digits.
LEMMA BytesOfWord ==
    ASSUME NEW x \in Words
    PROVE  LET d == [i \in 0..3 |-> Digit(x, i)]
           IN  d \in [0..3 -> 0..(Byte - 1)] /\ x = Value(d)
<1>. DEFINE d == [i \in 0..3 |-> Digit(x, i)]
            b == Byte
            q1 == x \div b
            q2 == q1 \div b
            q3 == q2 \div b
            g == [i \in 0..3 |-> IF i = 0 THEN x % b ELSE IF i = 1 THEN q1 % b
                                 ELSE IF i = 2 THEN q2 % b ELSE q3]
<1>0. x \in Nat /\ b \in Nat \ {0} /\ x < Word /\ Word = b * b * b * b
  BY BusNumbers, BusAssumption DEF Words
<1>. HIDE DEF b
<1>1. q1 \in Nat /\ x % b \in 0..(b - 1) /\ x = q1 * b + (x % b)
  BY <1>0, DivMod
<1>. HIDE DEF q1
<1>2. q2 \in Nat /\ q1 % b \in 0..(b - 1) /\ q1 = q2 * b + (q1 % b)
  BY <1>0, <1>1, DivMod
<1>. HIDE DEF q2
<1>3. q3 \in Nat /\ q2 % b \in 0..(b - 1) /\ q2 = q3 * b + (q2 % b)
  BY <1>0, <1>2, DivMod
<1>. HIDE DEF q3
<1>. DEFINE r0 == x % b
            r1 == q1 % b
            r2 == q2 % b
<1>4. r0 \in 0..(b - 1) /\ r1 \in 0..(b - 1) /\ r2 \in 0..(b - 1)
  BY <1>1, <1>2, <1>3
<1>5. x = q1 * b + r0 /\ q1 = q2 * b + r1 /\ q2 = q3 * b + r2
  BY <1>1, <1>2, <1>3
<1>6. g[0] = r0 /\ g[1] = r1 /\ g[2] = r2 /\ g[3] = q3
  OBVIOUS
<1>. HIDE DEF r0, r1, r2, g
<1>7. x = r0 + r1 * b + r2 * (b * b) + q3 * (b * b * b)
  <2>1. q2 * b = q3 * (b * b) + r2 * b
    BY <1>0, <1>3, <1>4, <1>5
  <2>2. q1 * b = (q3 * (b * b) + r2 * b + r1) * b
    BY <1>5, <2>1
  <2>3. q1 * b = q3 * (b * b * b) + r2 * (b * b) + r1 * b
    BY <1>0, <1>3, <1>4, <2>2
  <2>. DEFINE m1 == r1 * b
              m2 == r2 * (b * b)
              m3 == q3 * (b * b * b)
  <2>4. m1 \in Nat /\ m2 \in Nat /\ m3 \in Nat
    BY <1>0, <1>3, <1>4
  <2>5. q1 * b = m3 + m2 + m1
    BY <2>3
  <2>. HIDE DEF m1, m2, m3
  <2>6. x = r0 + m1 + m2 + m3
    BY <1>4, <1>5, <2>4, <2>5
  <2>. QED BY <2>6 DEF m1, m2, m3
<1>8. q3 \in 0..(b - 1)
  <2>. SUFFICES ASSUME q3 >= b PROVE FALSE
    BY <1>0, <1>3
  <2>. DEFINE e == b * b * b
              m1 == r1 * b
              m2 == r2 * (b * b)
  <2>1. e \in Nat /\ m1 \in Nat /\ m2 \in Nat /\ Word = b * e /\ r0 \in Nat
    BY <1>0, <1>4
  <2>2. x = r0 + m1 + m2 + q3 * e
    BY <1>7
  <2>. HIDE DEF e, m1, m2
  <2>3. b * e <= q3 * e /\ q3 * e \in Nat
    BY <1>0, <1>3, <2>1, TimesMonotone
  <2>. QED BY <1>0, <2>1, <2>2, <2>3
<1>9. g \in [0..3 -> 0..(b - 1)]
  BY <1>4, <1>8 DEF g, r0, r1, r2
<1>10. x = Value(g)
  BY <1>6, <1>7 DEF Value, b
<1>11. \A i \in 0..3 : Digit(x, i) = g[i]
  BY <1>9, <1>10, DigitsOfBytes DEF b
<1>12. d = g
  BY <1>9, <1>11
<1>. HIDE DEF d
<1>13. d \in [0..3 -> 0..(Byte - 1)] /\ x = Value(d)
  BY <1>9, <1>10, <1>12 DEF b
<1>. QED BY <1>13 DEF d

\* A signed word has the bits of the word.
LEMMA SameWord ==
    ASSUME NEW x \in Words
    PROVE  AsInt32(x) % Word = x
BY BusNumbers DEF Words, AsInt32

\* A byte put into a word changes that digit of it.
LEMMA ByteWordDigits ==
    ASSUME NEW raw \in Words, NEW i \in 0..3, NEW value \in 0..(Byte - 1)
    PROVE  /\ ByteWord(raw, i, value) % Word \in Words
           /\ \A j \in 0..3 : Digit(ByteWord(raw, i, value) % Word, j) = IF j = i THEN value ELSE Digit(raw, j)
<1>. DEFINE d == [j \in 0..3 |-> Digit(raw, j)]
            g == [d EXCEPT ![i] = value]
            b == Byte
            c == b * b
            e == b * b * b
<1>1. d \in [0..3 -> 0..(Byte - 1)] /\ raw = Value(d)
  BY BytesOfWord
<1>2. d[i] = Digit(raw, i)
  OBVIOUS
<1>. HIDE DEF d
<1>3. g \in [0..3 -> 0..(Byte - 1)] /\ \A j \in 0..3 : g[j] = IF j = i THEN value ELSE d[j]
  BY <1>1
<1>. HIDE DEF g
<1>4. Scale[1] = 1 /\ Scale[2] = b /\ Scale[3] = c /\ Scale[4] = e
  BY DEF Scale
<1>5. b \in Nat /\ c \in Nat /\ e \in Nat
  <2>1. Scale[0 + 1] \in Nat /\ Scale[1 + 1] \in Nat /\ Scale[2 + 1] \in Nat /\ Scale[3 + 1] \in Nat
    BY BusNumbers
  <2>. QED BY <1>4, <2>1
<1>6. raw = d[0] + d[1] * b + d[2] * c + d[3] * e /\ Value(g) = g[0] + g[1] * b + g[2] * c + g[3] * e
  BY <1>1 DEF Value
<1>7. /\ d[0] \in Nat /\ d[1] \in Nat /\ d[2] \in Nat /\ d[3] \in Nat /\ value \in Nat
      /\ Byte \in Nat
  BY <1>1, BusNumbers
<1>. HIDE DEF b, c, e
<1>8. Value(g) = raw + (value - d[i]) * Scale[i + 1]
  <2>0. \A u, v, s \in Nat : (u - v) * s = u * s - v * s /\ u * s \in Nat /\ (u - v) * 1 = u - v
    OBVIOUS
  <2>1. CASE i = 0
    <3>1. g[0] = value /\ g[1] = d[1] /\ g[2] = d[2] /\ g[3] = d[3]
      BY <1>3, <2>1
    <3>. QED BY <1>4, <1>5, <1>6, <1>7, <2>0, <2>1, <3>1
  <2>2. CASE i = 1
    <3>1. g[0] = d[0] /\ g[1] = value /\ g[2] = d[2] /\ g[3] = d[3]
      BY <1>3, <2>2
    <3>. QED BY <1>4, <1>5, <1>6, <1>7, <2>0, <2>2, <3>1
  <2>3. CASE i = 2
    <3>1. g[0] = d[0] /\ g[1] = d[1] /\ g[2] = value /\ g[3] = d[3]
      BY <1>3, <2>3
    <3>. QED BY <1>4, <1>5, <1>6, <1>7, <2>0, <2>3, <3>1
  <2>4. CASE i = 3
    <3>1. g[0] = d[0] /\ g[1] = d[1] /\ g[2] = d[2] /\ g[3] = value
      BY <1>3, <2>4
    <3>. QED BY <1>4, <1>5, <1>6, <1>7, <2>0, <2>4, <3>1
  <2>. QED BY <2>1, <2>2, <2>3, <2>4
<1>9. Value(g) \in Words /\ \A j \in 0..3 : Digit(Value(g), j) = g[j]
  BY <1>3, DigitsOfBytes
<1>10. ByteWord(raw, i, value) % Word = Value(g)
  BY <1>2, <1>8, <1>9, SameWord DEF ByteWord
<1>11. \A j \in 0..3 : d[j] = Digit(raw, j)
  BY DEF d
<1>. QED BY <1>3, <1>9, <1>10, <1>11

\* A byte of DRAM that is written is what is read there, and only there.
LEMMA Write8Hits ==
    ASSUME NEW b \in BusType, NEW addr \in Nat, IsDram(addr), NEW value \in 0..(Byte - 1)
    PROVE  LET o == Write8(b, addr, value)
           IN  /\ o.ok /\ o.bus \in BusType
               /\ \A a \in Nat : Read8(o.bus, a) = IF a = addr THEN value ELSE Read8(b, a)
<1>. DEFINE o == Write8(b, addr, value)
            w == WordAddr(addr)
            i == addr % 4
            raw == b.mem[w] % Word
            x == ByteWord(raw, i, value)
            c == [b EXCEPT !.mem[w] = x]
<1>1. o = Accepted(c) /\ c \in BusType
  <2>1. value \in Nat
    BY BusNumbers
  <2>. QED BY <2>1, Write8Dram
<1>2. w \in Addresses /\ i \in 0..3 /\ addr = 4 * w + i /\ w \in Nat
  BY DramWord
<1>3. raw \in Words
  BY <1>2, RawTyped DEF Words
<1>. HIDE DEF w, i, raw
<1>4. \A j \in 0..3 : Digit(x % Word, j) = IF j = i THEN value ELSE Digit(raw, j)
  BY <1>2, <1>3, ByteWordDigits
<1>. HIDE DEF x
<1>5. \A v \in Addresses : c.mem[v] = IF v = w THEN x ELSE b.mem[v]
  BY <1>2, BusFields DEF BusType, Memory
<1>. HIDE DEF c
<1>6. ASSUME NEW a \in Nat PROVE Read8(c, a) = IF a = addr THEN value ELSE Read8(b, a)
  <2>1. CASE ~IsDram(a)
    <3>1. a # addr
      BY <2>1
    <3>. QED BY <2>1, <3>1 DEF Read8
  <2>2. CASE IsDram(a)
    <3>. DEFINE v == WordAddr(a)
                j == a % 4
    <3>1. v \in Addresses /\ j \in 0..3 /\ a = 4 * v + j /\ v \in Nat
      BY <2>2, DramWord
    <3>2. Read8(c, a) = Digit(c.mem[v] % Word, j) /\ Read8(b, a) = Digit(b.mem[v] % Word, j)
      BY <2>2 DEF Read8, WordBytes
    <3>. HIDE DEF v, j
    <3>3. CASE v # w
      <4>1. c.mem[v] = b.mem[v] /\ a # addr
        BY <1>2, <1>5, <3>1, <3>3
      <4>. QED BY <3>2, <4>1
    <3>4. CASE v = w
      <4>1. c.mem[v] = x /\ (a = addr <=> j = i)
        BY <1>2, <1>5, <3>1, <3>4
      <4>2. b.mem[v] % Word = raw
        BY <3>4 DEF raw
      <4>. QED BY <1>4, <3>1, <3>2, <4>1, <4>2
    <3>. QED BY <3>3, <3>4
  <2>. QED BY <2>1, <2>2
<1>7. o.ok /\ o.bus = c
  BY <1>1 DEF Accepted
<1>. HIDE DEF o
<1>8. o.ok /\ o.bus \in BusType /\ \A a \in Nat : Read8(o.bus, a) = IF a = addr THEN value ELSE Read8(b, a)
  BY <1>1, <1>6, <1>7
<1>. QED BY <1>8 DEF o

-----------------------------------------------------------------------------
(* Stores, seen by bytes.                                                  *)

\* The two low digits of a word, by way of its low half.
LEMMA LowDigits ==
    ASSUME NEW value \in Words
    PROVE  LET half == value % (Byte * Byte)
           IN  /\ value % Byte = Digit(value, 0) /\ value % Byte \in 0..(Byte - 1)
               /\ half % Byte = Digit(value, 0) /\ (half \div Byte) % Byte = Digit(value, 1)
               /\ Digit(value, 1) \in 0..(Byte - 1)
<1>. DEFINE b == Byte
            c == b * b
            q == value \div c
            half == value % c
            r1 == half \div b
            r0 == half % b
<1>0. b \in Nat \ {0} /\ c \in Nat \ {0} /\ value \in Nat
  BY BusNumbers DEF Words
<1>1. Digit(value, 0) = value % b /\ Digit(value, 1) = (value \div b) % b
  <2>1. Scale[0 + 1] = 1 /\ Scale[1 + 1] = b
    BY DEF Scale
  <2>2. value \div 1 = value
    BY <1>0
  <2>. QED BY <2>1, <2>2 DEF Digit
<1>2. q \in Nat /\ half \in 0..(c - 1) /\ value = q * c + half
  <2>. HIDE DEF c
  <2>. QED BY <1>0, DivMod
<1>3. c = b * b
  OBVIOUS
<1>. HIDE DEF q, half, c, b
<1>4. r1 \in Nat /\ r0 \in 0..(b - 1) /\ half = r1 * b + r0
  <2>1. half \in Nat
    BY <1>0, <1>2
  <2>. QED BY <1>0, <2>1, DivMod
<1>. HIDE DEF r1, r0
<1>5. r1 \in 0..(b - 1)
  <2>. SUFFICES ASSUME r1 >= b PROVE FALSE
    BY <1>0, <1>4
  <2>1. b * b <= r1 * b /\ r1 * b \in Nat
    BY <1>0, <1>4, TimesMonotone
  <2>. QED BY <1>0, <1>2, <1>3, <1>4, <2>1
<1>. DEFINE u == q * b + r1
<1>6. u \in Nat /\ value = u * b + r0
  <2>1. q * c = (q * b) * b /\ q * b \in Nat
    BY <1>0, <1>2, <1>3
  <2>2. u * b = (q * b) * b + r1 * b
    BY <1>0, <1>2, <1>4
  <2>. QED BY <1>0, <1>2, <1>4, <2>1, <2>2
<1>7. u % b = r1
  BY <1>0, <1>2, <1>5, Quotient
<1>. HIDE DEF u
<1>8. value % b = r0 /\ value \div b = u
  BY <1>0, <1>4, <1>6, Quotient
<1>9. half % b = r0 /\ half \div b = r1
  BY DEF r0, r1
<1>10. r1 % b = r1
  BY <1>0, <1>5
<1>. QED BY <1>1, <1>4, <1>5, <1>7, <1>8, <1>9, <1>10 DEF b, c, half

\* So is every byte of a half,
LEMMA Write16Hits ==
    ASSUME NEW b \in BusType, NEW addr \in Nat, IsDram(addr), addr % 2 = 0, NEW value \in Words
    PROVE  LET o == Write16(b, addr, value % (Byte * Byte))
           IN  \A a \in Nat :
                  Read8(o.bus, a) = IF a - addr \in 0..1 THEN Digit(value, a - addr) ELSE Read8(b, a)
<1>. DEFINE half == value % (Byte * Byte)
            l == half % Byte
            h == (half \div Byte) % Byte
            low == Write8(b, addr, l)
            o == Write8(low.bus, addr + 1, h)
<1>1. l = Digit(value, 0) /\ h = Digit(value, 1) /\ l \in 0..(Byte - 1) /\ h \in 0..(Byte - 1)
  BY LowDigits
<1>. HIDE DEF l, h
<1>2. low.bus \in BusType /\ \A a \in Nat : Read8(low.bus, a) = IF a = addr THEN l ELSE Read8(b, a)
  BY <1>1, Write8Hits
<1>3. IsDram(addr + 1) /\ addr + 1 \in Nat
  BY HalfWord
<1>. HIDE DEF low
<1>4. \A a \in Nat : Read8(o.bus, a) = IF a = addr + 1 THEN h ELSE Read8(low.bus, a)
  BY <1>1, <1>2, <1>3, Write8Hits
<1>5. Write16(b, addr, half) = o
  BY DEF Write16, low, l, h
<1>. HIDE DEF o, half
<1>6. ASSUME NEW a \in Nat
      PROVE  Read8(o.bus, a) = IF a - addr \in 0..1 THEN Digit(value, a - addr) ELSE Read8(b, a)
  <2>1. CASE a = addr
    BY <1>1, <1>2, <1>4, <2>1
  <2>2. CASE a = addr + 1
    BY <1>1, <1>4, <2>2
  <2>3. CASE a # addr /\ a # addr + 1
    BY <1>2, <1>4, <2>3
  <2>. QED BY <2>1, <2>2, <2>3
<1>. QED BY <1>5, <1>6 DEF half

\* and of a word.
LEMMA WordHits ==
    ASSUME NEW b \in BusType, NEW addr \in Nat, IsDram(addr), IsWordAligned(addr), NEW value \in Words
    PROVE  LET c == [b EXCEPT !.mem[WordAddr(addr)] = AsInt32(value)]
           IN  /\ c \in BusType
               /\ \A a \in Nat :
                     Read8(c, a) = IF a - addr \in 0..3 THEN Digit(value, a - addr) ELSE Read8(b, a)
<1>. DEFINE w == WordAddr(addr)
            x == AsInt32(value)
            c == [b EXCEPT !.mem[w] = x]
<1>1. w \in Addresses /\ addr % 4 \in 0..3 /\ addr = 4 * w + (addr % 4) /\ w \in Nat
  BY DramWord
<1>2. addr = 4 * w
  BY <1>1 DEF IsWordAligned, WordBytes
<1>3. x \in Int /\ x % Word = value
  BY SignedWord, SameWord, BusNumbers DEF Words
<1>. HIDE DEF w, x
<1>4. \A v \in Addresses : c.mem[v] = IF v = w THEN x ELSE b.mem[v]
  BY <1>1, BusFields DEF BusType, Memory
<1>5. c \in BusType
  BY <1>1, <1>3, WordWritten
<1>. HIDE DEF c
<1>6. ASSUME NEW a \in Nat
      PROVE  Read8(c, a) = IF a - addr \in 0..3 THEN Digit(value, a - addr) ELSE Read8(b, a)
  <2>1. CASE ~IsDram(a)
    <3>1. a - addr \notin 0..3
      <4>. SUFFICES ASSUME a - addr \in 0..3 PROVE FALSE
        OBVIOUS
      <4>1. a \div 4 = w
        BY <1>1, <1>2
      <4>2. w < MemWords
        BY DEF IsDram, w
      <4>. QED BY <2>1, <4>1, <4>2 DEF IsDram, WordAddr, WordBytes
    <3>. QED BY <2>1, <3>1 DEF Read8
  <2>2. CASE IsDram(a)
    <3>. DEFINE v == WordAddr(a)
                j == a % 4
    <3>1. v \in Addresses /\ j \in 0..3 /\ a = 4 * v + j /\ v \in Nat
      BY <2>2, DramWord
    <3>2. Read8(c, a) = Digit(c.mem[v] % Word, j) /\ Read8(b, a) = Digit(b.mem[v] % Word, j)
      BY <2>2 DEF Read8, WordBytes
    <3>. HIDE DEF v, j
    <3>3. CASE v # w
      <4>1. c.mem[v] = b.mem[v]
        BY <1>4, <3>1, <3>3
      <4>2. a - addr \notin 0..3
        BY <1>1, <1>2, <3>1, <3>3
      <4>. QED BY <3>2, <4>1, <4>2
    <3>4. CASE v = w
      <4>1. c.mem[v] = x /\ a - addr = j
        BY <1>1, <1>2, <1>4, <3>1, <3>4
      <4>. QED BY <1>3, <3>1, <3>2, <4>1
    <3>. QED BY <3>3, <3>4
  <2>. QED BY <2>1, <2>2
<1>. QED BY <1>5, <1>6 DEF c, w, x

\* A store to DRAM.
LEMMA StoreHits ==
    ASSUME NEW b \in BusType, NEW addr \in Nat, IsDram(addr), NEW value \in Words,
           NEW op \in Stores, NEW o \in StoreOutcomes(op, b, addr, value), o.ok
    PROVE  LET size == [sb |-> 1, sh |-> 2, sw |-> 4][op]
           IN  \A a \in Nat :
                  Read8(o.bus, a) = IF a - addr \in 0..(size - 1) THEN Digit(value, a - addr) ELSE Read8(b, a)
<1>1. CASE op = "sb"
  <2>1. o = Write8(b, addr, value % Byte)
    BY <1>1 DEF StoreOutcomes
  <2>2. value % Byte = Digit(value, 0) /\ value % Byte \in 0..(Byte - 1)
    BY LowDigits
  <2>3. \A a \in Nat : Read8(o.bus, a) = IF a = addr THEN Digit(value, 0) ELSE Read8(b, a)
    BY <2>1, <2>2, Write8Hits
  <2>4. \A a \in Nat : a - addr \in 0..0 <=> a = addr
    OBVIOUS
  <2>5. \A a \in Nat : Read8(o.bus, a) = IF a - addr \in 0..0 THEN Digit(value, a - addr) ELSE Read8(b, a)
    <3>. SUFFICES ASSUME NEW a \in Nat
         PROVE Read8(o.bus, a) = IF a - addr \in 0..0 THEN Digit(value, a - addr) ELSE Read8(b, a)
      OBVIOUS
    <3>1. CASE a = addr
      BY <2>3, <3>1
    <3>2. CASE a # addr
      BY <2>3, <2>4, <3>2
    <3>. QED BY <3>1, <3>2
  <2>6. [sb |-> 1, sh |-> 2, sw |-> 4][op] - 1 = 0
    BY <1>1
  <2>. QED BY <2>5, <2>6
<1>2. CASE op = "sh"
  <2>1. o = Write16(b, addr, value % (Byte * Byte))
    BY <1>2 DEF StoreOutcomes
  <2>2. addr % 2 = 0
    BY <2>1 DEF Write16, Denied
  <2>3. [sb |-> 1, sh |-> 2, sw |-> 4][op] - 1 = 1
    BY <1>2
  <2>. QED BY <2>1, <2>2, <2>3, Write16Hits
<1>3. CASE op = "sw"
  <2>1. o \in Write32(b, addr, value)
    BY <1>3 DEF StoreOutcomes
  <2>2. IsWordAligned(addr)
    BY <2>1 DEF Write32, Denied
  <2>3. ~IsNpu(addr) /\ ~IsConsole(addr)
    BY DramWord
  <2>4. o = Accepted([b EXCEPT !.mem[WordAddr(addr)] = AsInt32(value)])
    BY <2>1, <2>2, <2>3 DEF Write32
  <2>5. o.bus = [b EXCEPT !.mem[WordAddr(addr)] = AsInt32(value)]
    BY <2>4 DEF Accepted
  <2>6. [sb |-> 1, sh |-> 2, sw |-> 4][op] - 1 = 3
    BY <1>3
  <2>. QED BY <2>2, <2>5, <2>6, WordHits
<1>. QED BY <1>1, <1>2, <1>3 DEF Stores

\* The store of a step that does not fault.
LEMMA StoreStep ==
    ASSUME NEW c, Sound(c), NEW b \in BusType, CanStep(c), Read32(b, c.pc) \in DOMAIN Decode,
           Decode[Read32(b, c.pc)].op \in Stores, NEW o \in Step(c, b), ~o.cpu.faulted
    PROVE  LET i == Decode[Read32(b, c.pc)]
           IN  /\ \E s \in StoreOutcomes(i.op, b, (c.regs[i.rs1] + i.imm) % Word, c.regs[i.src]) :
                     s.ok /\ o.bus = s.bus
               /\ ~o.cpu.pending
<1>. DEFINE i == Decode[Read32(b, c.pc)]
            addr == (c.regs[i.rs1] + i.imm) % Word
            next == (c.pc + 4) % Word
            y == IF i.src = "imm" THEN i.imm ELSE c.regs[i.src]
<1>1. o \in Execute(c, b, i)
  BY DEF Step
<1>2. i.op \in Stores /\ y = c.regs[i.src]
  BY CpuAssumption
<1>. HIDE DEF i
<1>3. PICK s \in StoreOutcomes(i.op, b, addr, y) :
         o = IF s.ok THEN Retire(c, s.bus, next) ELSE Fault(c, s.bus)
  BY <1>1, <1>2 DEF Execute, AluOps, Branches, Loads, Stores, CsrOps
<1>4. s.ok
  <2>1. Fault(c, s.bus).cpu.faulted
    BY DEF Fault, Sound, CpuType
  <2>. HIDE DEF next
  <2>. QED BY <1>3, <2>1
<1>5. o = Retire(c, s.bus, next)
  BY <1>3, <1>4
<1>. HIDE DEF next
<1>6. o.bus = s.bus /\ o.cpu.pending = c.pending
  BY <1>5 DEF Retire, Sound, CpuType
<1>7. ~c.pending
  BY DEF CanStep
<1>. QED BY <1>2, <1>3, <1>4, <1>6, <1>7 DEF i

\* A store to DRAM changes the bytes it addresses and no other byte, whatever
\* its size and place in a word (bus.cpp:77-126, cpu.cpp:124-144).
THEOREM StoresHitTheirBytes == Spec => StoreHitsItsBytes
<1>. DEFINE i == Fetched
            addr == (cpu.regs[i.rs1] + i.imm) % Word
            size == [sb |-> 1, sh |-> 2, sw |-> 4][i.op]
            Hits == IsDram(addr) =>
                       \A a \in 0..(WordBytes * MemWords - 1) :
                          Read8(bus', a) = IF a - addr \in 0..(size - 1)
                                           THEN Digit(cpu.regs[i.src], a - addr) ELSE Read8(bus, a)
<1>1. ASSUME TypeOK, Turn, Executes, ~cpu'.faulted, i.op \in Stores PROVE Hits
  <2>1. Sound(cpu) /\ bus \in BusType
    BY <1>1, TypeParts DEF Settled
  <2>2. PICK o \in Step(cpu, bus) :
           /\ ~(o.ok /\ o.cpu.pending) => cpu' = o.cpu /\ bus' = o.bus
           /\ cpu'.faulted = o.cpu.faulted
    BY <1>1, <2>1, TurnMoves
  <2>3. i = Decode[Read32(bus, cpu.pc)] /\ CanStep(cpu) /\ Read32(bus, cpu.pc) \in DOMAIN Decode
    BY <1>1 DEF Executes, Fetched
  <2>4. PICK s \in StoreOutcomes(i.op, bus, addr, cpu.regs[i.src]) :
           s.ok /\ o.bus = s.bus /\ ~o.cpu.pending
    BY <1>1, <2>1, <2>2, <2>3, StoreStep
  <2>5. bus' = s.bus
    BY <2>2, <2>4
  <2>6. addr \in Nat /\ cpu.regs[i.src] \in Words
    <3>1. i \in Instructions /\ i.src \in Regs
      BY <1>1, <2>3, CpuAssumption
    <3>2. addr \in Words /\ \A r \in Regs : cpu.regs[r] \in Words
      BY <2>1, <3>1, OperandsTyped, CpuFields DEF Sound
    <3>. QED BY <3>1, <3>2, BusNumbers DEF Words
  <2>. HIDE DEF i, addr
  <2>7. ASSUME IsDram(addr), NEW a \in Nat
        PROVE  Read8(bus', a) = IF a - addr \in 0..(size - 1)
                                THEN Digit(cpu.regs[i.src], a - addr) ELSE Read8(bus, a)
    BY <1>1, <2>1, <2>4, <2>5, <2>6, <2>7, StoreHits
  <2>8. 0..(WordBytes * MemWords - 1) \subseteq Nat
    BY BusNumbers DEF WordBytes
  <2>. HIDE DEF size
  <2>. QED BY <2>7, <2>8 DEF size
<1>2. TypeOK /\ [Next]_vars => [Turn /\ Executes /\ ~cpu'.faulted /\ i.op \in Stores => Hits]_vars
  BY <1>1
<1>. QED BY <1>2, TypeCorrect, PTL DEF Spec, StoreHitsItsBytes

-----------------------------------------------------------------------------
(* The bytes a loader puts.                                                *)

\* The values of a byte.
Bytes == 0..(Byte - 1)

\* A turn of the loader changes at most the byte it is at, and succeeds only
\* below the end of the console's first register.
LEMMA PutHits ==
    ASSUME NEW o \in OutcomeType, NEW addr \in Nat, addr < Word, NEW value \in Bytes
    PROVE  LET p == Put(o, addr, value)
           IN  /\ p.ok => o.ok /\ addr <= CONSOLE_BASE
               /\ \A a \in Nat : a # addr => Read8(p.bus, a) = Read8(o.bus, a)
               /\ p.ok /\ IsDram(addr) => Read8(p.bus, addr) = value
<1>. DEFINE b == o.bus
            w == Write8(b, addr, value)
            p == Put(o, addr, value)
            Goal == /\ p.ok => o.ok /\ addr <= CONSOLE_BASE
                    /\ \A a \in Nat : a # addr => Read8(p.bus, a) = Read8(o.bus, a)
                    /\ p.ok /\ IsDram(addr) => Read8(p.bus, addr) = value
<1>0. b \in BusType /\ o.ok \in BOOLEAN /\ addr % Word = addr
  BY BusNumbers DEF OutcomeType
<1>1. ASSUME ~o.ok PROVE Goal
  <2>1. p = o
    BY <1>1 DEF Put
  <2>. HIDE DEF p
  <2>. QED BY <1>1, <2>1
<1>2. ASSUME o.ok, IsDram(addr) PROVE Goal
  <2>1. p = w
    BY <1>0, <1>2 DEF Put
  <2>2. /\ w.ok /\ \A a \in Nat : Read8(w.bus, a) = IF a = addr THEN value ELSE Read8(b, a)
    BY <1>0, <1>2, Write8Hits DEF Bytes
  <2>3. addr <= CONSOLE_BASE
    BY <1>2, DramWord, BusNumbers
  <2>. HIDE DEF p, w
  <2>. QED BY <1>2, <2>1, <2>2, <2>3
<1>3. ASSUME o.ok, ~IsDram(addr) PROVE Goal
  <2>1. p = w
    BY <1>0, <1>3 DEF Put
  <2>2. w.bus.mem = b.mem /\ (w.ok => addr = CONSOLE_BASE)
    <3>1. CASE IsConsole(addr) /\ addr = CONSOLE_BASE
      <4>1. w = Accepted([b EXCEPT !.console = Append(@, value % Byte)])
        BY <3>1 DEF Write8, PutConsole
      <4>2. \A t : [b EXCEPT !.console = t].mem = b.mem
        BY <1>0 DEF BusType
      <4>3. w.bus = [b EXCEPT !.console = Append(b.console, value % Byte)]
        BY <4>1 DEF Accepted
      <4>. QED BY <3>1, <4>2, <4>3
    <3>2. CASE ~(IsConsole(addr) /\ addr = CONSOLE_BASE)
      <4>1. w = Denied(b)
        BY <1>3, <3>2 DEF Write8, PutConsole
      <4>. QED BY <4>1 DEF Denied
    <3>. QED BY <3>1, <3>2
  <2>3. \A a : Read8(w.bus, a) = Read8(b, a)
    BY <2>2 DEF Read8
  <2>4. CONSOLE_BASE <= CONSOLE_BASE
    BY BusNumbers
  <2>. HIDE DEF p, w
  <2>. QED BY <1>3, <2>1, <2>2, <2>3, <2>4
<1>4. Goal
  <2>. HIDE DEF Goal
  <2>. QED BY <1>0, <1>1, <1>2, <1>3
<1>. QED BY <1>4

\* What k turns of load_bytes leave: no wrap of the address, the bytes they
\* put where they succeed, and all else as it was.
BytesPut(o, base, bytes, p, k) ==
    /\ p.ok => o.ok /\ (k > 0 => base + k - 1 <= CONSOLE_BASE)
    /\ \A a \in Nat : a - base \notin 0..(Len(bytes) - 1) => Read8(p.bus, a) = Read8(o.bus, a)
    /\ \A a \in Nat : p.ok /\ IsDram(a) /\ a - base \in 0..(k - 1) => Read8(p.bus, a) = bytes[a - base + 1]

\* load_bytes in all.
LEMMA PutBytesHit ==
    ASSUME NEW o \in OutcomeType, NEW base \in Nat, base < Word, NEW bytes \in Seq(Nat),
           \A k \in 1..Len(bytes) : bytes[k] \in Bytes
    PROVE  BytesPut(o, base, bytes, PutBytes(o, base, bytes), Len(bytes))
<1>. DEFINE n == Len(bytes)
            R(f) == /\ f[0] = o /\ PutBytes(o, base, bytes) = f[n]
                    /\ \A k \in 1..n : f[k] = Put(f[k - 1], base + k - 1, bytes[k])
                    /\ \A k \in 0..n : f[k] \in OutcomeType
<1>1. \E f : R(f)
  BY PutBytesRuns, Zenon
<1>2. PICK f : R(f)
  BY <1>1
<1>3. n \in Nat
  OBVIOUS
<1>. HIDE DEF n
<1>. DEFINE P == {k \in Nat : k <= n => BytesPut(o, base, bytes, f[k], k)}
<1>4. 0 \in P
  <2>1. BytesPut(o, base, bytes, o, 0)
    BY DEF BytesPut
  <2>. QED BY <1>2, <2>1
<1>5. ASSUME NEW k \in P PROVE k + 1 \in P
  <2>. SUFFICES ASSUME k + 1 <= n PROVE BytesPut(o, base, bytes, f[k + 1], k + 1)
    OBVIOUS
  <2>. DEFINE q == f[k]
              p == f[k + 1]
              x == base + k
              v == bytes[k + 1]
  <2>1. BytesPut(o, base, bytes, q, k) /\ k \in Nat /\ k + 1 \in 1..n /\ k \in 0..n /\ k < n
    BY <1>3
  <2>2. p = Put(q, x, v) /\ q \in OutcomeType /\ v \in Bytes /\ x \in Nat
    <3>1. f[k + 1] = Put(f[k + 1 - 1], base + (k + 1) - 1, bytes[k + 1])
      BY <1>2, <2>1
    <3>2. k + 1 - 1 = k /\ base + (k + 1) - 1 = base + k
      BY <2>1
    <3>. QED BY <1>2, <2>1, <3>1, <3>2 DEF n
  <2>3. v = bytes[k + 1] /\ x = base + k
    OBVIOUS
  <2>. HIDE DEF p, q, x, v, P
  <2>4. q.ok => x < Word
    BY <2>1, <2>3, BusAssumption, BusNumbers DEF BytesPut
  <2>5. CASE ~q.ok
    <3>1. p = q
      BY <2>2, <2>5 DEF Put
    <3>. QED BY <2>1, <2>5, <3>1 DEF BytesPut, p
  <2>6. CASE q.ok
    <3>1. /\ p.ok => q.ok /\ x <= CONSOLE_BASE
          /\ \A a \in Nat : a # x => Read8(p.bus, a) = Read8(q.bus, a)
          /\ p.ok /\ IsDram(x) => Read8(p.bus, x) = v
      <4>. DEFINE r == Put(q, x, v)
      <4>1. /\ r.ok => q.ok /\ x <= CONSOLE_BASE
            /\ \A a \in Nat : a # x => Read8(r.bus, a) = Read8(q.bus, a)
            /\ r.ok /\ IsDram(x) => Read8(r.bus, x) = v
        BY <2>2, <2>4, <2>6, PutHits
      <4>. HIDE DEF r
      <4>. QED BY <2>2, <4>1 DEF r
    <3>2. p.ok => o.ok /\ base + (k + 1) - 1 <= CONSOLE_BASE
      BY <2>1, <2>3, <2>6, <3>1 DEF BytesPut
    <3>3. ASSUME NEW a \in Nat, a - base \notin 0..(Len(bytes) - 1)
          PROVE  Read8(p.bus, a) = Read8(o.bus, a)
      <4>1. a # x
        BY <1>3, <2>1, <2>3, <3>3 DEF n
      <4>. QED BY <2>1, <3>1, <3>3, <4>1 DEF BytesPut
    <3>4. ASSUME NEW a \in Nat, p.ok, IsDram(a), a - base \in 0..((k + 1) - 1)
          PROVE  Read8(p.bus, a) = bytes[a - base + 1]
      <4>1. CASE a = x
        <5>1. a - base + 1 = k + 1
          BY <2>1, <2>3, <4>1
        <5>. QED BY <2>3, <3>1, <3>4, <4>1, <5>1
      <4>2. CASE a # x
        <5>1. a - base \in 0..(k - 1)
          BY <2>1, <2>3, <3>4, <4>2
        <5>. QED BY <2>1, <2>6, <3>1, <3>4, <4>2, <5>1 DEF BytesPut
      <4>. QED BY <4>1, <4>2
    <3>. QED BY <3>2, <3>3, <3>4 DEF BytesPut, p
  <2>. QED BY <2>5, <2>6
<1>. HIDE DEF P
<1>6. P = Nat
  <2>1. P \subseteq Nat
    BY DEF P
  <2>. QED BY <1>4, <1>5, <2>1, NatSetInduction
<1>7. BytesPut(o, base, bytes, f[n], n)
  <2>1. n \in P /\ n <= n
    BY <1>3, <1>6
  <2>. QED BY <2>1 DEF P
<1>. QED BY <1>2, <1>7 DEF n

-----------------------------------------------------------------------------
(* Images, seen by bytes.                                                  *)

\* The byte a segment puts at a, and whether it does.
InSegment(s, a) == s.load /\ a - LoadAddress(s) \in 0..(s.memsz - 1)
ByteAt(s, a) == IF a - LoadAddress(s) < Len(s.data) THEN s.data[a - LoadAddress(s) + 1] ELSE 0

\* A segment puts its bytes where it covers and changes nothing else.
LEMMA SegmentHits ==
    ASSUME NEW o \in OutcomeType, NEW s \in SegmentType, NEW a \in Nat
    PROVE  LET p == LoadSegment(o, s)
           IN  /\ p.ok => o.ok
               /\ ~InSegment(s, a) \/ ~o.ok => Read8(p.bus, a) = Read8(o.bus, a)
               /\ p.ok /\ IsDram(a) /\ InSegment(s, a) => Read8(p.bus, a) = ByteAt(s, a)
<1>. DEFINE p == LoadSegment(o, s)
            base == LoadAddress(s)
            bytes == Content(s)
            Goal == /\ p.ok => o.ok
                    /\ ~InSegment(s, a) \/ ~o.ok => Read8(p.bus, a) = Read8(o.bus, a)
                    /\ p.ok /\ IsDram(a) /\ InSegment(s, a) => Read8(p.bus, a) = ByteAt(s, a)
<1>1. ASSUME ~o.ok PROVE Goal
  <2>1. p = o
    BY <1>1 DEF LoadSegment
  <2>. HIDE DEF p
  <2>. QED BY <1>1, <2>1
<1>2. ASSUME o.ok, ~s.load PROVE Goal
  <2>1. p = o
    BY <1>2 DEF LoadSegment
  <2>. HIDE DEF p
  <2>. QED BY <1>2, <2>1 DEF InSegment
<1>3. ASSUME o.ok, s.load, Len(s.data) > s.memsz \/ ~s.inFile PROVE Goal
  <2>1. p = Denied(o.bus)
    BY <1>3 DEF LoadSegment
  <2>2. ~p.ok /\ p.bus = o.bus
    BY <2>1 DEF Denied
  <2>. HIDE DEF p
  <2>. QED BY <1>3, <2>2
<1>4. ASSUME o.ok, s.load, ~(Len(s.data) > s.memsz), s.inFile PROVE Goal
  <2>1. p = PutBytes(o, base, bytes)
    BY <1>4 DEF LoadSegment
  <2>2. Len(s.data) <= s.memsz
    BY <1>4 DEF SegmentType
  <2>3. /\ bytes \in Seq(Nat) /\ Len(bytes) = s.memsz /\ base \in Nat
        /\ \A i \in 1..s.memsz : bytes[i] = IF i <= Len(s.data) THEN s.data[i] ELSE 0
    BY <2>2, ContentTyped
  <2>4. base < Word /\ s.memsz \in Nat /\ s.data \in Seq(Bytes) /\ Len(s.data) \in Nat
    BY BusNumbers DEF SegmentType, LoadAddress, Bytes
  <2>. HIDE DEF base, bytes, p
  <2>5. \A k \in 1..Len(bytes) : bytes[k] \in Bytes
    <3>1. 0 \in Bytes
      BY BusNumbers DEF Bytes
    <3>2. \A i \in 1..Len(s.data) : s.data[i] \in Bytes
      BY <2>4
    <3>. QED BY <2>3, <2>4, <3>1, <3>2
  <2>6. BytesPut(o, base, bytes, p, Len(bytes))
    BY <2>1, <2>3, <2>4, <2>5, PutBytesHit
  <2>7. InSegment(s, a) <=> a - base \in 0..(s.memsz - 1)
    BY <1>4 DEF InSegment, base
  <2>8. p.ok => o.ok
    BY <1>4
  <2>9. ~InSegment(s, a) => Read8(p.bus, a) = Read8(o.bus, a)
    BY <2>3, <2>6, <2>7 DEF BytesPut
  <2>10. ASSUME p.ok, IsDram(a), InSegment(s, a) PROVE Read8(p.bus, a) = ByteAt(s, a)
    <3>1. a - base \in 0..(s.memsz - 1)
      BY <2>7, <2>10
    <3>2. Read8(p.bus, a) = bytes[a - base + 1]
      BY <2>3, <2>6, <2>10, <3>1 DEF BytesPut
    <3>3. a - base + 1 \in 1..s.memsz /\ (a - base + 1 <= Len(s.data) <=> a - base < Len(s.data))
      BY <2>3, <2>4, <3>1
    <3>4. bytes[a - base + 1] = IF a - base < Len(s.data) THEN s.data[a - base + 1] ELSE 0
      BY <2>3, <3>3
    <3>. QED BY <3>2, <3>4 DEF ByteAt, base
  <2>. QED BY <1>4, <2>8, <2>9, <2>10
<1>5. Goal
  <2>1. o.ok \in BOOLEAN /\ s.load \in BOOLEAN /\ s.inFile \in BOOLEAN
    BY DEF OutcomeType, SegmentType
  <2>. HIDE DEF Goal
  <2>. QED BY <1>1, <1>2, <1>3, <1>4, <2>1
<1>. QED BY <1>5

\* The first k segments, loaded into the bus b: a byte no segment covers is as
\* before, and in a load that succeeds a byte is that of the last that does.
SegmentsPut(b, segments, p, k, a) ==
    /\ (\A i \in 1..k : ~InSegment(segments[i], a)) => Read8(p.bus, a) = Read8(b, a)
    /\ \A i \in 1..k :
          p.ok /\ InSegment(segments[i], a) /\ (\A j \in (i + 1)..k : ~InSegment(segments[j], a))
          => Read8(p.bus, a) = ByteAt(segments[i], a)

\* The segments of an image, in their order.
LEMMA ImageHits ==
    ASSUME NEW b \in BusType, NEW segments \in Seq(SegmentType), NEW a \in Nat, IsDram(a)
    PROVE  SegmentsPut(b, segments, FoldLeft(LoadSegment, Accepted(b), segments), Len(segments), a)
<1>. DEFINE n == Len(segments)
            o == Accepted(b)
            r == FoldLeft(LoadSegment, Accepted(b), segments)
<1>0. o \in OutcomeType /\ o.bus = b /\ n \in Nat
  BY AcceptedTyped DEF WriteKeeps
<1>1. PICK f : /\ f[0] = o /\ r = f[n]
               /\ \A k \in 1..n : f[k] = LoadSegment(f[k - 1], segments[k])
               /\ \A k \in 0..n : f[k] \in OutcomeType
  BY <1>0, SegmentsRun
<1>2. \A k \in 1..n : segments[k] \in SegmentType
  OBVIOUS
<1>. HIDE DEF n, o, r
<1>. DEFINE P == {k \in Nat : k <= n => SegmentsPut(b, segments, f[k], k, a)}
<1>3. 0 \in P
  BY <1>0, <1>1 DEF SegmentsPut
<1>4. ASSUME NEW k \in P PROVE k + 1 \in P
  <2>. SUFFICES ASSUME k + 1 <= n PROVE SegmentsPut(b, segments, f[k + 1], k + 1, a)
    OBVIOUS
  <2>. DEFINE q == f[k]
              p == f[k + 1]
              s == segments[k + 1]
  <2>1. SegmentsPut(b, segments, q, k, a) /\ k \in Nat /\ k + 1 \in 1..n /\ k \in 0..n
    BY <1>0
  <2>2. p = LoadSegment(q, s) /\ q \in OutcomeType /\ s \in SegmentType
    <3>1. f[k + 1] = LoadSegment(f[k + 1 - 1], segments[k + 1])
      BY <1>1, <2>1
    <3>2. k + 1 - 1 = k
      BY <2>1
    <3>. QED BY <1>1, <1>2, <2>1, <3>1, <3>2
  <2>3. s = segments[k + 1]
    OBVIOUS
  <2>. HIDE DEF p, q, s, P
  <2>4. /\ p.ok => q.ok
        /\ ~InSegment(s, a) \/ ~q.ok => Read8(p.bus, a) = Read8(q.bus, a)
        /\ p.ok /\ InSegment(s, a) => Read8(p.bus, a) = ByteAt(s, a)
    <3>. DEFINE t == LoadSegment(q, s)
    <3>1. /\ t.ok => q.ok
          /\ ~InSegment(s, a) \/ ~q.ok => Read8(t.bus, a) = Read8(q.bus, a)
          /\ t.ok /\ IsDram(a) /\ InSegment(s, a) => Read8(t.bus, a) = ByteAt(s, a)
      BY <2>2, SegmentHits
    <3>. HIDE DEF t
    <3>. QED BY <2>2, <3>1 DEF t
  <2>5. ASSUME \A i \in 1..(k + 1) : ~InSegment(segments[i], a)
        PROVE  Read8(p.bus, a) = Read8(b, a)
    <3>1. ~InSegment(s, a) /\ \A i \in 1..k : ~InSegment(segments[i], a)
      BY <2>1, <2>3, <2>5
    <3>. QED BY <2>1, <2>4, <3>1 DEF SegmentsPut
  <2>6. ASSUME NEW i \in 1..(k + 1), p.ok, InSegment(segments[i], a),
               \A j \in (i + 1)..(k + 1) : ~InSegment(segments[j], a)
        PROVE  Read8(p.bus, a) = ByteAt(segments[i], a)
    <3>1. CASE i = k + 1
      BY <2>3, <2>4, <2>6, <3>1
    <3>2. CASE i # k + 1
      <4>1. i \in 1..k /\ k + 1 \in (i + 1)..(k + 1) /\ \A j \in (i + 1)..k : j \in (i + 1)..(k + 1)
        BY <2>1, <3>2
      <4>2. ~InSegment(s, a) /\ \A j \in (i + 1)..k : ~InSegment(segments[j], a)
        BY <2>3, <2>6, <4>1
      <4>3. Read8(q.bus, a) = ByteAt(segments[i], a)
        BY <2>1, <2>4, <2>6, <4>1, <4>2 DEF SegmentsPut
      <4>. QED BY <2>4, <4>2, <4>3
    <3>. QED BY <3>1, <3>2
  <2>. QED BY <2>5, <2>6 DEF SegmentsPut, p
<1>. HIDE DEF P
<1>5. P = Nat
  <2>1. P \subseteq Nat
    BY DEF P
  <2>. QED BY <1>3, <1>4, <2>1, NatSetInduction
<1>6. SegmentsPut(b, segments, f[n], n, a)
  <2>1. n \in P /\ n <= n
    BY <1>0, <1>5
  <2>. QED BY <2>1 DEF P
<1>. QED BY <1>1, <1>6 DEF n, r

\* A set of indices has a last one.
LEMMA LastIndex ==
    ASSUME NEW n \in Nat, NEW S \in SUBSET (1..n), S # {}
    PROVE  \E i \in S : \A j \in S : j <= i
<1>1. Max(S) \in S /\ \A j \in S : Max(S) >= j
  BY MaxOf
<1>2. \A j \in S : j <= Max(S)
  BY <1>1
<1>. QED BY <1>1, <1>2

\* After a load that succeeds each byte of DRAM is that of the last segment
\* that covers it, a zero past its data; a byte no segment covers is as before
\* whether the load succeeds or not, also where a segment runs out of DRAM
\* (loader.cpp:48-61,82-155).
THEOREM ImagesAreLoaded == Spec => LoadedImage
<1>. DEFINE Image(elf, a) ==
                LET at == [i \in DOMAIN elf.segments |->
                              LET s == elf.segments[i] IN IF s.paddr = 0 THEN s.vaddr ELSE s.paddr]
                    covering == {i \in DOMAIN elf.segments :
                                    elf.segments[i].load /\ a - at[i] \in 0..(elf.segments[i].memsz - 1)}
                IN  IF covering = {} THEN Read8(bus', a) = Read8(bus, a)
                    ELSE reply' =>
                      LET i == CHOOSE i \in covering : \A j \in covering : j <= i
                          data == elf.segments[i].data
                      IN  Read8(bus', a) = IF a - at[i] < Len(data) THEN data[a - at[i] + 1] ELSE 0
            Image2 == \A elf \in Images : Load(elf) =>
                         \A a \in 0..(WordBytes * MemWords - 1) : Image(elf, a)
<1>1. ASSUME TypeOK, NEW elf \in Images, Load(elf), NEW a \in 0..(WordBytes * MemWords - 1)
      PROVE  Image(elf, a)
  <2>. DEFINE segments == elf.segments
              n == Len(segments)
              o == LoadElf(bus, elf)
              at == [i \in DOMAIN elf.segments |->
                        LET s == elf.segments[i] IN IF s.paddr = 0 THEN s.vaddr ELSE s.paddr]
              covering == {i \in DOMAIN elf.segments :
                              elf.segments[i].load /\ a - at[i] \in 0..(elf.segments[i].memsz - 1)}
              last == CHOOSE i \in covering : \A j \in covering : j <= i
  <2>1. bus \in BusType /\ bus' = o.bus /\ reply' = o.ok
    BY <1>1, TypeParts DEF Load, Loading
  <2>2. segments \in Seq(SegmentType) /\ DOMAIN segments = 1..n /\ n \in Nat
    BY MachineAssumption DEF ElfType
  <2>3. a \in Nat /\ IsDram(a)
    BY BusNumbers DEF IsDram, WordAddr, WordBytes
  <2>4. \A i \in 1..n : at[i] = LoadAddress(segments[i])
    BY <2>2 DEF LoadAddress
  <2>5. \A i \in 1..n : i \in covering <=> InSegment(segments[i], a)
    BY <2>2, <2>4 DEF InSegment
  <2>6. covering \subseteq 1..n
    BY <2>2
  <2>7. \/ o.bus = bus /\ ~o.ok
        \/ SegmentsPut(bus, segments, o, n, a)
    <3>1. CASE elf.header /\ elf.table
      <4>1. o = FoldLeft(LoadSegment, Accepted(bus), segments)
        BY <3>1 DEF LoadElf
      <4>2. SegmentsPut(bus, segments, FoldLeft(LoadSegment, Accepted(bus), segments), n, a)
        BY <2>1, <2>2, <2>3, ImageHits
      <4>. QED BY <4>1, <4>2
    <3>2. CASE ~(elf.header /\ elf.table)
      BY <3>2 DEF LoadElf, Denied
    <3>. QED BY <3>1, <3>2
  <2>. HIDE DEF o, segments, n, at, covering
  <2>8. covering = {} => Read8(bus', a) = Read8(bus, a)
    BY <2>1, <2>5, <2>7 DEF SegmentsPut
  <2>9. ASSUME covering # {}, reply'
        PROVE  Read8(bus', a) = ByteAt(segments[last], a) /\ last \in 1..n
    <3>1. \E i \in covering : \A j \in covering : j <= i
      BY <2>2, <2>6, <2>9, LastIndex
    <3>2. last \in covering /\ \A j \in covering : j <= last
      BY <3>1
    <3>. HIDE DEF last
    <3>3. last \in 1..n /\ InSegment(segments[last], a)
      BY <2>5, <2>6, <3>2
    <3>4. \A j \in (last + 1)..n : ~InSegment(segments[j], a)
      <4>. SUFFICES ASSUME NEW j \in (last + 1)..n, InSegment(segments[j], a) PROVE FALSE
        OBVIOUS
      <4>1. j \in 1..n /\ ~(j <= last)
        BY <2>2, <3>3
      <4>2. j \in covering
        BY <2>5, <4>1
      <4>. QED BY <3>2, <4>1, <4>2
    <3>. QED BY <2>1, <2>7, <2>9, <3>3, <3>4 DEF SegmentsPut
  <2>. HIDE DEF last
  <2>10. ASSUME covering # {}, reply'
         PROVE  Read8(bus', a) = IF a - at[last] < Len(segments[last].data)
                                 THEN segments[last].data[a - at[last] + 1] ELSE 0
    BY <2>4, <2>9, <2>10 DEF ByteAt
  <2>11. /\ covering = {} => Read8(bus', a) = Read8(bus, a)
         /\ covering # {} /\ reply' =>
               Read8(bus', a) = IF a - at[last] < Len(elf.segments[last].data)
                                THEN elf.segments[last].data[a - at[last] + 1] ELSE 0
    BY <2>8, <2>10 DEF segments
  <2>. QED BY <2>11 DEF last, covering, at
<1>2. TypeOK /\ [Next]_vars => [Image2]_vars
  BY <1>1
<1>. QED BY <1>2, TypeCorrect, PTL DEF Spec, LoadedImage

-----------------------------------------------------------------------------
(* What Machine::run reports.                                              *)

CpuShape(c) ==
    /\ DOMAIN c = {"regs", "pc", "csr", "halted", "faulted", "pending"}
    /\ DOMAIN c.regs = Regs /\ DOMAIN c.csr = Csrs

\* What an instruction of a CPU that may step does not do: halt it, lose a
\* fault, or make a system call with another a0 than it found.
Kept(c, o) ==
    /\ CpuShape(o.cpu)
    /\ o.cpu.halted = c.halted
    /\ ~o.ok => o.cpu.faulted /\ ~o.cpu.pending
    /\ o.cpu.pending => o.ok /\ o.cpu.regs["a0"] = c.regs["a0"]

\* The CPU is halted exactly when someone has halted it since the reset, and
\* the exit code is the program's.
Stopped ==
    /\ CpuShape(cpu)
    /\ cpu.halted <=> stop.by # "none"
    /\ exitCode = IF stop.by = "exit" THEN AsInt32(stop.code) ELSE 0
-----------------------------------------------------------------------------
(* The ways an instruction ends, each from a CPU d that is c but for       *)
(* registers and CSRs.                                                     *)

LEMMA FaultKeeps ==
    ASSUME NEW c, NEW d, CpuShape(d), d.halted = c.halted, ~d.pending, NEW b
    PROVE  Kept(c, Fault(d, b))
BY DEF Fault, Kept, CpuShape

LEMMA RetireKeeps ==
    ASSUME NEW c, NEW d, CpuShape(d), d.halted = c.halted,
           d.pending => d.regs["a0"] = c.regs["a0"], NEW b, NEW next
    PROVE  Kept(c, Retire(d, b, next))
BY CpuAssumption DEF Retire, Kept, CpuShape

LEMMA JumpKeeps ==
    ASSUME NEW c, NEW d, CpuShape(d), d.halted = c.halted, ~d.pending, NEW b, NEW target
    PROVE  Kept(c, Jump(d, b, target))
BY FaultKeeps, RetireKeeps DEF Jump

LEMMA WroteKeeps ==
    ASSUME NEW c, CpuShape(c), ~c.pending, NEW r, NEW value
    PROVE  LET d == [c EXCEPT !.regs[r] = value]
           IN  CpuShape(d) /\ d.halted = c.halted /\ ~d.pending
BY DEF CpuShape

LEMMA EcallKeeps ==
    ASSUME NEW c, CpuShape(c), ~c.pending, NEW b, NEW next
    PROVE  Kept(c, Ecall(c, b, next))
<1>1. CASE c.csr["mtvec"] # 0
  <2> DEFINE d == [c EXCEPT !.csr["mepc"] = next, !.csr["mcause"] = 11 % Word]
  <2>1. CpuShape(d) /\ d.halted = c.halted /\ ~d.pending
    BY DEF CpuShape
  <2>2. Ecall(c, b, next) = Retire(d, b, c.csr["mtvec"])
    BY <1>1 DEF Ecall
  <2> HIDE DEF d
  <2> QED BY <2>1, <2>2, RetireKeeps
<1>2. CASE c.csr["mtvec"] = 0
  <2> DEFINE d == [c EXCEPT !.pending = TRUE]
  <2>1. CpuShape(d) /\ d.halted = c.halted /\ d.regs["a0"] = c.regs["a0"]
    BY DEF CpuShape
  <2>2. Ecall(c, b, next) = Retire(d, b, next)
    BY <1>2 DEF Ecall
  <2> HIDE DEF d
  <2> QED BY <2>1, <2>2, RetireKeeps
<1> QED
  BY <1>1, <1>2

LEMMA CsrKeeps ==
    ASSUME NEW c, CpuShape(c), ~c.pending, NEW b, NEW i, NEW operand, NEW next
    PROVE  Kept(c, CsrAccess(c, b, i, operand, next))
<1> DEFINE reads == SetReg(c, i.rd, c.csr[i.csr])
           writes(v) == [reads EXCEPT !.csr[i.csr] = v]
<1>1. CpuShape(reads) /\ reads.halted = c.halted /\ ~reads.pending
  BY DEF SetReg, CpuShape
<1> HIDE DEF reads
<1>2. \A v : CpuShape(writes(v)) /\ writes(v).halted = c.halted /\ ~writes(v).pending
  BY <1>1 DEF CpuShape
<1> HIDE DEF writes
<1>3. \/ CsrAccess(c, b, i, operand, next) = Fault(c, b)
      \/ CsrAccess(c, b, i, operand, next) = Retire(reads, b, next)
      \/ \E v : CsrAccess(c, b, i, operand, next) = Retire(writes(v), b, next)
  BY DEF CsrAccess, reads, writes
<1> QED
  BY <1>1, <1>2, <1>3, FaultKeeps, RetireKeeps

LEMMA ExecuteKeeps ==
    ASSUME NEW c, CpuShape(c), ~c.pending, NEW b, NEW i \in Instructions,
           NEW o \in Execute(c, b, i)
    PROVE  Kept(c, o)
<1> DEFINE W(v) == [c EXCEPT !.regs[i.rd] = v]
<1>1. \A v : CpuShape(W(v)) /\ W(v).halted = c.halted /\ ~W(v).pending
  BY WroteKeeps
<1>2. \/ \E d, next, bus1 : /\ d = c \/ \E v : d = W(v)
                            /\ o \in {Retire(d, bus1, next), Jump(d, bus1, next), Fault(d, bus1)}
      \/ \E next : o = Ecall(c, b, next)
      \/ \E operand, next : o = CsrAccess(c, b, i, operand, next)
  <2>1. CASE i.op \in {"lui", "auipc"} \cup AluOps
    BY <2>1 DEF Execute, AluOps, W
  <2>2. CASE i.op \in {"jal", "jalr"}
    BY <2>2 DEF Execute, AluOps, W
  <2>3. CASE i.op \in Branches
    BY <2>3 DEF Execute, AluOps, Branches
  <2>4. CASE i.op \in Loads
    BY <2>4 DEF Execute, AluOps, Branches, Loads, W
  <2>5. CASE i.op \in Stores
    BY <2>5 DEF Execute, AluOps, Branches, Loads, Stores
  <2>6. CASE i.op \in {"ecall", "mret"}
    BY <2>6 DEF Execute, AluOps, Branches, Loads, Stores
  <2>7. CASE i.op \in CsrOps
    BY <2>7 DEF Execute, AluOps, Branches, Loads, Stores, CsrOps
  <2> QED
    BY <2>1, <2>2, <2>3, <2>4, <2>5, <2>6, <2>7 DEF Instructions
<1> HIDE DEF W
<1> QED
  BY <1>1, <1>2, FaultKeeps, RetireKeeps, JumpKeeps, EcallKeeps, CsrKeeps

\* Cpu::step: of a CPU that may not step, or of one that executes.
LEMMA StepKeeps ==
    ASSUME NEW c, CpuShape(c), NEW b, NEW o \in Step(c, b)
    PROVE  /\ CpuShape(o.cpu) /\ o.cpu.halted = c.halted
           /\ ~c.halted /\ ~o.ok => o.cpu.faulted
           /\ o.ok /\ o.cpu.pending => o.cpu.regs["a0"] = c.regs["a0"]
<1>1. CASE ~CanStep(c)
  <2>1. o = [ok |-> FALSE, cpu |-> [c EXCEPT !.faulted = ~c.halted], bus |-> b]
    BY <1>1 DEF Step
  <2> QED BY <2>1 DEF CpuShape
<1>2. CASE CanStep(c) /\ Read32(b, c.pc) \notin DOMAIN Decode
  <2>1. o = Fault(c, b)
    BY <1>2 DEF Step
  <2>2. ~c.pending
    BY <1>2 DEF CanStep
  <2> QED BY <2>1, <2>2, FaultKeeps DEF Kept
<1>3. CASE CanStep(c) /\ Read32(b, c.pc) \in DOMAIN Decode
  <2> DEFINE i == Decode[Read32(b, c.pc)]
  <2>1. o \in Execute(c, b, i)
    BY <1>3 DEF Step
  <2>2. i \in Instructions /\ ~c.pending
    BY <1>3, CpuAssumption DEF CanStep
  <2> HIDE DEF i
  <2> QED BY <2>1, <2>2, ExecuteKeeps DEF Kept
<1> QED
  BY <1>1, <1>2, <1>3

\* handle_syscall answers the call; only EXIT halts, with a0 as the exit code.
LEMMA ServedKeeps ==
    ASSUME NEW o, CpuShape(o.cpu), ~o.cpu.halted, NEW exit
    PROVE  LET s == Served(o, exit)
           IN  /\ CpuShape(s.cpu) /\ ~s.cpu.pending
               /\ s.exit = IF s.cpu.halted THEN AsInt32(o.cpu.regs["a0"]) ELSE exit
<1> DEFINE answered(value) == [o.cpu EXCEPT !.regs["a0"] = value, !.pending = FALSE]
           s == Served(o, exit)
<1>1. \A value : CpuShape(answered(value)) /\ ~answered(value).pending /\ ~answered(value).halted
  BY DEF CpuShape
<1>2. CpuShape(HaltCpu(o.cpu)) /\ ~HaltCpu(o.cpu).pending /\ HaltCpu(o.cpu).halted
  BY DEF CpuShape, HaltCpu
<1>3. \/ s.cpu = HaltCpu(o.cpu) /\ s.exit = AsInt32(o.cpu.regs["a0"])
      \/ \E value : s.cpu = answered(value) /\ s.exit = exit
  <2> USE DEF MAPS_SYSCALL_EXIT, MAPS_SYSCALL_PUTCHAR, MAPS_SYSCALL_WRITE
  <2> DEFINE number == o.cpu.regs["a7"]
             text == Text(o.bus, o.cpu.regs["a0"], o.cpu.regs["a1"])
  <2>1. CASE number = MAPS_SYSCALL_EXIT
    <3>1. s.cpu = HaltCpu(o.cpu) /\ s.exit = AsInt32(o.cpu.regs["a0"])
      BY <2>1 DEF Served
    <3> QED BY <3>1
  <2>2. CASE number = MAPS_SYSCALL_PUTCHAR
    <3>1. s.cpu = answered(1) /\ s.exit = exit
      BY <2>2 DEF Served
    <3> QED BY <3>1
  <2>3. CASE number = MAPS_SYSCALL_WRITE
    <3>1. s.cpu = answered(WriteAnswer(text, o.cpu.regs["a1"])) /\ s.exit = exit
      BY <2>3 DEF Served
    <3> QED BY <3>1
  <2>4. CASE number \notin {MAPS_SYSCALL_EXIT, MAPS_SYSCALL_PUTCHAR, MAPS_SYSCALL_WRITE}
    <3>1. s.cpu = answered(Word - 1) /\ s.exit = exit
      BY <2>4 DEF Served
    <3> QED BY <3>1
  <2> QED
    BY <2>1, <2>2, <2>3, <2>4
<1> HIDE DEF answered, s
<1>4. CpuShape(s.cpu) /\ ~s.cpu.pending
      /\ s.exit = IF s.cpu.halted THEN AsInt32(o.cpu.regs["a0"]) ELSE exit
  BY <1>1, <1>2, <1>3
<1> QED
  BY <1>4 DEF s
-----------------------------------------------------------------------------
LEMMA InitStopped == Init => Stopped
BY DEF Init, Stopped, CpuShape, NotStopped

\* A turn of the loop of Machine::run.
LEMMA RunStepStopped ==
    ASSUME Stopped, RunStep
    PROVE  Stopped' /\ (cpu'.pending => cpu'.faulted) /\ (loop'.of = "none" => ~reply')
<1>1. ~cpu.halted /\ stop.by = "none" /\ exitCode = 0 /\ CpuShape(cpu)
  BY DEF RunStep, Running, Stopped
<1>2. PICK o \in Step(cpu, bus) :
        LET served == IF o.ok /\ o.cpu.pending THEN Served(o, exitCode)
                      ELSE [cpu |-> o.cpu, bus |-> o.bus, exit |-> exitCode]
        IN  /\ cpu' = served.cpu /\ exitCode' = served.exit
            /\ loop' = IF o.ok THEN [loop EXCEPT !.left = @ - 1] ELSE [of |-> "none", left |-> 0]
            /\ reply' = (o.ok /\ reply)
            /\ stop' = IF served.cpu.halted THEN [by |-> "exit", code |-> cpu.regs["a0"]] ELSE stop
  BY DEF RunStep
<1>3. /\ CpuShape(o.cpu) /\ ~o.cpu.halted
      /\ ~o.ok => o.cpu.faulted
      /\ o.ok /\ o.cpu.pending => o.cpu.regs["a0"] = cpu.regs["a0"]
  BY <1>1, StepKeeps
<1>4. loop'.of = "none" => ~reply'
  <2>1. loop.of = "Machine::run"
    BY DEF RunStep
  <2>2. [loop EXCEPT !.left = @ - 1].of = loop.of
    OBVIOUS
  <2> QED BY <1>2, <2>1, <2>2
<1>5. CASE o.ok /\ o.cpu.pending
  <2> DEFINE s == Served(o, exitCode)
  <2>1. /\ CpuShape(s.cpu) /\ ~s.cpu.pending
        /\ s.exit = IF s.cpu.halted THEN AsInt32(o.cpu.regs["a0"]) ELSE exitCode
    BY <1>3, ServedKeeps
  <2>2. /\ cpu' = s.cpu /\ exitCode' = s.exit
        /\ stop' = IF s.cpu.halted THEN [by |-> "exit", code |-> cpu.regs["a0"]] ELSE stop
    BY <1>2, <1>5
  <2> HIDE DEF s
  <2> QED BY <1>1, <1>3, <1>4, <1>5, <2>1, <2>2 DEF Stopped
<1>6. CASE ~(o.ok /\ o.cpu.pending)
  <2>1. cpu' = o.cpu /\ exitCode' = exitCode /\ stop' = stop
    BY <1>2, <1>3, <1>6
  <2> QED BY <1>1, <1>3, <1>4, <1>6, <2>1 DEF Stopped
<1> QED
  BY <1>5, <1>6

LEMMA HaltKeeps ==
    ASSUME NEW c, CpuShape(c)
    PROVE  CpuShape(HaltCpu(c)) /\ HaltCpu(c).halted
BY DEF CpuShape, HaltCpu

\* Every other step of the machine and its host.
LEMMA OtherStopped ==
    ASSUME Stopped, Next, ~RunStep
    PROVE  Stopped'
<1>1. CASE CpuRunStep
  <2>1. PICK o \in Step(cpu, bus) :
          /\ cpu' = IF o.ok /\ o.cpu.pending THEN HaltCpu(o.cpu) ELSE o.cpu
          /\ stop' = IF o.ok /\ o.cpu.pending THEN [by |-> "host", code |-> 0] ELSE stop
    BY <1>1 DEF CpuRunStep
  <2>2. ~cpu.halted /\ exitCode' = exitCode
    BY <1>1 DEF CpuRunStep, Running
  <2>3. CpuShape(o.cpu) /\ o.cpu.halted = cpu.halted
    BY StepKeeps DEF Stopped
  <2> QED BY <2>1, <2>2, <2>3, HaltKeeps DEF Stopped
<1>2. CASE RunReturn
  BY <1>2 DEF RunReturn, Stopped
<1>3. ASSUME NEW pc, Reset(pc) PROVE Stopped'
  BY <1>3 DEF Reset, ResetCpu, NotStopped, Stopped, CpuShape
<1>4. ASSUME NEW of, NEW n, Run(of, n) PROVE Stopped'
  BY <1>4 DEF Run, Stopped
<1>5. CASE StepCpu
  <2>1. PICK o \in Step(cpu, bus) : cpu' = o.cpu
    BY <1>5 DEF StepCpu
  <2>2. CpuShape(o.cpu) /\ o.cpu.halted = cpu.halted
    BY StepKeeps DEF Stopped
  <2> QED BY <1>5, <2>1, <2>2 DEF StepCpu, Stopped
<1>6. CASE Halt
  <2>1. cpu' = HaltCpu(cpu) /\ exitCode' = exitCode
        /\ stop' = IF stop.by = "none" THEN [by |-> "host", code |-> 0] ELSE stop
    BY <1>6 DEF Halt
  <2> QED BY <2>1, HaltKeeps DEF Stopped
<1>7. CASE ClearEcall
  BY <1>7 DEF ClearEcall, Stopped, CpuShape
<1>8. ASSUME NEW w \in HostWrites, SetRegister(w[1], w[2]) PROVE Stopped'
  <2>1. CpuShape(SetReg(cpu, w[1], w[2])) /\ SetReg(cpu, w[1], w[2]).halted = cpu.halted
    BY DEF SetReg, Stopped, CpuShape
  <2> QED BY <1>8, <2>1 DEF SetRegister, Stopped
<1>9. ASSUME NEW outcome, Loading(outcome) PROVE Stopped'
  BY <1>9 DEF Loading, Stopped
<1> QED
  BY <1>1, <1>2, <1>3, <1>4, <1>5, <1>6, <1>7, <1>8, <1>9 DEF Next, Load, LoadFile, LoadList

LEMMA Inductive == Spec => []Stopped
<1>1. Stopped /\ [Next]_vars => Stopped'
  <2>1. Stopped /\ UNCHANGED vars => Stopped'
    BY DEF vars, Stopped
  <2> QED BY <2>1, RunStepStopped, OtherStopped
<1> QED
  BY <1>1, InitStopped, PTL DEF Spec

\* run returns true exactly for a program that has ended since the last reset,
\* exit_code is what it passed to EXIT, and no turn of the loop leaves a system
\* call unserved on a CPU that goes on (machine.cpp:25-48,89-125).
THEOREM RunReportsProgram == Spec => RunReports
<1>1. Stopped /\ [Next]_vars =>
        [ /\ loop.of = "Machine::run" /\ loop'.of = "none" /\ reply' =>
               /\ cpu'.halted /\ stop.by # "none"
               /\ exitCode' = IF stop.by = "exit" THEN AsInt32(stop.code) ELSE 0
          /\ RunStep /\ cpu'.pending => cpu'.faulted ]_vars
  <2> SUFFICES ASSUME Stopped, Next
               PROVE  /\ loop.of = "Machine::run" /\ loop'.of = "none" /\ reply' =>
                           /\ cpu'.halted /\ stop.by # "none"
                           /\ exitCode' = IF stop.by = "exit" THEN AsInt32(stop.code) ELSE 0
                      /\ RunStep /\ cpu'.pending => cpu'.faulted
    OBVIOUS
  <2>1. CASE RunStep
    BY <2>1, RunStepStopped
  <2>2. CASE RunReturn
    BY <2>2 DEF RunReturn, RunStep, Running, Stopped
  <2>3. CASE ~RunStep /\ ~RunReturn
    <3>1. loop.of = "Machine::run" => FALSE
      BY <2>3 DEF Next, CpuRunStep, Reset, Run, StepCpu, Halt, ClearEcall, SetRegister, Load,
                  LoadFile, LoadList, Loading, HostCall
    <3> QED BY <2>3, <3>1
  <2> QED
    BY <2>1, <2>2, <2>3
<1> QED
  BY <1>1, Inductive, PTL DEF Spec, RunReports
=============================================================================
