-------------------------- MODULE ControllerProofs --------------------------
(***************************************************************************)
(* Proofs about Controller: the invariants of a run, the action properties *)
(* and that the controller implements Gemm, for every memory, every array, *)
(* every buffer size and every descriptor the host may submit.             *)
(*                                                                         *)
(* The argument: a run keeps a plan of which it has done the first At - 1  *)
(* tiles (InRun); the buffers hold the operands of the current tile        *)
(* (Buffers), the counters what the tiles and the steps done have added    *)
(* (Counting), C the partial sums of the tiles done (PartialSums). The     *)
(* checks before the first tile hold for every later one (Checked), so     *)
(* that every transfer is accepted and the run ends with the product.      *)
(***************************************************************************)
EXTENDS Controller, GemmOpsProofs
-----------------------------------------------------------------------------
(* Rectangles. *)

\* The Max of a set of numbers is the member no other exceeds.
LEMMA MaxIs ==
    ASSUME NEW S \in SUBSET Int, NEW q \in S, \A x \in S : x <= q
    PROVE  Max(S) = q
<1>1. \A x \in S : (\A y \in S : x >= y) => x = q
  OBVIOUS
<1>. QED BY <1>1 DEF Max

\* A request whose rows do not meet in the destination.
Apart(req) ==
    /\ req.length \in Nat \ {0} /\ req.rows \in Nat \ {0}
    /\ req.dstStride \in Nat /\ req.length <= req.dstStride
    /\ DstBase(req) \in Nat

\* One row only writes a word.
LEMMA OneRow ==
    ASSUME NEW req, Apart(req), NEW r \in 0..(req.rows - 1), NEW c \in 0..(req.length - 1)
    PROVE  RowsInto(req, DstAddr(req, r, c)) = {r}
<1>. DEFINE s == req.dstStride
            w == DstAddr(req, r, c)
<1>1. /\ s \in Nat \ {0} /\ DstBase(req) \in Int /\ req.length \in Nat /\ req.rows \in Nat
      /\ r \in Nat /\ c \in 0..(s - 1) /\ req.length <= s
  BY DEF Apart
<1>2. \A u \in Nat, v \in Int :
          u * s \in Int /\ (w - DstAddr(req, u, 0) = v <=> r * s + c = u * s + v)
  <2>. TAKE u \in Nat, v \in Int
  <2>. DEFINE e == u * s
              f == r * s
              b == DstBase(req)
  <2>1. e \in Int /\ f \in Int /\ c \in Int /\ b \in Int
    BY <1>1
  <2>2. w = b + f + c /\ DstAddr(req, u, 0) = b + e + 0
    BY DEF DstAddr
  <2>. HIDE DEF w, e, f, b
  <2>3. w - DstAddr(req, u, 0) = v <=> f + c = e + v
    BY <2>1, <2>2
  <2>. QED BY <2>1, <2>3 DEF e, f
<1>3. w - DstAddr(req, r, 0) = c
  BY <1>1, <1>2
<1>4. ASSUME NEW u \in 0..(req.rows - 1), w - DstAddr(req, u, 0) \in 0..(req.length - 1)
      PROVE  u = r
  <2>. DEFINE v == w - DstAddr(req, u, 0)
  <2>1. u \in Nat /\ v \in 0..(s - 1) /\ v \in Int
    BY <1>1, <1>4
  <2>. HIDE DEF w, s, v
  <2>2. r * s + c = u * s + v
    BY <1>2, <2>1 DEF v
  <2>. QED BY <1>1, <2>1, <2>2, QuotientUnique
<1>. QED BY <1>3, <1>4 DEF RowsInto

\* The words of the rectangle are moved and no other changes.
LEMMA MovedWord ==
    ASSUME NEW req, Apart(req), NEW src, NEW dst,
           NEW r \in 0..(req.rows - 1), NEW c \in 0..(req.length - 1),
           DstAddr(req, r, c) \in DOMAIN dst
    PROVE  Transferred(req, src, dst)[DstAddr(req, r, c)] = src[SrcAddr(req, r, c)]
<1>. DEFINE w == DstAddr(req, r, c)
<1>1. RowsInto(req, w) = {r}
  BY OneRow
<1>2. Max({r}) = r
  <2>1. r \in Int
    BY DEF Apart
  <2>. QED BY <2>1, MaxIs
<1>3. w - DstAddr(req, r, 0) = c
  <2>1. r * req.dstStride \in Int /\ DstBase(req) \in Int /\ c \in Int
    BY DEF Apart
  <2>. QED BY <2>1 DEF DstAddr
<1>. HIDE DEF w
<1>4. Transferred(req, src, dst)[w] =
          src[SrcAddr(req, Max(RowsInto(req, w)), w - DstAddr(req, Max(RowsInto(req, w)), 0))]
  BY <1>1 DEF Transferred, w
<1>. QED BY <1>1, <1>2, <1>3, <1>4 DEF w

\* The words outside the rectangle stay.
LEMMA UnmovedWord ==
    ASSUME NEW req, Apart(req), NEW src, NEW dst, NEW w \in DOMAIN dst, w \in Int,
           \A r \in 0..(req.rows - 1), c \in 0..(req.length - 1) : w # DstAddr(req, r, c)
    PROVE  Transferred(req, src, dst)[w] = dst[w]
<1>1. RowsInto(req, w) = {}
  <2>. SUFFICES ASSUME NEW r \in 0..(req.rows - 1), w - DstAddr(req, r, 0) \in 0..(req.length - 1)
                PROVE  FALSE
    BY DEF RowsInto
  <2>. DEFINE c == w - DstAddr(req, r, 0)
  <2>1. w = DstAddr(req, r, c)
    <3>1. r * req.dstStride \in Int /\ DstBase(req) \in Int
      BY DEF Apart
    <3>. QED BY <3>1 DEF DstAddr
  <2>. QED BY <2>1
<1>. QED BY <1>1 DEF Transferred

\* A transfer of numbers into numbers leaves numbers.
LEMMA TransferredType ==
    ASSUME NEW req, Apart(req), NEW src, NEW D \in SUBSET Int, NEW dst \in [D -> Int],
           \A r \in 0..(req.rows - 1), c \in 0..(req.length - 1) : src[SrcAddr(req, r, c)] \in Int
    PROVE  Transferred(req, src, dst) \in [D -> Int]
<1>1. ASSUME NEW w \in D PROVE Transferred(req, src, dst)[w] \in Int
  <2>1. CASE \E r \in 0..(req.rows - 1), c \in 0..(req.length - 1) : w = DstAddr(req, r, c)
    BY <2>1, MovedWord
  <2>2. CASE \A r \in 0..(req.rows - 1), c \in 0..(req.length - 1) : w # DstAddr(req, r, c)
    BY <2>2, UnmovedWord
  <2>. QED BY <2>1, <2>2
<1>2. Transferred(req, src, dst) = [w \in D |-> Transferred(req, src, dst)[w]]
  BY DEF Transferred
<1>. QED BY <1>1, <1>2

\* A block of rows rows and len columns, from row r0 and column c0 of a
\* matrix of R rows and n columns at byte address base.
IsBlock(base, wa, R, n, r0, c0, rows, len) ==
    /\ base \in Nat /\ wa \in Nat /\ base = WordBytes * wa
    /\ R \in Nat /\ n \in Nat \ {0} /\ wa + R * n <= MemWords
    /\ r0 \in Nat /\ c0 \in Nat /\ rows \in Nat \ {0} /\ len \in Nat \ {0}
    /\ r0 + rows <= R /\ c0 + len <= n

\* It starts at word from, and ends before the end of the memory.
IsAt(from, n, rows, len) ==
    /\ from \in Nat /\ n \in Nat \ {0} /\ rows \in Nat \ {0} /\ len \in Nat \ {0}
    /\ from + (rows - 1) * n + (len - 1) < MemWords /\ len <= n

\* The byte address of a block is not cut by UINT32, and its words are cells
\* of the matrix.
LEMMA BlockAddress ==
    ASSUME NEW base, NEW wa, NEW R, NEW n, NEW r0, NEW c0, NEW rows, NEW len,
           IsBlock(base, wa, R, n, r0, c0, rows, len),
           NEW from, from = wa + r0 * n + c0
    PROVE  /\ (base + WordBytes * (r0 * n + c0)) % Word = WordBytes * from
           /\ from \in Nat
           /\ \A r \in Nat, c \in Nat : from + r * n + c = wa + (r0 + r) * n + (c0 + c)
           /\ IsAt(from, n, rows, len)
<1>. USE DEF IsBlock
<1>0. Word \in Nat /\ MemWords \in Nat /\ 4 * MemWords <= Word
  BY MemoryAssumption, WordAssumption DEF WordBytes
<1>1. /\ r0 * n \in Nat /\ R * n \in Nat /\ (rows - 1) * n \in Nat
      /\ r0 \in Int /\ rows \in Int /\ r0 + rows \in Nat
  OBVIOUS
<1>2. (r0 + rows) * n <= R * n
  BY <1>1, TimesMonotone
<1>3. (r0 + rows) * n = r0 * n + (rows - 1) * n + n
  OBVIOUS
<1>. DEFINE p == r0 * n
            q == (rows - 1) * n
            z == R * n
<1>4. p \in Nat /\ q \in Nat /\ z \in Nat /\ p + q + n <= z
  BY <1>1, <1>2, <1>3
<1>5. \A r \in Nat, c \in Nat : from + r * n + c = wa + (r0 + r) * n + (c0 + c)
  <2>. TAKE r \in Nat, c \in Nat
  <2>1. (r0 + r) * n = r0 * n + r * n /\ r0 * n \in Int /\ r * n \in Int
    OBVIOUS
  <2>. QED BY <2>1
<1>6. wa + z <= MemWords /\ from = wa + p + c0
  OBVIOUS
<1>. HIDE DEF p, q, z
<1>7. from \in Nat /\ from + q + (len - 1) < MemWords /\ len <= n /\ from < MemWords
  BY <1>0, <1>4, <1>6
<1>8. base + 4 * (p + c0) = 4 * from
  BY <1>4, <1>6 DEF WordBytes
<1>9. 4 * from \in 0..(Word - 1)
  BY <1>0, <1>7
<1>10. (4 * from) % Word = 4 * from
  BY <1>0, <1>9
<1>. QED BY <1>5, <1>7, <1>8, <1>10 DEF WordBytes, p, q, IsAt

\* A transfer of a block between the memory and a buffer that holds it packed
\* is accepted, word by word.
LEMMA PackedIn ==
    ASSUME NEW from, NEW n, NEW rows, NEW len, IsAt(from, n, rows, len), rows * len <= BufferSize,
           NEW req, req = Request("DRAM_TO_BUFFER", WordBytes * from, 0, len, rows, n, len)
    PROVE  /\ Accepted(req) /\ Apart(req) /\ req.rows = rows /\ req.length = len
           /\ \A r \in 0..(rows - 1), c \in 0..(len - 1) :
                 /\ SrcAddr(req, r, c) = from + r * n + c
                 /\ DstAddr(req, r, c) = r * len + c /\ r * len + c \in Slots
<1>. USE DEF IsAt
<1>0. (WordBytes * from) \div WordBytes = from /\ (WordBytes * from) % WordBytes = 0
  BY DEF WordBytes
<1>1. BufferSize \in Nat
  BY MemoryAssumption
<1>2. \A r \in 0..(rows - 1), c \in 0..(len - 1) : r * len + c \in Slots
  <2>. TAKE r \in 0..(rows - 1), c \in 0..(len - 1)
  <2>1. r * len + c \in 0..(rows * len - 1)
    BY CellInside
  <2>. DEFINE z == rows * len
              v == r * len + c
  <2>2. v \in 0..(z - 1) /\ z \in Nat /\ z <= BufferSize
    BY <2>1
  <2>. HIDE DEF z, v
  <2>3. v \in 0..(BufferSize - 1)
    BY <1>1, <2>2
  <2>. QED BY <2>3 DEF Slots, v
<1>3. /\ req.direction = "DRAM_TO_BUFFER" /\ req.dramBase = WordBytes * from /\ req.bufferBase = 0
      /\ req.length = len /\ req.rows = rows
      /\ req.srcStride = n /\ req.dstStride = len
  BY DEF Request
<1>4. SrcBase(req) = from /\ DstBase(req) = 0
  BY <1>0, <1>3 DEF SrcBase, DstBase, ToBuffer, DramWord, DramWordBytes, WordBytes
<1>5. \A r \in Nat, c \in Nat :
          SrcAddr(req, r, c) = from + r * n + c /\ DstAddr(req, r, c) = r * len + c
  <2>. TAKE r \in Nat, c \in Nat
  <2>1. r * len \in Int
    OBVIOUS
  <2>. QED BY <1>3, <1>4, <2>1 DEF SrcAddr, DstAddr
<1>6. WellFormed(req)
  BY <1>0, <1>3 DEF WellFormed, DramWordBytes, WordBytes
<1>7. InRange(req, MemWords, BufferSize)
  <2>. DEFINE e == rows - 1
              f == len - 1
  <2>1. e \in 0..(rows - 1) /\ f \in 0..(len - 1) /\ e \in Nat /\ f \in Nat
    OBVIOUS
  <2>2. from + e * n + f < MemWords
    OBVIOUS
  <2>. HIDE DEF e, f
  <2>3. SrcAddr(req, e, f) < MemWords
    BY <1>5, <2>1, <2>2
  <2>4. DstAddr(req, e, f) \in Slots
    <3>1. DstAddr(req, e, f) = e * len + f /\ e * len + f \in Slots
      BY <1>2, <1>5, <2>1
    <3>. QED BY <3>1
  <2>5. DstAddr(req, e, f) < BufferSize
    BY <1>1, <2>4 DEF Slots
  <2>. QED BY <1>3, <2>3, <2>5 DEF InRange, ToBuffer, e, f
<1>8. Apart(req)
  BY <1>3, <1>4 DEF Apart
<1>9. \A r \in 0..(rows - 1), c \in 0..(len - 1) :
          SrcAddr(req, r, c) = from + r * n + c /\ DstAddr(req, r, c) = r * len + c
  <2>. TAKE r \in 0..(rows - 1), c \in 0..(len - 1)
  <2>1. r \in Nat /\ c \in Nat
    OBVIOUS
  <2>. QED BY <1>5, <2>1
<1>. QED BY <1>2, <1>3, <1>6, <1>7, <1>8, <1>9 DEF Accepted

\* A packed block stored into words of the memory.
LEMMA PackedOut ==
    ASSUME NEW from, NEW n, NEW rows, NEW len, IsAt(from, n, rows, len), rows * len <= BufferSize,
           NEW req, req = Request("BUFFER_TO_DRAM", WordBytes * from, 0, len, rows, len, n)
    PROVE  /\ Accepted(req) /\ Apart(req) /\ req.rows = rows /\ req.length = len
           /\ \A r \in 0..(rows - 1), c \in 0..(len - 1) :
                 /\ DstAddr(req, r, c) = from + r * n + c
                 /\ SrcAddr(req, r, c) = r * len + c /\ r * len + c \in Slots
<1>. USE DEF IsAt
<1>0. (WordBytes * from) \div WordBytes = from /\ (WordBytes * from) % WordBytes = 0
  BY DEF WordBytes
<1>1. BufferSize \in Nat
  BY MemoryAssumption
<1>2. \A r \in 0..(rows - 1), c \in 0..(len - 1) : r * len + c \in Slots
  <2>. TAKE r \in 0..(rows - 1), c \in 0..(len - 1)
  <2>1. r * len + c \in 0..(rows * len - 1)
    BY CellInside
  <2>. DEFINE z == rows * len
              v == r * len + c
  <2>2. v \in 0..(z - 1) /\ z \in Nat /\ z <= BufferSize
    BY <2>1
  <2>. HIDE DEF z, v
  <2>3. v \in 0..(BufferSize - 1)
    BY <1>1, <2>2
  <2>. QED BY <2>3 DEF Slots, v
<1>3. /\ req.direction = "BUFFER_TO_DRAM" /\ req.dramBase = WordBytes * from /\ req.bufferBase = 0
      /\ req.length = len /\ req.rows = rows
      /\ req.srcStride = len /\ req.dstStride = n
  BY DEF Request
<1>4. DstBase(req) = from /\ SrcBase(req) = 0
  BY <1>0, <1>3 DEF SrcBase, DstBase, ToBuffer, DramWord, DramWordBytes, WordBytes
<1>5. \A r \in Nat, c \in Nat :
          DstAddr(req, r, c) = from + r * n + c /\ SrcAddr(req, r, c) = r * len + c
  <2>. TAKE r \in Nat, c \in Nat
  <2>1. r * len \in Int
    OBVIOUS
  <2>. QED BY <1>3, <1>4, <2>1 DEF SrcAddr, DstAddr
<1>6. WellFormed(req)
  BY <1>0, <1>3 DEF WellFormed, DramWordBytes, WordBytes
<1>7. InRange(req, MemWords, BufferSize)
  <2>. DEFINE e == rows - 1
              f == len - 1
  <2>1. e \in 0..(rows - 1) /\ f \in 0..(len - 1) /\ e \in Nat /\ f \in Nat
    OBVIOUS
  <2>2. from + e * n + f < MemWords
    OBVIOUS
  <2>. HIDE DEF e, f
  <2>3. DstAddr(req, e, f) < MemWords
    BY <1>5, <2>1, <2>2
  <2>4. SrcAddr(req, e, f) \in Slots
    <3>1. SrcAddr(req, e, f) = e * len + f /\ e * len + f \in Slots
      BY <1>2, <1>5, <2>1
    <3>. QED BY <3>1
  <2>5. SrcAddr(req, e, f) < BufferSize
    BY <1>1, <2>4 DEF Slots
  <2>. QED BY <1>3, <2>3, <2>5 DEF InRange, ToBuffer, e, f
<1>8. Apart(req)
  BY <1>3, <1>4 DEF Apart
<1>9. \A r \in 0..(rows - 1), c \in 0..(len - 1) :
          DstAddr(req, r, c) = from + r * n + c /\ SrcAddr(req, r, c) = r * len + c
  <2>. TAKE r \in 0..(rows - 1), c \in 0..(len - 1)
  <2>1. r \in Nat /\ c \in Nat
    OBVIOUS
  <2>. QED BY <1>5, <2>1
<1>. QED BY <1>2, <1>3, <1>6, <1>7, <1>8, <1>9 DEF Accepted

\* The block of a matrix.
LEMMA BlockIn ==
    ASSUME NEW base, NEW wa, NEW R, NEW n, NEW r0, NEW c0, NEW rows, NEW len,
           IsBlock(base, wa, R, n, r0, c0, rows, len), rows * len <= BufferSize,
           NEW req, req = Request("DRAM_TO_BUFFER", (base + WordBytes * (r0 * n + c0)) % Word, 0,
                                  len, rows, n, len)
    PROVE  /\ Accepted(req) /\ Apart(req) /\ req.rows = rows /\ req.length = len
           /\ \A r \in 0..(rows - 1), c \in 0..(len - 1) :
                 /\ SrcAddr(req, r, c) = wa + (r0 + r) * n + (c0 + c)
                 /\ DstAddr(req, r, c) = r * len + c /\ r * len + c \in Slots
<1>1. PICK from : from = wa + r0 * n + c0
  OBVIOUS
<1>2. /\ (base + WordBytes * (r0 * n + c0)) % Word = WordBytes * from
      /\ \A r \in Nat, c \in Nat : from + r * n + c = wa + (r0 + r) * n + (c0 + c)
      /\ IsAt(from, n, rows, len)
  BY <1>1, BlockAddress
<1>3. req = Request("DRAM_TO_BUFFER", WordBytes * from, 0, len, rows, n, len)
  BY <1>2
<1>4. /\ Accepted(req) /\ Apart(req) /\ req.rows = rows /\ req.length = len
      /\ \A r \in 0..(rows - 1), c \in 0..(len - 1) :
             SrcAddr(req, r, c) = from + r * n + c /\ DstAddr(req, r, c) = r * len + c /\ r * len + c \in Slots
  BY <1>2, <1>3, PackedIn
<1>5. \A r \in 0..(rows - 1), c \in 0..(len - 1) : r \in Nat /\ c \in Nat
  BY DEF IsBlock
<1>. QED BY <1>2, <1>4, <1>5, Zenon

\* A block of a matrix, stored.
LEMMA BlockOut ==
    ASSUME NEW base, NEW wa, NEW R, NEW n, NEW r0, NEW c0, NEW rows, NEW len,
           IsBlock(base, wa, R, n, r0, c0, rows, len), rows * len <= BufferSize,
           NEW req, req = Request("BUFFER_TO_DRAM", (base + WordBytes * (r0 * n + c0)) % Word, 0,
                                  len, rows, len, n)
    PROVE  /\ Accepted(req) /\ Apart(req) /\ req.rows = rows /\ req.length = len
           /\ \A r \in 0..(rows - 1), c \in 0..(len - 1) :
                 /\ DstAddr(req, r, c) = wa + (r0 + r) * n + (c0 + c)
                 /\ SrcAddr(req, r, c) = r * len + c /\ r * len + c \in Slots
<1>1. PICK from : from = wa + r0 * n + c0
  OBVIOUS
<1>2. /\ (base + WordBytes * (r0 * n + c0)) % Word = WordBytes * from
      /\ \A r \in Nat, c \in Nat : from + r * n + c = wa + (r0 + r) * n + (c0 + c)
      /\ IsAt(from, n, rows, len)
  BY <1>1, BlockAddress
<1>3. req = Request("BUFFER_TO_DRAM", WordBytes * from, 0, len, rows, len, n)
  BY <1>2
<1>4. /\ Accepted(req) /\ Apart(req) /\ req.rows = rows /\ req.length = len
      /\ \A r \in 0..(rows - 1), c \in 0..(len - 1) :
             DstAddr(req, r, c) = from + r * n + c /\ SrcAddr(req, r, c) = r * len + c /\ r * len + c \in Slots
  BY <1>2, <1>3, PackedOut
<1>5. \A r \in 0..(rows - 1), c \in 0..(len - 1) : r \in Nat /\ c \in Nat
  BY DEF IsBlock
<1>. QED BY <1>2, <1>4, <1>5, Zenon

\* A tile lies inside the matrices; none is larger than the first, and none
\* has a side the array does not take.
LEMMA TileInside ==
    ASSUME NEW d \in DescriptorType, Validate(d), NEW x \in 1..TilesOf(d),
           NEW t, t = TileAt(d, x)
    PROVE  /\ t \in TileType
           /\ t.m0 \in Nat /\ t.n0 \in Nat /\ t.k0 \in Nat
           /\ t.mLen \in Nat \ {0} /\ t.nLen \in Nat \ {0} /\ t.kLen \in Nat \ {0}
           /\ t.m0 + t.mLen <= d.m /\ t.n0 + t.nLen <= d.n /\ t.k0 + t.kLen <= d.k
           /\ SidesFit(d.mode, t.mLen, t.nLen, t.kLen)
           /\ FirstTileFits(d) => FitsBuffers(t.mLen, t.nLen, t.kLen)
           /\ x = 1 => /\ t.m0 = 0 /\ t.n0 = 0 /\ t.k0 = 0
                       /\ FirstTileFits(d) = FitsBuffers(t.mLen, t.nLen, t.kLen)
<1>. DEFINE fm == ClipTo(d.m, 0, d.tm)
            fn == ClipTo(d.n, 0, d.tn)
            fk == ClipTo(d.k, 0, d.tk)
            tm == d.tm
            tn == d.tn
            tk == d.tk
<1>1. /\ t \in TileType
      /\ t.mLen \in 1..tm /\ t.nLen \in 1..tn /\ t.kLen \in 1..tk
      /\ t.mLen <= fm /\ t.nLen <= fn /\ t.kLen <= fk
      /\ t.m0 + t.mLen <= d.m /\ t.n0 + t.nLen <= d.n /\ t.k0 + t.kLen <= d.k
  BY TileSides
<1>2. /\ tm \in Nat /\ tn \in Nat /\ tk \in Nat
      /\ fm \in Nat /\ fn \in Nat /\ fk \in Nat
  <2>1. /\ d.m \in Nat /\ d.n \in Nat /\ d.k \in Nat /\ tm \in Nat /\ tn \in Nat /\ tk \in Nat
    BY ValidNumbers
  <2>2. \A u, v \in Nat : ClipTo(u, 0, v) \in Nat
    BY DEF ClipTo
  <2>. QED BY <2>1, <2>2
<1>3. /\ t.m0 \in Nat /\ t.n0 \in Nat /\ t.k0 \in Nat
      /\ t.mLen \in Nat \ {0} /\ t.nLen \in Nat \ {0} /\ t.kLen \in Nat \ {0}
      /\ t.mLen <= tm /\ t.nLen <= tn /\ t.kLen <= tk
  BY <1>1, <1>2 DEF TileType
<1>4. SidesFit(d.mode, t.mLen, t.nLen, t.kLen)
  <2>1. SidesFit(d.mode, tm, tn, tk)
    BY DEF Validate
  <2>2. ArrayRows \in Nat /\ ArrayCols \in Nat
    BY ArrayAssumption
  <2>. HIDE DEF tm, tn, tk
  <2>. QED BY <1>2, <1>3, <2>1, <2>2 DEF SidesFit
<1>5. ASSUME FirstTileFits(d) PROVE FitsBuffers(t.mLen, t.nLen, t.kLen)
  <2>1. BufferSize \in Nat /\ fm * fk <= BufferSize /\ fk * fn <= BufferSize /\ fm * fn <= BufferSize
    BY <1>5, MemoryAssumption DEF FirstTileFits, FitsBuffers
  <2>2. \A a, b, u, v \in Nat : a <= u /\ b <= v => a * b <= u * v /\ a * b \in Nat /\ u * v \in Nat
    <3>. TAKE a, b, u, v \in Nat
    <3>1. a <= u => a * b <= u * b
      BY TimesMonotone
    <3>2. b <= v => b * u <= v * u
      BY TimesMonotone
    <3>3. u * b = b * u /\ v * u = u * v /\ a * b \in Nat /\ u * b \in Nat /\ u * v \in Nat
      OBVIOUS
    <3>. QED BY <3>1, <3>2, <3>3
  <2>. HIDE DEF fm, fn, fk
  <2>3. t.mLen * t.kLen <= fm * fk /\ t.mLen * t.kLen \in Nat /\ fm * fk \in Nat
    BY <1>1, <1>2, <1>3, <2>2
  <2>4. t.kLen * t.nLen <= fk * fn /\ t.kLen * t.nLen \in Nat /\ fk * fn \in Nat
    BY <1>1, <1>2, <1>3, <2>2
  <2>5. t.mLen * t.nLen <= fm * fn /\ t.mLen * t.nLen \in Nat /\ fm * fn \in Nat
    BY <1>1, <1>2, <1>3, <2>2
  <2>. QED BY <2>1, <2>3, <2>4, <2>5 DEF FitsBuffers
<1>6. ASSUME x = 1
      PROVE  /\ t.m0 = 0 /\ t.n0 = 0 /\ t.k0 = 0
             /\ t.mLen = fm /\ t.nLen = fn /\ t.kLen = fk
  <2>1. MStep(d, x) = 0 /\ NStep(d, x) = 0 /\ KStep(d, x) = 0
    BY <1>6, FirstSteps
  <2>2. 0 * tm = 0 /\ 0 * tn = 0 /\ 0 * tk = 0
    BY <1>2
  <2>. QED BY <2>1, <2>2, TileSides
<1>. QED BY <1>1, <1>3, <1>4, <1>5, <1>6 DEF FirstTileFits
-----------------------------------------------------------------------------
(* The plan, and the depths it has reached. *)

\* The tiles of the plan of d from the x-th on.
Rest(d, x) == [y \in 1..(TilesOf(d) + 1 - x) |-> TileAt(d, x - 1 + y)]

\* The rest of a plan is what the loop of run has in hand: all of the plan
\* at first, nothing after the last tile, one tile less after each.
LEMMA RestFacts ==
    ASSUME NEW d \in DescriptorType, Validate(d)
    PROVE  /\ Rest(d, 1) = PlanOf(d) /\ Rest(d, TilesOf(d) + 1) = <<>>
           /\ \A x \in 1..(TilesOf(d) + 1) :
                 /\ Rest(d, x) \in Seq(TileType) /\ Len(Rest(d, x)) = TilesOf(d) + 1 - x
                 /\ (Rest(d, x) = <<>>) <=> (x = TilesOf(d) + 1)
           /\ \A x \in 1..TilesOf(d) :
                 /\ Head(Rest(d, x)) = TileAt(d, x)
                 /\ Tail(Rest(d, x)) = Rest(d, x + 1)
<1>. DEFINE T == TilesOf(d)
<1>1. T \in Nat \ {0}
  BY StepCounts
<1>2. \A x \in 1..T : TileAt(d, x) \in TileType
  BY TileSides
<1>. HIDE DEF T
<1>3. ASSUME NEW x \in 1..(T + 1)
      PROVE  Rest(d, x) \in Seq(TileType) /\ Len(Rest(d, x)) = T + 1 - x
  <2>1. T + 1 - x \in Nat /\ \A y \in 1..(T + 1 - x) : x - 1 + y \in 1..T
    BY <1>1
  <2>. DEFINE l == T + 1 - x
              s == [y \in 1..l |-> TileAt(d, x - 1 + y)]
  <2>2. s = Rest(d, x)
    BY DEF Rest, T
  <2>. HIDE DEF l
  <2>3. l \in Nat /\ \A y \in 1..l : TileAt(d, x - 1 + y) \in TileType
    BY <1>2, <2>1 DEF l
  <2>4. s \in Seq(TileType) /\ Len(s) = l
    BY <2>3
  <2>. QED BY <2>2, <2>4 DEF l
<1>4. ASSUME NEW x \in 1..(T + 1) PROVE (Rest(d, x) = <<>>) <=> (x = T + 1)
  <2>1. Rest(d, x) \in Seq(TileType) /\ Len(Rest(d, x)) = T + 1 - x
    BY <1>3
  <2>2. (Rest(d, x) = <<>>) <=> (Len(Rest(d, x)) = 0)
    BY <2>1
  <2>. QED BY <1>1, <2>1, <2>2
<1>5. ASSUME NEW x \in 1..T
      PROVE  Head(Rest(d, x)) = TileAt(d, x) /\ Tail(Rest(d, x)) = Rest(d, x + 1)
  <2>. DEFINE s == Rest(d, x)
              u == Rest(d, x + 1)
  <2>1. x \in 1..(T + 1) /\ x + 1 \in 1..(T + 1) /\ T + 1 - x >= 1 /\ x - 1 + 1 = x
    BY <1>1
  <2>2. /\ s \in Seq(TileType) /\ Len(s) = T + 1 - x
        /\ u \in Seq(TileType) /\ Len(u) = T + 1 - (x + 1)
    BY <1>3, <2>1
  <2>3. /\ \A y \in 1..(T + 1 - x) : s[y] = TileAt(d, x - 1 + y)
        /\ \A y \in 1..(T + 1 - (x + 1)) : u[y] = TileAt(d, (x + 1) - 1 + y)
    BY DEF Rest, T
  <2>4. Head(s) = TileAt(d, x)
    <3>1. Head(s) = s[1]
      BY <2>1, <2>2
    <3>2. 1 \in 1..(T + 1 - x)
      BY <1>1, <2>1
    <3>. QED BY <2>1, <2>3, <3>1, <3>2
  <2>5. Tail(s) \in Seq(TileType) /\ Len(Tail(s)) = T - x /\ \A y \in 1..(T - x) : Tail(s)[y] = s[y + 1]
    <3>. HIDE DEF s
    <3>1. s # <<>> /\ Len(s) - 1 = T - x
      BY <1>1, <2>1, <2>2
    <3>2. Tail(s) \in Seq(TileType) /\ Len(Tail(s)) = Len(s) - 1
      BY <2>2, <3>1
    <3>3. \A y \in 1..(Len(s) - 1) : Tail(s)[y] = s[y + 1]
      BY <2>2, <3>1
    <3>. QED BY <3>1, <3>2, <3>3
  <2>6. Len(u) = T - x
    BY <1>1, <2>2
  <2>7. \A y \in 1..(T - x) : Tail(s)[y] = u[y]
    <3>. TAKE y \in 1..(T - x)
    <3>1. y + 1 \in 1..(T + 1 - x) /\ y \in 1..(T + 1 - (x + 1)) /\ x - 1 + (y + 1) = (x + 1) - 1 + y
      BY <1>1
    <3>. QED BY <2>3, <2>5, <3>1
  <2>. HIDE DEF s, u
  <2>8. Tail(s) = u
    BY <2>2, <2>5, <2>6, <2>7
  <2>. QED BY <2>4, <2>8 DEF s, u
<1>6. Rest(d, 1) = PlanOf(d)
  <2>1. T + 1 - 1 = T /\ \A y \in 1..T : 1 - 1 + y = y
    BY <1>1
  <2>. QED BY <2>1 DEF Rest, PlanOf, T
<1>7. T + 1 \in 1..(T + 1)
  BY <1>1
<1>. QED BY <1>3, <1>4, <1>5, <1>6, <1>7 DEF T

\* How far the first x - 1 tiles of the plan have taken the cell i, j of C.
Depth(d, x, i, j) ==
    Max({0} \cup {t.k0 + t.kLen : t \in
            {u \in {PlanOf(d)[y] : y \in 1..(x - 1)} :
                i \in u.m0..(u.m0 + u.mLen - 1) /\ j \in u.n0..(u.n0 + u.nLen - 1)}})

\* The ends of the tiles of cell i, j among the first x - 1.
Ends(d, x, i, j) ==
    {TileAt(d, y).k0 + TileAt(d, y).kLen : y \in {z \in 1..(x - 1) : InBlock(TileAt(d, z), i, j)}}

\* The depth of a cell is the greatest of these ends, or 0.
LEMMA DepthEnds ==
    ASSUME NEW d \in DescriptorType, Validate(d), NEW x \in 1..(TilesOf(d) + 1), NEW i, NEW j
    PROVE  /\ Depth(d, x, i, j) = Max({0} \cup Ends(d, x, i, j))
           /\ {0} \cup Ends(d, x, i, j) \in SUBSET Int
<1>1. TilesOf(d) \in Nat
  BY StepCounts
<1>2. \A y \in 1..(x - 1) : y \in 1..TilesOf(d)
  BY <1>1
<1>3. \A y \in 1..(x - 1) : PlanOf(d)[y] = TileAt(d, y) /\ TileAt(d, y) \in TileType
  BY <1>2, TileSides DEF PlanOf
<1>4. {t.k0 + t.kLen : t \in
            {u \in {PlanOf(d)[y] : y \in 1..(x - 1)} :
                i \in u.m0..(u.m0 + u.mLen - 1) /\ j \in u.n0..(u.n0 + u.nLen - 1)}}
      = Ends(d, x, i, j)
  BY <1>3 DEF Ends, InBlock
<1>5. \A y \in 1..(x - 1) : TileAt(d, y).k0 + TileAt(d, y).kLen \in Nat
  BY <1>3 DEF TileType
<1>6. {0} \cup Ends(d, x, i, j) \in SUBSET Int
  BY <1>5 DEF Ends
<1>7. Depth(d, x, i, j) = Max({0} \cup Ends(d, x, i, j))
  BY <1>4, Zenon DEF Depth
<1>. QED BY <1>6, <1>7

\* Before the first tile every cell is at depth 0.
LEMMA DepthFirst ==
    ASSUME NEW d \in DescriptorType, Validate(d), NEW i, NEW j
    PROVE  Depth(d, 1, i, j) = 0
<1>1. 1 \in 1..(TilesOf(d) + 1)
  BY StepCounts
<1>2. Ends(d, 1, i, j) = {}
  BY DEF Ends
<1>3. Max({0}) = 0
  BY MaxIs
<1>. QED BY <1>1, <1>2, <1>3, DepthEnds

\* A tile leaves the cells outside its block at their depth.
LEMMA DepthElsewhere ==
    ASSUME NEW d \in DescriptorType, Validate(d), NEW x \in 1..TilesOf(d), NEW i, NEW j,
           ~InBlock(TileAt(d, x), i, j)
    PROVE  Depth(d, x + 1, i, j) = Depth(d, x, i, j)
<1>1. x \in 1..(TilesOf(d) + 1) /\ x + 1 \in 1..(TilesOf(d) + 1)
  BY StepCounts
<1>2. 1..((x + 1) - 1) = 1..(x - 1) \cup {x}
  OBVIOUS
<1>3. Ends(d, x + 1, i, j) = Ends(d, x, i, j)
  BY <1>2 DEF Ends
<1>. QED BY <1>1, <1>3, DepthEnds

\* A tile starts where the earlier ones of its block end, and ends last.
LEMMA DepthAtTile ==
    ASSUME NEW d \in DescriptorType, Validate(d), NEW x \in 1..TilesOf(d), NEW i \in Int, NEW j \in Int,
           InBlock(TileAt(d, x), i, j)
    PROVE  /\ Depth(d, x, i, j) = TileAt(d, x).k0
           /\ Depth(d, x + 1, i, j) = TileAt(d, x).k0 + TileAt(d, x).kLen
<1>. DEFINE t == TileAt(d, x)
            q == t.k0
            e == t.k0 + t.kLen
<1>0. TilesOf(d) \in Nat /\ x \in 1..(TilesOf(d) + 1) /\ x + 1 \in 1..(TilesOf(d) + 1)
  BY StepCounts
<1>1. q \in Nat /\ e \in Nat /\ q <= e
  <2>1. t \in TileType
    BY TileSides
  <2>. HIDE DEF t
  <2>. QED BY <2>1 DEF TileType
<1>2. \A y \in 1..(x - 1) : InBlock(TileAt(d, y), i, j) => TileAt(d, y).k0 + TileAt(d, y).kLen <= q
  <2>. SUFFICES ASSUME NEW y \in 1..(x - 1), InBlock(TileAt(d, y), i, j)
                PROVE  TileAt(d, y).k0 + TileAt(d, y).kLen <= q
    OBVIOUS
  <2>1. y \in 1..TilesOf(d) /\ y < x
    BY <1>0
  <2>. QED BY <2>1, SameBlock, EarlierDepth
<1>3. q # 0 => \E y \in 1..(x - 1) : InBlock(TileAt(d, y), i, j) /\ TileAt(d, y).k0 + TileAt(d, y).kLen = q
  <2>. SUFFICES ASSUME q # 0
                PROVE  \E y \in 1..(x - 1) : InBlock(TileAt(d, y), i, j) /\ TileAt(d, y).k0 + TileAt(d, y).kLen = q
    OBVIOUS
  <2>1. x - 1 \in 1..TilesOf(d) /\ InBlock(TileAt(d, x - 1), i, j)
        /\ TileAt(d, x - 1).k0 + TileAt(d, x - 1).kLen = q
    BY DepthBefore DEF InBlock
  <2>2. x - 1 \in 1..(x - 1)
    BY <2>1
  <2>. QED BY <2>1, <2>2
<1>. HIDE DEF t, q, e
<1>4. Depth(d, x, i, j) = q
  <2>. DEFINE S == {0} \cup Ends(d, x, i, j)
  <2>1. S \in SUBSET Int
    BY <1>0, DepthEnds
  <2>2. q \in S
    BY <1>3 DEF Ends
  <2>3. \A v \in S : v <= q
    BY <1>1, <1>2 DEF Ends
  <2>. HIDE DEF S
  <2>4. Max(S) = q
    BY <2>1, <2>2, <2>3, MaxIs
  <2>. QED BY <1>0, <2>4, DepthEnds DEF S
<1>5. Depth(d, x + 1, i, j) = e
  <2>. DEFINE S == {0} \cup Ends(d, x + 1, i, j)
  <2>1. S \in SUBSET Int
    BY <1>0, DepthEnds
  <2>2. e \in Ends(d, x + 1, i, j)
    <3>1. x \in 1..((x + 1) - 1)
      OBVIOUS
    <3>. QED BY <3>1 DEF Ends, e, t
  <2>3. \A y \in 1..((x + 1) - 1) : InBlock(TileAt(d, y), i, j) => TileAt(d, y).k0 + TileAt(d, y).kLen <= e
    <3>. SUFFICES ASSUME NEW y \in 1..((x + 1) - 1), InBlock(TileAt(d, y), i, j)
                  PROVE  TileAt(d, y).k0 + TileAt(d, y).kLen <= e
      OBVIOUS
    <3>1. CASE y = x
      BY <1>1, <3>1 DEF e, t
    <3>2. CASE y # x
      <4>1. y \in 1..(x - 1)
        BY <3>2
      <4>2. y \in 1..TilesOf(d)
        BY <1>0
      <4>3. TileAt(d, y).k0 + TileAt(d, y).kLen \in Nat
        <5>1. TileAt(d, y) \in TileType
          BY <4>2, TileSides
        <5>. QED BY <5>1 DEF TileType
      <4>4. TileAt(d, y).k0 + TileAt(d, y).kLen <= q
        BY <1>2, <4>1
      <4>. QED BY <1>1, <4>3, <4>4
    <3>. QED BY <3>1, <3>2
  <2>4. \A v \in S : v <= e
    BY <1>1, <2>3 DEF Ends
  <2>5. e \in S
    BY <2>2
  <2>. HIDE DEF S
  <2>6. Max(S) = e
    BY <2>1, <2>4, <2>5, MaxIs
  <2>. QED BY <1>0, <2>6, DepthEnds DEF S
<1>. QED BY <1>4, <1>5 DEF q, e, t

\* The whole plan takes every cell to the full depth.
LEMMA DepthLast ==
    ASSUME NEW d \in DescriptorType, Validate(d), NEW i \in 0..(d.m - 1), NEW j \in 0..(d.n - 1)
    PROVE  Depth(d, TilesOf(d) + 1, i, j) = d.k
<1>. DEFINE T == TilesOf(d)
            S == {0} \cup Ends(d, T + 1, i, j)
<1>0. T \in Nat /\ T + 1 \in 1..(T + 1) /\ 1..((T + 1) - 1) = 1..T
  BY StepCounts
<1>1. S \in SUBSET Int
  BY <1>0, DepthEnds
<1>2. d.k \in Nat
  BY ValidNumbers
<1>3. d.k \in S
  BY <1>0, DeepTile DEF Ends
<1>4. \A y \in 1..T : TileAt(d, y).k0 + TileAt(d, y).kLen <= d.k
  BY TileSides
<1>5. \A v \in S : v <= d.k
  BY <1>0, <1>2, <1>4 DEF Ends
<1>. HIDE DEF S
<1>6. Max(S) = d.k
  BY <1>1, <1>3, <1>5, MaxIs
<1>. QED BY <1>0, <1>6, DepthEnds DEF S
-----------------------------------------------------------------------------
(* The inductive invariant. *)

\* The number of the tile the loop of run is at.
At == TilesOf(desc) + 1 - Len(todo)

\* What run found, and the descriptors submit lets through.
Found ==
    /\ mem0 \in Memory /\ perf0 \in PerfType /\ state0 \in NpuStates /\ error0 \in NpuErrors
    /\ desc = DefaultDescriptor \/ Validate(desc)

\* In a run the checks of run hold, and the rest of the plan is left to do.
InRun ==
    phase # "idle" =>
        /\ Validate(desc) /\ bound /\ InMemory(desc)
        /\ At \in 1..TilesOf(desc) /\ todo = Rest(desc, At)

\* A tile past the first check is one of a plan whose tiles all fit.
Checked ==
    phase # "idle" /\ (At # 1 \/ phase # "loadA") => FirstTileFits(desc)

\* What the current tile has added to the counters so far.
InTile ==
    [cycles |-> IF phase = "store" THEN tile.mLen + tile.nLen + tile.kLen - 2 ELSE 0,
     reads |-> (IF phase = "loadA" THEN 0 ELSE tile.kLen * tile.mLen)
                 + (IF phase \in {"loadA", "loadB"} THEN 0 ELSE tile.nLen * tile.kLen)
                 + (IF phase \in {"loadA", "loadB", "loadC"} \/ tile.k0 = 0 THEN 0
                    ELSE tile.nLen * tile.mLen),
     writes |-> 0,
     macs |-> IF phase = "store" THEN tile.mLen * tile.nLen * tile.kLen ELSE 0]

Counting ==
    phase # "idle" => perf = Plus(Plus(perf0, Counted(desc, At)), InTile)

\* A run writes C only, and nothing before the first store.
OnlyC ==
    phase # "idle" =>
        /\ At = 1 => mem = mem0
        /\ \A w \in Addresses : w \notin CRegion(desc) => mem[w] = mem0[w]

\* The buffers hold the tile's operands, and the sums C had.
AHeld ==
    phase \in {"loadB", "loadC", "compute"} =>
        \A i \in 0..(tile.mLen - 1), p \in 0..(tile.kLen - 1) :
            ATile(i, p) = mem[AAt(desc, tile.m0 + i, tile.k0 + p)]

BHeld ==
    phase \in {"loadC", "compute"} =>
        \A p \in 0..(tile.kLen - 1), j \in 0..(tile.nLen - 1) :
            BTile(p, j) = mem[BAt(desc, tile.k0 + p, tile.n0 + j)]

CHeld ==
    phase = "compute" /\ tile.k0 # 0 =>
        \A i \in 0..(tile.mLen - 1), j \in 0..(tile.nLen - 1) :
            output[i * tile.nLen + j] = mem[CAt(desc, tile.m0 + i, tile.n0 + j)]

\* The sum the tile stores in cell i, j of its block, from the memory.
NewSum(i, j) ==
    (IF tile.k0 # 0 THEN mem[CAt(desc, tile.m0 + i, tile.n0 + j)] ELSE 0)
        + SumFunction([p \in 0..(tile.kLen - 1) |->
              mem[AAt(desc, tile.m0 + i, tile.k0 + p)] * mem[BAt(desc, tile.k0 + p, tile.n0 + j)]])

SumsReady ==
    phase = "store" =>
        \A i \in 0..(tile.mLen - 1), j \in 0..(tile.nLen - 1) :
            output[i * tile.nLen + j] = NewSum(i, j)

Buffers == AHeld /\ BHeld /\ CHeld /\ SumsReady

IInv ==
    /\ TypeOK /\ StatusConsistent /\ Found /\ InRun /\ Checked /\ Counting /\ OnlyC
    /\ Buffers /\ PartialSums

\* The current tile of a run.
LEMMA CurrentTile ==
    ASSUME TypeOK, InRun, phase # "idle"
    PROVE  /\ desc \in DescriptorType /\ Validate(desc) /\ InMemory(desc)
           /\ At \in 1..TilesOf(desc) /\ TilesOf(desc) \in Nat \ {0}
           /\ todo = Rest(desc, At)
           /\ tile = TileAt(desc, At) /\ Tail(todo) = Rest(desc, At + 1)
           /\ (Tail(todo) = <<>>) <=> (At = TilesOf(desc))
           /\ Len(Tail(todo)) = TilesOf(desc) - At /\ Tail(todo) \in Seq(TileType)
           /\ todo # <<>>
<1>1. desc \in DescriptorType
  <2>1. DefaultDescriptor \in DescriptorType
    BY ArrayAssumption DEF DefaultDescriptor, DescriptorType, Modes
  <2>. QED BY <2>1, ControllerAssumption DEF TypeOK
<1>2. Validate(desc) /\ InMemory(desc) /\ At \in 1..TilesOf(desc) /\ todo = Rest(desc, At)
  BY DEF InRun
<1>3. TilesOf(desc) \in Nat \ {0}
  BY <1>1, <1>2, StepCounts
<1>4. At + 1 \in 1..(TilesOf(desc) + 1) /\ At \in 1..(TilesOf(desc) + 1)
  BY <1>2, <1>3
<1>5. tile = TileAt(desc, At) /\ Tail(todo) = Rest(desc, At + 1)
  BY <1>1, <1>2, RestFacts DEF tile
<1>6. /\ (Rest(desc, At + 1) = <<>>) <=> (At + 1 = TilesOf(desc) + 1)
      /\ Len(Rest(desc, At + 1)) = TilesOf(desc) + 1 - (At + 1)
      /\ Rest(desc, At + 1) \in Seq(TileType)
      /\ (Rest(desc, At) = <<>>) <=> (At = TilesOf(desc) + 1)
  BY <1>1, <1>2, <1>4, RestFacts
<1>. DEFINE T == TilesOf(desc)
            x == At
<1>7. T \in Nat \ {0} /\ x \in 1..T
  BY <1>2, <1>3
<1>. HIDE DEF T, x
<1>8. (x + 1 = T + 1 <=> x = T) /\ x # T + 1 /\ T + 1 - (x + 1) = T - x
  BY <1>7
<1>. QED BY <1>1, <1>2, <1>3, <1>5, <1>6, <1>8 DEF T, x

\* Its numbers.
LEMMA TileNumbersNow ==
    ASSUME TypeOK, InRun, phase # "idle"
    PROVE  /\ tile \in TileType
           /\ tile.m0 \in Nat /\ tile.n0 \in Nat /\ tile.k0 \in Nat
           /\ tile.mLen \in Nat \ {0} /\ tile.nLen \in Nat \ {0} /\ tile.kLen \in Nat \ {0}
           /\ tile.m0 + tile.mLen <= desc.m /\ tile.n0 + tile.nLen <= desc.n
           /\ tile.k0 + tile.kLen <= desc.k
           /\ SidesFit(desc.mode, tile.mLen, tile.nLen, tile.kLen)
           /\ FirstTileFits(desc) => TileFitsBuffers
           /\ At = 1 => /\ tile.m0 = 0 /\ tile.n0 = 0 /\ tile.k0 = 0
                        /\ FirstTileFits(desc) = TileFitsBuffers
BY CurrentTile, TileInside DEF TileFitsBuffers

\* The four transfers of a tile that fits the buffers are accepted, and move
\* the tile's words of A, B and C.
Moves(req, rows, len) ==
    /\ Accepted(req) /\ Apart(req) /\ req.rows = rows /\ req.length = len

\* The load of A moves the tile's words of A.
LEMMA MovesA ==
    ASSUME TypeOK, InRun, phase # "idle", TileFitsBuffers
    PROVE  /\ Moves(RequestA, tile.mLen, tile.kLen)
           /\ \A i \in 0..(tile.mLen - 1), p \in 0..(tile.kLen - 1) :
                 /\ SrcAddr(RequestA, i, p) = AAt(desc, tile.m0 + i, tile.k0 + p)
                 /\ DstAddr(RequestA, i, p) = i * tile.kLen + p /\ i * tile.kLen + p \in Slots
<1>1. desc \in DescriptorType /\ Validate(desc) /\ InMemory(desc)
  BY CurrentTile
<1>2. IsBlock(desc.A, WordAddr(desc.A), desc.m, desc.k, tile.m0, tile.k0, tile.mLen, tile.kLen)
  <2>1. /\ desc.A \in Nat /\ desc.m \in Nat /\ desc.k \in Nat \ {0}
    BY <1>1, ValidNumbers
  <2>2. /\ WordAddr(desc.A) \in Nat /\ desc.A = WordBytes * WordAddr(desc.A)
        /\ WordAddr(desc.A) + desc.m * desc.k <= MemWords
    BY <1>1, MatricesInside
  <2>. QED BY <2>1, <2>2, TileNumbersNow DEF IsBlock
<1>3. tile.mLen * tile.kLen <= BufferSize
  BY DEF TileFitsBuffers, FitsBuffers
<1>4. RequestA = Request("DRAM_TO_BUFFER",
                         (desc.A + WordBytes * (tile.m0 * desc.k + tile.k0)) % Word, 0,
                         tile.kLen, tile.mLen, desc.k, tile.kLen)
  BY DEF RequestA, DramA
<1>. QED BY <1>2, <1>3, <1>4, BlockIn DEF Moves, AAt

\* The load of B.
LEMMA MovesB ==
    ASSUME TypeOK, InRun, phase # "idle", TileFitsBuffers
    PROVE  /\ Moves(RequestB, tile.kLen, tile.nLen)
           /\ \A p \in 0..(tile.kLen - 1), j \in 0..(tile.nLen - 1) :
                 /\ SrcAddr(RequestB, p, j) = BAt(desc, tile.k0 + p, tile.n0 + j)
                 /\ DstAddr(RequestB, p, j) = p * tile.nLen + j /\ p * tile.nLen + j \in Slots
<1>1. desc \in DescriptorType /\ Validate(desc) /\ InMemory(desc)
  BY CurrentTile
<1>2. IsBlock(desc.B, WordAddr(desc.B), desc.k, desc.n, tile.k0, tile.n0, tile.kLen, tile.nLen)
  <2>1. /\ desc.B \in Nat /\ desc.k \in Nat /\ desc.n \in Nat \ {0}
    BY <1>1, ValidNumbers
  <2>2. /\ WordAddr(desc.B) \in Nat /\ desc.B = WordBytes * WordAddr(desc.B)
        /\ WordAddr(desc.B) + desc.k * desc.n <= MemWords
    BY <1>1, MatricesInside
  <2>. QED BY <2>1, <2>2, TileNumbersNow DEF IsBlock
<1>3. tile.kLen * tile.nLen <= BufferSize
  BY DEF TileFitsBuffers, FitsBuffers
<1>4. RequestB = Request("DRAM_TO_BUFFER",
                         (desc.B + WordBytes * (tile.k0 * desc.n + tile.n0)) % Word, 0,
                         tile.nLen, tile.kLen, desc.n, tile.nLen)
  BY DEF RequestB, DramB
<1>. QED BY <1>2, <1>3, <1>4, BlockIn DEF Moves, BAt

\* The block of C that a tile reads and writes is a block of the matrix.
LEMMA BlockC ==
    ASSUME TypeOK, InRun, phase # "idle", TileFitsBuffers
    PROVE  /\ IsBlock(desc.C, WordAddr(desc.C), desc.m, desc.n, tile.m0, tile.n0, tile.mLen, tile.nLen)
           /\ tile.mLen * tile.nLen <= BufferSize
<1>1. desc \in DescriptorType /\ Validate(desc) /\ InMemory(desc)
  BY CurrentTile
<1>2. /\ desc.C \in Nat /\ desc.m \in Nat /\ desc.n \in Nat \ {0}
  BY <1>1, ValidNumbers
<1>3. /\ WordAddr(desc.C) \in Nat /\ desc.C = WordBytes * WordAddr(desc.C)
      /\ WordAddr(desc.C) + desc.m * desc.n <= MemWords
  BY <1>1, MatricesInside
<1>4. IsBlock(desc.C, WordAddr(desc.C), desc.m, desc.n, tile.m0, tile.n0, tile.mLen, tile.nLen)
  BY <1>2, <1>3, TileNumbersNow DEF IsBlock
<1>. QED BY <1>4 DEF TileFitsBuffers, FitsBuffers

\* The load of the sums of C.
LEMMA MovesCIn ==
    ASSUME TypeOK, InRun, phase # "idle", TileFitsBuffers
    PROVE  /\ Moves(RequestCIn, tile.mLen, tile.nLen)
           /\ \A i \in 0..(tile.mLen - 1), j \in 0..(tile.nLen - 1) :
                 /\ SrcAddr(RequestCIn, i, j) = CAt(desc, tile.m0 + i, tile.n0 + j)
                 /\ DstAddr(RequestCIn, i, j) = i * tile.nLen + j /\ i * tile.nLen + j \in Slots
<1>4. RequestCIn = Request("DRAM_TO_BUFFER",
                           (desc.C + WordBytes * (tile.m0 * desc.n + tile.n0)) % Word, 0,
                           tile.nLen, tile.mLen, desc.n, tile.nLen)
  BY DEF RequestCIn, DramC
<1>. QED BY <1>4, BlockC, BlockIn DEF Moves, CAt

\* The store of the new sums.
LEMMA MovesCOut ==
    ASSUME TypeOK, InRun, phase # "idle", TileFitsBuffers
    PROVE  /\ Moves(RequestCOut, tile.mLen, tile.nLen)
           /\ \A i \in 0..(tile.mLen - 1), j \in 0..(tile.nLen - 1) :
                 /\ DstAddr(RequestCOut, i, j) = CAt(desc, tile.m0 + i, tile.n0 + j)
                 /\ SrcAddr(RequestCOut, i, j) = i * tile.nLen + j /\ i * tile.nLen + j \in Slots
<1>4. RequestCOut = Request("BUFFER_TO_DRAM",
                            (desc.C + WordBytes * (tile.m0 * desc.n + tile.n0)) % Word, 0,
                            tile.nLen, tile.mLen, tile.nLen, desc.n)
  BY DEF RequestCOut, DramC
<1>. QED BY <1>4, BlockC, BlockOut DEF Moves, CAt

\* The indices of a tile are indices of the matrices.
LEMMA TileIndices ==
    ASSUME TypeOK, InRun, phase # "idle"
    PROVE  /\ \A i \in 0..(tile.mLen - 1) : tile.m0 + i \in 0..(desc.m - 1)
           /\ \A j \in 0..(tile.nLen - 1) : tile.n0 + j \in 0..(desc.n - 1)
           /\ \A p \in 0..(tile.kLen - 1) : tile.k0 + p \in 0..(desc.k - 1)
<1>1. desc.m \in Nat /\ desc.n \in Nat /\ desc.k \in Nat
  BY CurrentTile, ValidNumbers
<1>. DEFINE a == tile.m0
            b == tile.mLen
            c == tile.n0
            d == tile.nLen
            e == tile.k0
            f == tile.kLen
<1>2. /\ a \in Nat /\ b \in Nat /\ c \in Nat /\ d \in Nat /\ e \in Nat /\ f \in Nat
      /\ a + b <= desc.m /\ c + d <= desc.n /\ e + f <= desc.k
  BY TileNumbersNow
<1>. HIDE DEF a, b, c, d, e, f
<1>3. /\ \A i \in 0..(b - 1) : a + i \in 0..(desc.m - 1)
      /\ \A j \in 0..(d - 1) : c + j \in 0..(desc.n - 1)
      /\ \A p \in 0..(f - 1) : e + p \in 0..(desc.k - 1)
  BY <1>1, <1>2
<1>. QED BY <1>3 DEF a, b, c, d, e, f
-----------------------------------------------------------------------------
(* The invariant is inductive. *)

\* The controller starts in the invariant.
LEMMA InitIInv == Init => IInv
<1>. SUFFICES ASSUME Init PROVE IInv
  OBVIOUS
<1>1. ZeroPerf \in PerfType /\ EmptyBuffer \in Buffer /\ <<>> \in Seq(TileType)
  BY DEF ZeroPerf, PerfType, EmptyBuffer, Buffer
<1>2. TypeOK /\ StatusConsistent /\ Found
  BY <1>1, ControllerAssumption
     DEF Init, TypeOK, StatusConsistent, Found, NpuStates, NpuErrors
<1>. QED
  BY <1>2 DEF Init, IInv, InRun, Checked, Counting, OnlyC, Buffers, AHeld, BHeld, CHeld, SumsReady, PartialSums

\* Outside a run there is nothing to say of its progress.
LEMMA IdleNext ==
    ASSUME phase' = "idle"
    PROVE  /\ InRun' /\ Checked' /\ Counting' /\ OnlyC' /\ Buffers' /\ PartialSums'
BY DEF InRun, Checked, Counting, OnlyC, Buffers, AHeld, BHeld, CHeld, SumsReady, PartialSums

\* A call is counted within the bound.
LEMMA CallCounts ==
    ASSUME TypeOK, Call
    PROVE  calls' \in 0..MaxCalls
BY ControllerAssumption DEF TypeOK, Call

\* submit keeps the invariant, whether it takes the descriptor or not.
LEMMA SubmitIInv ==
    ASSUME IInv, NEW d \in Descriptors, Submit(d)
    PROVE  IInv'
<1>1. phase' = "idle" /\ phase = "idle"
  BY DEF Submit, Call
<1>2. TypeOK'
  BY CallCounts DEF IInv, TypeOK, Submit, Fail, NpuStates, NpuErrors, buffers
<1>3. StatusConsistent'
  BY DEF IInv, StatusConsistent, Submit, Call, Fail
<1>4. Found'
  BY DEF IInv, Found, Submit, history
<1>. QED BY <1>1, <1>2, <1>3, <1>4, IdleNext DEF IInv

\* Loading words leaves a memory of words.
LEMMA LoadedType ==
    ASSUME NEW m \in Memory, NEW base, NEW data \in Seq(Int)
    PROVE  Loaded(m, base, data) \in Memory
<1>1. ASSUME NEW w \in Addresses, w - base \in 0..(Len(data) - 1)
      PROVE  data[w - base + 1] \in Int
  <2>. DEFINE v == w - base
  <2>1. v + 1 \in 1..Len(data)
    BY <1>1
  <2>. QED BY <2>1
<1>. QED BY <1>1 DEF Loaded, Memory

\* load_weight_data and load_input_data keep it.
LEMMA LoadIInv ==
    ASSUME IInv, NEW base, NEW data \in Payloads, Load(base, data)
    PROVE  IInv'
<1>1. phase' = "idle" /\ phase = "idle"
  BY DEF Load, Call
<1>2. data \in Seq(Int) /\ Len(data) \in Nat
  BY ControllerAssumption
<1>3. mem' \in Memory
  BY <1>2, LoadedType DEF IInv, TypeOK, Load
<1>4. perf' \in PerfType
  <2>1. perf \in PerfType
    BY DEF IInv, TypeOK
  <2>2. perf' = perf \/ perf' = [perf EXCEPT !.writes = @ + Len(data)]
    BY DEF Load
  <2>. QED BY <1>2, <2>1, <2>2 DEF PerfType
<1>5. TypeOK'
  <2>1. state' \in NpuStates /\ error' \in NpuErrors
    BY DEF IInv, TypeOK, Load, Fail, NpuStates, NpuErrors, status
  <2>. QED BY <1>3, <1>4, <2>1, CallCounts DEF IInv, TypeOK, Load, buffers
<1>6. StatusConsistent'
  BY DEF IInv, StatusConsistent, Load, Call, Fail, status
<1>7. Found'
  BY DEF IInv, Found, Load, history
<1>. QED BY <1>1, <1>5, <1>6, <1>7, IdleNext DEF IInv

\* The operations that touch the status, the readback or the binding alone.
LEMMA SmallIInv ==
    ASSUME IInv,
           \/ LoadNull
           \/ \E len \in Lengths : ReadOutputData(len)
           \/ \E b \in BOOLEAN : BindMemory(b)
    PROVE  IInv'
<1>1. phase' = "idle" /\ phase = "idle"
  BY DEF LoadNull, ReadOutputData, BindMemory, Call
<1>2. TypeOK'
  <2>1. TypeOK /\ Call
    BY DEF IInv, LoadNull, ReadOutputData, BindMemory
  <2>2. calls' \in 0..MaxCalls
    BY <2>1, CallCounts
  <2>3. /\ UNCHANGED <<mem, desc, perf, buffers, todo, phase>>
        /\ bound' \in BOOLEAN /\ state' \in NpuStates /\ error' \in NpuErrors
    BY <2>1 DEF TypeOK, LoadNull, ReadOutputData, BindMemory, Fail, NpuStates, NpuErrors, status
  <2>. QED BY <2>1, <2>2, <2>3 DEF TypeOK, buffers
<1>3. StatusConsistent'
  BY DEF IInv, StatusConsistent, LoadNull, ReadOutputData, BindMemory, Call, Fail, status
<1>4. Found'
  BY DEF IInv, Found, LoadNull, ReadOutputData, BindMemory, history
<1>. QED BY <1>1, <1>2, <1>3, <1>4, IdleNext DEF IInv

\* reset keeps it.
LEMMA ResetIInv ==
    ASSUME IInv, Reset
    PROVE  IInv'
<1>1. phase' = "idle" /\ phase = "idle"
  BY DEF Reset, Call
<1>2. ZeroPerf \in PerfType /\ EmptyBuffer \in Buffer
  BY DEF ZeroPerf, PerfType, EmptyBuffer, Buffer
<1>3. TypeOK'
  BY <1>2, CallCounts DEF IInv, TypeOK, Reset, NpuStates, NpuErrors
<1>4. StatusConsistent'
  BY DEF IInv, StatusConsistent, Reset, Call
<1>5. Found'
  BY DEF IInv, Found, Reset, history
<1>. QED BY <1>1, <1>3, <1>4, <1>5, IdleNext DEF IInv

\* The fields of the counters.
LEMMA CountedNumbers ==
    ASSUME NEW d \in DescriptorType, Validate(d), NEW x \in 1..TilesOf(d)
    PROVE  Counted(d, x) \in [cycles : Int, reads : Int, writes : Int, macs : Int]
<1>. DEFINE t == TileAt(d, x)
            e == IF KStep(d, x) = 0 THEN 0 ELSE KStep(d, x) - 1
<1>1. /\ t.m0 \in Int /\ t.n0 \in Int /\ t.k0 \in Int
      /\ t.mLen \in Int /\ t.nLen \in Int /\ t.kLen \in Int
      /\ MStep(d, x) \in Int /\ NStep(d, x) \in Int /\ KStep(d, x) \in Int
      /\ NSteps(d) \in Int /\ KSteps(d) \in Int /\ d.n \in Int /\ d.k \in Int /\ x \in Int
      /\ e \in Int
  BY TileNumbers
<1>. HIDE DEF t, e
<1>2. CyclesBefore(NSteps(d), KSteps(d), d.n, d.k, MStep(d, x), NStep(d, x), KStep(d, x),
                   t.m0, t.n0, t.k0, t.mLen, t.nLen, x - 1) \in Int
  BY <1>1 DEF CyclesBefore
<1>3. ReadsBefore(NSteps(d), KSteps(d), d.n, d.k, MStep(d, x), NStep(d, x), e,
                  t.m0, t.n0, t.k0, t.mLen, t.nLen) \in Int
  BY <1>1 DEF ReadsBefore
<1>4. WritesBefore(KSteps(d), d.n, KStep(d, x), t.m0, t.n0, t.mLen, t.nLen) \in Int
  BY <1>1 DEF WritesBefore
<1>5. MacsBefore(d.n, d.k, t.m0, t.n0, t.k0, t.mLen, t.nLen) \in Int
  BY <1>1 DEF MacsBefore
<1>. QED BY <1>2, <1>3, <1>4, <1>5 DEF Counted, t, e

\* run keeps it, refused or started: a started run has done no tile.
LEMMA RunIInv ==
    ASSUME IInv, Run
    PROVE  IInv'
<1>0. /\ TypeOK /\ StatusConsistent /\ Found /\ phase = "idle"
      /\ mem' = mem /\ bound' = bound /\ desc' = desc /\ perf' = perf
      /\ mem0' = mem /\ perf0' = perf /\ state0' = state /\ error0' = error
      /\ calls' \in 0..MaxCalls
      /\ input' = input /\ weight' = weight /\ output' = output
  BY CallCounts DEF IInv, Run, Call, buffers
<1>1. Found'
  BY <1>0 DEF TypeOK, Found
<1>2. CASE phase' = "idle"
  <2>1. todo' = todo /\ state' = "ERROR" /\ error' \in {"INVALID_DESC", "OUT_OF_RANGE"}
    BY <1>2 DEF Run, Fail
  <2>2. TypeOK'
    BY <1>0, <1>2, <2>1 DEF TypeOK, NpuStates, NpuErrors
  <2>3. StatusConsistent'
    BY <1>2, <2>1 DEF StatusConsistent
  <2>. QED BY <1>1, <1>2, <2>2, <2>3, IdleNext DEF IInv
<1>3. CASE phase' # "idle"
  <2>1. /\ Validate(desc) /\ bound /\ InMemory(desc)
        /\ state' = "BUSY" /\ error' = "NONE" /\ todo' = PlanOf(desc) /\ phase' = "loadA"
    BY <1>0, <1>3 DEF Run
  <2>2. desc \in DescriptorType
    <3>1. DefaultDescriptor \in DescriptorType
      BY ArrayAssumption DEF DefaultDescriptor, DescriptorType, Modes
    <3>. QED BY <1>0, <3>1, ControllerAssumption DEF TypeOK
  <2>3. /\ TilesOf(desc) \in Nat \ {0} /\ PlanOf(desc) = Rest(desc, 1)
        /\ Rest(desc, 1) \in Seq(TileType) /\ Len(Rest(desc, 1)) = TilesOf(desc) + 1 - 1
        /\ Rest(desc, 1) # <<>>
    <3>1. TilesOf(desc) \in Nat \ {0}
      BY <2>1, <2>2, StepCounts
    <3>2. 1 \in 1..(TilesOf(desc) + 1) /\ 1 # TilesOf(desc) + 1
      BY <3>1
    <3>. QED BY <2>1, <2>2, <3>1, <3>2, RestFacts
  <2>4. At' = 1
    <3>. DEFINE T == TilesOf(desc)
    <3>1. At' = T + 1 - (T + 1 - 1) /\ T \in Nat
      BY <1>0, <2>1, <2>3 DEF At
    <3>. HIDE DEF T
    <3>. QED BY <3>1
  <2>5. TypeOK'
    BY <1>0, <2>1, <2>3 DEF TypeOK, NpuStates, NpuErrors, RunPhases
  <2>6. StatusConsistent'
    BY <2>1 DEF StatusConsistent
  <2>7. InRun'
    <3>1. 1 \in 1..TilesOf(desc)
      BY <2>3
    <3>. QED BY <1>0, <2>1, <2>3, <2>4, <3>1 DEF InRun
  <2>8. Checked'
    BY <2>1, <2>4 DEF Checked
  <2>9. Counting'
    <3>1. Counted(desc, 1) = ZeroPerf
      BY <2>1, <2>2, CountedFirst
    <3>2. InTile' = ZeroPerf
      BY <2>1 DEF InTile, ZeroPerf
    <3>3. Plus(Plus(perf, ZeroPerf), ZeroPerf) = perf
      <4>1. perf \in PerfType
        BY <1>0 DEF TypeOK
      <4>. QED BY <4>1 DEF Plus, ZeroPerf, PerfType
    <3>. QED BY <1>0, <2>4, <3>1, <3>2, <3>3 DEF Counting
  <2>10. OnlyC'
    BY <1>0 DEF OnlyC
  <2>11. Buffers'
    BY <2>1 DEF Buffers, AHeld, BHeld, CHeld, SumsReady
  <2>12. PartialSums'
    <3>1. ASSUME NEW i, NEW j PROVE DepthDone(i, j)' = 0
      <4>. DEFINE T == TilesOf(desc)
      <4>1. TilesOf(desc)' - Len(todo)' = 1 - 1
        <5>1. TilesOf(desc)' - Len(todo)' = T - (T + 1 - 1) /\ T \in Nat
          BY <1>0, <2>1, <2>3
        <5>. HIDE DEF T
        <5>. QED BY <5>1
      <4>2. DepthDone(i, j)' = Depth(desc, 1, i, j)
        BY <1>0, <4>1 DEF DepthDone, DoneTiles, Depth
      <4>. QED BY <2>1, <2>2, <4>2, DepthFirst
    <3>. QED BY <1>0, <3>1 DEF PartialSums
  <2>. QED BY <1>1, <2>5, <2>6, <2>7, <2>8, <2>9, <2>10, <2>11, <2>12 DEF IInv
<1>. QED BY <1>2, <1>3
-----------------------------------------------------------------------------
(* The steps of run_tile. *)

\* Checked and TileFitsBuffers are one thing once the first tile has passed.
LEMMA FitsFromCheck ==
    ASSUME TypeOK, InRun, Checked, phase # "idle"
    PROVE  /\ phase # "loadA" => TileFitsBuffers /\ FirstTileFits(desc)
           /\ TileFitsBuffers <=> FirstTileFits(desc)
BY TileNumbersNow DEF Checked

\* The end of a run that failed.
LEMMA FailIInv ==
    ASSUME IInv, NEW why \in NpuErrors \ {"NONE"}, TileFails(why),
           perf' = perf, mem' = mem, UNCHANGED <<bound, desc, calls, history>>,
           input' \in Buffer, weight' \in Buffer, output' \in Buffer
    PROVE  IInv'
<1>1. phase' = "idle" /\ todo' = <<>> /\ state' = "ERROR" /\ error' = why
  BY DEF TileFails, Fail
<1>2. <<>> \in Seq(TileType)
  OBVIOUS
<1>3. TypeOK'
  BY <1>1, <1>2 DEF IInv, TypeOK, NpuStates, NpuErrors
<1>4. StatusConsistent'
  BY <1>1 DEF StatusConsistent
<1>5. Found'
  BY DEF IInv, Found, history
<1>. QED BY <1>1, <1>3, <1>4, <1>5, IdleNext DEF IInv

\* Inside a tile the memory, the plan and what run found stay.
MidStep ==
    /\ phase # "idle" /\ phase' \in RunPhases
    /\ UNCHANGED <<mem, bound, desc, status, todo, calls, history>>

\* Such a step keeps what the invariant says of them.
LEMMA MidIInv ==
    ASSUME IInv, MidStep
    PROVE  /\ tile' = tile /\ At' = At /\ desc' = desc /\ mem' = mem /\ perf0' = perf0
           /\ StatusConsistent' /\ Found' /\ InRun' /\ OnlyC' /\ PartialSums'
<1>. USE DEF IInv, MidStep, history, status, RunPhases
<1>1. tile' = tile /\ At' = At /\ desc' = desc /\ mem' = mem /\ perf0' = perf0 /\ mem0' = mem0
  BY DEF tile, At
<1>2. StatusConsistent'
  BY DEF StatusConsistent
<1>3. Found'
  BY DEF Found
<1>4. InRun'
  BY <1>1 DEF InRun
<1>5. OnlyC'
  BY <1>1 DEF OnlyC
<1>6. PartialSums'
  <2>1. \A i, j : DepthDone(i, j)' = DepthDone(i, j)
    BY DEF DepthDone, DoneTiles
  <2>. QED BY <1>1, <2>1 DEF PartialSums
<1>. QED BY <1>1, <1>2, <1>3, <1>4, <1>5, <1>6

\* The counters that a step adds to InTile are added to perf.
PerfInts == [cycles : Int, reads : Int, writes : Int, macs : Int]

\* What a tile adds to the counters are numbers.
LEMMA InTileNumbers ==
    ASSUME TypeOK, InRun, phase # "idle"
    PROVE  /\ InTile \in PerfInts
           /\ tile.kLen * tile.mLen \in Nat /\ tile.nLen * tile.kLen \in Nat
           /\ tile.nLen * tile.mLen \in Nat /\ tile.mLen * tile.nLen * tile.kLen \in Nat
           /\ tile.mLen + tile.nLen + tile.kLen - 2 \in Nat
<1>. DEFINE a == tile.mLen
            b == tile.nLen
            c == tile.kLen
<1>1. a \in Nat \ {0} /\ b \in Nat \ {0} /\ c \in Nat \ {0}
  BY TileNumbersNow
<1>. HIDE DEF a, b, c
<1>2. c * a \in Nat /\ b * c \in Nat /\ b * a \in Nat /\ a * b * c \in Nat /\ a + b + c - 2 \in Nat
  BY <1>1
<1>. DEFINE ca == c * a
            bc == b * c
            ba == b * a
            abc == a * b * c
            cy == a + b + c - 2
<1>. HIDE DEF ca, bc, ba, abc, cy
<1>3. ca \in Nat /\ bc \in Nat /\ ba \in Nat /\ abc \in Nat /\ cy \in Nat
  BY <1>2 DEF ca, bc, ba, abc, cy
<1>4. InTile = [cycles |-> IF phase = "store" THEN cy ELSE 0,
                reads |-> (IF phase = "loadA" THEN 0 ELSE ca)
                            + (IF phase \in {"loadA", "loadB"} THEN 0 ELSE bc)
                            + (IF phase \in {"loadA", "loadB", "loadC"} \/ tile.k0 = 0 THEN 0 ELSE ba),
                writes |-> 0,
                macs |-> IF phase = "store" THEN abc ELSE 0]
  BY DEF InTile, ca, bc, ba, abc, cy, a, b, c
<1>5. InTile \in PerfInts
  BY <1>3, <1>4 DEF PerfInts
<1>. QED BY <1>2, <1>5 DEF a, b, c

\* A step that counts what it adds to InTile keeps Counting.
LEMMA CountingStep ==
    ASSUME IInv, phase # "idle",
           NEW cy \in Int, NEW rd \in Int, NEW ma \in Int,
           perf' = [cycles |-> perf.cycles + cy, reads |-> perf.reads + rd,
                    writes |-> perf.writes, macs |-> perf.macs + ma],
           InTile' = [cycles |-> InTile.cycles + cy, reads |-> InTile.reads + rd,
                      writes |-> InTile.writes, macs |-> InTile.macs + ma],
           At' = At, desc' = desc, perf0' = perf0
    PROVE  Counting'
<1>. DEFINE q == Counted(desc, At)
            s == InTile
            p == perf0
<1>1. q \in PerfInts
  BY CurrentTile, CountedNumbers DEF IInv, PerfInts
<1>2. s \in PerfInts
  BY InTileNumbers DEF IInv
<1>3. p \in PerfType
  BY DEF IInv, Found
<1>4. perf = Plus(Plus(p, q), s)
  BY DEF IInv, Counting
<1>5. Counted(desc, At)' = q
  OBVIOUS
<1>. HIDE DEF p, q, s
<1>6. perf = [cycles |-> p.cycles + q.cycles + s.cycles, reads |-> p.reads + q.reads + s.reads,
              writes |-> p.writes + q.writes + s.writes, macs |-> p.macs + q.macs + s.macs]
  BY <1>4 DEF Plus
<1>7. perf' = [cycles |-> p.cycles + q.cycles + (s.cycles + cy), reads |-> p.reads + q.reads + (s.reads + rd),
               writes |-> p.writes + q.writes + s.writes, macs |-> p.macs + q.macs + (s.macs + ma)]
  BY <1>1, <1>2, <1>3, <1>6 DEF PerfInts, PerfType
<1>8. perf' = Plus(Plus(p, q), InTile')
  BY <1>7 DEF Plus, s
<1>. QED BY <1>5, <1>8 DEF Counting, p

\* A transfer that reads rows times len words of the memory into the first
\* slots of a buffer.
Reads(req, rows, len) ==
    /\ Moves(req, rows, len) /\ rows \in Nat \ {0} /\ len \in Nat \ {0}
    /\ \A r \in 0..(rows - 1), c \in 0..(len - 1) :
           /\ SrcAddr(req, r, c) \in Addresses
           /\ DstAddr(req, r, c) = r * len + c /\ r * len + c \in Slots

\* Such a transfer leaves the words in the buffer, row by row.
LEMMA ReadBlock ==
    ASSUME NEW req, NEW rows, NEW len, Reads(req, rows, len),
           NEW src \in Memory, NEW dst \in Buffer
    PROVE  /\ Transferred(req, src, dst) \in Buffer
           /\ \A r \in 0..(rows - 1), c \in 0..(len - 1) :
                 Transferred(req, src, dst)[r * len + c] = src[SrcAddr(req, r, c)]
<1>0. /\ Moves(req, rows, len) /\ rows \in Nat \ {0} /\ len \in Nat \ {0}
      /\ \A r \in 0..(rows - 1), c \in 0..(len - 1) :
             /\ SrcAddr(req, r, c) \in Addresses
             /\ DstAddr(req, r, c) = r * len + c /\ r * len + c \in Slots
  BY DEF Reads
<1>1. Apart(req) /\ req.rows = rows /\ req.length = len
  BY <1>0 DEF Moves
<1>2. Transferred(req, src, dst) \in Buffer
  <2>1. Slots \in SUBSET Int /\ dst \in [Slots -> Int]
    BY MemoryAssumption DEF Slots, Buffer
  <2>2. \A r \in 0..(req.rows - 1), c \in 0..(req.length - 1) : src[SrcAddr(req, r, c)] \in Int
    BY <1>0, <1>1 DEF Memory
  <2>. QED BY <1>1, <2>1, <2>2, TransferredType DEF Buffer
<1>3. ASSUME NEW r \in 0..(rows - 1), NEW c \in 0..(len - 1)
      PROVE  Transferred(req, src, dst)[r * len + c] = src[SrcAddr(req, r, c)]
  <2>1. DstAddr(req, r, c) = r * len + c /\ r * len + c \in DOMAIN dst
    BY <1>0 DEF Buffer
  <2>2. r \in 0..(req.rows - 1) /\ c \in 0..(req.length - 1)
    BY <1>1
  <2>3. Transferred(req, src, dst)[DstAddr(req, r, c)] = src[SrcAddr(req, r, c)]
    BY <1>1, <2>1, <2>2, MovedWord
  <2>. QED BY <2>1, <2>3
<1>. QED BY <1>2, <1>3

\* The cells a tile reads are words of the memory.
LEMMA TileCells ==
    ASSUME TypeOK, InRun, phase # "idle"
    PROVE  /\ \A i \in 0..(tile.mLen - 1), p \in 0..(tile.kLen - 1) :
                 /\ AAt(desc, tile.m0 + i, tile.k0 + p) \in ARegion(desc)
                 /\ AAt(desc, tile.m0 + i, tile.k0 + p) \in Addresses
           /\ \A p \in 0..(tile.kLen - 1), j \in 0..(tile.nLen - 1) :
                 /\ BAt(desc, tile.k0 + p, tile.n0 + j) \in BRegion(desc)
                 /\ BAt(desc, tile.k0 + p, tile.n0 + j) \in Addresses
           /\ \A i \in 0..(tile.mLen - 1), j \in 0..(tile.nLen - 1) :
                 /\ CAt(desc, tile.m0 + i, tile.n0 + j) \in CRegion(desc)
                 /\ CAt(desc, tile.m0 + i, tile.n0 + j) \in Addresses
<1>1. desc \in DescriptorType /\ Validate(desc) /\ InMemory(desc)
  BY CurrentTile
<1>2. /\ \A i \in 0..(tile.mLen - 1) : tile.m0 + i \in 0..(desc.m - 1)
      /\ \A j \in 0..(tile.nLen - 1) : tile.n0 + j \in 0..(desc.n - 1)
      /\ \A p \in 0..(tile.kLen - 1) : tile.k0 + p \in 0..(desc.k - 1)
  BY TileIndices
<1>3. /\ \A i \in 0..(desc.m - 1), p \in 0..(desc.k - 1) : AAt(desc, i, p) \in ARegion(desc)
      /\ \A p \in 0..(desc.k - 1), j \in 0..(desc.n - 1) : BAt(desc, p, j) \in BRegion(desc)
      /\ \A i \in 0..(desc.m - 1), j \in 0..(desc.n - 1) : CAt(desc, i, j) \in CRegion(desc)
      /\ ARegion(desc) \subseteq Addresses
      /\ BRegion(desc) \subseteq Addresses
      /\ CRegion(desc) \subseteq Addresses
  BY <1>1, RegionCells
<1>. HIDE DEF ARegion, BRegion, CRegion, AAt, BAt, CAt
<1>. QED BY <1>2, <1>3

\* The three loads of a tile read the tile's words of A, B and C.
LEMMA TileReads ==
    ASSUME TypeOK, InRun, phase # "idle", TileFitsBuffers
    PROVE  /\ Reads(RequestA, tile.mLen, tile.kLen)
           /\ Reads(RequestB, tile.kLen, tile.nLen)
           /\ Reads(RequestCIn, tile.mLen, tile.nLen)
<1>1. Reads(RequestA, tile.mLen, tile.kLen)
  BY MovesA, TileCells, TileNumbersNow DEF Reads
<1>2. Reads(RequestB, tile.kLen, tile.nLen)
  BY MovesB, TileCells, TileNumbersNow DEF Reads
<1>3. Reads(RequestCIn, tile.mLen, tile.nLen)
  BY MovesCIn, TileCells, TileNumbersNow DEF Reads
<1>. QED BY <1>1, <1>2, <1>3

\* What the steps of a tile rest on.
LEMMA InTileFacts ==
    ASSUME IInv, phase # "idle"
    PROVE  /\ TypeOK /\ InRun /\ Checked /\ StatusConsistent
           /\ mem \in Memory /\ perf \in PerfType
           /\ input \in Buffer /\ weight \in Buffer /\ output \in Buffer
           /\ tile.mLen \in Nat \ {0} /\ tile.nLen \in Nat \ {0} /\ tile.kLen \in Nat \ {0}
           /\ tile.kLen * tile.mLen \in Nat /\ tile.nLen * tile.kLen \in Nat
           /\ tile.nLen * tile.mLen \in Nat /\ tile.mLen * tile.nLen * tile.kLen \in Nat
           /\ tile.mLen + tile.nLen + tile.kLen - 2 \in Nat
BY TileNumbersNow, InTileNumbers DEF IInv, TypeOK

\* A step inside a tile that counts cy cycles, rd reads and ma products.
Counts(cy, rd, ma) ==
    perf' = [cycles |-> perf.cycles + cy, reads |-> perf.reads + rd,
             writes |-> perf.writes, macs |-> perf.macs + ma]

\* Counting keeps the counters counters.
LEMMA CountsType ==
    ASSUME TypeOK, NEW cy \in Nat, NEW rd \in Nat, NEW ma \in Nat, Counts(cy, rd, ma)
    PROVE  perf' \in PerfType
<1>1. perf \in PerfType
  BY DEF TypeOK
<1>. QED BY <1>1 DEF Counts, PerfType

\* A load counts reads only.
LEMMA CountsReads ==
    ASSUME TypeOK, NEW rd \in Nat, Count("reads", rd)
    PROVE  Counts(0, rd, 0)
<1>1. perf \in [cycles : Nat, reads : Nat, writes : Nat, macs : Nat]
  BY DEF TypeOK, PerfType
<1>2. perf' = [perf EXCEPT !.reads = perf.reads + rd]
  BY DEF Count
<1>3. perf' = [cycles |-> perf.cycles, reads |-> perf.reads + rd,
               writes |-> perf.writes, macs |-> perf.macs]
  BY <1>1, <1>2
<1>4. perf.cycles + 0 = perf.cycles /\ perf.macs + 0 = perf.macs
  BY <1>1
<1>. QED BY <1>3, <1>4 DEF Counts

\* A step inside a tile keeps the invariant when it keeps the types, counts
\* what it adds to InTile and leaves in the buffers what Buffers says.
LEMMA MidStepIInv ==
    ASSUME IInv, MidStep, NEW cy \in Nat, NEW rd \in Nat, NEW ma \in Nat, Counts(cy, rd, ma),
           InTile' = [cycles |-> InTile.cycles + cy, reads |-> InTile.reads + rd,
                      writes |-> InTile.writes, macs |-> InTile.macs + ma],
           input' \in Buffer, weight' \in Buffer, output' \in Buffer,
           TileFitsBuffers, Buffers'
    PROVE  IInv'
<1>1. /\ tile' = tile /\ At' = At /\ desc' = desc /\ mem' = mem /\ perf0' = perf0
      /\ StatusConsistent' /\ Found' /\ InRun' /\ OnlyC' /\ PartialSums'
  BY MidIInv
<1>2. phase # "idle" /\ phase' # "idle" /\ TypeOK /\ InRun /\ Checked
  BY DEF MidStep, IInv, RunPhases
<1>3. TypeOK'
  <2>1. perf' \in PerfType
    BY <1>2, CountsType
  <2>. QED BY <1>2, <2>1 DEF TypeOK, MidStep, status
<1>4. Checked'
  <2>1. FirstTileFits(desc)
    BY <1>2, FitsFromCheck
  <2>. QED BY <1>1, <2>1 DEF Checked
<1>5. Counting'
  BY <1>1, <1>2, CountingStep DEF Counts
<1>. QED BY <1>1, <1>3, <1>4, <1>5 DEF IInv

\* The load of A keeps the invariant; a tile that exceeds a buffer ends the run.
LEMMA LoadAIInv ==
    ASSUME IInv, LoadA
    PROVE  IInv'
<1>0. phase = "loadA" /\ phase # "idle"
  BY DEF LoadA
<1>1. CASE ~TileFitsBuffers
  <2>1. /\ TileFails("OUT_OF_RANGE") /\ perf' = perf /\ mem' = mem
        /\ UNCHANGED <<bound, desc, calls, history>>
        /\ input' = input /\ weight' = weight /\ output' = output
    BY <1>1 DEF LoadA
  <2>2. "OUT_OF_RANGE" \in NpuErrors \ {"NONE"}
    BY DEF NpuErrors
  <2>. QED BY <1>0, <2>1, <2>2, FailIInv, InTileFacts
<1>2. CASE TileFitsBuffers
  <2>1. Moves(RequestA, tile.mLen, tile.kLen)
    BY <1>0, <1>2, MovesA, InTileFacts
  <2>2. /\ input' = Transferred(RequestA, mem, input) /\ Count("reads", tile.kLen * tile.mLen)
        /\ phase' = "loadB" /\ weight' = weight /\ output' = output
        /\ UNCHANGED <<mem, bound, desc, status, todo, calls, history>>
    BY <1>2, <2>1 DEF LoadA, Moves
  <2>3. MidStep
    BY <1>0, <2>2 DEF MidStep, RunPhases
  <2>4. tile' = tile /\ mem' = mem /\ desc' = desc
    BY <2>2 DEF tile
  <2>5. /\ Transferred(RequestA, mem, input) \in Buffer
        /\ \A i \in 0..(tile.mLen - 1), p \in 0..(tile.kLen - 1) :
              Transferred(RequestA, mem, input)[i * tile.kLen + p] = mem[SrcAddr(RequestA, i, p)]
    BY <1>0, <1>2, TileReads, ReadBlock, InTileFacts
  <2>6. Buffers'
    <3>1. AHeld'
      <4>1. \A i \in 0..(tile.mLen - 1), p \in 0..(tile.kLen - 1) :
                SrcAddr(RequestA, i, p) = AAt(desc, tile.m0 + i, tile.k0 + p)
        BY <1>0, <1>2, MovesA, InTileFacts
      <4>. QED BY <2>2, <2>4, <2>5, <4>1 DEF AHeld, ATile
    <3>2. BHeld' /\ CHeld' /\ SumsReady'
      BY <2>2 DEF BHeld, CHeld, SumsReady
    <3>. QED BY <3>1, <3>2 DEF Buffers
  <2>7. Counts(0, tile.kLen * tile.mLen, 0)
    BY <1>0, <2>2, CountsReads, InTileFacts
  <2>8. InTile' = [cycles |-> InTile.cycles + 0, reads |-> InTile.reads + tile.kLen * tile.mLen,
                   writes |-> InTile.writes, macs |-> InTile.macs + 0]
    <3>. DEFINE ca == tile.kLen * tile.mLen
    <3>1. ca \in Nat
      BY <1>0, InTileFacts
    <3>2. InTile = [cycles |-> 0, reads |-> 0 + 0 + 0, writes |-> 0, macs |-> 0]
      BY <1>0 DEF InTile
    <3>3. InTile' = [cycles |-> 0, reads |-> ca + 0 + 0, writes |-> 0, macs |-> 0]
      BY <2>2, <2>4 DEF InTile
    <3>. HIDE DEF ca
    <3>4. InTile' = [cycles |-> InTile.cycles + 0, reads |-> InTile.reads + ca,
                     writes |-> InTile.writes, macs |-> InTile.macs + 0]
      BY <3>1, <3>2, <3>3
    <3>. QED BY <3>4 DEF ca
  <2>. QED BY <1>0, <1>2, <2>2, <2>3, <2>5, <2>6, <2>7, <2>8, MidStepIInv, InTileFacts
<1>. QED BY <1>1, <1>2

\* The load of B keeps it: its request is accepted.
LEMMA LoadBIInv ==
    ASSUME IInv, LoadB
    PROVE  IInv'
<1>0. phase = "loadB" /\ phase # "idle"
  BY DEF LoadB
<1>1. TileFitsBuffers
  BY <1>0, InTileFacts, FitsFromCheck
<1>2. Moves(RequestB, tile.kLen, tile.nLen)
  BY <1>0, <1>1, MovesB, InTileFacts
<1>3. /\ weight' = Transferred(RequestB, mem, weight) /\ Count("reads", tile.nLen * tile.kLen)
      /\ phase' = "loadC" /\ input' = input /\ output' = output
      /\ UNCHANGED <<mem, bound, desc, status, todo, calls, history>>
  BY <1>2 DEF LoadB, Moves
<1>4. MidStep
  BY <1>0, <1>3 DEF MidStep, RunPhases
<1>5. tile' = tile /\ mem' = mem /\ desc' = desc
  BY <1>3 DEF tile
<1>6. /\ Transferred(RequestB, mem, weight) \in Buffer
      /\ \A p \in 0..(tile.kLen - 1), j \in 0..(tile.nLen - 1) :
            Transferred(RequestB, mem, weight)[p * tile.nLen + j] = mem[SrcAddr(RequestB, p, j)]
  BY <1>0, <1>1, TileReads, ReadBlock, InTileFacts
<1>7. Buffers'
  <2>1. AHeld'
    BY <1>0, <1>3, <1>5 DEF IInv, Buffers, AHeld, ATile
  <2>2. BHeld'
    <3>1. \A p \in 0..(tile.kLen - 1), j \in 0..(tile.nLen - 1) :
              SrcAddr(RequestB, p, j) = BAt(desc, tile.k0 + p, tile.n0 + j)
      BY <1>0, <1>1, MovesB, InTileFacts
    <3>. QED BY <1>3, <1>5, <1>6, <3>1 DEF BHeld, BTile
  <2>3. CHeld' /\ SumsReady'
    BY <1>3 DEF CHeld, SumsReady
  <2>. QED BY <2>1, <2>2, <2>3 DEF Buffers
<1>8. Counts(0, tile.nLen * tile.kLen, 0)
  BY <1>0, <1>3, CountsReads, InTileFacts
<1>9. InTile' = [cycles |-> InTile.cycles + 0, reads |-> InTile.reads + tile.nLen * tile.kLen,
                 writes |-> InTile.writes, macs |-> InTile.macs + 0]
  <2>. DEFINE ca == tile.kLen * tile.mLen
              bc == tile.nLen * tile.kLen
  <2>1. ca \in Nat /\ bc \in Nat
    BY <1>0, InTileFacts
  <2>2. InTile = [cycles |-> 0, reads |-> ca + 0 + 0, writes |-> 0, macs |-> 0]
    BY <1>0 DEF InTile
  <2>3. InTile' = [cycles |-> 0, reads |-> ca + bc + 0, writes |-> 0, macs |-> 0]
    BY <1>3, <1>5 DEF InTile
  <2>. HIDE DEF ca, bc
  <2>4. InTile' = [cycles |-> InTile.cycles + 0, reads |-> InTile.reads + bc,
                   writes |-> InTile.writes, macs |-> InTile.macs + 0]
    BY <2>1, <2>2, <2>3
  <2>. QED BY <2>4 DEF bc
<1>. QED BY <1>0, <1>1, <1>3, <1>4, <1>6, <1>7, <1>8, <1>9, MidStepIInv, InTileFacts

\* The load of C keeps it, with and without sums to read back.
LEMMA LoadCIInv ==
    ASSUME IInv, LoadC
    PROVE  IInv'
<1>0. phase = "loadC" /\ phase # "idle"
  BY DEF LoadC
<1>1. TileFitsBuffers
  BY <1>0, InTileFacts, FitsFromCheck
<1>2. Moves(RequestCIn, tile.mLen, tile.nLen)
  BY <1>0, <1>1, MovesCIn, InTileFacts
<1>3. /\ phase' = "compute" /\ input' = input /\ weight' = weight
      /\ UNCHANGED <<mem, bound, desc, status, todo, calls, history>>
      /\ tile.k0 = 0 => output' = EmptyBuffer /\ perf' = perf
      /\ tile.k0 # 0 => /\ output' = Transferred(RequestCIn, mem, EmptyBuffer)
                        /\ Count("reads", tile.nLen * tile.mLen)
  BY <1>2 DEF LoadC, Moves
<1>4. MidStep
  BY <1>0, <1>3 DEF MidStep, RunPhases
<1>5. tile' = tile /\ mem' = mem /\ desc' = desc
  BY <1>3 DEF tile
<1>6. EmptyBuffer \in Buffer
  BY DEF EmptyBuffer, Buffer
<1>7. /\ Transferred(RequestCIn, mem, EmptyBuffer) \in Buffer
      /\ \A i \in 0..(tile.mLen - 1), j \in 0..(tile.nLen - 1) :
            Transferred(RequestCIn, mem, EmptyBuffer)[i * tile.nLen + j] = mem[SrcAddr(RequestCIn, i, j)]
  BY <1>0, <1>1, <1>6, TileReads, ReadBlock, InTileFacts
<1>8. Buffers'
  <2>1. AHeld' /\ BHeld'
    BY <1>0, <1>3, <1>5 DEF IInv, Buffers, AHeld, BHeld, ATile, BTile
  <2>2. CHeld'
    <3>1. \A i \in 0..(tile.mLen - 1), j \in 0..(tile.nLen - 1) :
              SrcAddr(RequestCIn, i, j) = CAt(desc, tile.m0 + i, tile.n0 + j)
      BY <1>0, <1>1, MovesCIn, InTileFacts
    <3>. QED BY <1>3, <1>5, <1>7, <3>1 DEF CHeld
  <2>3. SumsReady'
    BY <1>3 DEF SumsReady
  <2>. QED BY <2>1, <2>2, <2>3 DEF Buffers
<1>. DEFINE ca == tile.kLen * tile.mLen
            bc == tile.nLen * tile.kLen
            ba == tile.nLen * tile.mLen
            rd == IF tile.k0 = 0 THEN 0 ELSE ba
<1>9. Counts(0, rd, 0) /\ ca \in Nat /\ bc \in Nat /\ rd \in Nat
  <2>1. ca \in Nat /\ bc \in Nat /\ ba \in Nat /\ TypeOK
    BY <1>0, InTileFacts
  <2>2. CASE tile.k0 = 0
    <3>1. Counts(0, 0, 0)
      <4>1. perf' = perf /\ perf \in PerfType
        BY <1>3, <2>1, <2>2 DEF TypeOK
      <4>. QED BY <4>1 DEF Counts, PerfType
    <3>. QED BY <2>1, <2>2, <3>1
  <2>3. CASE tile.k0 # 0
    <3>1. Counts(0, ba, 0)
      BY <1>3, <2>1, <2>3, CountsReads
    <3>. QED BY <2>1, <2>3, <3>1
  <2>. QED BY <2>2, <2>3
<1>10. InTile' = [cycles |-> InTile.cycles + 0, reads |-> InTile.reads + rd,
                  writes |-> InTile.writes, macs |-> InTile.macs + 0]
  <2>2. InTile = [cycles |-> 0, reads |-> ca + bc + 0, writes |-> 0, macs |-> 0]
    BY <1>0 DEF InTile
  <2>3. InTile' = [cycles |-> 0, reads |-> ca + bc + rd, writes |-> 0, macs |-> 0]
    BY <1>3, <1>5 DEF InTile
  <2>. HIDE DEF ca, bc, rd
  <2>. QED BY <1>9, <2>2, <2>3
<1>11. output' \in Buffer /\ input' \in Buffer /\ weight' \in Buffer
  BY <1>0, <1>3, <1>6, <1>7, InTileFacts
<1>. HIDE DEF rd
<1>. QED BY <1>1, <1>4, <1>8, <1>9, <1>10, <1>11, MidStepIInv

\* The sums the array returns are those of the memory's words.
LEMMA SumsOfMemory ==
    ASSUME IInv, phase = "compute", NEW i \in 0..(tile.mLen - 1), NEW j \in 0..(tile.nLen - 1)
    PROVE  TileSum(i, j) = NewSum(i, j) /\ TileSum(i, j) \in Int
<1>0. phase # "idle" /\ TypeOK /\ InRun /\ mem \in Memory /\ tile.kLen \in Nat
  BY InTileFacts
<1>. DEFINE F == [p \in 0..(tile.kLen - 1) |-> ATile(i, p) * BTile(p, j)]
            G == [p \in 0..(tile.kLen - 1) |->
                     mem[AAt(desc, tile.m0 + i, tile.k0 + p)] * mem[BAt(desc, tile.k0 + p, tile.n0 + j)]]
            c == IF tile.k0 # 0 THEN mem[CAt(desc, tile.m0 + i, tile.n0 + j)] ELSE 0
<1>1. F = G
  <2>1. \A p \in 0..(tile.kLen - 1) :
            /\ ATile(i, p) = mem[AAt(desc, tile.m0 + i, tile.k0 + p)]
            /\ BTile(p, j) = mem[BAt(desc, tile.k0 + p, tile.n0 + j)]
    BY DEF IInv, Buffers, AHeld, BHeld
  <2>. QED BY <2>1
<1>2. CTile(i, j) = c
  BY DEF IInv, Buffers, CHeld, CTile
<1>3. c \in Int
  <2>1. CAt(desc, tile.m0 + i, tile.n0 + j) \in Addresses
    BY <1>0, TileCells
  <2>. QED BY <1>0, <2>1 DEF Memory
<1>4. SumFunction(G) \in Int
  <2>1. IsFiniteSet(0..(tile.kLen - 1))
    BY <1>0, FS_Interval
  <2>2. \A p \in 0..(tile.kLen - 1) : G[p] \in Int
    <3>. TAKE p \in 0..(tile.kLen - 1)
    <3>1. /\ AAt(desc, tile.m0 + i, tile.k0 + p) \in Addresses
          /\ BAt(desc, tile.k0 + p, tile.n0 + j) \in Addresses
      BY <1>0, TileCells
    <3>. DEFINE a == mem[AAt(desc, tile.m0 + i, tile.k0 + p)]
                b == mem[BAt(desc, tile.k0 + p, tile.n0 + j)]
    <3>2. a \in Int /\ b \in Int
      BY <1>0, <3>1 DEF Memory
    <3>3. G[p] = a * b
      OBVIOUS
    <3>. HIDE DEF a, b, G
    <3>. QED BY <3>2, <3>3
  <2>3. DOMAIN G = 0..(tile.kLen - 1)
    OBVIOUS
  <2>. HIDE DEF G
  <2>. QED BY <2>1, <2>2, <2>3, SumInteger DEF SumFunction
<1>5. TileSum(i, j) = CTile(i, j) + SumFunction(F)
  BY DEF TileSum
<1>6. NewSum(i, j) = c + SumFunction(G)
  BY DEF NewSum
<1>. HIDE DEF c, F, G
<1>. QED BY <1>1, <1>2, <1>3, <1>4, <1>5, <1>6

\* The slots a tile fills.
LEMMA TileSlots ==
    ASSUME NEW rows \in Nat \ {0}, NEW len \in Nat \ {0}, rows * len <= BufferSize
    PROVE  /\ \A i \in 0..(rows - 1), j \in 0..(len - 1) :
                 /\ i * len + j \in Slots /\ i * len + j < rows * len
                 /\ (i * len + j) \div len = i /\ (i * len + j) % len = j
           /\ \A s \in Slots : s < rows * len => s \div len \in 0..(rows - 1) /\ s % len \in 0..(len - 1)
<1>1. ASSUME NEW i \in 0..(rows - 1), NEW j \in 0..(len - 1)
      PROVE  /\ i * len + j \in Slots /\ i * len + j < rows * len
             /\ (i * len + j) \div len = i /\ (i * len + j) % len = j
  <2>. DEFINE s == i * len + j
              z == rows * len
  <2>1. s \in 0..(z - 1) /\ z \in Nat
    BY CellInside
  <2>2. s \div len = i /\ s % len = j
    BY Quotient
  <2>3. BufferSize \in Nat
    BY MemoryAssumption
  <2>4. z <= BufferSize
    OBVIOUS
  <2>. HIDE DEF s, z
  <2>5. s \in Slots /\ s < z
    BY <2>1, <2>3, <2>4 DEF Slots
  <2>. QED BY <2>2, <2>5 DEF s, z
<1>2. ASSUME NEW s \in Slots, s < rows * len
      PROVE  s \div len \in 0..(rows - 1) /\ s % len \in 0..(len - 1)
  <2>. DEFINE z == rows * len
  <2>1. z \in Nat /\ s < z
    BY <1>2
  <2>2. s \in Nat
    BY DEF Slots
  <2>. HIDE DEF z
  <2>3. s \in 0..(z - 1)
    BY <2>1, <2>2
  <2>. QED BY <2>3, CellOf DEF z
<1>. QED BY <1>1, <1>2

\* The array keeps it: the tile fits it, and the output buffer takes the sums.
LEMMA ComputeIInv ==
    ASSUME IInv, Compute
    PROVE  IInv'
<1>0. phase = "compute" /\ phase # "idle"
  BY DEF Compute
<1>1. TileFitsBuffers /\ SidesFit(desc.mode, tile.mLen, tile.nLen, tile.kLen)
  BY <1>0, InTileFacts, FitsFromCheck, TileNumbersNow
<1>. DEFINE cy == tile.mLen + tile.nLen + tile.kLen - 2
            ma == tile.mLen * tile.nLen * tile.kLen
<1>2. /\ output' = [s \in Slots |->
             IF s < tile.mLen * tile.nLen THEN TileSum(s \div tile.nLen, s % tile.nLen) ELSE 0]
      /\ perf' = [perf EXCEPT !.cycles = @ + tile.mLen + tile.nLen + tile.kLen - 2,
                              !.macs = @ + ma]
      /\ phase' = "store" /\ input' = input /\ weight' = weight
      /\ UNCHANGED <<mem, bound, desc, status, todo, calls, history>>
  BY <1>1 DEF Compute
<1>3. MidStep
  BY <1>0, <1>2 DEF MidStep, RunPhases
<1>4. tile' = tile /\ mem' = mem /\ desc' = desc
  BY <1>2 DEF tile
<1>5. \A i \in 0..(tile.mLen - 1), j \in 0..(tile.nLen - 1) :
          TileSum(i, j) = NewSum(i, j) /\ TileSum(i, j) \in Int
  BY <1>0, SumsOfMemory
<1>6. /\ \A i \in 0..(tile.mLen - 1), j \in 0..(tile.nLen - 1) : output'[i * tile.nLen + j] = TileSum(i, j)
      /\ output' \in Buffer
  <2>. DEFINE rows == tile.mLen
              len == tile.nLen
  <2>1. rows \in Nat \ {0} /\ len \in Nat \ {0}
    BY <1>0, InTileFacts
  <2>2. rows * len <= BufferSize
    BY <1>1 DEF TileFitsBuffers, FitsBuffers
  <2>3. output' = [s \in Slots |-> IF s < rows * len THEN TileSum(s \div len, s % len) ELSE 0]
    BY <1>2
  <2>4. \A i \in 0..(rows - 1), j \in 0..(len - 1) : TileSum(i, j) \in Int
    BY <1>5
  <2>. HIDE DEF rows, len
  <2>5. /\ \A i \in 0..(rows - 1), j \in 0..(len - 1) : output'[i * len + j] = TileSum(i, j)
        /\ output' \in Buffer
    <3>1. /\ \A i \in 0..(rows - 1), j \in 0..(len - 1) :
                /\ i * len + j \in Slots /\ i * len + j < rows * len
                /\ (i * len + j) \div len = i /\ (i * len + j) % len = j
          /\ \A s \in Slots : s < rows * len => s \div len \in 0..(rows - 1) /\ s % len \in 0..(len - 1)
      BY <2>1, <2>2, TileSlots
    <3>2. ASSUME NEW i \in 0..(rows - 1), NEW j \in 0..(len - 1)
          PROVE  output'[i * len + j] = TileSum(i, j)
      BY <2>3, <3>1
    <3>3. output' \in Buffer
      <4>1. \A s \in Slots : s < rows * len => TileSum(s \div len, s % len) \in Int
        BY <2>4, <3>1
      <4>. QED BY <2>3, <4>1 DEF Buffer
    <3>. QED BY <3>2, <3>3
  <2>. QED BY <2>5 DEF rows, len
<1>7. Buffers'
  <2>1. SumsReady'
    <3>1. \A i, j : NewSum(i, j)' = NewSum(i, j)
      BY <1>4 DEF NewSum
    <3>. QED BY <1>4, <1>5, <1>6, <3>1 DEF SumsReady
  <2>2. AHeld' /\ BHeld' /\ CHeld'
    BY <1>2 DEF AHeld, BHeld, CHeld
  <2>. QED BY <2>1, <2>2 DEF Buffers
<1>8. Counts(cy, 0, ma)
  <2>1. perf \in [cycles : Nat, reads : Nat, writes : Nat, macs : Nat]
    BY <1>0, InTileFacts DEF PerfType
  <2>2. /\ tile.mLen \in Nat /\ tile.nLen \in Nat /\ tile.kLen \in Nat /\ ma \in Nat
    BY <1>0, InTileFacts
  <2>. HIDE DEF ma
  <2>3. perf.cycles + tile.mLen + tile.nLen + tile.kLen - 2 = perf.cycles + cy
    BY <2>1, <2>2
  <2>4. perf.reads + 0 = perf.reads
    BY <2>1
  <2>5. perf' = [cycles |-> perf.cycles + cy, reads |-> perf.reads, writes |-> perf.writes,
                 macs |-> perf.macs + ma]
    BY <1>2, <2>1, <2>3
  <2>. QED BY <2>4, <2>5 DEF Counts
<1>9. InTile' = [cycles |-> InTile.cycles + cy, reads |-> InTile.reads + 0,
                 writes |-> InTile.writes, macs |-> InTile.macs + ma]
  <2>. DEFINE ca == tile.kLen * tile.mLen
              bc == tile.nLen * tile.kLen
              ba == tile.nLen * tile.mLen
              rd == ca + bc + (IF tile.k0 = 0 THEN 0 ELSE ba)
  <2>1. ca \in Nat /\ bc \in Nat /\ ba \in Nat /\ cy \in Nat /\ ma \in Nat
    BY <1>0, InTileFacts
  <2>2. InTile = [cycles |-> 0, reads |-> rd, writes |-> 0, macs |-> 0]
    BY <1>0 DEF InTile
  <2>3. InTile' = [cycles |-> cy, reads |-> rd, writes |-> 0, macs |-> ma]
    BY <1>2, <1>4 DEF InTile
  <2>4. rd \in Nat
    BY <2>1
  <2>. HIDE DEF rd, cy, ma
  <2>. QED BY <2>1, <2>2, <2>3, <2>4
<1>10. cy \in Nat /\ ma \in Nat /\ input' \in Buffer /\ weight' \in Buffer
  BY <1>0, <1>2, InTileFacts
<1>. HIDE DEF cy, ma
<1>. QED BY <1>1, <1>3, <1>6, <1>7, <1>8, <1>9, <1>10, MidStepIInv
-----------------------------------------------------------------------------
(* The store of a tile. *)

\* The words of the tile's block of C take the new sums, no other changes.
LEMMA StoredWords ==
    ASSUME IInv, phase = "store"
    PROVE  LET m == Transferred(RequestCOut, output, mem) IN
           /\ m \in Memory
           /\ \A i \in 0..(tile.mLen - 1), j \in 0..(tile.nLen - 1) :
                 m[CAt(desc, tile.m0 + i, tile.n0 + j)] = NewSum(i, j)
           /\ \A w \in Addresses :
                 (\A i \in 0..(tile.mLen - 1), j \in 0..(tile.nLen - 1) :
                      w # CAt(desc, tile.m0 + i, tile.n0 + j)) => m[w] = mem[w]
           /\ \A w \in Addresses : w \notin CRegion(desc) => m[w] = mem[w]
<1>0. phase # "idle" /\ TypeOK /\ InRun /\ mem \in Memory /\ output \in Buffer
  BY InTileFacts
<1>1. TileFitsBuffers
  BY <1>0, InTileFacts, FitsFromCheck
<1>. DEFINE req == RequestCOut
            m == Transferred(req, output, mem)
            R == 0..(tile.mLen - 1)
            C == 0..(tile.nLen - 1)
            at(i, j) == CAt(desc, tile.m0 + i, tile.n0 + j)
<1>2. /\ Apart(req) /\ req.rows = tile.mLen /\ req.length = tile.nLen
      /\ \A i \in R, j \in C :
            /\ DstAddr(req, i, j) = at(i, j)
            /\ SrcAddr(req, i, j) = i * tile.nLen + j /\ i * tile.nLen + j \in Slots
  BY <1>0, <1>1, MovesCOut DEF Moves
<1>3. \A i \in R, j \in C : at(i, j) \in CRegion(desc) /\ at(i, j) \in Addresses
  BY <1>0, TileCells
<1>4. \A i \in R, j \in C : output[i * tile.nLen + j] = NewSum(i, j)
  BY DEF IInv, Buffers, SumsReady
<1>5. Addresses \in SUBSET Int /\ mem \in [Addresses -> Int] /\ DOMAIN mem = Addresses
  BY <1>0, MemoryAssumption DEF Memory, Addresses
<1>. HIDE DEF req, at
<1>6. m \in Memory
  <2>1. \A i \in R, j \in C : output[SrcAddr(req, i, j)] \in Int
    BY <1>0, <1>2 DEF Buffer
  <2>2. \A r \in 0..(req.rows - 1), c \in 0..(req.length - 1) : output[SrcAddr(req, r, c)] \in Int
    BY <1>2, <2>1
  <2>3. m \in [Addresses -> Int]
    BY <1>2, <1>5, <2>2, TransferredType
  <2>. QED BY <2>3 DEF Memory
<1>7. \A i \in R, j \in C : m[at(i, j)] = NewSum(i, j)
  <2>. TAKE i \in R, j \in C
  <2>1. i \in 0..(req.rows - 1) /\ j \in 0..(req.length - 1) /\ DstAddr(req, i, j) \in DOMAIN mem
    BY <1>2, <1>3, <1>5
  <2>2. m[DstAddr(req, i, j)] = output[SrcAddr(req, i, j)]
    BY <1>2, <2>1, MovedWord
  <2>. QED BY <1>2, <1>4, <2>2
<1>8. \A w \in Addresses : (\A i \in R, j \in C : w # at(i, j)) => m[w] = mem[w]
  <2>. SUFFICES ASSUME NEW w \in Addresses, \A i \in R, j \in C : w # at(i, j)
                PROVE  m[w] = mem[w]
    OBVIOUS
  <2>1. w \in DOMAIN mem /\ w \in Int
    BY <1>5
  <2>2. \A r \in 0..(req.rows - 1), c \in 0..(req.length - 1) : w # DstAddr(req, r, c)
    BY <1>2
  <2>. QED BY <1>2, <2>1, <2>2, UnmovedWord
<1>9. \A w \in Addresses : w \notin CRegion(desc) => m[w] = mem[w]
  BY <1>3, <1>8
<1>. HIDE DEF m
<1>10. /\ m \in Memory
       /\ \A i \in R, j \in C : m[at(i, j)] = NewSum(i, j)
       /\ \A w \in Addresses : (\A i \in R, j \in C : w # at(i, j)) => m[w] = mem[w]
       /\ \A w \in Addresses : w \notin CRegion(desc) => m[w] = mem[w]
  BY <1>6, <1>7, <1>8, <1>9
<1>. QED BY <1>10 DEF m, at, req

\* The depths done are those of the tiles before the current one.
LEMMA DoneDepth ==
    ASSUME TypeOK, InRun, phase # "idle"
    PROVE  \A i, j : DepthDone(i, j) = Depth(desc, At, i, j)
<1>. DEFINE T == TilesOf(desc)
            l == Len(todo)
<1>1. T \in Nat /\ l \in Nat
  BY CurrentTile DEF TypeOK
<1>2. At - 1 = T - l
  <2>1. At = T + 1 - l
    BY DEF At
  <2>. HIDE DEF T, l
  <2>. QED BY <1>1, <2>1
<1>. QED BY <1>2 DEF DepthDone, DoneTiles, Depth

\* While C is apart from A and B, the operands are as run found them.
LEMMA OperandsKept ==
    ASSUME IInv, phase # "idle", Disjoint(desc)
    PROVE  /\ \A i \in 0..(desc.m - 1), p \in 0..(desc.k - 1) : mem[AAt(desc, i, p)] = mem0[AAt(desc, i, p)]
           /\ \A p \in 0..(desc.k - 1), j \in 0..(desc.n - 1) : mem[BAt(desc, p, j)] = mem0[BAt(desc, p, j)]
<1>1. desc \in DescriptorType /\ Validate(desc) /\ InMemory(desc)
  BY InTileFacts, CurrentTile
<1>2. /\ \A i \in 0..(desc.m - 1), p \in 0..(desc.k - 1) : AAt(desc, i, p) \in ARegion(desc)
      /\ \A p \in 0..(desc.k - 1), j \in 0..(desc.n - 1) : BAt(desc, p, j) \in BRegion(desc)
      /\ ARegion(desc) \subseteq Addresses /\ BRegion(desc) \subseteq Addresses
  BY <1>1, RegionCells
<1>3. \A w \in Addresses : w \notin CRegion(desc) => mem[w] = mem0[w]
  BY DEF IInv, OnlyC
<1>4. CRegion(desc) \cap (ARegion(desc) \cup BRegion(desc)) = {}
  BY DEF Disjoint
<1>. HIDE DEF ARegion, BRegion, CRegion, AAt, BAt
<1>. QED BY <1>2, <1>3, <1>4

\* What a word of C holds before the tile that is done with its loads.
LEMMA SumsBefore ==
    ASSUME IInv, phase # "idle", Disjoint(desc), NEW i \in 0..(desc.m - 1), NEW j \in 0..(desc.n - 1)
    PROVE  LET d == Depth(desc, At, i, j) IN
           mem[CAt(desc, i, j)] = IF d > 0 THEN Dot(mem0, desc, i, j, d) ELSE mem0[CAt(desc, i, j)]
<1>1. /\ desc \in DescriptorType /\ Validate(desc) /\ InMemory(desc)
      /\ TypeOK /\ InRun /\ PartialSums
  BY InTileFacts, CurrentTile DEF IInv
<1>2. CAt(desc, i, j) \in CRegion(desc) /\ CAt(desc, i, j) \in Addresses
  BY <1>1, RegionCells
<1>3. desc.n \in Nat \ {0} /\ WordAddr(desc.C) \in Nat
  BY <1>1, ValidNumbers, MatricesInside
<1>. DEFINE w == CAt(desc, i, j)
            o == w - WordAddr(desc.C)
<1>4. o \div desc.n = i /\ o % desc.n = j
  <2>1. o = i * desc.n + j
    <3>. DEFINE q == i * desc.n
                b == WordAddr(desc.C)
    <3>1. q \in Int /\ b \in Int /\ w = b + q + j
      BY <1>3 DEF CAt
    <3>. HIDE DEF q, b, w
    <3>2. w - b = q + j
      BY <3>1
    <3>. QED BY <3>2 DEF q, b
  <2>. HIDE DEF o
  <2>2. i \in Nat /\ j \in 0..(desc.n - 1)
    BY <1>1, ValidNumbers
  <2>. QED BY <1>3, <2>1, <2>2, Quotient
<1>5. mem[w] = IF w \in CRegion(desc) /\ DepthDone(o \div desc.n, o % desc.n) > 0
               THEN Dot(mem0, desc, o \div desc.n, o % desc.n, DepthDone(o \div desc.n, o % desc.n))
               ELSE mem0[w]
  BY <1>1, <1>2 DEF PartialSums
<1>6. DepthDone(i, j) = Depth(desc, At, i, j)
  BY <1>1, DoneDepth
<1>. HIDE DEF w, o
<1>7. mem[w] = IF Depth(desc, At, i, j) > 0 THEN Dot(mem0, desc, i, j, Depth(desc, At, i, j)) ELSE mem0[w]
  BY <1>2, <1>4, <1>5, <1>6 DEF w
<1>. QED BY <1>7 DEF w

\* The new sum of a cell is the next partial product.
LEMMA NewSumIsDot ==
    ASSUME IInv, phase = "store", Disjoint(desc),
           NEW a \in 0..(tile.mLen - 1), NEW b \in 0..(tile.nLen - 1)
    PROVE  NewSum(a, b) = Dot(mem0, desc, tile.m0 + a, tile.n0 + b, tile.k0 + tile.kLen)
<1>0. phase # "idle" /\ TypeOK /\ InRun /\ mem0 \in Memory
  BY InTileFacts DEF IInv, Found
<1>1. desc \in DescriptorType /\ Validate(desc) /\ InMemory(desc) /\ At \in 1..TilesOf(desc)
      /\ tile = TileAt(desc, At)
  BY <1>0, CurrentTile
<1>. DEFINE i == tile.m0 + a
            j == tile.n0 + b
            q == tile.k0
            l == tile.kLen
            F == [p \in 0..(l - 1) |-> mem[AAt(desc, i, q + p)] * mem[BAt(desc, q + p, j)]]
            G == [p \in 0..(l - 1) |-> mem0[AAt(desc, i, q + p)] * mem0[BAt(desc, q + p, j)]]
            c == IF q # 0 THEN mem[CAt(desc, i, j)] ELSE 0
<1>2. i \in 0..(desc.m - 1) /\ j \in 0..(desc.n - 1) /\ \A p \in 0..(l - 1) : q + p \in 0..(desc.k - 1)
  BY <1>0, TileIndices
<1>3. q \in Nat /\ l \in Nat /\ q + l <= desc.k /\ i \in Int /\ j \in Int
  BY <1>0, <1>2, TileNumbersNow
<1>4. InBlock(tile, i, j)
  <2>. DEFINE x == tile.m0
              y == tile.n0
              u == tile.mLen
              v == tile.nLen
  <2>1. x \in Nat /\ y \in Nat /\ u \in Nat /\ v \in Nat /\ a \in 0..(u - 1) /\ b \in 0..(v - 1)
    BY <1>0, TileNumbersNow
  <2>. HIDE DEF x, y, u, v
  <2>2. x + a \in x..(x + u - 1) /\ y + b \in y..(y + v - 1)
    BY <2>1
  <2>. QED BY <2>2 DEF InBlock, x, y, u, v
<1>5. Depth(desc, At, i, j) = q
  BY <1>1, <1>3, <1>4, DepthAtTile
<1>6. c = Dot(mem0, desc, i, j, q)
  <2>1. CASE q = 0
    BY <1>0, <1>1, <1>2, <2>1, DotFacts
  <2>2. CASE q # 0
    <3>1. q > 0
      BY <1>3, <2>2
    <3>2. mem[CAt(desc, i, j)] = IF q > 0 THEN Dot(mem0, desc, i, j, q) ELSE mem0[CAt(desc, i, j)]
      BY <1>0, <1>2, <1>5, SumsBefore
    <3>. QED BY <2>2, <3>1, <3>2
  <2>. QED BY <2>1, <2>2
<1>7. F = G
  <2>1. \A p \in 0..(l - 1) : /\ mem[AAt(desc, i, q + p)] = mem0[AAt(desc, i, q + p)]
                              /\ mem[BAt(desc, q + p, j)] = mem0[BAt(desc, q + p, j)]
    BY <1>0, <1>2, OperandsKept
  <2>. QED BY <2>1
<1>8. Dot(mem0, desc, i, j, q + l) = Dot(mem0, desc, i, j, q) + SumFunction(G)
  <2>1. DotFrom(mem0, desc, i, j, q, l) = SumFunction(G)
    BY DEF DotFrom
  <2>. HIDE DEF i, j, q, l, G
  <2>2. Dot(mem0, desc, i, j, q + l) = Dot(mem0, desc, i, j, q) + DotFrom(mem0, desc, i, j, q, l)
    BY <1>0, <1>1, <1>2, <1>3, DotSplit
  <2>. QED BY <2>1, <2>2
<1>9. NewSum(a, b) = c + SumFunction(F)
  BY DEF NewSum
<1>. HIDE DEF i, j, q, l, F, G, c
<1>10. NewSum(a, b) = Dot(mem0, desc, i, j, q + l)
  BY <1>6, <1>7, <1>8, <1>9
<1>. QED BY <1>10 DEF i, j, q, l

\* After the store every cell of C holds the sum of one tile more.
LEMMA StoredSums ==
    ASSUME IInv, phase = "store", Disjoint(desc), NEW w \in Addresses
    PROVE  LET m == Transferred(RequestCOut, output, mem)
               o == w - WordAddr(desc.C)
               i == o \div desc.n
               j == o % desc.n
               d == Depth(desc, At + 1, i, j)
           IN  m[w] = IF w \in CRegion(desc) /\ d > 0 THEN Dot(mem0, desc, i, j, d) ELSE mem0[w]
<1>. DEFINE m == Transferred(RequestCOut, output, mem)
            o == w - WordAddr(desc.C)
            i == o \div desc.n
            j == o % desc.n
            d == Depth(desc, At + 1, i, j)
<1>0. phase # "idle" /\ TypeOK /\ InRun
  BY InTileFacts
<1>1. desc \in DescriptorType /\ Validate(desc) /\ InMemory(desc) /\ At \in 1..TilesOf(desc)
      /\ tile = TileAt(desc, At)
  BY <1>0, CurrentTile
<1>2. /\ \A a \in 0..(tile.mLen - 1), b \in 0..(tile.nLen - 1) :
            m[CAt(desc, tile.m0 + a, tile.n0 + b)] = NewSum(a, b)
      /\ (\A a \in 0..(tile.mLen - 1), b \in 0..(tile.nLen - 1) :
              w # CAt(desc, tile.m0 + a, tile.n0 + b)) => m[w] = mem[w]
      /\ w \notin CRegion(desc) => m[w] = mem[w]
  BY StoredWords
<1>3. w \notin CRegion(desc) => mem[w] = mem0[w]
  BY <1>0 DEF IInv, OnlyC
<1>4. CASE w \notin CRegion(desc)
  <2>1. m[w] = mem0[w]
    BY <1>2, <1>3, <1>4
  <2>. HIDE DEF m, d, i, j
  <2>2. m[w] = IF w \in CRegion(desc) /\ d > 0 THEN Dot(mem0, desc, i, j, d) ELSE mem0[w]
    BY <1>4, <2>1
  <2>. QED BY <2>2 DEF m, d, i, j
<1>5. CASE w \in CRegion(desc)
  <2>1. i \in 0..(desc.m - 1) /\ j \in 0..(desc.n - 1) /\ w = CAt(desc, i, j)
    BY <1>1, <1>5, CellAt
  <2>2. desc.m \in Nat /\ desc.n \in Nat
    BY <1>1, ValidNumbers
  <2>. DEFINE x == tile.m0
              y == tile.n0
              u == tile.mLen
              v == tile.nLen
              e == tile.k0 + tile.kLen
  <2>3. /\ x \in Nat /\ y \in Nat /\ u \in Nat /\ v \in Nat /\ e \in Nat /\ e > 0
    <3>1. tile.k0 \in Nat /\ tile.kLen \in Nat \ {0}
      BY <1>0, TileNumbersNow
    <3>2. e \in Nat /\ e > 0
      BY <3>1
    <3>. QED BY <1>0, <3>2, TileNumbersNow
  <2>. HIDE DEF m, i, j, o
  <2>4. m[w] = IF d > 0 THEN Dot(mem0, desc, i, j, d) ELSE mem0[w]
    <3>1. CASE InBlock(tile, i, j)
      <4>. DEFINE a == i - x
                  b == j - y
      <4>1. i \in x..(x + u - 1) /\ j \in y..(y + v - 1)
        BY <3>1 DEF InBlock
      <4>2. a \in 0..(u - 1) /\ b \in 0..(v - 1) /\ x + a = i /\ y + b = j
        BY <2>3, <4>1
      <4>3. m[w] = NewSum(a, b)
        BY <1>2, <2>1, <4>2
      <4>4. NewSum(a, b) = Dot(mem0, desc, x + a, y + b, e)
        BY <4>2, NewSumIsDot
      <4>5. d = e
        <5>1. i \in Int /\ j \in Int
          BY <2>1
        <5>. QED BY <1>1, <3>1, <5>1, DepthAtTile
      <4>. HIDE DEF a, b, d, e
      <4>. QED BY <2>3, <4>2, <4>3, <4>4, <4>5
    <3>2. CASE ~InBlock(tile, i, j)
      <4>1. \A a \in 0..(u - 1), b \in 0..(v - 1) : w # CAt(desc, x + a, y + b)
        <5>. SUFFICES ASSUME NEW a \in 0..(u - 1), NEW b \in 0..(v - 1), CAt(desc, i, j) = CAt(desc, x + a, y + b)
                      PROVE  FALSE
          BY <2>1
        <5>1. x + a \in 0..(desc.m - 1) /\ y + b \in 0..(desc.n - 1)
          BY <1>0, TileIndices
        <5>2. i \in Nat /\ x + a \in Nat
          BY <2>1, <2>2, <5>1
        <5>3. i = x + a /\ j = y + b
          BY <1>1, <2>1, <5>1, <5>2, CellDistinct
        <5>. HIDE DEF x, y, u, v
        <5>4. i \in x..(x + u - 1) /\ j \in y..(y + v - 1)
          BY <2>3, <5>3
        <5>. QED BY <3>2, <5>4 DEF InBlock, x, y, u, v
      <4>2. m[w] = mem[w]
        BY <1>2, <4>1
      <4>3. d = Depth(desc, At, i, j)
        BY <1>1, <3>2, DepthElsewhere
      <4>4. mem[CAt(desc, i, j)] = IF Depth(desc, At, i, j) > 0
                                  THEN Dot(mem0, desc, i, j, Depth(desc, At, i, j))
                                  ELSE mem0[CAt(desc, i, j)]
        BY <1>0, <2>1, SumsBefore
      <4>. HIDE DEF d
      <4>. QED BY <2>1, <4>2, <4>3, <4>4
    <3>. QED BY <3>1, <3>2
  <2>. HIDE DEF d
  <2>5. m[w] = IF w \in CRegion(desc) /\ d > 0 THEN Dot(mem0, desc, i, j, d) ELSE mem0[w]
    BY <1>5, <2>4
  <2>. QED BY <2>5 DEF m, d, i, j, o
<1>. QED BY <1>4, <1>5

\* What a store leaves, with the counters of its whole tile added.
LEMMA StoreFacts ==
    ASSUME IInv, Store
    PROVE  /\ phase = "store" /\ phase # "idle" /\ TypeOK /\ InRun /\ FirstTileFits(desc)
           /\ mem' = Transferred(RequestCOut, output, mem)
           /\ perf' = Plus(Plus(perf0, Counted(desc, At)), TileCounts(tile))
           /\ perf' \in PerfType
           /\ todo' = Tail(todo) /\ error' = error
           /\ phase' = IF At = TilesOf(desc) THEN "idle" ELSE "loadA"
           /\ state' = IF At = TilesOf(desc) THEN "DONE" ELSE state
           /\ UNCHANGED <<bound, desc, buffers, readback, calls, history>>
<1>0. phase = "store" /\ phase # "idle" /\ TypeOK /\ InRun
  <2>1. phase = "store" /\ phase # "idle"
    BY DEF Store
  <2>. QED BY <2>1, InTileFacts
<1>1. TileFitsBuffers /\ FirstTileFits(desc)
  BY <1>0, InTileFacts, FitsFromCheck
<1>2. Moves(RequestCOut, tile.mLen, tile.nLen)
  BY <1>0, <1>1, MovesCOut
<1>3. (Tail(todo) = <<>>) <=> (At = TilesOf(desc))
  BY <1>0, CurrentTile
<1>4. /\ mem' = Transferred(RequestCOut, output, mem)
      /\ Count("writes", tile.nLen * tile.mLen)
      /\ todo' = Tail(todo) /\ error' = error
      /\ phase' = IF Tail(todo) = <<>> THEN "idle" ELSE "loadA"
      /\ state' = IF Tail(todo) = <<>> THEN "DONE" ELSE state
      /\ UNCHANGED <<bound, desc, buffers, readback, calls, history>>
  BY <1>2 DEF Store, Moves
<1>. DEFINE q == Plus(perf0, Counted(desc, At))
            ba == tile.nLen * tile.mLen
            t == TileCounts(tile)
<1>5. perf = Plus(q, InTile) /\ q \in PerfInts
  <2>1. Counted(desc, At) \in PerfInts
    BY <1>0, CurrentTile, CountedNumbers DEF PerfInts
  <2>2. perf0 \in PerfType
    BY DEF IInv, Found
  <2>3. q \in PerfInts
    BY <2>1, <2>2 DEF Plus, PerfInts, PerfType
  <2>. QED BY <1>0, <2>3 DEF IInv, Counting
<1>6. t = [cycles |-> InTile.cycles, reads |-> InTile.reads, writes |-> ba, macs |-> InTile.macs]
      /\ InTile \in PerfInts /\ InTile.writes = 0
  <2>1. InTile \in PerfInts
    BY <1>0, InTileNumbers
  <2>. DEFINE ca == tile.kLen * tile.mLen
              bc == tile.nLen * tile.kLen
              cy == tile.mLen + tile.nLen + tile.kLen - 2
              ma == tile.mLen * tile.nLen * tile.kLen
  <2>2. InTile = [cycles |-> cy, reads |-> ca + bc + (IF tile.k0 = 0 THEN 0 ELSE ba),
                  writes |-> 0, macs |-> ma]
    BY <1>0 DEF InTile
  <2>3. t = [cycles |-> cy, reads |-> ca + bc + (IF tile.k0 = 0 THEN 0 ELSE ba),
             writes |-> ba, macs |-> ma]
    <3>1. tile.mLen \in Int /\ tile.nLen \in Int /\ tile.kLen \in Int
      BY <1>0, TileNumbersNow
    <3>. QED BY <3>1 DEF TileCounts
  <2>. HIDE DEF ca, bc, cy, ma, ba, t
  <2>. QED BY <2>1, <2>2, <2>3
<1>7. perf \in PerfType /\ ba \in Nat
  BY <1>0, InTileFacts
<1>8. perf' = [perf EXCEPT !.writes = perf.writes + ba]
  BY <1>4 DEF Count
<1>. HIDE DEF q, ba, t
<1>9. perf' \in PerfType
  BY <1>7, <1>8 DEF PerfType
<1>10. perf' = Plus(q, t)
  <2>1. perf = [cycles |-> q.cycles + InTile.cycles, reads |-> q.reads + InTile.reads,
                writes |-> q.writes + InTile.writes, macs |-> q.macs + InTile.macs]
    BY <1>5 DEF Plus
  <2>2. perf' = [cycles |-> perf.cycles, reads |-> perf.reads, writes |-> perf.writes + ba,
                 macs |-> perf.macs]
    BY <1>7, <1>8 DEF PerfType
  <2>3. perf.writes = q.writes
    BY <1>5, <1>6, <2>1 DEF PerfInts
  <2>. QED BY <1>6, <2>1, <2>2, <2>3 DEF Plus
<1>. QED BY <1>0, <1>1, <1>3, <1>4, <1>9, <1>10 DEF q, t

\* Counters are added in any order.
LEMMA PlusAssociative ==
    ASSUME NEW p \in PerfInts, NEW q \in PerfInts, NEW r \in PerfInts
    PROVE  Plus(Plus(p, q), r) = Plus(p, Plus(q, r))
BY DEF Plus, PerfInts

\* What a whole tile adds are numbers.
LEMMA TileCountsNumbers ==
    ASSUME NEW t \in TileType
    PROVE  TileCounts(t) \in PerfInts
<1>. DEFINE a == t.kLen * t.mLen
            b == t.nLen * t.kLen
            c == t.nLen * t.mLen
            e == t.mLen * t.nLen * t.kLen
<1>1. /\ a \in Int /\ b \in Int /\ c \in Int /\ e \in Int
      /\ t.mLen + t.nLen + t.kLen - 2 \in Int
  BY DEF TileType
<1>. HIDE DEF a, b, c, e
<1>2. [cycles |-> t.mLen + t.nLen + t.kLen - 2, reads |-> a + b + (IF t.k0 = 0 THEN 0 ELSE c),
       writes |-> c, macs |-> e] \in PerfInts
  BY <1>1 DEF PerfInts
<1>. QED BY <1>2 DEF TileCounts, a, b, c, e

\* The store keeps the invariant: the cells of the tile reach its depth, and
\* the loop goes to the next tile or ends.
LEMMA StoreIInv ==
    ASSUME IInv, Store
    PROVE  IInv'
<1>0. /\ phase = "store" /\ phase # "idle" /\ TypeOK /\ InRun /\ FirstTileFits(desc)
      /\ mem' = Transferred(RequestCOut, output, mem)
      /\ perf' = Plus(Plus(perf0, Counted(desc, At)), TileCounts(tile))
      /\ perf' \in PerfType
      /\ todo' = Tail(todo) /\ error' = error
      /\ phase' = IF At = TilesOf(desc) THEN "idle" ELSE "loadA"
      /\ state' = IF At = TilesOf(desc) THEN "DONE" ELSE state
      /\ UNCHANGED <<bound, desc, buffers, readback, calls, history>>
  BY StoreFacts
<1>1. /\ desc \in DescriptorType /\ Validate(desc) /\ InMemory(desc)
      /\ At \in 1..TilesOf(desc) /\ TilesOf(desc) \in Nat \ {0}
      /\ tile = TileAt(desc, At) /\ Tail(todo) = Rest(desc, At + 1)
      /\ (Tail(todo) = <<>>) <=> (At = TilesOf(desc))
      /\ Len(Tail(todo)) = TilesOf(desc) - At /\ Tail(todo) \in Seq(TileType)
  BY <1>0, CurrentTile
<1>2. mem' \in Memory
  BY <1>0, StoredWords
<1>3. TypeOK'
  <2>1. state' \in NpuStates /\ phase' \in RunPhases \cup {"idle"}
    BY <1>0 DEF TypeOK, NpuStates, RunPhases
  <2>2. (phase' = "idle") <=> (todo' = <<>>)
    BY <1>0, <1>1
  <2>. QED BY <1>0, <1>1, <1>2, <2>1, <2>2 DEF TypeOK, buffers
<1>4. StatusConsistent'
  <2>1. StatusConsistent
    BY DEF IInv
  <2>. QED BY <1>0, <2>1 DEF StatusConsistent
<1>5. Found'
  BY <1>0 DEF IInv, Found, history
<1>6. CASE At = TilesOf(desc)
  <2>1. phase' = "idle"
    BY <1>0, <1>6
  <2>. QED BY <1>3, <1>4, <1>5, <2>1, IdleNext DEF IInv
<1>7. CASE At # TilesOf(desc)
  <2>1. phase' = "loadA" /\ desc' = desc /\ bound' = bound /\ mem0' = mem0 /\ perf0' = perf0
    BY <1>0, <1>7 DEF history
  <2>2. At' = At + 1 /\ At + 1 \in 1..TilesOf(desc) /\ At < TilesOf(desc)
    <3>. DEFINE T == TilesOf(desc)
                x == At
    <3>1. At' = T + 1 - (T - x)
      BY <1>0, <1>1, <2>1 DEF At
    <3>2. T \in Nat /\ x \in 1..T /\ x # T
      BY <1>1, <1>7
    <3>. HIDE DEF T, x
    <3>3. T + 1 - (T - x) = x + 1 /\ x + 1 \in 1..T /\ x < T
      BY <3>2
    <3>. QED BY <3>1, <3>3 DEF T, x
  <2>3. InRun'
    BY <1>0, <1>1, <2>1, <2>2 DEF InRun
  <2>4. Checked'
    BY <1>0, <2>1 DEF Checked
  <2>5. Counting'
    <3>. DEFINE p == perf0
                q == Counted(desc, At)
                r == TileCounts(tile)
    <3>1. q \in PerfInts /\ r \in PerfInts /\ p \in PerfInts
      <4>1. tile \in TileType
        BY <1>0, TileNumbersNow
      <4>2. p \in PerfInts
        <5>1. p \in PerfType
          BY DEF IInv, Found
        <5>. QED BY <5>1 DEF PerfType, PerfInts
      <4>. QED BY <1>1, <4>1, <4>2, CountedNumbers, TileCountsNumbers DEF PerfInts
    <3>2. Counted(desc, At + 1) = Plus(q, r)
      BY <1>1, <2>2, CountedNext
    <3>3. InTile' = ZeroPerf
      BY <2>1 DEF InTile, ZeroPerf
    <3>4. Counted(desc, At)' = Counted(desc, At + 1)
      BY <2>1, <2>2
    <3>5. perf' = Plus(Plus(p, q), r)
      BY <1>0
    <3>. HIDE DEF p, q, r
    <3>6. perf' = Plus(Plus(p, Plus(q, r)), ZeroPerf)
      <4>1. Plus(p, Plus(q, r)) \in PerfInts
        BY <3>1 DEF Plus, PerfInts
      <4>2. \A s \in PerfInts : Plus(s, ZeroPerf) = s
        BY DEF Plus, ZeroPerf, PerfInts
      <4>. QED BY <3>1, <3>5, <4>1, <4>2, PlusAssociative
    <3>7. perf' = Plus(Plus(perf0', Counted(desc, At)'), InTile')
      BY <2>1, <3>2, <3>3, <3>4, <3>6 DEF p
    <3>. QED BY <3>7 DEF Counting
  <2>6. OnlyC'
    <3>1. At' # 1
      BY <1>1, <2>2
    <3>2. \A w \in Addresses : w \notin CRegion(desc) => mem'[w] = mem0[w]
      <4>1. \A w \in Addresses : w \notin CRegion(desc) => mem'[w] = mem[w]
        BY <1>0, StoredWords
      <4>2. \A w \in Addresses : w \notin CRegion(desc) => mem[w] = mem0[w]
        BY <1>0 DEF IInv, OnlyC
      <4>. QED BY <4>1, <4>2
    <3>. QED BY <2>1, <3>1, <3>2 DEF OnlyC
  <2>7. Buffers'
    BY <2>1 DEF Buffers, AHeld, BHeld, CHeld, SumsReady
  <2>8. PartialSums'
    <3>1. TilesOf(desc)' - Len(todo)' = (At + 1) - 1
      <4>. DEFINE T == TilesOf(desc)
                  x == At
      <4>1. TilesOf(desc)' - Len(todo)' = T - (T - x)
        BY <1>0, <1>1, <2>1
      <4>2. T \in Nat /\ x \in 1..T
        BY <1>1
      <4>. HIDE DEF T, x
      <4>3. T - (T - x) = (x + 1) - 1
        BY <4>2
      <4>. QED BY <4>1, <4>3 DEF T, x
    <3>2. \A i, j : DepthDone(i, j)' = Depth(desc, At + 1, i, j)
      BY <2>1, <3>1 DEF DepthDone, DoneTiles, Depth
    <3>3. ASSUME Disjoint(desc), NEW w \in Addresses
          PROVE  LET o == w - WordAddr(desc.C)
                     i == o \div desc.n
                     j == o % desc.n
                 IN  mem'[w] = IF w \in CRegion(desc) /\ Depth(desc, At + 1, i, j) > 0
                               THEN Dot(mem0, desc, i, j, Depth(desc, At + 1, i, j))
                               ELSE mem0[w]
      BY <1>0, <3>3, StoredSums
    <3>. QED BY <2>1, <3>2, <3>3 DEF PartialSums
  <2>. QED BY <1>3, <1>4, <1>5, <2>3, <2>4, <2>5, <2>6, <2>7, <2>8 DEF IInv
<1>. QED BY <1>6, <1>7

\* Nothing changes in a stuttering step.
LEMMA StutterIInv ==
    ASSUME IInv, UNCHANGED vars
    PROVE  IInv'
<1>. USE DEF vars, buffers, status, history
<1>1. At' = At /\ tile' = tile
  BY DEF At, tile
<1>2. TypeOK' /\ StatusConsistent' /\ Found'
  BY DEF IInv, TypeOK, StatusConsistent, Found
<1>3. InRun' /\ Checked' /\ OnlyC'
  BY <1>1 DEF IInv, InRun, Checked, OnlyC
<1>4. Counting'
  <2>1. InTile' = InTile
    BY <1>1 DEF InTile
  <2>. QED BY <1>1, <2>1 DEF IInv, Counting
<1>5. Buffers'
  <2>1. AHeld' /\ BHeld' /\ CHeld'
    BY <1>1 DEF IInv, Buffers, AHeld, BHeld, CHeld, ATile, BTile
  <2>2. SumsReady'
    <3>1. \A i, j : NewSum(i, j)' = NewSum(i, j)
      BY <1>1 DEF NewSum
    <3>. QED BY <1>1, <3>1 DEF IInv, Buffers, SumsReady
  <2>. QED BY <2>1, <2>2 DEF Buffers
<1>6. PartialSums'
  <2>1. \A i, j : DepthDone(i, j)' = DepthDone(i, j)
    BY DEF DepthDone, DoneTiles
  <2>. QED BY <2>1 DEF IInv, PartialSums
<1>. QED BY <1>2, <1>3, <1>4, <1>5, <1>6 DEF IInv

\* Every step keeps the invariant.
LEMMA NextIInv ==
    ASSUME IInv, [Next]_vars
    PROVE  IInv'
<1>1. ASSUME NEW d \in Descriptors, Submit(d) PROVE IInv'
  BY <1>1, SubmitIInv
<1>2. CASE LoadWeightData
  BY <1>2, LoadIInv DEF LoadWeightData
<1>3. CASE LoadInputData
  BY <1>3, LoadIInv DEF LoadInputData
<1>4. CASE LoadNull \/ (\E len \in Lengths : ReadOutputData(len)) \/ (\E b \in BOOLEAN : BindMemory(b))
  BY <1>4, SmallIInv
<1>5. CASE Reset
  BY <1>5, ResetIInv
<1>6. CASE Run
  BY <1>6, RunIInv
<1>7. CASE RunStep
  BY <1>7, LoadAIInv, LoadBIInv, LoadCIInv, ComputeIInv, StoreIInv DEF RunStep
<1>8. CASE UNCHANGED vars
  BY <1>8, StutterIInv
<1>. QED BY <1>1, <1>2, <1>3, <1>4, <1>5, <1>6, <1>7, <1>8 DEF Next

\* The invariant of Controller: every behaviour of submit, load, run and the
\* other operations (controller.cpp) stays inside it.
THEOREM Invariance == Spec => []IInv
<1>1. Init => IInv
  BY InitIInv
<1>2. IInv /\ [Next]_vars => IInv'
  BY NextIInv
<1>. QED BY <1>1, <1>2, PTL DEF Spec
-----------------------------------------------------------------------------
(* The refinement. The operators of Gemm are the controller's. *)

\* The operators on data.
LEMMA SameData ==
    /\ Abstract!Memory = Memory /\ Abstract!Addresses = Addresses
    /\ Abstract!ResetNpu = ResetNpu
    /\ \A a : Abstract!WordAddr(a) = WordAddr(a)
    /\ \A d : Abstract!Validate(d) = Validate(d)
    /\ \A d : Abstract!InMemory(d) = InMemory(d)
    /\ \A d : Abstract!FirstTileFits(d) = FirstTileFits(d)
    /\ \A p, d : Abstract!PerfAfter(p, d) = PerfAfter(p, d)
    /\ \A n, why : Abstract!Failed(n, why) = Failed(n, why)
    /\ \A a, l : Abstract!LoadFits(a, l) = LoadFits(a, l)
    /\ \A m, a, data : Abstract!Loaded(m, a, data) = Loaded(m, a, data)
<1>1. Abstract!Addresses = Addresses
  BY DEF Abstract!Addresses, Addresses
<1>2. Abstract!Memory = Memory
  BY <1>1 DEF Abstract!Memory, Memory
<1>3. Abstract!ResetNpu = ResetNpu
  BY DEF Abstract!ResetNpu, ResetNpu, Abstract!DefaultDescriptor, DefaultDescriptor,
         Abstract!ZeroPerf, ZeroPerf
<1>4. \A a : Abstract!WordAddr(a) = WordAddr(a)
  BY DEF Abstract!WordAddr, WordAddr, Abstract!WordBytes, WordBytes
<1>5. \A d : Abstract!Validate(d) = Validate(d)
  BY DEF Abstract!Validate, Validate, Abstract!IsWordAligned, IsWordAligned,
         Abstract!SidesFit, SidesFit, Abstract!WordBytes, WordBytes
<1>6. \A d : Abstract!InMemory(d) = InMemory(d)
  BY DEF Abstract!InMemory, InMemory, Abstract!WordBytes, WordBytes
<1>7. \A d : Abstract!FirstTileFits(d) = FirstTileFits(d)
  BY DEF Abstract!FirstTileFits, FirstTileFits, Abstract!FitsBuffers, FitsBuffers,
         Abstract!ClipTo, ClipTo
<1>8. \A p, d : Abstract!PerfAfter(p, d) = PerfAfter(p, d)
  BY DEF Abstract!PerfAfter, PerfAfter, Abstract!Steps, Steps
<1>9. \A n, why : Abstract!Failed(n, why) = Failed(n, why)
  BY DEF Abstract!Failed, Failed
<1>10. \A a, l : Abstract!LoadFits(a, l) = LoadFits(a, l)
  BY DEF Abstract!LoadFits, LoadFits
<1>11. \A m, a, data : Abstract!Loaded(m, a, data) = Loaded(m, a, data)
  BY DEF Abstract!Loaded, Loaded, Abstract!Addresses, Addresses
<1>. QED BY <1>1, <1>2, <1>3, <1>4, <1>5, <1>6, <1>7, <1>8, <1>9, <1>10, <1>11

\* The operators that say what an operation does.
LEMMA SameSteps ==
    /\ \A n, d : Abstract!Submitted(n, d) = Submitted(n, d)
    /\ \A n, b : Abstract!Ran(n, b) = Ran(n, b)
    /\ \A m, d, u : Abstract!MayBecome(m, d, u) = MayBecome(m, d, u)
<1>1. \A n, d : Abstract!Submitted(n, d) = Submitted(n, d)
  BY SameData DEF Abstract!Submitted, Submitted
<1>2. \A n, b : Abstract!Ran(n, b) = Ran(n, b)
  BY SameData DEF Abstract!Ran, Ran
<1>3. \A d : Abstract!CRegion(d) = CRegion(d) /\ Abstract!Disjoint(d) = Disjoint(d)
  BY DEF Abstract!CRegion, CRegion, Abstract!Disjoint, Disjoint, Abstract!ARegion, ARegion,
         Abstract!BRegion, BRegion, Abstract!WordAddr, WordAddr, Abstract!WordBytes, WordBytes
<1>4. \A f : Abstract!SumFunction(f) = SumFunction(f)
  BY DEF Abstract!SumFunction, SumFunction, Abstract!SumFunctionOnSet, SumFunctionOnSet,
         Abstract!FoldFunctionOnSet, FoldFunctionOnSet, Abstract!MapThenFoldSet, MapThenFoldSet
<1>5. \A m, d, i, j, q : Abstract!Dot(m, d, i, j, q) = Dot(m, d, i, j, q)
  BY <1>4 DEF Abstract!Dot, Dot, Abstract!AAt, AAt, Abstract!BAt, BAt,
              Abstract!WordAddr, WordAddr, Abstract!WordBytes, WordBytes
<1>6. \A m, d : Abstract!Multiply(m, d) = Multiply(m, d)
  BY SameData, <1>3, <1>5 DEF Abstract!Multiply, Multiply
<1>7. \A m, d, u : Abstract!MayBecome(m, d, u) = MayBecome(m, d, u)
  BY SameData, <1>3, <1>6 DEF Abstract!MayBecome, MayBecome
<1>. QED BY <1>1, <1>2, <1>7
-----------------------------------------------------------------------------
(* How a step of a run may end. *)

\* The run that fails: at its first tile, before anything was moved.
FailsFirst ==
    /\ phase = "loadA" /\ ~FirstTileFits(desc) /\ TileFails("OUT_OF_RANGE")
    /\ mem = mem0 /\ perf = perf0
    /\ UNCHANGED <<mem, perf, bound, desc, readback, history>>

\* The last tile is stored.
LastStore == Store /\ At = TilesOf(desc)

\* A step of a run refuses the first tile, moves on inside a tile or stores it.
LEMMA RunStepOutcomes ==
    ASSUME IInv, RunStep
    PROVE  \/ FailsFirst
           \/ MidStep /\ readback' = readback
           \/ Store
<1>. DEFINE Mid == MidStep /\ readback' = readback
<1>1. CASE LoadA
  <2>0. phase = "loadA" /\ phase # "idle"
    BY <1>1 DEF LoadA
  <2>1. TypeOK /\ InRun /\ Checked
    BY <2>0, InTileFacts
  <2>2. CASE TileFitsBuffers
    <3>1. Moves(RequestA, tile.mLen, tile.kLen)
      BY <2>0, <2>1, <2>2, MovesA
    <3>2. Mid
      BY <1>1, <2>2, <2>0, <3>1 DEF LoadA, Moves, MidStep, RunPhases
    <3>. QED BY <3>2
  <2>3. CASE ~TileFitsBuffers
    <3>1. ~FirstTileFits(desc)
      BY <2>0, <2>1, <2>3, FitsFromCheck
    <3>2. At = 1
      BY <2>0, <2>1, <3>1 DEF Checked
    <3>3. mem = mem0
      BY <2>0, <3>2 DEF IInv, OnlyC
    <3>4. perf = perf0
      <4>1. Counted(desc, 1) = ZeroPerf
        BY <2>0, <2>1, CurrentTile, CountedFirst
      <4>2. InTile = ZeroPerf
        BY <2>0 DEF InTile, ZeroPerf
      <4>3. perf = Plus(Plus(perf0, ZeroPerf), ZeroPerf)
        BY <2>0, <3>2, <4>1, <4>2 DEF IInv, Counting
      <4>4. perf0 \in PerfType
        BY DEF IInv, Found
      <4>. QED BY <4>3, <4>4 DEF Plus, ZeroPerf, PerfType
    <3>5. FailsFirst
      BY <1>1, <2>0, <2>3, <3>1, <3>3, <3>4 DEF LoadA, FailsFirst, history
    <3>. QED BY <3>5
  <2>. QED BY <2>2, <2>3
<1>2. CASE LoadB
  <2>0. phase = "loadB" /\ phase # "idle"
    BY <1>2 DEF LoadB
  <2>1. Moves(RequestB, tile.kLen, tile.nLen)
    BY <2>0, InTileFacts, FitsFromCheck, MovesB
  <2>2. Mid
    BY <1>2, <2>0, <2>1 DEF LoadB, Moves, MidStep, RunPhases
  <2>. QED BY <2>2
<1>3. CASE LoadC
  <2>0. phase = "loadC" /\ phase # "idle"
    BY <1>3 DEF LoadC
  <2>1. Moves(RequestCIn, tile.mLen, tile.nLen)
    BY <2>0, InTileFacts, FitsFromCheck, MovesCIn
  <2>2. Mid
    BY <1>3, <2>0, <2>1 DEF LoadC, Moves, MidStep, RunPhases
  <2>. QED BY <2>2
<1>4. CASE Compute
  <2>0. phase = "compute" /\ phase # "idle"
    BY <1>4 DEF Compute
  <2>1. SidesFit(desc.mode, tile.mLen, tile.nLen, tile.kLen)
    BY <2>0, InTileFacts, TileNumbersNow
  <2>2. Mid
    BY <1>4, <2>0, <2>1 DEF Compute, MidStep, RunPhases
  <2>. QED BY <2>2
<1>. QED BY <1>1, <1>2, <1>3, <1>4 DEF RunStep

\* No error is pending while a run is on.
LEMMA NoErrorInRun ==
    ASSUME IInv, phase # "idle"
    PROVE  state = "BUSY" /\ error = "NONE"
BY DEF IInv, StatusConsistent

\* BUFFER_FAIL is not among the errors of a step of a run.
LEMMA RunStepError ==
    ASSUME IInv, RunStep
    PROVE  error' \in {"NONE", "OUT_OF_RANGE"}
<1>1. phase # "idle"
  BY DEF RunStep, LoadA, LoadB, LoadC, Compute, Store
<1>2. CASE FailsFirst
  BY <1>2 DEF FailsFirst, TileFails, Fail
<1>3. CASE MidStep
  BY <1>1, <1>3, NoErrorInRun DEF MidStep, status
<1>4. CASE Store
  BY <1>1, <1>4, NoErrorInRun, StoreFacts
<1>. QED BY <1>2, <1>3, <1>4, RunStepOutcomes

\* A run that passed check_matrix_range and the buffer check is never stopped
\* by dma_.submit or run_gemm_tile: the BUFFER_FAIL branches of run_tile
\* (controller.cpp:215-312) are dead.
THEOREM RunsPassTheirChecks == Spec => ChecksSuffice
<1>1. IInv /\ [Next]_vars => [RunStep => error' # "BUFFER_FAIL"]_vars
  BY RunStepError
<1>. QED BY <1>1, Invariance, PTL DEF Spec, ChecksSuffice

\* A run that fails leaves the memory and the counters as it found them.
LEMMA FailureEffect ==
    ASSUME IInv, Run \/ RunStep, state' = "ERROR"
    PROVE  mem' = mem0' /\ perf' = perf0'
<1>1. CASE Run
  BY <1>1 DEF Run
<1>2. CASE RunStep
  <2>1. phase # "idle"
    BY <1>2 DEF RunStep, LoadA, LoadB, LoadC, Compute, Store
  <2>2. CASE FailsFirst
    BY <2>2 DEF FailsFirst, history
  <2>3. CASE MidStep
    BY <2>1, <2>3, NoErrorInRun DEF MidStep, status
  <2>4. CASE Store
    BY <2>1, <2>4, NoErrorInRun, StoreFacts
  <2>. QED BY <1>2, <2>2, <2>3, <2>4, RunStepOutcomes
<1>. QED BY <1>1, <1>2

\* run() that ends in ERROR has written no word of memory and counted nothing:
\* the check of the buffers (controller.cpp:197-202) can only fail at the first
\* tile.
THEOREM FailedRunsChangeNothing == Spec => FailureLeavesMemory
<1>1. IInv /\ [Next]_vars => [(Run \/ RunStep) /\ state' = "ERROR" => mem' = mem0' /\ perf' = perf0']_vars
  BY FailureEffect
<1>. QED BY <1>1, Invariance, PTL DEF Spec, FailureLeavesMemory

\* The registers, the buffers and the memory keep their types.
THEOREM TypeCorrect == Spec => []TypeOK
<1>1. IInv => TypeOK
  BY DEF IInv
<1>. QED BY <1>1, Invariance, PTL

\* ERROR is set exactly with an error code, BUSY exactly while run() is on: the
\* assignments of state_ and error_ in controller.cpp never part.
THEOREM StatusTellsOneStory == Spec => []StatusConsistent
<1>1. IInv => StatusConsistent
  BY DEF IInv
<1>. QED BY <1>1, Invariance, PTL

\* Between the steps of a run every word of C holds the product up to the depth
\* its tiles have reached, every other word what run() found (run_tile's read
\* back of C and store, controller.cpp:235-312).
THEOREM MemoryHoldsPartialSums == Spec => []PartialSums
<1>1. IInv => PartialSums
  BY DEF IInv
<1>. QED BY <1>1, Invariance, PTL

\* What Gemm sees of the controller: in a run, what the run found.
SeenMem == IF phase = "idle" THEN mem ELSE mem0
SeenNpu == [desc |-> desc,
            state |-> IF phase = "idle" THEN state ELSE state0,
            error |-> IF phase = "idle" THEN error ELSE error0,
            perf |-> IF phase = "idle" THEN perf ELSE perf0]

\* Outside a run it sees the registers.
LEMMA SeenIdle ==
    /\ phase = "idle" =>
          SeenMem = mem /\ SeenNpu = [desc |-> desc, state |-> state, error |-> error, perf |-> perf]
    /\ phase' = "idle" =>
          SeenMem' = mem' /\ SeenNpu' = [desc |-> desc', state |-> state', error |-> error', perf |-> perf']
BY DEF SeenMem, SeenNpu

\* The actions of Gemm on what it sees.
LEMMA SeenActions ==
    /\ UNCHANGED Abstract!gemmVars <=>
           SeenMem' = SeenMem /\ bound' = bound /\ SeenNpu' = SeenNpu /\ readback' = readback
    /\ \A d : Abstract!Submit(d) <=>
           SeenNpu' = Submitted(SeenNpu, d) /\ SeenMem' = SeenMem /\ bound' = bound /\ readback' = readback
    /\ Abstract!Run <=>
           /\ SeenNpu' = Ran(SeenNpu, bound)
           /\ IF Ran(SeenNpu, bound).state = "DONE" THEN MayBecome(SeenMem, SeenNpu.desc, SeenMem')
              ELSE SeenMem' = SeenMem
           /\ bound' = bound /\ readback' = readback
    /\ \A base, data : Abstract!Load(base, data) <=>
           /\ IF ~bound THEN SeenNpu' = Failed(SeenNpu, "BUFFER_FAIL") /\ SeenMem' = SeenMem
              ELSE IF ~LoadFits(WordAddr(base), Len(data))
              THEN SeenNpu' = Failed(SeenNpu, "OUT_OF_RANGE") /\ SeenMem' = SeenMem
              ELSE /\ SeenNpu' = [SeenNpu EXCEPT !.perf.writes = @ + Len(data)]
                   /\ SeenMem' = Loaded(SeenMem, WordAddr(base), data)
           /\ bound' = bound /\ readback' = readback
    /\ Abstract!LoadNull <=>
           /\ SeenNpu' = Failed(SeenNpu, "BUFFER_FAIL") /\ SeenMem' = SeenMem
           /\ bound' = bound /\ readback' = readback
    /\ \A b : Abstract!BindMemory(b) <=>
           bound' = b /\ SeenMem' = SeenMem /\ SeenNpu' = SeenNpu /\ readback' = readback
    /\ Abstract!Reset <=>
           SeenNpu' = ResetNpu /\ SeenMem' = SeenMem /\ bound' = bound /\ readback' = readback
<1>. USE SameData, SameSteps DEF SeenMem, SeenNpu
<1>1. UNCHANGED Abstract!gemmVars <=>
          SeenMem' = SeenMem /\ bound' = bound /\ SeenNpu' = SeenNpu /\ readback' = readback
  BY DEF Abstract!gemmVars
<1>2. ASSUME NEW d
      PROVE  Abstract!Submit(d) <=>
                 SeenNpu' = Submitted(SeenNpu, d) /\ SeenMem' = SeenMem /\ bound' = bound /\ readback' = readback
  BY DEF Abstract!Submit
<1>3. Abstract!Run <=>
          /\ SeenNpu' = Ran(SeenNpu, bound)
          /\ IF Ran(SeenNpu, bound).state = "DONE" THEN MayBecome(SeenMem, SeenNpu.desc, SeenMem')
             ELSE SeenMem' = SeenMem
          /\ bound' = bound /\ readback' = readback
  BY DEF Abstract!Run
<1>4. ASSUME NEW base, NEW data
      PROVE  Abstract!Load(base, data) <=>
                 /\ IF ~bound THEN SeenNpu' = Failed(SeenNpu, "BUFFER_FAIL") /\ SeenMem' = SeenMem
                    ELSE IF ~LoadFits(WordAddr(base), Len(data))
                    THEN SeenNpu' = Failed(SeenNpu, "OUT_OF_RANGE") /\ SeenMem' = SeenMem
                    ELSE /\ SeenNpu' = [SeenNpu EXCEPT !.perf.writes = @ + Len(data)]
                         /\ SeenMem' = Loaded(SeenMem, WordAddr(base), data)
                 /\ bound' = bound /\ readback' = readback
  BY DEF Abstract!Load
<1>5. Abstract!LoadNull <=>
          /\ SeenNpu' = Failed(SeenNpu, "BUFFER_FAIL") /\ SeenMem' = SeenMem
          /\ bound' = bound /\ readback' = readback
  BY DEF Abstract!LoadNull
<1>6. ASSUME NEW b
      PROVE  Abstract!BindMemory(b) <=>
                 bound' = b /\ SeenMem' = SeenMem /\ SeenNpu' = SeenNpu /\ readback' = readback
  BY DEF Abstract!BindMemory
<1>7. Abstract!Reset <=>
          SeenNpu' = ResetNpu /\ SeenMem' = SeenMem /\ bound' = bound /\ readback' = readback
  BY DEF Abstract!Reset
<1>. QED BY <1>1, <1>2, <1>3, <1>4, <1>5, <1>6, <1>7

\* A failure sets the two status registers and nothing else.
LEMMA FailedIs ==
    \A d, s, e, p, why :
        Failed([desc |-> d, state |-> s, error |-> e, perf |-> p], why)
            = [desc |-> d, state |-> "ERROR", error |-> why, perf |-> p]
<1>. TAKE d, s, e, p, why
<1>. DEFINE npu == [desc |-> d, state |-> s, error |-> e, perf |-> p]
            mid == [npu EXCEPT !.state = "ERROR"]
<1>1. mid = [desc |-> d, state |-> "ERROR", error |-> e, perf |-> p]
  OBVIOUS
<1>2. Failed(npu, why) = [mid EXCEPT !.error = why]
  BY DEF Failed
<1>. HIDE DEF npu, mid
<1>3. [mid EXCEPT !.error = why] = [desc |-> d, state |-> "ERROR", error |-> why, perf |-> p]
  BY <1>1
<1>. QED BY <1>2, <1>3 DEF npu

\* The controller starts as Gemm does.
LEMMA AbstractInit == Init => Abstract!Init
<1>. SUFFICES ASSUME Init PROVE Abstract!Init
  OBVIOUS
<1>1. mem \in Memory /\ bound \in BOOLEAN /\ readback = <<>> /\ phase = "idle"
      /\ desc = DefaultDescriptor /\ state = "IDLE" /\ error = "NONE" /\ perf = ZeroPerf
  BY ControllerAssumption DEF Init
<1>2. SeenMem \in Memory /\ SeenNpu = ResetNpu
  BY <1>1, SeenIdle DEF ResetNpu
<1>. QED BY <1>1, <1>2, SameData DEF Abstract!Init, SeenMem, SeenNpu

\* read_output_data through the DMA engine reads the words it should.
LEMMA ReadOutputSeen ==
    ASSUME IInv, NEW len \in Lengths, ReadOutputData(len)
    PROVE  Abstract!ReadOutput(len)
<1>1. /\ phase = "idle" /\ phase' = "idle"
      /\ mem' = mem /\ bound' = bound /\ desc' = desc
      /\ state' = state /\ error' = error /\ perf' = perf
  BY DEF ReadOutputData, Call, status
<1>2. SeenMem' = SeenMem /\ SeenNpu' = SeenNpu /\ SeenMem = mem /\ SeenNpu.desc = desc
  BY <1>1, SeenIdle DEF SeenNpu
<1>. DEFINE from == WordAddr(desc.C)
            req == Request("DRAM_TO_BUFFER", desc.C, 0, len, 1, len, len)
<1>3. len \in Nat /\ MemWords \in Nat /\ BufferSize \in Nat
  BY ControllerAssumption, MemoryAssumption
<1>4. desc.C \in Nat /\ desc.C = WordBytes * from /\ from \in Nat
  <2>1. CASE desc = DefaultDescriptor
    BY <2>1 DEF DefaultDescriptor, WordAddr, WordBytes
  <2>2. CASE desc # DefaultDescriptor
    <3>1. desc \in DescriptorType /\ Validate(desc)
      BY <2>2, ControllerAssumption DEF IInv, TypeOK, Found
    <3>2. desc.C \in Nat /\ desc.C % 4 = 0
      BY <3>1, ValidNumbers DEF Validate, IsWordAligned, WordBytes
    <3>3. desc.C = 4 * (desc.C \div 4) /\ desc.C \div 4 \in Nat
      BY <3>2
    <3>. QED BY <3>2, <3>3 DEF WordAddr, WordBytes
  <2>. QED BY <2>1, <2>2
<1>. HIDE DEF from
<1>5. (WellFormed(req) /\ InRange(req, MemWords, BufferSize))
          <=> (len \in 1..BufferSize /\ from + len <= MemWords)
  <2>1. /\ req.length = len /\ req.rows = 1 /\ req.srcStride = len /\ req.dstStride = len
        /\ req.dramBase = desc.C /\ req.bufferBase = 0 /\ ToBuffer(req)
    BY DEF Request, ToBuffer
  <2>2. req.dramBase % DramWordBytes = 0 /\ DramWord(req) = from
    <3>1. desc.C = 4 * from /\ from \in Nat
      BY <1>4 DEF WordBytes
    <3>2. (4 * from) % 4 = 0 /\ (4 * from) \div 4 = from
      BY <3>1
    <3>. QED BY <2>1, <3>1, <3>2 DEF DramWord, DramWordBytes
  <2>. HIDE DEF req
  <2>3. WellFormed(req) <=> len # 0
    BY <2>1, <2>2 DEF WellFormed
  <2>4. SrcAddr(req, 0, len - 1) = from + len - 1 /\ DstAddr(req, 0, len - 1) = len - 1
    <3>1. SrcBase(req) = from /\ DstBase(req) = 0
      BY <2>1, <2>2 DEF SrcBase, DstBase
    <3>2. SrcAddr(req, 0, len - 1) = from + 0 * len + (len - 1)
          /\ DstAddr(req, 0, len - 1) = 0 + 0 * len + (len - 1)
      BY <2>1, <3>1 DEF SrcAddr, DstAddr
    <3>. QED BY <1>3, <1>4, <3>2
  <2>5. InRange(req, MemWords, BufferSize) <=> from + len - 1 < MemWords /\ len - 1 < BufferSize
    <3>1. req.rows - 1 = 0
      BY <2>1
    <3>. QED BY <2>1, <2>4, <3>1 DEF InRange
  <2>. QED BY <1>3, <1>4, <2>3, <2>5
<1>6. ASSUME len \in 1..BufferSize, from + len <= MemWords
      PROVE  \A i \in 1..len : Transferred(req, mem, EmptyBuffer)[i - 1] = mem[from + i - 1]
  <2>1. IsAt(from, len, 1, len)
    BY <1>3, <1>4, <1>6 DEF IsAt
  <2>2. req = Request("DRAM_TO_BUFFER", WordBytes * from, 0, len, 1, len, len)
    BY <1>4
  <2>3. 1 * len <= BufferSize
    BY <1>6
  <2>. HIDE DEF req
  <2>4. /\ Apart(req) /\ req.rows = 1 /\ req.length = len
        /\ \A r \in 0..(1 - 1), c \in 0..(len - 1) :
              /\ SrcAddr(req, r, c) = from + r * len + c
              /\ DstAddr(req, r, c) = r * len + c /\ r * len + c \in Slots
    BY <2>1, <2>2, <2>3, PackedIn
  <2>. TAKE i \in 1..len
  <2>. DEFINE c == i - 1
  <2>5. c \in 0..(len - 1) /\ 0 \in 0..(1 - 1) /\ 0 * len + c = c /\ from + 0 * len + c = from + i - 1
    BY <1>3, <1>4
  <2>. HIDE DEF c
  <2>6. SrcAddr(req, 0, c) = from + i - 1 /\ DstAddr(req, 0, c) = c /\ c \in Slots
    BY <2>4, <2>5
  <2>7. DstAddr(req, 0, c) \in DOMAIN EmptyBuffer
    BY <2>6 DEF EmptyBuffer
  <2>8. 0 \in 0..(req.rows - 1) /\ c \in 0..(req.length - 1)
    BY <2>4, <2>5
  <2>9. Transferred(req, mem, EmptyBuffer)[DstAddr(req, 0, c)] = mem[SrcAddr(req, 0, c)]
    BY <2>4, <2>7, <2>8, MovedWord
  <2>. QED BY <2>6, <2>9 DEF c
<1>7. readback' = IF bound /\ len \in 1..BufferSize /\ from + len <= MemWords
                  THEN [i \in 1..len |-> mem[from + i - 1]] ELSE <<>>
  <2>1. readback' = IF bound /\ WellFormed(req) /\ InRange(req, MemWords, BufferSize)
                    THEN [i \in 1..len |-> Transferred(req, mem, EmptyBuffer)[i - 1]]
                    ELSE <<>>
    BY DEF ReadOutputData
  <2>. HIDE DEF req
  <2>2. CASE bound /\ len \in 1..BufferSize /\ from + len <= MemWords
    BY <1>5, <1>6, <2>1, <2>2
  <2>3. CASE ~(bound /\ len \in 1..BufferSize /\ from + len <= MemWords)
    BY <1>5, <2>1, <2>3
  <2>. QED BY <2>2, <2>3
<1>8. Abstract!WordAddr(desc.C) = from
  BY SameData DEF from
<1>. QED BY <1>1, <1>2, <1>7, <1>8 DEF Abstract!ReadOutput, SeenMem, SeenNpu

\* The operations of the host but run and read_output_data.
LEMMA HostSeen ==
    ASSUME IInv,
           \/ \E d \in Descriptors : Submit(d)
           \/ LoadWeightData \/ LoadInputData \/ LoadNull
           \/ \E b \in BOOLEAN : BindMemory(b)
           \/ Reset
    PROVE  Abstract!Next
<1>1. ASSUME NEW d \in Descriptors, Submit(d) PROVE Abstract!Next
  <2>1. phase = "idle" /\ phase' = "idle" /\ mem' = mem /\ bound' = bound /\ readback' = readback
        /\ perf' = perf
    BY <1>1 DEF Submit, Call
  <2>2. SeenMem' = SeenMem
    BY <2>1, SeenIdle
  <2>3. SeenNpu' = Submitted(SeenNpu, d)
    <3>1. SeenNpu = [desc |-> desc, state |-> state, error |-> error, perf |-> perf]
          /\ SeenNpu' = [desc |-> desc', state |-> state', error |-> error', perf |-> perf]
      BY <2>1, SeenIdle
    <3>2. CASE Validate(d)
      BY <1>1, <3>1, <3>2 DEF Submit, Submitted
    <3>3. CASE ~Validate(d)
      BY <1>1, <3>1, <3>3 DEF Submit, Submitted, Fail, Failed
    <3>. QED BY <3>2, <3>3
  <2>4. Abstract!Submit(d)
    BY <2>1, <2>2, <2>3, SeenActions
  <2>. QED BY <2>4 DEF Abstract!Next
<1>2. ASSUME NEW base \in {desc.A, desc.B}, NEW data \in Payloads, Load(base, data)
      PROVE  Abstract!Next
  <2>1. phase = "idle" /\ phase' = "idle" /\ bound' = bound /\ readback' = readback /\ desc' = desc
    BY <1>2 DEF Load, Call
  <2>2. SeenMem = mem /\ SeenMem' = mem'
        /\ SeenNpu = [desc |-> desc, state |-> state, error |-> error, perf |-> perf]
        /\ SeenNpu' = [desc |-> desc, state |-> state', error |-> error', perf |-> perf']
    BY <2>1, SeenIdle
  <2>3. Abstract!Load(base, data)
    <3>1. CASE ~bound
      <4>1. mem' = mem /\ perf' = perf /\ state' = "ERROR" /\ error' = "BUFFER_FAIL"
        BY <1>2, <3>1 DEF Load, Fail
      <4>2. SeenNpu' = Failed(SeenNpu, "BUFFER_FAIL") /\ SeenMem' = SeenMem
        BY <2>2, <4>1, FailedIs
      <4>. QED BY <2>1, <3>1, <4>2, SeenActions
    <3>2. CASE bound /\ ~LoadFits(WordAddr(base), Len(data))
      <4>1. mem' = mem /\ perf' = perf /\ state' = "ERROR" /\ error' = "OUT_OF_RANGE"
        BY <1>2, <3>2 DEF Load, Fail
      <4>2. SeenNpu' = Failed(SeenNpu, "OUT_OF_RANGE") /\ SeenMem' = SeenMem
        BY <2>2, <4>1, FailedIs
      <4>. QED BY <2>1, <3>2, <4>2, SeenActions
    <3>3. CASE bound /\ LoadFits(WordAddr(base), Len(data))
      <4>1. /\ mem' = Loaded(mem, WordAddr(base), data)
            /\ perf' = [perf EXCEPT !.writes = @ + Len(data)]
            /\ state' = state /\ error' = error
        BY <1>2, <3>3 DEF Load, status
      <4>2. SeenNpu' = [SeenNpu EXCEPT !.perf.writes = @ + Len(data)]
            /\ SeenMem' = Loaded(SeenMem, WordAddr(base), data)
        BY <2>2, <4>1
      <4>. QED BY <2>1, <3>3, <4>2, SeenActions
    <3>. QED BY <3>1, <3>2, <3>3
  <2>4. base \in {SeenNpu.desc.A, SeenNpu.desc.B}
    BY <2>2
  <2>. QED BY <2>3, <2>4 DEF Abstract!Next, SeenNpu
<1>3. CASE LoadNull
  <2>1. phase = "idle" /\ phase' = "idle" /\ mem' = mem /\ bound' = bound /\ readback' = readback
        /\ desc' = desc /\ perf' = perf /\ state' = "ERROR" /\ error' = "BUFFER_FAIL"
    BY <1>3 DEF LoadNull, Call, Fail
  <2>2. SeenNpu' = Failed(SeenNpu, "BUFFER_FAIL") /\ SeenMem' = SeenMem
    BY <2>1, SeenIdle, FailedIs
  <2>3. Abstract!LoadNull
    BY <2>1, <2>2, SeenActions
  <2>. QED BY <2>3 DEF Abstract!Next
<1>4. ASSUME NEW b \in BOOLEAN, BindMemory(b) PROVE Abstract!Next
  <2>1. phase = "idle" /\ phase' = "idle" /\ mem' = mem /\ bound' = b /\ readback' = readback
        /\ desc' = desc /\ perf' = perf /\ state' = state /\ error' = error
    BY <1>4 DEF BindMemory, Call, status
  <2>2. SeenNpu' = SeenNpu /\ SeenMem' = SeenMem
    BY <2>1, SeenIdle
  <2>3. Abstract!BindMemory(b)
    BY <2>1, <2>2, SeenActions
  <2>. QED BY <2>3 DEF Abstract!Next
<1>5. CASE Reset
  <2>1. phase = "idle" /\ phase' = "idle" /\ mem' = mem /\ bound' = bound /\ readback' = readback
        /\ desc' = DefaultDescriptor /\ perf' = ZeroPerf /\ state' = "IDLE" /\ error' = "NONE"
    BY <1>5 DEF Reset, Call
  <2>2. SeenNpu' = ResetNpu /\ SeenMem' = SeenMem
    BY <2>1, SeenIdle DEF ResetNpu
  <2>3. Abstract!Reset
    BY <2>1, <2>2, SeenActions
  <2>. QED BY <2>3 DEF Abstract!Next
<1>. QED BY <1>1, <1>2, <1>3, <1>4, <1>5 DEF LoadWeightData, LoadInputData

\* run() that fails its checks is a step of Gemm, an accepted one is not yet.
LEMMA RunSeen ==
    ASSUME IInv, Run
    PROVE  Abstract!Next \/ UNCHANGED Abstract!gemmVars
<1>1. /\ phase = "idle" /\ mem' = mem /\ bound' = bound /\ desc' = desc /\ perf' = perf
      /\ readback' = readback
      /\ mem0' = mem /\ perf0' = perf /\ state0' = state /\ error0' = error
      /\ SeenMem = mem /\ SeenNpu = [desc |-> desc, state |-> state, error |-> error, perf |-> perf]
  BY SeenIdle DEF Run, Call
<1>2. CASE phase' # "idle"
  <2>1. SeenMem' = SeenMem /\ SeenNpu' = SeenNpu
    BY <1>1, <1>2 DEF SeenMem, SeenNpu
  <2>. QED BY <1>1, <2>1, SeenActions
<1>3. CASE phase' = "idle"
  <2>1. SeenMem' = mem
        /\ SeenNpu' = [desc |-> desc, state |-> state', error |-> error', perf |-> perf]
    BY <1>1, <1>3, SeenIdle
  <2>2. SeenNpu' = Ran(SeenNpu, bound) /\ Ran(SeenNpu, bound).state = "ERROR"
    <3>1. CASE ~Validate(desc)
      BY <1>1, <2>1, <3>1 DEF Run, Fail, Ran, Failed
    <3>2. CASE Validate(desc)
      <4>1. (~bound \/ ~InMemory(desc)) /\ state' = "ERROR" /\ error' = "OUT_OF_RANGE"
        BY <1>1, <1>3, <3>2 DEF Run, Fail
      <4>. QED BY <1>1, <2>1, <3>2, <4>1 DEF Ran, Failed
    <3>. QED BY <3>1, <3>2
  <2>3. Abstract!Run
    BY <1>1, <2>1, <2>2, SeenActions
  <2>. QED BY <2>3 DEF Abstract!Next
<1>. QED BY <1>2, <1>3

\* The last store leaves the product in C.
LEMMA ProductStored ==
    ASSUME IInv, Store, At = TilesOf(desc)
    PROVE  MayBecome(mem0, desc, mem')
<1>0. phase = "store" /\ phase # "idle" /\ TypeOK /\ InRun
      /\ mem' = Transferred(RequestCOut, output, mem)
  BY StoreFacts
<1>1. /\ desc \in DescriptorType /\ Validate(desc) /\ InMemory(desc)
  BY <1>0, CurrentTile
<1>2. mem' \in Memory
  BY <1>0, StoredWords
<1>3. \A w \in Addresses : w \notin CRegion(desc) => mem'[w] = mem0[w]
  <2>1. \A w \in Addresses : w \notin CRegion(desc) => mem'[w] = mem[w]
    BY <1>0, StoredWords
  <2>2. \A w \in Addresses : w \notin CRegion(desc) => mem[w] = mem0[w]
    BY <1>0 DEF IInv, OnlyC
  <2>. QED BY <2>1, <2>2
<1>4. CASE Disjoint(desc)
  <2>1. ASSUME NEW w \in Addresses, w \in CRegion(desc)
        PROVE  mem'[w] = Dot(mem0, desc, (w - WordAddr(desc.C)) \div desc.n,
                             (w - WordAddr(desc.C)) % desc.n, desc.k)
    <3>. DEFINE o == w - WordAddr(desc.C)
                i == o \div desc.n
                j == o % desc.n
                d == Depth(desc, At + 1, i, j)
    <3>1. mem'[w] = IF w \in CRegion(desc) /\ d > 0 THEN Dot(mem0, desc, i, j, d) ELSE mem0[w]
      BY <1>0, <1>4, StoredSums
    <3>2. i \in 0..(desc.m - 1) /\ j \in 0..(desc.n - 1)
      BY <1>1, <2>1, CellAt
    <3>. HIDE DEF i, j
    <3>3. d = desc.k
      BY <1>1, <3>2, DepthLast
    <3>4. desc.k > 0
      BY <1>1, ValidNumbers
    <3>. HIDE DEF d
    <3>5. mem'[w] = Dot(mem0, desc, i, j, desc.k)
      BY <2>1, <3>1, <3>3, <3>4
    <3>. QED BY <3>5 DEF i, j
  <2>2. mem' = [w \in Addresses |-> mem'[w]]
    BY <1>2 DEF Memory
  <2>3. mem' = Multiply(mem0, desc)
    <3>1. \A w \in Addresses : mem'[w] = Multiply(mem0, desc)[w]
      BY <1>3, <2>1 DEF Multiply
    <3>2. Multiply(mem0, desc) = [w \in Addresses |-> Multiply(mem0, desc)[w]]
      BY DEF Multiply
    <3>. QED BY <2>2, <3>1, <3>2
  <2>. QED BY <1>4, <2>3 DEF MayBecome
<1>5. CASE ~Disjoint(desc)
  BY <1>2, <1>3, <1>5 DEF MayBecome
<1>. QED BY <1>4, <1>5

\* A step of a run is hidden from Gemm, but for the one that ends it.
LEMMA RunStepSeen ==
    ASSUME IInv, RunStep
    PROVE  Abstract!Next \/ UNCHANGED Abstract!gemmVars
<1>0. phase # "idle" /\ TypeOK /\ InRun
  <2>1. phase # "idle"
    BY DEF RunStep, LoadA, LoadB, LoadC, Compute, Store
  <2>. QED BY <2>1, InTileFacts
<1>1. Validate(desc) /\ bound /\ InMemory(desc) /\ desc \in DescriptorType
  BY <1>0, CurrentTile DEF InRun
<1>2. SeenMem = mem0
      /\ SeenNpu = [desc |-> desc, state |-> state0, error |-> error0, perf |-> perf0]
  BY <1>0 DEF SeenMem, SeenNpu
<1>3. ASSUME phase' # "idle", UNCHANGED <<bound, desc, readback, history>>
      PROVE  UNCHANGED Abstract!gemmVars
  <2>1. SeenMem' = SeenMem /\ SeenNpu' = SeenNpu
    BY <1>0, <1>3 DEF SeenMem, SeenNpu, history
  <2>. QED BY <1>3, <2>1, SeenActions
<1>4. CASE FailsFirst
  <2>1. /\ phase' = "idle" /\ state' = "ERROR" /\ error' = "OUT_OF_RANGE"
        /\ mem' = mem0 /\ perf' = perf0 /\ desc' = desc /\ bound' = bound /\ readback' = readback
        /\ ~FirstTileFits(desc)
    BY <1>4 DEF FailsFirst, TileFails, Fail
  <2>2. SeenMem' = mem0
        /\ SeenNpu' = [desc |-> desc, state |-> "ERROR", error |-> "OUT_OF_RANGE", perf |-> perf0]
    BY <2>1, SeenIdle
  <2>3. SeenNpu' = Ran(SeenNpu, bound) /\ Ran(SeenNpu, bound).state = "ERROR"
    BY <1>1, <1>2, <2>1, <2>2 DEF Ran, Failed
  <2>4. Abstract!Run
    BY <1>2, <2>1, <2>2, <2>3, SeenActions
  <2>. QED BY <2>4 DEF Abstract!Next
<1>5. CASE MidStep /\ readback' = readback
  <2>1. phase' # "idle" /\ UNCHANGED <<bound, desc, readback, history>>
    BY <1>5 DEF MidStep, RunPhases
  <2>. QED BY <1>3, <2>1
<1>6. CASE Store
  <2>1. /\ FirstTileFits(desc) /\ error' = error
        /\ perf' = Plus(Plus(perf0, Counted(desc, At)), TileCounts(tile))
        /\ phase' = IF At = TilesOf(desc) THEN "idle" ELSE "loadA"
        /\ state' = IF At = TilesOf(desc) THEN "DONE" ELSE state
        /\ UNCHANGED <<bound, desc, readback, history>>
    BY <1>6, StoreFacts
  <2>2. CASE At # TilesOf(desc)
    BY <1>3, <2>1, <2>2
  <2>3. CASE At = TilesOf(desc)
    <3>1. perf' = PerfAfter(perf0, desc)
      <4>1. perf0 \in PerfType
        BY DEF IInv, Found
      <4>2. tile = TileAt(desc, At)
        BY <1>0, CurrentTile
      <4>. QED BY <1>1, <2>1, <2>3, <4>1, <4>2, CountedLast
    <3>2. SeenMem' = mem'
          /\ SeenNpu' = [desc |-> desc, state |-> "DONE", error |-> "NONE", perf |-> PerfAfter(perf0, desc)]
      BY <1>0, <2>1, <2>3, <3>1, SeenIdle, NoErrorInRun
    <3>3. SeenNpu' = Ran(SeenNpu, bound) /\ Ran(SeenNpu, bound).state = "DONE" /\ SeenNpu.desc = desc
      BY <1>1, <1>2, <2>1, <3>2 DEF Ran
    <3>4. MayBecome(SeenMem, SeenNpu.desc, SeenMem')
      BY <1>2, <1>6, <2>3, <3>2, <3>3, ProductStored
    <3>5. Abstract!Run
      BY <2>1, <3>3, <3>4, SeenActions
    <3>. QED BY <3>5 DEF Abstract!Next
  <2>. QED BY <2>2, <2>3
<1>. QED BY <1>4, <1>5, <1>6, RunStepOutcomes

\* Every step of the controller is one of Gemm, or hidden from it.
LEMMA NextSeen ==
    ASSUME IInv, [Next]_vars
    PROVE  [Abstract!Next]_(Abstract!gemmVars)
<1>1. CASE UNCHANGED vars
  <2>1. SeenMem' = SeenMem /\ SeenNpu' = SeenNpu /\ bound' = bound /\ readback' = readback
    BY <1>1 DEF vars, status, history, SeenMem, SeenNpu
  <2>. QED BY <2>1, SeenActions
<1>2. ASSUME NEW len \in Lengths, ReadOutputData(len) PROVE Abstract!Next
  BY <1>2, ReadOutputSeen DEF Abstract!Next
<1>3. CASE Run
  BY <1>3, RunSeen
<1>4. CASE RunStep
  BY <1>4, RunStepSeen
<1>. QED BY <1>1, <1>2, <1>3, <1>4, HostSeen DEF Next

\* The controller implements Gemm: whatever the tiling, the dataflow and the
\* order of the host's calls, run() leaves the product in C, writes nothing else
\* and adds the closed-form counters, or fails without effect.
THEOREM Refinement == Spec => ImplementsGemm
<1>1. Init => Abstract!Init
  BY AbstractInit
<1>2. IInv /\ [Next]_vars => [Abstract!Next]_(Abstract!gemmVars)
  BY NextSeen
<1>. QED BY <1>1, <1>2, Invariance, PTL DEF Spec, ImplementsGemm, Abstract!Spec
=============================================================================
