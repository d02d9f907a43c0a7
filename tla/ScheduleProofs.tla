--------------------------- MODULE ScheduleProofs ---------------------------
(***************************************************************************)
(* Proofs about Scheduler::build_plan for every set of descriptors that    *)
(* load_from_memory can produce, every array and every word size: the plan *)
(* is a partition of the product, its tiles are inside the matrices, sums  *)
(* accumulate in order and no counter wraps.                               *)
(***************************************************************************)
EXTENDS Schedule, GemmOpsProofs, SequenceTheorems

\* What a valid descriptor of Descriptors gives the arithmetic below.
LEMMA DescriptorBounds ==
    ASSUME NEW d \in Descriptors, Validate(d)
    PROVE  /\ d.m \in Nat \ {0} /\ d.n \in Nat \ {0} /\ d.k \in Nat \ {0}
           /\ d.tm \in Nat \ {0} /\ d.tn \in Nat \ {0} /\ d.tk \in Nat \ {0}
           /\ 2 * d.m < Word /\ 2 * d.n < Word /\ 2 * d.k < Word
           /\ d.tm < Word /\ d.tn < Word /\ d.tk < Word
           /\ Word \in Nat
BY DescriptorsAssumption, WordAssumption DEF DescriptorType, Validate

\* A loop counter below its bound does not wrap when the tile side is added:
\* either it is the first tile, or the side is no larger than the counter.
LEMMA AddExact ==
    ASSUME NEW x \in Nat, NEW y \in Nat, NEW bound \in Nat, Word \in Nat,
           x < bound, 2 * bound < Word, y < Word, x = 0 \/ y <= x
    PROVE  Add(x, y) = x + y
BY DEF Add

-----------------------------------------------------------------------------
(* The inductive invariant: the properties to be proved, and where the     *)
(* loops are.                                                              *)

\* The loops are entered with a valid descriptor and an empty plan; a counter
\* past its bound finds the inner ones at 0; the outer loop ends past m; a
\* counter that has moved is at least one tile side.
Position ==
    /\ phase \in {"loop", "true"} => Validate(desc)
    /\ phase = "start" => plan = <<>> /\ m0 = 0 /\ n0 = 0 /\ k0 = 0
    /\ phase = "false" => plan = <<>>
    /\ n0 >= desc.n => k0 = 0
    /\ m0 >= desc.m => n0 = 0 /\ k0 = 0
    /\ phase = "true" => m0 >= desc.m
    /\ m0 = 0 \/ desc.tm <= m0
    /\ n0 = 0 \/ desc.tn <= n0
    /\ k0 = 0 \/ desc.tk <= k0

\* A depth in the middle was reached by the last tile.
LastTileBefore ==
    phase = "loop" /\ k0 # 0 /\ k0 < desc.k =>
        /\ plan # <<>>
        /\ plan[Len(plan)].m0 = m0 /\ plan[Len(plan)].n0 = n0
        /\ plan[Len(plan)].k0 + plan[Len(plan)].kLen = k0

\* The plan while the loops run: CoversPassed and TilesDisjoint.
PlanSoFar == phase \in {"loop", "true"} => CoversPassed /\ TilesDisjoint

IInv ==
    /\ TypeOK /\ Position
    /\ TilesInside /\ AccumulatesInOrder /\ LastTileBefore /\ PlanSoFar

\* The tile PushTile appends.
NewTile == Tile(m0, n0, k0, Clip(desc.m, m0, desc.tm),
                Clip(desc.n, n0, desc.tn), Clip(desc.k, k0, desc.tk))

LEMMA InitIInv == Init => IInv
BY DescriptorsAssumption DEF Init, IInv, TypeOK, Phases, Position, TilesInside, AccumulatesInOrder,
   LastTileBefore, PlanSoFar, DescriptorType
-----------------------------------------------------------------------------
(* One step of the loops. *)

LEMMA EnterIInv == IInv /\ Enter => IInv'
<1>. SUFFICES ASSUME IInv, Enter PROVE IInv'
  OBVIOUS
<1>. USE DEF IInv
<1>1. /\ plan = <<>> /\ m0 = 0 /\ n0 = 0 /\ k0 = 0
      /\ UNCHANGED <<desc, plan, m0, n0, k0>>
      /\ (phase' = "loop" /\ Validate(desc)) \/ phase' = "false"
  BY DEF Enter, Position
<1>2. TypeOK' /\ Position'
  BY <1>1 DEF TypeOK, Position, Phases
<1>3. TilesInside' /\ AccumulatesInOrder' /\ LastTileBefore'
  BY <1>1 DEF TilesInside, AccumulatesInOrder, LastTileBefore
<1>4. PlanSoFar'
  <2>. SUFFICES ASSUME phase' = "loop" PROVE CoversPassed' /\ TilesDisjoint'
    BY <1>1 DEF PlanSoFar
  <2>1. Validate(desc) /\ desc \in Descriptors
    BY <1>1 DEF TypeOK
  <2>2. TilesDisjoint'
    BY <1>1 DEF TilesDisjoint
  <2>3. CoversPassed'
    BY <1>1, <2>1, DescriptorBounds DEF CoversPassed, Passed
  <2>. QED BY <2>2, <2>3
<1>. QED BY <1>2, <1>3, <1>4

\* Where the body of the innermost loop runs.
LEMMA BodyFacts ==
    ASSUME IInv, PushTile
    PROVE  /\ desc \in Descriptors /\ Validate(desc) /\ plan \in Seq(TileType)
           /\ m0 \in Nat /\ n0 \in Nat /\ k0 \in Nat
           /\ m0 < desc.m /\ n0 < desc.n /\ k0 < desc.k
           /\ desc.m \in Nat /\ desc.n \in Nat /\ desc.k \in Nat
           /\ desc.tm \in Nat \ {0} /\ desc.tn \in Nat \ {0} /\ desc.tk \in Nat \ {0}
           /\ 2 * desc.m < Word /\ 2 * desc.n < Word /\ 2 * desc.k < Word
           /\ desc.tm < Word /\ desc.tn < Word /\ desc.tk < Word
           /\ m0 = 0 \/ desc.tm <= m0
           /\ n0 = 0 \/ desc.tn <= n0
           /\ k0 = 0 \/ desc.tk <= k0
           /\ Word \in Nat
<1>1. desc \in Descriptors /\ Validate(desc)
  BY DEF IInv, TypeOK, Position, PushTile, InN, InM
<1>. QED BY <1>1, DescriptorBounds DEF IInv, TypeOK, Position, PushTile, InN, InM

\* The sides of the tile it appends.
LEMMA NewTileSides ==
    ASSUME IInv, PushTile
    PROVE  /\ NewTile.mLen \in 1..desc.tm /\ m0 + NewTile.mLen <= desc.m
           /\ NewTile.nLen \in 1..desc.tn /\ n0 + NewTile.nLen <= desc.n
           /\ NewTile.kLen \in 1..desc.tk /\ k0 + NewTile.kLen <= desc.k
           /\ NewTile.m0 = m0 /\ NewTile.n0 = n0 /\ NewTile.k0 = k0
           /\ \A i \in Nat : i < desc.m => (i < m0 + NewTile.mLen <=> i < m0 + desc.tm)
           /\ \A j \in Nat : j < desc.n => (j < n0 + NewTile.nLen <=> j < n0 + desc.tn)
           /\ \A p \in Nat : p < desc.k => (p < k0 + NewTile.kLen <=> p < k0 + desc.tk)
           /\ k0 + desc.tk < desc.k => k0 + NewTile.kLen = k0 + desc.tk
           /\ NewTile \in TileType
<1>1. /\ NewTile.m0 = m0 /\ NewTile.n0 = n0 /\ NewTile.k0 = k0
      /\ NewTile.mLen = Clip(desc.m, m0, desc.tm)
      /\ NewTile.nLen = Clip(desc.n, n0, desc.tn)
      /\ NewTile.kLen = Clip(desc.k, k0, desc.tk)
  BY DEF NewTile, Tile
<1>2. /\ NewTile.mLen \in 1..desc.tm /\ m0 + NewTile.mLen <= desc.m
      /\ \A i \in Nat : i < desc.m => (i < m0 + NewTile.mLen <=> i < m0 + desc.tm)
  <2>1. /\ desc.m \in Nat /\ m0 \in Nat /\ desc.tm \in Nat \ {0} /\ Word \in Nat
        /\ m0 < desc.m /\ 2 * desc.m < Word /\ desc.tm < Word
        /\ m0 = 0 \/ desc.tm <= m0
    BY BodyFacts
  <2>2. Add(m0, desc.tm) = m0 + desc.tm
    BY <2>1, AddExact
  <2>. QED BY <1>1, <2>1, <2>2 DEF Clip
<1>3. /\ NewTile.nLen \in 1..desc.tn /\ n0 + NewTile.nLen <= desc.n
      /\ \A j \in Nat : j < desc.n => (j < n0 + NewTile.nLen <=> j < n0 + desc.tn)
  <2>1. /\ desc.n \in Nat /\ n0 \in Nat /\ desc.tn \in Nat \ {0} /\ Word \in Nat
        /\ n0 < desc.n /\ 2 * desc.n < Word /\ desc.tn < Word
        /\ n0 = 0 \/ desc.tn <= n0
    BY BodyFacts
  <2>2. Add(n0, desc.tn) = n0 + desc.tn
    BY <2>1, AddExact
  <2>. QED BY <1>1, <2>1, <2>2 DEF Clip
<1>4. /\ NewTile.kLen \in 1..desc.tk /\ k0 + NewTile.kLen <= desc.k
      /\ \A p \in Nat : p < desc.k => (p < k0 + NewTile.kLen <=> p < k0 + desc.tk)
      /\ k0 + desc.tk < desc.k => k0 + NewTile.kLen = k0 + desc.tk
  <2>1. /\ desc.k \in Nat /\ k0 \in Nat /\ desc.tk \in Nat \ {0} /\ Word \in Nat
        /\ k0 < desc.k /\ 2 * desc.k < Word /\ desc.tk < Word
        /\ k0 = 0 \/ desc.tk <= k0
    BY BodyFacts
  <2>2. Add(k0, desc.tk) = k0 + desc.tk
    BY <2>1, AddExact
  <2>. QED BY <1>1, <2>1, <2>2 DEF Clip
<1>5. NewTile \in TileType
  <2>1. /\ Clip(desc.m, m0, desc.tm) \in Nat /\ Clip(desc.n, n0, desc.tn) \in Nat
        /\ Clip(desc.k, k0, desc.tk) \in Nat
    <3>1. desc.tm \in Nat /\ desc.tn \in Nat /\ desc.tk \in Nat
      BY BodyFacts
    <3>. QED BY <1>1, <1>2, <1>3, <1>4, <3>1
  <2>. QED BY <2>1, BodyFacts DEF NewTile, Tile, TileType
<1>. QED BY <1>1, <1>2, <1>3, <1>4, <1>5

\* What it does to the plan and to the counter.
LEMMA PushTileEffect ==
    ASSUME IInv, PushTile
    PROVE  /\ k0' = k0 + desc.tk
           /\ plan' = Append(plan, NewTile)
           /\ Len(plan) \in Nat /\ Len(plan') = Len(plan) + 1
           /\ DOMAIN plan = 1..Len(plan) /\ DOMAIN plan' = 1..(Len(plan) + 1)
           /\ \A x \in 1..Len(plan) : plan'[x] = plan[x]
           /\ plan'[Len(plan) + 1] = NewTile
           /\ plan' \in Seq(TileType)
<1>1. k0' = k0 + desc.tk
  BY BodyFacts, AddExact DEF PushTile
<1>2. plan' = Append(plan, NewTile)
  BY DEF PushTile, NewTile
<1>3. plan \in Seq(TileType) /\ NewTile \in TileType
  BY BodyFacts, NewTileSides
<1>. QED BY <1>1, <1>2, <1>3, AppendProperties

\* Its cells are those between the loops' old and new position.
LEMMA NewTileCells ==
    ASSUME IInv, PushTile,
           NEW i \in 0..(desc.m - 1), NEW j \in 0..(desc.n - 1), NEW p \in 0..(desc.k - 1)
    PROVE  /\ Covers(NewTile, i, j, p) => ~Passed(i, j, p)
           /\ Passed(i, j, p)' <=> Passed(i, j, p) \/ Covers(NewTile, i, j, p)
<1>0. /\ desc.m \in Nat /\ desc.n \in Nat /\ desc.k \in Nat
      /\ desc.tm \in Nat /\ desc.tn \in Nat /\ desc.tk \in Nat
      /\ m0 \in Nat /\ n0 \in Nat /\ k0 \in Nat
  BY BodyFacts
<1>1. /\ i \in Nat /\ j \in Nat /\ p \in Nat
      /\ i < desc.m /\ j < desc.n /\ p < desc.k
  BY <1>0
<1>2. Covers(NewTile, i, j, p) <=> /\ m0 <= i /\ i < m0 + desc.tm
                                   /\ n0 <= j /\ j < n0 + desc.tn
                                   /\ k0 <= p /\ p < k0 + desc.tk
  BY <1>1, NewTileSides DEF Covers
<1>3. Passed(i, j, p)' <=> \/ i < m0
                           \/ i < m0 + desc.tm /\ j < n0
                           \/ i < m0 + desc.tm /\ j < n0 + desc.tn /\ p < k0 + desc.tk
  BY PushTileEffect DEF Passed, PushTile
<1>. QED BY <1>0, <1>1, <1>2, <1>3 DEF Passed

LEMMA PushTileIInv == IInv /\ PushTile => IInv'
<1>. SUFFICES ASSUME IInv, PushTile PROVE IInv'
  OBVIOUS
<1>1. /\ desc' = desc /\ m0' = m0 /\ n0' = n0 /\ phase' = phase /\ phase = "loop"
      /\ m0 < desc.m /\ n0 < desc.n /\ k0 < desc.k
  BY DEF PushTile, InN, InM
<1>2. /\ desc.m \in Nat /\ desc.n \in Nat /\ desc.k \in Nat
      /\ desc.tm \in Nat \ {0} /\ desc.tn \in Nat \ {0} /\ desc.tk \in Nat \ {0}
      /\ m0 \in Nat /\ n0 \in Nat /\ k0 \in Nat
      /\ desc \in Descriptors /\ Validate(desc)
  BY BodyFacts
<1>3. TypeOK'
  <2>1. k0' = k0 + desc.tk /\ plan' \in Seq(TileType)
    BY PushTileEffect
  <2>. QED BY <1>1, <1>2, <2>1 DEF TypeOK, Phases
<1>4. Position'
  BY <1>1, <1>2, PushTileEffect DEF IInv, Position
<1>. DEFINE n == Len(plan)
<1>5. /\ n \in Nat /\ DOMAIN plan = 1..n /\ DOMAIN plan' = 1..(n + 1) /\ Len(plan') = n + 1
      /\ \A x \in 1..n : plan'[x] = plan[x]
      /\ plan'[n + 1] = NewTile
      /\ k0' = k0 + desc.tk
  BY PushTileEffect
<1>. HIDE DEF n
<1>6. /\ NewTile.mLen \in 1..desc.tm /\ m0 + NewTile.mLen <= desc.m
      /\ NewTile.nLen \in 1..desc.tn /\ n0 + NewTile.nLen <= desc.n
      /\ NewTile.kLen \in 1..desc.tk /\ k0 + NewTile.kLen <= desc.k
      /\ NewTile.m0 = m0 /\ NewTile.n0 = n0 /\ NewTile.k0 = k0
      /\ k0 + desc.tk < desc.k => k0 + NewTile.kLen = k0 + desc.tk
  BY NewTileSides
<1>7. TilesInside'
  <2>. SUFFICES ASSUME NEW x \in 1..(n + 1)
                PROVE  LET t == plan'[x] IN
                       /\ t.mLen \in 1..desc.tm /\ t.m0 + t.mLen <= desc.m
                       /\ t.nLen \in 1..desc.tn /\ t.n0 + t.nLen <= desc.n
                       /\ t.kLen \in 1..desc.tk /\ t.k0 + t.kLen <= desc.k
    BY <1>1, <1>5 DEF TilesInside
  <2>1. CASE x = n + 1
    BY <2>1, <1>5, <1>6
  <2>2. CASE x \in 1..n
    BY <2>2, <1>5 DEF IInv, TilesInside
  <2>. QED BY <2>1, <2>2, <1>5
<1>8. AccumulatesInOrder'
  <2>. SUFFICES ASSUME NEW x \in 1..(n + 1), plan'[x].k0 # 0
                PROVE  /\ x > 1
                       /\ plan'[x - 1].m0 = plan'[x].m0 /\ plan'[x - 1].n0 = plan'[x].n0
                       /\ plan'[x - 1].k0 + plan'[x - 1].kLen = plan'[x].k0
    BY <1>5 DEF AccumulatesInOrder
  <2>1. CASE x = n + 1
    <3>1. k0 # 0
      BY <2>1, <1>5, <1>6
    <3>2. /\ plan # <<>> /\ plan[n].m0 = m0 /\ plan[n].n0 = n0
          /\ plan[n].k0 + plan[n].kLen = k0
      BY <3>1, <1>1 DEF IInv, LastTileBefore, n
    <3>3. n > 0
      BY <3>2, BodyFacts, EmptySeq DEF n
    <3>. QED BY <2>1, <3>2, <3>3, <1>5, <1>6
  <2>2. CASE x \in 1..n
    <3>1. plan'[x] = plan[x]
      BY <2>2, <1>5
    <3>2. /\ x > 1
          /\ plan[x - 1].m0 = plan[x].m0 /\ plan[x - 1].n0 = plan[x].n0
          /\ plan[x - 1].k0 + plan[x - 1].kLen = plan[x].k0
      BY <2>2, <3>1, <1>5 DEF IInv, AccumulatesInOrder
    <3>3. plan'[x - 1] = plan[x - 1]
      BY <2>2, <3>2, <1>5
    <3>. QED BY <3>1, <3>2, <3>3
  <2>. QED BY <2>1, <2>2, <1>5
<1>9. LastTileBefore'
  <2>. SUFFICES ASSUME k0 + desc.tk < desc.k
                PROVE  /\ plan' # <<>>
                       /\ plan'[n + 1].m0 = m0 /\ plan'[n + 1].n0 = n0
                       /\ plan'[n + 1].k0 + plan'[n + 1].kLen = k0 + desc.tk
    BY <1>1, <1>5 DEF LastTileBefore
  <2>1. plan' # <<>>
    BY <1>5
  <2>. QED BY <2>1, <1>5, <1>6
<1>10. PlanSoFar'
  <2>1. CoversPassed /\ TilesDisjoint
    BY <1>1 DEF IInv, PlanSoFar
  <2>2. CoversPassed'
    <3>. SUFFICES ASSUME NEW i \in 0..(desc.m - 1), NEW j \in 0..(desc.n - 1), NEW p \in 0..(desc.k - 1)
                  PROVE  Passed(i, j, p)' <=> \E x \in 1..(n + 1) : Covers(plan'[x], i, j, p)
      BY <1>1, <1>5 DEF CoversPassed
    <3>1. Passed(i, j, p)' <=> Passed(i, j, p) \/ Covers(NewTile, i, j, p)
      BY NewTileCells
    <3>2. Passed(i, j, p) <=> \E x \in 1..n : Covers(plan[x], i, j, p)
      BY <2>1, <1>5 DEF CoversPassed
    <3>3. (\E x \in 1..(n + 1) : Covers(plan'[x], i, j, p))
            <=> (\E x \in 1..n : Covers(plan[x], i, j, p)) \/ Covers(NewTile, i, j, p)
      BY <1>5
    <3>. QED BY <3>1, <3>2, <3>3
  <2>3. TilesDisjoint'
    <3>. SUFFICES ASSUME NEW x \in 1..(n + 1), NEW y \in 1..(n + 1), x # y,
                         NEW i \in 0..(desc.m - 1), NEW j \in 0..(desc.n - 1), NEW p \in 0..(desc.k - 1)
                  PROVE  ~ (Covers(plan'[x], i, j, p) /\ Covers(plan'[y], i, j, p))
      BY <1>1, <1>5 DEF TilesDisjoint
    <3>1. Covers(NewTile, i, j, p) => \A z \in 1..n : ~Covers(plan[z], i, j, p)
      BY NewTileCells, <2>1, <1>5 DEF CoversPassed
    <3>2. CASE x \in 1..n /\ y \in 1..n
      BY <3>2, <2>1, <1>5 DEF TilesDisjoint
    <3>3. CASE x = n + 1 /\ y \in 1..n
      BY <3>3, <3>1, <1>5
    <3>4. CASE y = n + 1 /\ x \in 1..n
      BY <3>4, <3>1, <1>5
    <3>. QED BY <3>2, <3>3, <3>4, <1>5
  <2>. QED BY <2>2, <2>3 DEF PlanSoFar
<1>. QED BY <1>3, <1>4, <1>7, <1>8, <1>9, <1>10 DEF IInv

\* The steps that move a loop head keep the plan and pass no cell.
LEMMA LoopHeadIInv ==
    ASSUME IInv, UNCHANGED <<desc, plan>>, phase = "loop", phase' \in {"loop", "true"},
           TypeOK', Position', k0' = 0 \/ phase' = "true",
           CoversPassed => CoversPassed'
    PROVE  IInv'
<1>1. TilesInside'
  BY DEF IInv, TilesInside
<1>2. AccumulatesInOrder'
  BY DEF IInv, AccumulatesInOrder
<1>3. LastTileBefore'
  BY DEF LastTileBefore
<1>4. TilesDisjoint'
  BY DEF IInv, PlanSoFar, TilesDisjoint
<1>5. PlanSoFar'
  BY <1>4 DEF IInv, PlanSoFar
<1>. QED BY <1>1, <1>2, <1>3, <1>5 DEF IInv

LEMMA NextNIInv == IInv /\ NextN => IInv'
<1>. SUFFICES ASSUME IInv, NextN PROVE IInv'
  OBVIOUS
<1>1. /\ UNCHANGED <<desc, plan>> /\ phase = "loop" /\ phase' = "loop" /\ m0' = m0 /\ k0' = 0
      /\ n0 < desc.n /\ m0 < desc.m /\ k0 >= desc.k /\ n0' = Add(n0, desc.tn)
  BY DEF NextN, InN, InM
<1>2. desc \in Descriptors /\ Validate(desc) /\ m0 \in Nat /\ n0 \in Nat /\ k0 \in Nat
        /\ (n0 = 0 \/ desc.tn <= n0)
  BY <1>1 DEF IInv, TypeOK, Position
<1>3. /\ desc.m \in Nat /\ desc.n \in Nat /\ desc.k \in Nat /\ Word \in Nat
      /\ desc.tm \in Nat /\ desc.tn \in Nat
      /\ 2 * desc.n < Word /\ desc.tn < Word
  BY <1>2, DescriptorBounds
<1>4. n0' = n0 + desc.tn
  BY <1>1, <1>2, <1>3, AddExact
<1>5. TypeOK'
  BY <1>1, <1>2, <1>3, <1>4 DEF IInv, TypeOK
<1>6. Position'
  BY <1>1, <1>2, <1>3, <1>4 DEF IInv, Position
<1>7. CoversPassed => CoversPassed'
  <2>. SUFFICES ASSUME NEW i \in 0..(desc.m - 1), NEW j \in 0..(desc.n - 1), NEW p \in 0..(desc.k - 1)
                PROVE  Passed(i, j, p)' <=> Passed(i, j, p)
    BY <1>1 DEF CoversPassed
  <2>. QED BY <1>1, <1>2, <1>3, <1>4 DEF Passed
<1>. QED BY <1>1, <1>5, <1>6, <1>7, LoopHeadIInv

LEMMA NextMIInv == IInv /\ NextM => IInv'
<1>. SUFFICES ASSUME IInv, NextM PROVE IInv'
  OBVIOUS
<1>1. /\ UNCHANGED <<desc, plan>> /\ phase = "loop" /\ phase' = "loop" /\ n0' = 0 /\ k0' = 0
      /\ m0 < desc.m /\ n0 >= desc.n /\ m0' = Add(m0, desc.tm)
  BY DEF NextM, InM
<1>2. desc \in Descriptors /\ Validate(desc) /\ m0 \in Nat /\ n0 \in Nat /\ k0 \in Nat /\ k0 = 0
        /\ (m0 = 0 \/ desc.tm <= m0)
  BY <1>1 DEF IInv, TypeOK, Position
<1>3. /\ desc.m \in Nat /\ desc.n \in Nat \ {0} /\ desc.k \in Nat /\ Word \in Nat
      /\ desc.tm \in Nat /\ desc.tn \in Nat
      /\ 2 * desc.m < Word /\ desc.tm < Word
  BY <1>2, DescriptorBounds
<1>4. m0' = m0 + desc.tm
  BY <1>1, <1>2, <1>3, AddExact
<1>5. TypeOK'
  BY <1>1, <1>2, <1>3, <1>4 DEF IInv, TypeOK
<1>6. Position'
  BY <1>1, <1>2, <1>3, <1>4 DEF IInv, Position
<1>7. CoversPassed => CoversPassed'
  <2>. SUFFICES ASSUME NEW i \in 0..(desc.m - 1), NEW j \in 0..(desc.n - 1), NEW p \in 0..(desc.k - 1)
                PROVE  Passed(i, j, p)' <=> Passed(i, j, p)
    BY <1>1 DEF CoversPassed
  <2>. QED BY <1>1, <1>2, <1>3, <1>4 DEF Passed
<1>. QED BY <1>1, <1>5, <1>6, <1>7, LoopHeadIInv

LEMMA ReturnIInv == IInv /\ Return => IInv'
<1>. SUFFICES ASSUME IInv, Return PROVE IInv'
  OBVIOUS
<1>1. UNCHANGED <<desc, plan, m0, n0, k0>> /\ phase = "loop" /\ phase' = "true" /\ m0 >= desc.m
  BY DEF Return
<1>2. TypeOK' /\ Position'
  BY <1>1 DEF IInv, TypeOK, Phases, Position
<1>3. CoversPassed => CoversPassed'
  BY <1>1 DEF CoversPassed, Passed
<1>. QED BY <1>1, <1>2, <1>3, LoopHeadIInv

\* IInv holds in every state build_plan goes through.
THEOREM Invariance == Spec => []IInv
<1>1. IInv /\ [Next]_vars => IInv'
  <2>. SUFFICES ASSUME IInv, [Next]_vars PROVE IInv'
    OBVIOUS
  <2>1. CASE Enter
    BY <2>1, EnterIInv
  <2>2. CASE PushTile
    BY <2>2, PushTileIInv
  <2>3. CASE NextN
    BY <2>3, NextNIInv
  <2>4. CASE NextM
    BY <2>4, NextMIInv
  <2>5. CASE Return
    BY <2>5, ReturnIInv
  <2>6. CASE UNCHANGED vars
    BY <2>6 DEF vars, IInv, TypeOK, Position, TilesInside, AccumulatesInOrder, LastTileBefore,
       PlanSoFar, CoversPassed, Passed, TilesDisjoint
  <2>. QED BY <2>1, <2>2, <2>3, <2>4, <2>5, <2>6 DEF Next
<1>. QED BY InitIInv, <1>1, PTL DEF Spec
-----------------------------------------------------------------------------
(* What it means. *)

\* The plan and the counters have their types: naturals, although UINT32
\* arithmetic is modulo Word.
THEOREM TypeCorrect == Spec => []TypeOK
<1>1. IInv => TypeOK
  BY DEF IInv
<1>. QED BY <1>1, Invariance, PTL

\* The cells passed when the outer loop ends are all of them, so a returned
\* plan multiplies each exactly once.
THEOREM PlanIsPartition == Spec => []Partition
<1>1. IInv => Partition
  <2>. SUFFICES ASSUME IInv, phase = "true",
                       NEW i \in 0..(desc.m - 1), NEW j \in 0..(desc.n - 1), NEW p \in 0..(desc.k - 1)
                PROVE  (\E x \in DOMAIN plan : Covers(plan[x], i, j, p)) /\ TilesDisjoint
    <3>1. IInv /\ phase = "true" => TilesDisjoint
      BY DEF IInv, PlanSoFar
    <3>. QED BY <3>1 DEF Partition
  <2>1. CoversPassed /\ TilesDisjoint /\ m0 >= desc.m /\ m0 \in Nat
        /\ desc \in Descriptors /\ Validate(desc)
    BY DEF IInv, PlanSoFar, Position, TypeOK
  <2>2. desc.m \in Nat
    BY <2>1, DescriptorBounds
  <2>3. Passed(i, j, p)
    BY <2>1, <2>2 DEF Passed
  <2>. QED BY <2>1, <2>3 DEF CoversPassed
<1>. QED BY <1>1, Invariance, PTL

\* Every tile is a nonempty box inside the matrices and within the tile sizes.
THEOREM TilesStayInside == Spec => []TilesInside
<1>1. IInv => TilesInside
  BY DEF IInv
<1>. QED BY <1>1, Invariance, PTL

\* The depths of a block of C follow each other without a gap.
THEOREM SumsInOrder == Spec => []AccumulatesInOrder
<1>1. IInv => AccumulatesInOrder
  BY DEF IInv
<1>. QED BY <1>1, Invariance, PTL

\* No step wraps a counter.
THEOREM CountersNeverWrap == Spec => CountersAdvance
<1>. DEFINE Advance == \/ m0' > m0
                       \/ m0' = m0 /\ n0' > n0
                       \/ m0' = m0 /\ n0' = n0 /\ k0' >= k0
<1>1. IInv /\ [Next]_vars => [Advance]_vars
  <2>. SUFFICES ASSUME IInv, Next PROVE Advance
    OBVIOUS
  <2>1. m0 \in Nat /\ n0 \in Nat /\ k0 \in Nat
    BY DEF IInv, TypeOK
  <2>2. CASE Enter
    BY <2>2, <2>1 DEF Enter
  <2>3. CASE PushTile
    <3>1. k0' = k0 + desc.tk /\ desc.tk \in Nat
      BY <2>3, PushTileEffect, BodyFacts
    <3>. QED BY <2>1, <2>3, <3>1 DEF PushTile
  <2>4. InM => /\ desc.m \in Nat /\ desc.n \in Nat /\ Word \in Nat
               /\ desc.tm \in Nat \ {0} /\ desc.tn \in Nat \ {0}
               /\ 2 * desc.m < Word /\ desc.tm < Word
               /\ 2 * desc.n < Word /\ desc.tn < Word
               /\ (m0 = 0 \/ desc.tm <= m0) /\ (n0 = 0 \/ desc.tn <= n0)
    <3>1. InM => desc \in Descriptors /\ Validate(desc)
      BY DEF IInv, TypeOK, Position, InM
    <3>. QED BY <3>1, DescriptorBounds DEF IInv, Position
  <2>5. CASE NextN
    <3>1. n0' = n0 + desc.tn
      BY <2>1, <2>4, <2>5, AddExact DEF NextN, InN, InM
    <3>. QED BY <2>1, <2>4, <2>5, <3>1 DEF NextN, InN
  <2>6. CASE NextM
    <3>1. m0' = m0 + desc.tm
      BY <2>1, <2>4, <2>6, AddExact DEF NextM, InM
    <3>. QED BY <2>1, <2>4, <2>6, <3>1 DEF NextM
  <2>7. CASE Return
    BY <2>1, <2>7 DEF Return
  <2>. QED BY <2>2, <2>3, <2>5, <2>6, <2>7 DEF Next
<1>. QED BY <1>1, Invariance, PTL DEF Spec, CountersAdvance
-----------------------------------------------------------------------------
(* The plan in closed form. *)

\* The number of steps of a dimension, seen from the loop's counter.
LEMMA StepInside ==
    ASSUME NEW dim \in Nat \ {0}, NEW t \in Nat \ {0}, NEW c \in Nat
    PROVE  c * t < dim <=> c < Steps(dim, t)
<1>. DEFINE s == Steps(dim, t)
<1>1. s \in Nat \ {0} /\ (s - 1) * t < dim /\ dim <= s * t
  BY StepsBounds
<1>. HIDE DEF s
<1>2. ASSUME c < s PROVE c * t < dim
  <2>1. s - 1 \in Nat /\ c <= s - 1
    BY <1>1, <1>2
  <2>2. c * t <= (s - 1) * t /\ c * t \in Nat /\ (s - 1) * t \in Nat
    BY <2>1, TimesMonotone
  <2>. QED BY <1>1, <2>2
<1>3. ASSUME c * t < dim PROVE c < s
  <2>1. c * t \in Nat /\ s * t \in Nat
    BY <1>1
  <2>2. c * t < s * t
    BY <1>1, <1>3, <2>1
  <2>. QED BY <1>1, <2>2, Exceeds
<1>. QED BY <1>2, <1>3 DEF s

\* One multiple further; no multiple at all.
LEMMA NextMultiple == ASSUME NEW u \in Nat, NEW v \in Nat PROVE (u + 1) * v = u * v + v
OBVIOUS

LEMMA NoMultiple == ASSUME NEW v \in Nat PROVE 0 * v = 0
OBVIOUS

\* The loops are at step a of M, b of N and c of K: the tiles made so far are
\* those before that place.
AtStep(a, b, c) ==
    /\ a <= MSteps(desc) /\ b <= NSteps(desc) /\ c <= KSteps(desc)
    /\ m0 = a * desc.tm /\ n0 = b * desc.tn /\ k0 = c * desc.tk
    /\ Len(plan) = (a * NSteps(desc) + b) * KSteps(desc) + c

\* The tiles made so far are the first ones of PlanOf, and the position of the
\* loops tells how many they are.
Indexed ==
    phase \in {"loop", "true"} =>
        /\ \E a, b, c \in Nat : AtStep(a, b, c)
        /\ \A x \in 1..Len(plan) : plan[x] = TileAt(desc, x)

\* The numbers of a descriptor in the loops.
LEMMA LoopNumbers ==
    ASSUME IInv, phase \in {"loop", "true"}
    PROVE  /\ desc \in DescriptorType /\ Validate(desc)
           /\ desc.m \in Nat \ {0} /\ desc.n \in Nat \ {0} /\ desc.k \in Nat \ {0}
           /\ desc.tm \in Nat \ {0} /\ desc.tn \in Nat \ {0} /\ desc.tk \in Nat \ {0}
           /\ MSteps(desc) \in Nat \ {0} /\ NSteps(desc) \in Nat \ {0} /\ KSteps(desc) \in Nat \ {0}
<1>1. desc \in DescriptorType /\ Validate(desc)
  BY DescriptorsAssumption DEF IInv, TypeOK, Position
<1>. QED BY <1>1, ValidNumbers, StepCounts

\* Where the counters are, in steps.
LEMMA LoopSteps ==
    ASSUME IInv, phase \in {"loop", "true"},
           NEW a \in Nat, NEW b \in Nat, NEW c \in Nat, AtStep(a, b, c)
    PROVE  /\ m0 < desc.m <=> a < MSteps(desc)
           /\ n0 < desc.n <=> b < NSteps(desc)
           /\ k0 < desc.k <=> c < KSteps(desc)
<1>1. /\ a * desc.tm < desc.m <=> a < MSteps(desc)
      /\ b * desc.tn < desc.n <=> b < NSteps(desc)
      /\ c * desc.tk < desc.k <=> c < KSteps(desc)
  BY LoopNumbers, StepInside DEF MSteps, NSteps, KSteps
<1>. QED BY <1>1 DEF AtStep

\* The tile that is appended is the next one of the plan.
LEMMA PushTileIndexed ==
    ASSUME IInv, Indexed, PushTile
    PROVE  Indexed'
<1>1. PICK a, b, c \in Nat : AtStep(a, b, c)
  BY DEF Indexed, PushTile, InN, InM
<1>. DEFINE x == Len(plan) + 1
<1>2. /\ phase = "loop" /\ phase' = "loop" /\ desc' = desc /\ m0' = m0 /\ n0' = n0
      /\ m0 < desc.m /\ n0 < desc.n /\ k0 < desc.k
  BY DEF PushTile, InN, InM
<1>3. /\ k0' = k0 + desc.tk /\ Len(plan) \in Nat /\ Len(plan') = x
      /\ \A y \in 1..Len(plan) : plan'[y] = plan[y]
      /\ plan'[x] = NewTile
  BY PushTileEffect
<1>4. /\ desc \in DescriptorType /\ Validate(desc) /\ desc.tk \in Nat /\ desc.tm \in Nat /\ desc.tn \in Nat
      /\ MSteps(desc) \in Nat /\ NSteps(desc) \in Nat /\ KSteps(desc) \in Nat
  BY <1>2, LoopNumbers
<1>5. a \in 0..(MSteps(desc) - 1) /\ b \in 0..(NSteps(desc) - 1) /\ c \in 0..(KSteps(desc) - 1)
  BY <1>1, <1>2, <1>4, LoopSteps
<1>6. x = Place(desc, a, b, c)
  BY <1>1 DEF AtStep, Place
<1>7. /\ x \in 1..TilesOf(desc)
      /\ MStep(desc, x) = a /\ NStep(desc, x) = b /\ KStep(desc, x) = c
  BY <1>4, <1>5, <1>6, PlaceSteps
<1>8. TileAt(desc, x) = NewTile
  <2>. DEFINE t == TileAt(desc, x)
  <2>. HIDE DEF x
  <2>1. /\ t \in TileType
        /\ t.m0 = a * desc.tm /\ t.n0 = b * desc.tn /\ t.k0 = c * desc.tk
        /\ t.mLen = ClipTo(desc.m, t.m0, desc.tm) /\ t.nLen = ClipTo(desc.n, t.n0, desc.tn)
        /\ t.kLen = ClipTo(desc.k, t.k0, desc.tk)
    BY <1>4, <1>7, TileSides
  <2>2. t.m0 = m0 /\ t.n0 = n0 /\ t.k0 = k0
    BY <1>1, <2>1 DEF AtStep
  <2>3. /\ Add(m0, desc.tm) = m0 + desc.tm /\ Add(n0, desc.tn) = n0 + desc.tn
        /\ Add(k0, desc.tk) = k0 + desc.tk
    BY BodyFacts, AddExact
  <2>4. /\ Clip(desc.m, m0, desc.tm) = t.mLen /\ Clip(desc.n, n0, desc.tn) = t.nLen
        /\ Clip(desc.k, k0, desc.tk) = t.kLen
    BY <2>1, <2>2, <2>3 DEF Clip, ClipTo
  <2>5. NewTile = [m0 |-> t.m0, n0 |-> t.n0, k0 |-> t.k0, mLen |-> t.mLen, nLen |-> t.nLen, kLen |-> t.kLen]
    BY <2>2, <2>4 DEF NewTile, Tile
  <2>. HIDE DEF t
  <2>6. t = NewTile
    BY <2>1, <2>5 DEF TileType
  <2>. QED BY <2>6 DEF t
<1>9. AtStep(a, b, c + 1)'
  <2>1. c + 1 <= KSteps(desc) /\ Len(plan') = (a * NSteps(desc) + b) * KSteps(desc) + (c + 1)
    <3>. DEFINE q == (a * NSteps(desc) + b) * KSteps(desc)
    <3>1. q \in Nat
      BY <1>4
    <3>2. Len(plan) = q + c
      BY <1>1 DEF AtStep
    <3>. HIDE DEF q
    <3>3. c + 1 <= KSteps(desc)
      BY <1>4, <1>5
    <3>4. Len(plan') = q + (c + 1)
      BY <1>3, <3>1, <3>2
    <3>. QED BY <3>3, <3>4 DEF q
  <2>2. k0' = (c + 1) * desc.tk
    <3>1. (c + 1) * desc.tk = c * desc.tk + desc.tk
      BY <1>4, NextMultiple
    <3>. QED BY <1>1, <1>3, <3>1 DEF AtStep
  <2>. QED BY <1>1, <1>2, <2>1, <2>2 DEF AtStep, MSteps, NSteps, KSteps
<1>10. \A y \in 1..Len(plan') : plan'[y] = TileAt(desc', y)
  <2>. SUFFICES ASSUME NEW y \in 1..Len(plan') PROVE plan'[y] = TileAt(desc', y)
    OBVIOUS
  <2>1. y \in 1..Len(plan) \/ y = x
    BY <1>3
  <2>2. \A z \in 1..Len(plan) : plan[z] = TileAt(desc, z)
    BY <1>2 DEF Indexed
  <2>. QED BY <1>2, <1>3, <1>8, <2>1, <2>2
<1>. QED BY <1>9, <1>10 DEF Indexed

\* The steps of the outer loops.
LEMMA NextNIndexed ==
    ASSUME IInv, Indexed, NextN
    PROVE  Indexed'
<1>1. PICK a, b, c \in Nat : AtStep(a, b, c)
  BY DEF Indexed, NextN, InN, InM
<1>2. /\ phase = "loop" /\ phase' = "loop" /\ desc' = desc /\ m0' = m0 /\ plan' = plan
      /\ k0' = 0 /\ n0' = Add(n0, desc.tn) /\ n0 < desc.n /\ k0 >= desc.k
  BY DEF NextN, InN, InM
<1>3. /\ desc.tn \in Nat /\ desc.tm \in Nat /\ desc.tk \in Nat /\ desc.k \in Nat
      /\ MSteps(desc) \in Nat /\ NSteps(desc) \in Nat /\ KSteps(desc) \in Nat
  BY <1>2, LoopNumbers
<1>4. n0' = n0 + desc.tn
  <2>1. desc \in Descriptors /\ Validate(desc) /\ n0 \in Nat /\ (n0 = 0 \/ desc.tn <= n0)
    BY <1>2 DEF IInv, TypeOK, Position
  <2>2. desc.n \in Nat /\ Word \in Nat /\ 2 * desc.n < Word /\ desc.tn < Word
    BY <2>1, DescriptorBounds
  <2>. QED BY <1>2, <1>3, <2>1, <2>2, AddExact
<1>5. b < NSteps(desc) /\ c = KSteps(desc)
  <2>1. b < NSteps(desc) /\ ~(c < KSteps(desc)) /\ c <= KSteps(desc)
    <3>1. k0 \in Nat
      BY DEF IInv, TypeOK
    <3>2. ~(k0 < desc.k)
      BY <1>2, <1>3, <3>1
    <3>. QED BY <1>1, <1>2, <3>2, LoopSteps DEF AtStep
  <2>. QED BY <1>3, <2>1
<1>6. AtStep(a, b + 1, 0)'
  <2>1. n0' = (b + 1) * desc.tn /\ k0' = 0 * desc.tk
    <3>1. (b + 1) * desc.tn = b * desc.tn + desc.tn /\ 0 * desc.tk = 0
      BY <1>3, NextMultiple, NoMultiple
    <3>2. n0' = b * desc.tn + desc.tn
      BY <1>1, <1>4 DEF AtStep
    <3>. QED BY <1>2, <3>1, <3>2
  <2>2. Len(plan) = (a * NSteps(desc) + (b + 1)) * KSteps(desc) + 0
    <3>. DEFINE q == a * NSteps(desc) + b
    <3>1. q \in Nat /\ a * NSteps(desc) + (b + 1) = q + 1
      BY <1>3
    <3>2. Len(plan) = q * KSteps(desc) + KSteps(desc)
      BY <1>1, <1>5 DEF AtStep
    <3>. HIDE DEF q
    <3>3. (q + 1) * KSteps(desc) + 0 = q * KSteps(desc) + KSteps(desc)
      BY <1>3, <3>1
    <3>. QED BY <3>1, <3>2, <3>3
  <2>3. b + 1 <= NSteps(desc) /\ 0 <= KSteps(desc)
    BY <1>3, <1>5
  <2>. QED BY <1>1, <1>2, <2>1, <2>2, <2>3 DEF AtStep, MSteps, NSteps, KSteps
<1>7. \A x \in 1..Len(plan') : plan'[x] = TileAt(desc', x)
  BY <1>2 DEF Indexed
<1>. QED BY <1>6, <1>7 DEF Indexed

LEMMA NextMIndexed ==
    ASSUME IInv, Indexed, NextM
    PROVE  Indexed'
<1>1. PICK a, b, c \in Nat : AtStep(a, b, c)
  BY DEF Indexed, NextM, InM
<1>2. /\ phase = "loop" /\ phase' = "loop" /\ desc' = desc /\ plan' = plan
      /\ n0' = 0 /\ k0' = 0 /\ m0' = Add(m0, desc.tm) /\ m0 < desc.m /\ n0 >= desc.n
  BY DEF NextM, InM
<1>3. /\ desc.tn \in Nat /\ desc.tm \in Nat /\ desc.tk \in Nat \ {0} /\ desc.n \in Nat
      /\ MSteps(desc) \in Nat /\ NSteps(desc) \in Nat /\ KSteps(desc) \in Nat
  BY <1>2, LoopNumbers
<1>4. m0' = m0 + desc.tm
  <2>1. desc \in Descriptors /\ Validate(desc) /\ m0 \in Nat /\ (m0 = 0 \/ desc.tm <= m0)
    BY <1>2 DEF IInv, TypeOK, Position
  <2>2. desc.m \in Nat /\ Word \in Nat /\ 2 * desc.m < Word /\ desc.tm < Word
    BY <2>1, DescriptorBounds
  <2>. QED BY <1>2, <1>3, <2>1, <2>2, AddExact
<1>5. a < MSteps(desc) /\ b = NSteps(desc) /\ c = 0
  <2>1. n0 \in Nat /\ k0 = 0
    BY <1>2 DEF IInv, TypeOK, Position
  <2>2. ~(n0 < desc.n)
    BY <1>2, <1>3, <2>1
  <2>3. a < MSteps(desc) /\ ~(b < NSteps(desc)) /\ b <= NSteps(desc)
    BY <1>1, <1>2, <2>2, LoopSteps DEF AtStep
  <2>4. c * desc.tk = 0
    BY <1>1, <2>1 DEF AtStep
  <2>5. c = 0
    BY <1>3, <2>4
  <2>. QED BY <1>3, <2>3, <2>5
<1>6. AtStep(a + 1, 0, 0)'
  <2>1. m0' = (a + 1) * desc.tm /\ n0' = 0 * desc.tn /\ k0' = 0 * desc.tk
    <3>1. (a + 1) * desc.tm = a * desc.tm + desc.tm /\ 0 * desc.tn = 0 /\ 0 * desc.tk = 0
      BY <1>3, NextMultiple, NoMultiple
    <3>2. m0' = a * desc.tm + desc.tm
      BY <1>1, <1>4 DEF AtStep
    <3>. QED BY <1>2, <3>1, <3>2
  <2>2. Len(plan) = ((a + 1) * NSteps(desc) + 0) * KSteps(desc) + 0
    <3>1. (a + 1) * NSteps(desc) + 0 = a * NSteps(desc) + NSteps(desc)
      BY <1>3
    <3>2. (a * NSteps(desc) + NSteps(desc)) * KSteps(desc) \in Nat
      BY <1>3
    <3>. QED BY <1>1, <1>5, <3>1, <3>2 DEF AtStep
  <2>3. a + 1 <= MSteps(desc) /\ 0 <= NSteps(desc) /\ 0 <= KSteps(desc)
    BY <1>3, <1>5
  <2>. QED BY <1>2, <2>1, <2>2, <2>3 DEF AtStep, MSteps, NSteps, KSteps
<1>7. \A x \in 1..Len(plan') : plan'[x] = TileAt(desc', x)
  BY <1>2 DEF Indexed
<1>. QED BY <1>6, <1>7 DEF Indexed

\* The first tile is at the first place.
LEMMA EnterIndexed ==
    ASSUME IInv, Enter
    PROVE  Indexed'
<1>. SUFFICES ASSUME phase' \in {"loop", "true"} PROVE Indexed'
  BY DEF Indexed
<1>1. /\ phase' = "loop" /\ Validate(desc) /\ UNCHANGED <<desc, plan, m0, n0, k0>>
      /\ plan = <<>> /\ m0 = 0 /\ n0 = 0 /\ k0 = 0
  BY DEF Enter, IInv, Position
<1>2. desc \in DescriptorType
  BY DescriptorsAssumption DEF IInv, TypeOK
<1>3. /\ MSteps(desc) \in Nat /\ NSteps(desc) \in Nat /\ KSteps(desc) \in Nat
      /\ desc.tm \in Nat /\ desc.tn \in Nat /\ desc.tk \in Nat
  BY <1>1, <1>2, StepCounts, ValidNumbers
<1>4. Len(plan) = 0
  BY <1>1
<1>5. AtStep(0, 0, 0)
  <2>1. (0 * NSteps(desc) + 0) * KSteps(desc) + 0 = 0
    BY <1>3
  <2>. QED BY <1>1, <1>3, <1>4, <2>1 DEF AtStep
<1>6. AtStep(0, 0, 0)'
  BY <1>1, <1>5 DEF AtStep, MSteps, NSteps, KSteps
<1>7. \A x \in 1..Len(plan') : plan'[x] = TileAt(desc', x)
  BY <1>1, <1>4
<1>. QED BY <1>6, <1>7 DEF Indexed

\* The plan that is returned is the closed form the controller's model uses:
\* the loops of build_plan (schedule.cpp:19-28), UINT32 counters and all,
\* enumerate the tiles of PlanOf in order and no others.
THEOREM LoopsMakeThePlan == Spec => []ReturnsPlan
<1>1. Init => Indexed
  BY DEF Init, Indexed
<1>2. IInv /\ Indexed /\ [Next]_vars => Indexed'
  <2>. SUFFICES ASSUME IInv, Indexed, [Next]_vars PROVE Indexed'
    OBVIOUS
  <2>1. CASE Enter
    BY <2>1, EnterIndexed
  <2>2. CASE PushTile
    BY <2>2, PushTileIndexed
  <2>3. CASE NextN
    BY <2>3, NextNIndexed
  <2>4. CASE NextM
    BY <2>4, NextMIndexed
  <2>5. CASE Return \/ UNCHANGED vars
    <3>. SUFFICES ASSUME phase' \in {"loop", "true"} PROVE Indexed'
      BY DEF Indexed
    <3>1. desc' = desc /\ plan' = plan /\ m0' = m0 /\ n0' = n0 /\ k0' = k0 /\ phase \in {"loop", "true"}
      BY <2>5 DEF Return, vars
    <3>2. PICK a, b, c \in Nat : AtStep(a, b, c)
      BY <3>1 DEF Indexed
    <3>3. AtStep(a, b, c)'
      BY <3>1, <3>2 DEF AtStep, MSteps, NSteps, KSteps
    <3>4. \A x \in 1..Len(plan') : plan'[x] = TileAt(desc', x)
      BY <3>1 DEF Indexed
    <3>. QED BY <3>3, <3>4 DEF Indexed
  <2>. QED BY <2>1, <2>2, <2>3, <2>4, <2>5 DEF Next
<1>3. IInv /\ Indexed => ReturnsPlan
  <2>. SUFFICES ASSUME IInv, Indexed, phase = "true" PROVE plan = PlanOf(desc)
    BY DEF ReturnsPlan
  <2>1. PICK a, b, c \in Nat : AtStep(a, b, c)
    BY DEF Indexed
  <2>2. /\ desc \in DescriptorType /\ Validate(desc) /\ desc.tn \in Nat \ {0} /\ desc.tk \in Nat \ {0}
        /\ desc.m \in Nat
        /\ MSteps(desc) \in Nat /\ NSteps(desc) \in Nat /\ KSteps(desc) \in Nat
    BY LoopNumbers
  <2>3. m0 \in Nat /\ m0 >= desc.m /\ n0 = 0 /\ k0 = 0
    BY DEF IInv, TypeOK, Position
  <2>4. a = MSteps(desc)
    <3>1. ~(a < MSteps(desc)) /\ a <= MSteps(desc)
      <4>1. ~(m0 < desc.m)
        BY <2>2, <2>3
      <4>. QED BY <2>1, <4>1, LoopSteps DEF AtStep
    <3>. QED BY <2>2, <3>1
  <2>5. b = 0 /\ c = 0
    <3>1. b * desc.tn = 0 /\ c * desc.tk = 0
      BY <2>1, <2>3 DEF AtStep
    <3>. QED BY <2>2, <3>1
  <2>6. Len(plan) = TilesOf(desc)
    <3>1. (MSteps(desc) * NSteps(desc) + 0) * KSteps(desc) + 0 = MSteps(desc) * NSteps(desc) * KSteps(desc)
      BY <2>2
    <3>2. TilesOf(desc) = MSteps(desc) * NSteps(desc) * KSteps(desc)
      BY <2>2, StepCounts
    <3>. QED BY <2>1, <2>4, <2>5, <3>1, <3>2 DEF AtStep
  <2>7. plan \in Seq(TileType) /\ \A x \in 1..Len(plan) : plan[x] = TileAt(desc, x)
    BY DEF IInv, TypeOK, Indexed
  <2>8. plan = [x \in 1..Len(plan) |-> plan[x]]
    BY <2>7
  <2>. QED BY <2>6, <2>7, <2>8 DEF PlanOf
<1>. QED BY <1>1, <1>2, <1>3, Invariance, PTL DEF Spec
=============================================================================
