------------------------------ MODULE Schedule ------------------------------
(***************************************************************************)
(* Scheduler::build_plan (maps-sim/src/npu/schedule.cpp), loop head by     *)
(* loop head. The loop counters are UINT32 and wrap at Word: that the      *)
(* loops end and tile the whole product depends on the matrices having     *)
(* passed the range check of Controller::run, which calls build_plan.      *)
(***************************************************************************)
EXTENDS Tiling

CONSTANT Descriptors    \* the descriptors build_plan is called with

\* A matrix that Controller::check_matrix_range let through is in a memory
\* addressed by UINT32 bytes, so its sides are well below Word / 2; a tile side
\* is any UINT32 (in each dataflow one of them is not bounded by the array).
ASSUME DescriptorsAssumption ==
    /\ Descriptors \subseteq DescriptorType
    /\ \A d \in Descriptors :
          /\ 2 * d.m < Word /\ 2 * d.n < Word /\ 2 * d.k < Word
          /\ d.tm < Word /\ d.tn < Word /\ d.tk < Word

VARIABLES
    desc,     \* the descriptor of this call
    plan,     \* out_plan
    m0, n0, k0,
    phase     \* "start", "loop", "true" or "false": the value returned

vars == <<desc, plan, m0, n0, k0, phase>>

Phases == {"start", "loop", "true", "false"}

\* Mutants of Add: a counter with one bit less, and a step one too long.
AddNarrow(x, y) == IF 2 * (x + y) >= Word THEN 0 ELSE x + y
AddTooFar(x, y) == x + y + 1

\* x + y in UINT32, for x and y already in range.
Add(x, y) == IF x + y >= Word THEN x + y - Word ELSE x + y

\* Mutants of Clip: an edge tile that is not cut to the matrix, and a
\* remainder counted from the wrong end.
ClipNever(dim, x0, tile) == tile
ClipPastEnd(dim, x0, tile) == IF Add(x0, tile) <= dim THEN tile ELSE dim - Add(x0, tile)

\* `(x0 + tile <= dim) ? tile : (dim - x0)`.
Clip(dim, x0, tile) == IF Add(x0, tile) <= dim THEN tile ELSE dim - x0

Init ==
    /\ desc \in Descriptors
    /\ plan = <<>>
    /\ m0 = 0 /\ n0 = 0 /\ k0 = 0
    /\ phase = "start"

Enter ==
    /\ phase = "start"
    /\ phase' = IF Validate(desc) THEN "loop" ELSE "false"
    /\ UNCHANGED <<desc, plan, m0, n0, k0>>

InM == phase = "loop" /\ m0 < desc.m

InN == InM /\ n0 < desc.n

\* The body of the innermost loop.
PushTile ==
    /\ InN /\ k0 < desc.k
    /\ plan' = Append(plan, Tile(m0, n0, k0, Clip(desc.m, m0, desc.tm),
                                 Clip(desc.n, n0, desc.tn), Clip(desc.k, k0, desc.tk)))
    /\ k0' = Add(k0, desc.tk)
    /\ UNCHANGED <<desc, m0, n0, phase>>

\* Mutant of NextN: the k loop is not initialised again.
NextNKeepsK ==
    /\ InN /\ k0 >= desc.k
    /\ n0' = Add(n0, desc.tn)
    /\ UNCHANGED <<desc, plan, m0, k0, phase>>

NextN ==
    /\ InN /\ k0 >= desc.k
    /\ n0' = Add(n0, desc.tn)
    /\ k0' = 0
    /\ UNCHANGED <<desc, plan, m0, phase>>

NextM ==
    /\ InM /\ n0 >= desc.n
    /\ m0' = Add(m0, desc.tm)
    /\ n0' = 0
    /\ k0' = 0
    /\ UNCHANGED <<desc, plan, phase>>

\* Mutant of Return: the outer loop ends on m0 == m only.
ReturnOnEqual ==
    /\ phase = "loop" /\ m0 = desc.m
    /\ phase' = "true"
    /\ UNCHANGED <<desc, plan, m0, n0, k0>>

Return ==
    /\ phase = "loop" /\ m0 >= desc.m
    /\ phase' = "true"
    /\ UNCHANGED <<desc, plan, m0, n0, k0>>

Next == Enter \/ PushTile \/ NextN \/ NextM \/ Return

Spec == Init /\ [][Next]_vars

\* build_plan is a sequential function: once called, it runs.
FairSpec == Spec /\ WF_vars(Next)
-----------------------------------------------------------------------------
TypeOK ==
    /\ desc \in Descriptors
    /\ plan \in Seq(TileType)
    /\ m0 \in Nat /\ n0 \in Nat /\ k0 \in Nat
    /\ phase \in Phases

InSpace(i, j, p) ==
    /\ i \in Nat /\ i < desc.m
    /\ j \in Nat /\ j < desc.n
    /\ p \in Nat /\ p < desc.k

\* The cells the loops have passed: earlier rows of tiles, then earlier
\* columns of tiles in this row, then earlier depths of this tile.
Passed(i, j, p) ==
    \/ i < m0
    \/ i < m0 + desc.tm /\ j < n0
    \/ i < m0 + desc.tm /\ j < n0 + desc.tn /\ p < k0

\* The plan so far multiplies exactly the cells passed (build_plan,
\* schedule.cpp:19-28); at the end that is the whole product.
CoversPassed ==
    \A i \in 0..(desc.m - 1), j \in 0..(desc.n - 1), p \in 0..(desc.k - 1) :
        Passed(i, j, p) <=> \E x \in DOMAIN plan : Covers(plan[x], i, j, p)

\* No two tiles share a cell: C accumulates through memory, so a product in
\* two tiles would be added to it twice.
TilesDisjoint ==
    \A x, y \in DOMAIN plan : x # y =>
        \A i \in 0..(desc.m - 1), j \in 0..(desc.n - 1), p \in 0..(desc.k - 1) :
            ~ (Covers(plan[x], i, j, p) /\ Covers(plan[y], i, j, p))

\* A returned plan multiplies every cell of the product exactly once
\* (build_plan, schedule.cpp:5-31): one left out loses a term of C, one in
\* two tiles is accumulated twice.
Partition ==
    phase = "true" =>
        /\ \A i \in 0..(desc.m - 1), j \in 0..(desc.n - 1), p \in 0..(desc.k - 1) :
              \E x \in DOMAIN plan : Covers(plan[x], i, j, p)
        /\ TilesDisjoint

\* Every tile is a nonempty box inside the matrices and no larger than the
\* descriptor's tile, the one the dataflow's limits were checked for: the
\* edge tiles (schedule.cpp:20,22,24) are cut, and never to nothing.
TilesInside ==
    \A x \in DOMAIN plan : LET t == plan[x] IN
        /\ t.mLen \in 1..desc.tm /\ t.m0 + t.mLen <= desc.m
        /\ t.nLen \in 1..desc.tn /\ t.n0 + t.nLen <= desc.n
        /\ t.kLen \in 1..desc.tk /\ t.k0 + t.kLen <= desc.k

\* A tile that does not start at depth 0 follows the tile of the same block
\* of C that ends where it starts. Controller::run_tile clears its partial
\* sums at k0 = 0 and reads them back from C otherwise, so any other order
\* would lose or double them.
AccumulatesInOrder ==
    \A x \in DOMAIN plan : plan[x].k0 # 0 =>
        /\ x > 1
        /\ plan[x - 1].m0 = plan[x].m0 /\ plan[x - 1].n0 = plan[x].n0
        /\ plan[x - 1].k0 + plan[x - 1].kLen = plan[x].k0

\* The loops return the plan of Tiling, which the controller's model uses.
ReturnsPlan == phase = "true" => plan = PlanOf(desc)

\* The counters never move backwards: UINT32 addition does not wrap for
\* matrices that fit in memory, not even with a tile side near 2^32, so no
\* tile is planned twice (schedule.cpp:19-28).
CountersAdvance ==
    [][ \/ m0' > m0
        \/ m0' = m0 /\ n0' > n0
        \/ m0' = m0 /\ n0' = n0 /\ k0' >= k0 ]_vars

\* build_plan returns.
Returns == <>(phase \in {"true", "false"})
=============================================================================
