--------------------------- MODULE SystolicArray ---------------------------
(***************************************************************************)
(* The systolic array (maps-sim/src/npu/array.cpp, pe.cpp), cycle by       *)
(* cycle: a grid of processing elements whose operands enter skewed at the *)
(* left and the top boundary and move one element per cycle. One call of   *)
(* run_gemm_tile multiplies one tile in one of three dataflows.            *)
(* INT32 overflow is outside the ABI (maps-abi/npu.md), so values are Int. *)
(***************************************************************************)
EXTENDS Integers

CONSTANTS
    ArrayRows, ArrayCols,
    Tiles,              \* the calls run_gemm_tile gets: operands and sizes
    PartialSum(_, _, _, _),  \* the reference: see PartialSumAssumption
    MaxTiles            \* calls of one behaviour

Modes == {"WS", "OS", "IS"}

Matrix(rows, cols) == [0..(rows - 1) -> [0..(cols - 1) -> Int]]

\* c_in_at: a call without partial sums (a null pointer) starts from zero.
CIn(t, i, j) == IF t.partials THEN t.c[i][j] ELSE 0

ASSUME TileAssumption ==
    /\ ArrayRows \in Nat \ {0} /\ ArrayCols \in Nat \ {0} /\ MaxTiles \in Nat
    /\ \A t \in Tiles :
          /\ t.m \in Nat /\ t.n \in Nat /\ t.k \in Nat
          /\ t.a \in Matrix(t.m, t.k) /\ t.b \in Matrix(t.k, t.n)
          /\ t.c \in Matrix(t.m, t.n) /\ t.partials \in BOOLEAN

\* C plus the first q terms of row i of A times column j of B.
ASSUME PartialSumAssumption ==
    \A t \in Tiles : \A i \in 0..(t.m - 1), j \in 0..(t.n - 1) :
        /\ PartialSum(t, i, j, 0) = CIn(t, i, j)
        /\ \A q \in 0..(t.k - 1) :
              PartialSum(t, i, j, q + 1) = PartialSum(t, i, j, q) + t.a[i][q] * t.b[q][j]

Rows == 0..(ArrayRows - 1)
Cols == 0..(ArrayCols - 1)

VARIABLES
    tile,      \* the arguments of the call
    phase,     \* "ready", "ticking" or "done"; the call returned ok
    ok,
    cyc,       \* cycles ticked
    mode,      \* current_mode_ of every element
    out0, out1, held, psum,  \* the registers of the elements
    cOut,      \* c_out_tile
    cycles,    \* *cycles_out
    called     \* calls so far

pes == <<mode, out0, out1, held, psum>>
arrayVars == <<tile, phase, ok, cyc, pes, cOut, cycles, called>>

Zero(rows, cols) == [i \in rows |-> [j \in cols |-> 0]]

ZeroTile(t) == Zero(0..(t.m - 1), 0..(t.n - 1))

ArrayInit ==
    /\ tile \in Tiles
    /\ phase = "ready" /\ ok = FALSE /\ cyc = 0 /\ mode = "OS"
    /\ out0 = Zero(Rows, Cols) /\ out1 = Zero(Rows, Cols)
    /\ held = Zero(Rows, Cols) /\ psum = Zero(Rows, Cols)
    /\ cOut = ZeroTile(tile) /\ cycles = 0 /\ called = 0

DimsFit(t) ==
    \/ t.mode = "OS" /\ t.m <= ArrayRows /\ t.n <= ArrayCols
    \/ t.mode = "WS" /\ t.k <= ArrayRows /\ t.n <= ArrayCols
    \/ t.mode = "IS" /\ t.m <= ArrayRows /\ t.k <= ArrayCols

\* The register that stays for the whole tile: weight_reg_, or input_reg_.
Stationary(t) ==
    [i \in Rows |-> [j \in Cols |->
        IF t.mode = "WS" /\ i < t.k /\ j < t.n THEN t.b[i][j]
        ELSE IF t.mode = "IS" /\ i < t.m /\ j < t.k THEN t.a[i][j]
        ELSE 0]]

LoadedPsum(t) ==
    [i \in Rows |-> [j \in Cols |->
        IF t.mode = "OS" /\ i < t.m /\ j < t.n THEN CIn(t, i, j) ELSE 0]]

\* Mutant of Begin: the elements keep the mode of the last tile.
BeginKeepsMode(t) ==
    /\ phase' = "ticking" /\ cyc' = 0
    /\ held' = Stationary(t) /\ psum' = LoadedPsum(t)
    /\ UNCHANGED <<ok, mode>>

\* set_array_mode and the loads of the chosen dataflow.
Begin(t) ==
    /\ phase' = "ticking" /\ cyc' = 0 /\ mode' = t.mode
    /\ held' = Stationary(t) /\ psum' = LoadedPsum(t)
    /\ UNCHANGED ok

\* Mutant of ResetPipes: the pipes keep the operands of the last tile.
KeepPipes == UNCHANGED <<out0, out1>>

\* reset(): the registers that feed the neighbours.
ResetPipes == out0' = Zero(Rows, Cols) /\ out1' = Zero(Rows, Cols)

\* run_gemm_tile with the caller's zeroed output, up to the loop over cycles.
ArrayCall(t) ==
    /\ phase # "ticking" /\ called < MaxTiles
    /\ called' = called + 1
    /\ tile' = t /\ cOut' = ZeroTile(t) /\ cycles' = 0
    /\ IF 0 \notin {t.m, t.n, t.k} /\ DimsFit(t)
       THEN Begin(t) /\ ResetPipes
       ELSE /\ phase' = "done" /\ ok' = FALSE
            /\ UNCHANGED <<cyc, pes>>

TileCycles(t) == t.m + t.n + t.k - 2

\* The boundary inputs of this cycle: lane x is fed x cycles late.
\* Mutant: every lane at once.
UnskewedLane(x, lanes, depth) == IF x < lanes /\ cyc < depth THEN {cyc} ELSE {}

Lane(x, lanes, depth) ==
    IF x < lanes /\ cyc >= x /\ cyc - x < depth THEN {cyc - x} ELSE {}

Fed(slots, value(_)) == IF slots = {} THEN 0 ELSE value(CHOOSE s \in slots : TRUE)

Left(i) ==
    CASE tile.mode = "OS" -> Fed(Lane(i, tile.m, tile.k), LAMBDA p : tile.a[i][p])
      [] tile.mode = "WS" -> Fed(Lane(i, tile.k, tile.m), LAMBDA r : tile.a[r][i])
      [] tile.mode = "IS" -> Fed(Lane(i, tile.m, tile.n), LAMBDA q : CIn(tile, i, q))

Top(j) ==
    CASE tile.mode = "OS" -> Fed(Lane(j, tile.n, tile.k), LAMBDA p : tile.b[p][j])
      [] tile.mode = "WS" -> Fed(Lane(j, tile.n, tile.m), LAMBDA r : CIn(tile, r, j))
      [] tile.mode = "IS" -> Fed(Lane(j, tile.k, tile.n), LAMBDA q : tile.b[j][q])

\* Every element reads its neighbours before any of them ticks.
Input0(i, j) == IF j = 0 THEN Left(i) ELSE out0[i][j - 1]
Input1(i, j) == IF i = 0 THEN Top(j) ELSE out1[i - 1][j]

\* PE::tick: the new psum_reg_.
Psum(i, j) ==
    CASE mode = "OS" -> psum[i][j] + Input0(i, j) * Input1(i, j)
      [] mode = "WS" -> Input0(i, j) * held[i][j] + Input1(i, j)
      [] mode = "IS" -> Input0(i, j) + held[i][j] * Input1(i, j)

\* Mutant of ReadyCycle: the output is read one cycle early.
ReadyCycleEarly(x, t) == x + t.k - 2

\* The cycle at which lane x delivers its first result.
ReadyCycle(x, t) == x + t.k - 1

\* The slot of lane x whose result leaves the grid in this cycle, if any.
IsReady(x, slot) == cyc = ReadyCycle(x, tile) + slot

Captured ==
    [i \in 0..(tile.m - 1) |-> [j \in 0..(tile.n - 1) |->
        IF tile.mode = "WS" /\ IsReady(j, i) THEN Psum(tile.k - 1, j)
        ELSE IF tile.mode = "IS" /\ IsReady(i, j) THEN Psum(i, tile.k - 1)
        ELSE cOut[i][j]]]

Tick ==
    /\ phase = "ticking" /\ cyc < TileCycles(tile)
    /\ psum' = [i \in Rows |-> [j \in Cols |-> Psum(i, j)]]
    /\ out0' = [i \in Rows |-> [j \in Cols |-> IF mode = "IS" THEN Psum(i, j) ELSE Input0(i, j)]]
    /\ out1' = [i \in Rows |-> [j \in Cols |-> IF mode = "WS" THEN Psum(i, j) ELSE Input1(i, j)]]
    /\ cOut' = Captured
    /\ cyc' = cyc + 1
    /\ UNCHANGED <<tile, phase, ok, mode, held, cycles, called>>

\* In OS the results are still in the elements.
Return ==
    /\ phase = "ticking" /\ cyc = TileCycles(tile)
    /\ cOut' = IF tile.mode = "OS"
               THEN [i \in 0..(tile.m - 1) |-> [j \in 0..(tile.n - 1) |-> psum[i][j]]]
               ELSE cOut
    /\ cycles' = TileCycles(tile)
    /\ phase' = "done" /\ ok' = TRUE
    /\ UNCHANGED <<tile, cyc, pes, called>>

ArrayNext == (\E t \in Tiles : ArrayCall(t)) \/ Tick \/ Return

ArraySpec == ArrayInit /\ [][ArrayNext]_arrayVars
-----------------------------------------------------------------------------
Grid == [Rows -> [Cols -> Int]]

ArrayTypeOK ==
    /\ tile \in Tiles /\ phase \in {"ready", "ticking", "done"} /\ ok \in BOOLEAN
    /\ cyc \in Nat /\ mode \in Modes
    /\ phase = "ticking" => mode = tile.mode /\ cyc <= TileCycles(tile)
    /\ out0 \in Grid /\ out1 \in Grid /\ held \in Grid /\ psum \in Grid
    /\ cOut \in Matrix(tile.m, tile.n) /\ cycles \in Nat /\ called \in 0..MaxTiles

\* A call that returns true has added A times B to C, in every dataflow
\* (run_os_tile, run_ws_tile, run_is_tile: array.cpp:101-256).
ReturnsProduct ==
    phase = "done" /\ ok =>
        \A i \in 0..(tile.m - 1), j \in 0..(tile.n - 1) :
            cOut[i][j] = PartialSum(tile, i, j, tile.k)

\* The slot an element works on once cyc cycles have ticked: the cycles since
\* the first operand reached it.
Slot(i, j) == cyc - 1 - i - j

\* What the slot of an element is in its dataflow: a depth (OS), a row of A
\* (WS) or a column of B (IS).
Depth == CASE tile.mode = "OS" -> tile.k [] tile.mode = "WS" -> tile.m [] tile.mode = "IS" -> tile.n

Active(i, j) == Slot(i, j) \in 0..(Depth - 1)

\* The products an element has summed in OS after cyc cycles.
Least(x, y) == IF x < y THEN x ELSE y
Summed(i, j) == IF Slot(i, j) < 0 THEN 0 ELSE Least(Slot(i, j) + 1, tile.k)

\* Operands that meet in an element belong together: with the boundary skew
\* and one element per cycle, element (i, j) has in its pipes exactly the
\* operands of its slot, and its sum is the partial sum up to there
\* (array.cpp:73-95 and the feeding loops of each dataflow).
OperandsMeet ==
    phase = "ticking" => \A i \in Rows, j \in Cols :
        CASE tile.mode = "OS" ->
                /\ i < tile.m /\ Active(i, j) => out0[i][j] = tile.a[i][Slot(i, j)]
                /\ j < tile.n /\ Active(i, j) => out1[i][j] = tile.b[Slot(i, j)][j]
                /\ i < tile.m /\ ~Active(i, j) => out0[i][j] = 0
                /\ i < tile.m /\ j < tile.n =>
                      psum[i][j] = PartialSum(tile, i, j, Summed(i, j))
          [] tile.mode = "WS" ->
                i < tile.k /\ j < tile.n /\ Active(i, j) =>
                    /\ out0[i][j] = tile.a[Slot(i, j)][i]
                    /\ out1[i][j] = PartialSum(tile, Slot(i, j), j, i + 1)
          [] tile.mode = "IS" ->
                i < tile.m /\ j < tile.k /\ Active(i, j) =>
                    /\ out1[i][j] = tile.b[j][Slot(i, j)]
                    /\ out0[i][j] = PartialSum(tile, i, Slot(i, j), j + 1)
=============================================================================
