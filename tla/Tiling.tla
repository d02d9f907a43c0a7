------------------------------- MODULE Tiling -------------------------------
(***************************************************************************)
(* GemmTile (maps-sim/include/npu/schedule.h) and the plan that            *)
(* Scheduler::build_plan (maps-sim/src/npu/schedule.cpp) is meant to       *)
(* return, in closed form: the loops themselves are module Schedule.       *)
(***************************************************************************)
EXTENDS Descriptor

Tile(m0, n0, k0, mLen, nLen, kLen) ==
    [m0 |-> m0, n0 |-> n0, k0 |-> k0, mLen |-> mLen, nLen |-> nLen, kLen |-> kLen]

TileType == [m0 : Nat, n0 : Nat, k0 : Nat, mLen : Nat, nLen : Nat, kLen : Nat]

\* The index cells (i of M, j of N, p of K) whose product a tile computes.
Covers(t, i, j, p) ==
    /\ t.m0 <= i /\ i < t.m0 + t.mLen
    /\ t.n0 <= j /\ j < t.n0 + t.nLen
    /\ t.k0 <= p /\ p < t.k0 + t.kLen

Steps(dim, tile) == (dim + tile - 1) \div tile

ClipTo(dim, from, tile) == IF from + tile <= dim THEN tile ELSE dim - from

TilesOf(d) == Steps(d.m, d.tm) * Steps(d.n, d.tn) * Steps(d.k, d.tk)

\* The x-th tile of the plan, counted from 1: k fastest, then n, then m.
TileAt(d, x) ==
    LET sk == Steps(d.k, d.tk)
        sn == Steps(d.n, d.tn)
        m0 == ((x - 1) \div (sk * sn)) * d.tm
        n0 == (((x - 1) \div sk) % sn) * d.tn
        k0 == ((x - 1) % sk) * d.tk
    IN  Tile(m0, n0, k0, ClipTo(d.m, m0, d.tm), ClipTo(d.n, n0, d.tn), ClipTo(d.k, k0, d.tk))

PlanOf(d) == [x \in 1..TilesOf(d) |-> TileAt(d, x)]
=============================================================================
