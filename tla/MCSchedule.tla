----------------------------- MODULE MCSchedule -----------------------------
(* A small instance of Schedule: a 2x2 array, 5-bit words. *)
EXTENDS Schedule

Dims == {1, 3, 4}
Tiles == {1, 2, 3}

Base == [DefaultDescriptor EXCEPT !.A = 4, !.B = 8, !.C = 12]

Small ==
    { [Base EXCEPT !.m = m, !.n = n, !.k = k, !.tm = tm, !.tn = tn, !.tk = tk, !.mode = mode] :
          m \in Dims, n \in Dims, k \in Dims, tm \in Tiles, tn \in Tiles, tk \in {2, 3},
          mode \in {"OS", "IS"} }

\* One dimension at the last value below Word / 2 (15 of 0..31), and tile
\* sides up to the largest UINT32 where the array does not limit them.
Edge ==
    { [Base EXCEPT !.m = 15, !.n = 1, !.k = 1, !.tm = 2],
      [Base EXCEPT !.m = 1, !.n = 15, !.k = 1, !.tn = 2],
      [Base EXCEPT !.m = 1, !.n = 1, !.k = 15, !.tk = 2],
      [Base EXCEPT !.m = 1, !.n = 1, !.k = 15, !.tk = 15],
      [Base EXCEPT !.m = 15, !.n = 2, !.k = 1, !.mode = "WS"],
      [Base EXCEPT !.m = 3, !.n = 3, !.k = 3, !.tk = 31],
      [Base EXCEPT !.m = 3, !.n = 3, !.k = 3, !.tm = 31, !.mode = "WS"],
      [Base EXCEPT !.m = 3, !.n = 15, !.k = 3, !.tn = 31, !.mode = "IS"] }

\* Rejected: an empty matrix, an empty tile, a base that is null or odd.
Invalid ==
    { [Base EXCEPT !.m = 0, !.n = 1, !.k = 1], [Base EXCEPT !.m = 1, !.n = 1, !.k = 1, !.tn = 0],
      [Base EXCEPT !.m = 1, !.n = 1, !.k = 1, !.B = 0],
      [Base EXCEPT !.m = 1, !.n = 1, !.k = 1, !.C = 6] }

MCDescriptors == Small \cup Edge \cup Invalid
=============================================================================
