---------------------------- MODULE MCController ----------------------------
(* A 2x2 array with buffers of 4 words and a memory of 20: A in words 1..6, *)
(* B in 7..12, C in 13..18. The words are all different.                    *)
EXTENDS Controller

MCInitialMemory == [w \in Addresses |-> ((w * w * 7) % 23) - 5]

Base == [DefaultDescriptor EXCEPT !.A = 4, !.B = 28, !.C = 52]

Gemms(dims, tiles, modes) ==
    { [Base EXCEPT !.m = s[1], !.n = s[2], !.k = s[3], !.tm = t[1], !.tn = t[2], !.tk = t[3],
                   !.mode = df] : s \in dims, t \in tiles, df \in modes }

Plain == Gemms({<<2, 2, 2>>, <<3, 2, 2>>, <<2, 3, 2>>}, {<<2, 2, 2>>, <<1, 2, 1>>}, Modes)
            \cup Gemms({<<2, 2, 3>>, <<1, 3, 2>>, <<3, 1, 1>>}, {<<2, 1, 2>>}, Modes)

\* Only OS leaves the depth of a tile free, WS its rows, IS its columns: a
\* tile may exceed a buffer, or just fit.
Tall == { [Base EXCEPT !.m = 2, !.n = 1, !.k = 3, !.tk = 3],
          [Base EXCEPT !.m = 3, !.n = 2, !.k = 1, !.tm = 3, !.mode = "WS"],
          [Base EXCEPT !.m = 1, !.n = 3, !.k = 2, !.tn = 3, !.mode = "IS"],
          [Base EXCEPT !.m = 1, !.n = 1, !.k = 4, !.tk = 4] }

\* C on top of A or B; A and B the same.
Overlapping == { [Base EXCEPT !.m = 2, !.n = 2, !.k = 2, !.tm = 1, !.C = 4],
                 [Base EXCEPT !.m = 2, !.n = 2, !.k = 3, !.tk = 1, !.C = 32],
                 [Base EXCEPT !.m = 2, !.n = 2, !.k = 2, !.B = 4] }

Rejected == { [Base EXCEPT !.m = 1, !.n = 1], [Base EXCEPT !.m = 1, !.n = 1, !.k = 1, !.A = 6],
              [Base EXCEPT !.m = 1, !.n = 1, !.k = 1, !.tm = 3],
              [Base EXCEPT !.m = 1, !.n = 1, !.k = 1, !.mode = Unknown] }

\* Past the end of the memory; the second by sizes that are small modulo 2^32.
OutOfRange == { [Base EXCEPT !.m = 3, !.n = 3, !.k = 2],
                [Base EXCEPT !.m = 32, !.n = 1, !.k = 1, !.tm = 2] }

MCDescriptors == Plain \cup Tall \cup Overlapping \cup Rejected \cup OutOfRange

MCPayloads == {<<9, 0 - 8, 7>>, [i \in 1..21 |-> i]}
=============================================================================
