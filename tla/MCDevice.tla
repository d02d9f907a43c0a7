------------------------------ MODULE MCDevice ------------------------------
(* Two places for a descriptor (words 1..10 and 11..20); A, B and C in the  *)
(* words after them. C of one descriptor is on top of the second place.     *)
EXTENDS Device

MCInitialMemory == [w \in Addresses |-> IF w > 20 THEN w - 18 ELSE 0]

D(m, n, k, C, df, tk) ==
    [DefaultDescriptor EXCEPT !.m = m, !.n = n, !.k = k, !.A = 84, !.B = 92, !.C = C,
                              !.mode = df, !.tk = tk]

MCDescriptors ==
    { D(1, 2, 1, 104, "OS", 2), D(2, 1, 1, 104, "WS", 1),
      D(1, 1, 2, 44, "IS", 2),          \* C is the word m of the second place
      D(1, 1, 1, 104, "OS", 200),       \* a number that is negative as INT32
      D(0, 1, 1, 104, "OS", 2) }        \* not valid, not stored

MCImages ==
    { ToWords(D(1, 1, 2, 100, "OS", 1)),
      ToWords(D(3, 3, 1, 100, "OS", 1)),           \* past the memory
      ToWords(D(2, 2, 2, 108, "OS", 5)),           \* C past the memory
      ToWords(D(1, 2, 2, 104, "OS", 2)),           \* a tile larger than a buffer
      ToWords(D(1, 1, 1, 102, "OS", 1)),           \* misaligned
      [ToWords(D(1, 1, 1, 100, "OS", 1)) EXCEPT ![7] = 3],      \* no dataflow
      [ToWords(D(1, 1, 1, 100, "OS", 1)) EXCEPT ![3] = 0 - 1] } \* negative

MCBases == {4, 44, 6, 84}
=============================================================================
