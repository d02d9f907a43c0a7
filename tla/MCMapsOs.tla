------------------------------ MODULE MCMapsOs ------------------------------
(* Word 1 is the text "hi"; words 2..11 are .bss with the static descriptor;*)
(* A is word 12.., B 14.., C 16..; words 20..29 are a descriptor the image  *)
(* comes with; the last word is a text without an end.                      *)
EXTENDS MapsOs

\* npu_desc_init: mode OS, tiles of 16.
Desc(A, B, C, m, n, k) ==
    [DefaultDescriptor EXCEPT !.A = A, !.B = B, !.C = C, !.m = m, !.n = n, !.k = k]

MCInitialMemory ==
    [w \in Addresses |->
        CASE w = 1 -> 26984
          [] w \in 2..11 -> 77       \* not zero before crt0 clears it
          [] w \in 12..15 -> w - 10
          [] w \in 20..29 -> ToWords(Desc(56, 48, 68, 2, 1, 1))[w - 19]
          [] w = 30 -> 16843009
          [] OTHER -> 0]

MCGemms ==
    { Desc(48, 56, 64, 1, 1, 2), Desc(48, 56, 64, 2, 1, 1),
      Desc(64, 56, 48, 1, 2, 1),
      Desc(48, 56, 64, 0, 1, 1),      \* not valid
      Desc(48, 56, 120, 1, 2, 1),      \* C past the memory
      Desc(16, 16, 64, 2, 1, 3) }     \* a tile of A larger than its buffer

MCBootText == <<98>>
MCDoneText == <<100>>
MCFailedText == <<102>>

MCWrites == { <<4, 2>>, <<4, 0>>, <<0, 2>>, <<122, 4>>, <<124, 1>> }
=============================================================================
