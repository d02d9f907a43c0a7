---------------------------- MODULE MCBaremetal ----------------------------
(* Words 1 and 2 are .bss, 3 the status word, 4..13 a descriptor, A is 14.., *)
(* B 16.., C 18..; words 20..29 are a descriptor the image comes with.      *)
EXTENDS Baremetal

G(desc, at, c, m, n, k) ==
    [desc |-> desc, descAddr |-> at, a |-> 56, b |-> 64, c |-> c, m |-> m, n |-> n, k |-> k]

MCInitialMemory ==
    [w \in Addresses |->
        CASE w \in 1..2 -> 77        \* not zero before crt0 clears it
          [] w \in 14..17 -> w - 12
          [] w \in 20..29 -> ToWords(DescOf(G(80, 80, 72, 2, 1, 1)))[w - 19]
          [] OTHER -> 0]

MCGemms ==
    { G(16, 16, 72, 1, 1, 2), G(16, 16, 72, 2, 1, 1), G(80, 80, 72, 1, 2, 1),
      G(16, 80, 72, 1, 1, 2), G(80, 16, 72, 1, 2, 1),    \* built in one place, started in another
      G(16, 16, 80, 1, 1, 2),        \* C is the word m of the other descriptor
      G(0, 16, 72, 1, 1, 2),         \* a null descriptor
      G(16, 16, 72, 0, 1, 1), G(16, 16, 74, 1, 1, 1),    \* the driver refuses these
      G(16, 16, 124, 2, 1, 1),       \* and the device these: C past the memory,
      G(16, 16, 72, 2, 1, 3),        \* a tile of A larger than its buffer
      G(16, 18, 72, 1, 1, 1) }       \* a misaligned descriptor

MCDoneText == <<100>>
MCFailText == <<102>>
=============================================================================
