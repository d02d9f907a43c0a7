-------------------------- MODULE MCSystolicArray --------------------------
(* A 3x2 array, every tile size up to one more than fits. The operands are *)
(* all different, so that a product of the wrong pair shows in the sum.    *)
EXTENDS SystolicArray, Folds

MCPartialSum(t, i, j, q) ==
    CIn(t, i, j) + MapThenFoldSet(LAMBDA x, y : x + y, 0, LAMBDA p : t.a[i][p] * t.b[p][j],
                                  LAMBDA S : CHOOSE x \in S : TRUE, 0..(q - 1))

A(i, p) == 2 + 7 * i + 3 * p * p
B(p, j) == 5 - 11 * j + 13 * p
C(i, j) == 101 * i - 17 * j + 1

CallOf(m, n, k, df, withC) ==
    [m |-> m, n |-> n, k |-> k, mode |-> df,
     a |-> [i \in 0..(m - 1) |-> [p \in 0..(k - 1) |-> A(i, p)]],
     b |-> [p \in 0..(k - 1) |-> [j \in 0..(n - 1) |-> B(p, j)]],
     c |-> [i \in 0..(m - 1) |-> [j \in 0..(n - 1) |-> C(i, j)]], partials |-> withC]

MCTiles ==
    { CallOf(m, n, k, df, TRUE) : m \in 1..4, n \in 1..3, k \in 1..4, df \in Modes }
        \cup { CallOf(3, 2, 2, df, FALSE) : df \in Modes }
        \cup { CallOf(2, 0, 1, "OS", FALSE), CallOf(2, 2, 2, "none", FALSE) }
=============================================================================
