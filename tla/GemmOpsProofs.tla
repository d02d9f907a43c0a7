--------------------------- MODULE GemmOpsProofs ---------------------------
(***************************************************************************)
(* Lemmas about the operators of Tiling and GemmOps, for every descriptor  *)
(* and every memory: how the tiles of a plan lie in the matrices, where    *)
(* the matrices lie in memory, how a product grows with its depth, and     *)
(* what the tiles of a plan add to the counters, and what submit and run   *)
(* answer. The proofs about Schedule, Controller, Device, MapsOs and       *)
(* Machine rest on them.                                                   *)
(*                                                                         *)
(* A fold of the community modules is a recursive function. What it        *)
(* computes is proved by induction on the size of its set, in the form of  *)
(* NatSetInduction: a set of naturals with 0 and closed under + 1 is Nat.  *)
(***************************************************************************)
EXTENDS GemmOps, FiniteSetTheorems, TLAPS

(* Sums. *)

\* Induction over the naturals, without an operator parameter.
LEMMA NatSetInduction ==
    ASSUME NEW P \in SUBSET Nat, 0 \in P, \A n \in P : n + 1 \in P
    PROVE  P = Nat
<1>. DEFINE Less == {q \in Nat \X Nat : q[1] < q[2]}
<1>. SUFFICES ASSUME Nat \ P # {} PROVE FALSE
  OBVIOUS
<1>1. IsWellFoundedOn(Less, Nat)
  BY NatLessThanWellFounded DEF OpToRel
<1>. HIDE DEF Less
<1>2. PICK m \in Nat \ P : \A k \in Nat \ P : <<k, m>> \notin Less
  BY <1>1, WFMin
<1>3. m # 0 /\ m - 1 \in Nat /\ m - 1 < m
  OBVIOUS
<1>4. <<m - 1, m>> \in Less
  BY <1>3 DEF Less
<1>5. m - 1 \in P
  BY <1>2, <1>3, <1>4
<1>6. (m - 1) + 1 \in P
  BY <1>5
<1>. QED BY <1>6, <1>3

\* The recursion SumFunctionOnSet evaluates, over the subsets of S.
Chosen(s) == CHOOSE x \in s : TRUE
SumRec(F, S, g) ==
    g = [s \in SUBSET S |-> IF s = {} THEN 0 ELSE F[Chosen(s)] + g[s \ {Chosen(s)}]]

\* The sum over a set is the recursive function above, at the set.
LEMMA SumUnfold ==
    ASSUME NEW F, NEW S
    PROVE  SumFunctionOnSet(F, S) = (CHOOSE g : SumRec(F, S, g))[S]
BY DEF SumFunctionOnSet, FoldFunctionOnSet, MapThenFoldSet, SumRec, Chosen

\* The recursion has a solution over a finite set.
LEMMA SumRecExists ==
    ASSUME NEW F, NEW S, IsFiniteSet(S)
    PROVE  \E g : SumRec(F, S, g)
<1>. DEFINE Small(n) == {t \in SUBSET S : Cardinality(t) <= n}
            P == {n \in Nat : \E g : g = [s \in Small(n) |->
                     IF s = {} THEN 0 ELSE F[Chosen(s)] + g[s \ {Chosen(s)}]]}
<1>0. \A s \in SUBSET S : IsFiniteSet(s) /\ Cardinality(s) \in Nat /\ Cardinality(s) <= Cardinality(S)
  BY FS_Subset, FS_CardinalityType
<1>1. 0 \in P
  <2>. DEFINE g == [s \in Small(0) |-> 0]
  <2>1. Small(0) = {{}}
    BY <1>0, FS_EmptySet
  <2>2. g = [s \in Small(0) |-> IF s = {} THEN 0 ELSE F[Chosen(s)] + g[s \ {Chosen(s)}]]
    BY <2>1
  <2>. QED BY <2>2
<1>2. ASSUME NEW n \in P PROVE n + 1 \in P
  <2>1. PICK g : g = [s \in Small(n) |-> IF s = {} THEN 0 ELSE F[Chosen(s)] + g[s \ {Chosen(s)}]]
    OBVIOUS
  <2>. DEFINE h == [s \in Small(n + 1) |-> IF s = {} THEN 0 ELSE F[Chosen(s)] + g[s \ {Chosen(s)}]]
  <2>2. n \in Nat
    OBVIOUS
  <2>3. ASSUME NEW s \in Small(n + 1), s # {}
        PROVE  h[s \ {Chosen(s)}] = g[s \ {Chosen(s)}]
    <3>1. Chosen(s) \in s
      BY <2>3 DEF Chosen
    <3>. DEFINE t == s \ {Chosen(s)}
    <3>2. t \in SUBSET S /\ Cardinality(t) = Cardinality(s) - 1
      BY <3>1, <1>0, FS_RemoveElement
    <3>3. t \in Small(n) /\ t \in Small(n + 1)
      BY <3>2, <1>0, <2>2
    <3>. HIDE DEF t, Small
    <3>4. g[t] = IF t = {} THEN 0 ELSE F[Chosen(t)] + g[t \ {Chosen(t)}]
      BY <3>3, <2>1
    <3>5. h[t] = IF t = {} THEN 0 ELSE F[Chosen(t)] + g[t \ {Chosen(t)}]
      BY <3>3
    <3>. QED BY <3>4, <3>5 DEF t
  <2>. HIDE DEF Small
  <2>4. h = [s \in Small(n + 1) |-> IF s = {} THEN 0 ELSE F[Chosen(s)] + h[s \ {Chosen(s)}]]
    BY <2>3
  <2>5. \E f : f = [s \in Small(n + 1) |-> IF s = {} THEN 0 ELSE F[Chosen(s)] + f[s \ {Chosen(s)}]]
    BY <2>4
  <2>. QED BY <2>2, <2>5
<1>. HIDE DEF P
<1>3. P = Nat
  <2>1. P \in SUBSET Nat
    BY DEF P
  <2>. QED BY <1>1, <1>2, <2>1, NatSetInduction
<1>4. Cardinality(S) \in P
  BY <1>3, FS_CardinalityType
<1>5. Small(Cardinality(S)) = SUBSET S
  BY <1>0
<1>. QED BY <1>4, <1>5 DEF P, SumRec

\* A set with n + 1 members loses one.
LEMMA RemoveOne ==
    ASSUME NEW s, IsFiniteSet(s), NEW n \in Nat, Cardinality(s) = n + 1
    PROVE  /\ s # {} /\ Chosen(s) \in s
           /\ \A x \in s : IsFiniteSet(s \ {x}) /\ Cardinality(s \ {x}) = n
<1>1. s # {}
  BY FS_EmptySet
<1>2. \A x \in s : IsFiniteSet(s \ {x}) /\ Cardinality(s \ {x}) = n
  <2>. TAKE x \in s
  <2>1. Cardinality(s \ {x}) = Cardinality(s) - 1 /\ IsFiniteSet(s \ {x})
    BY FS_RemoveElement
  <2>. QED BY <2>1
<1>. QED BY <1>1, <1>2 DEF Chosen

\* Functions that agree on S have the same sums over its subsets.
LEMMA SumRecAgree ==
    ASSUME NEW F, NEW G, NEW S, NEW T, IsFiniteSet(S), S \subseteq T,
           \A x \in S : F[x] = G[x],
           NEW g, SumRec(F, S, g), NEW h, SumRec(G, T, h)
    PROVE  \A s \in SUBSET S : g[s] = h[s]
<1>. DEFINE P == {n \in Nat : \A s \in SUBSET S : Cardinality(s) = n => g[s] = h[s]}
<1>0. \A s \in SUBSET S : IsFiniteSet(s) /\ Cardinality(s) \in Nat
  BY FS_Subset, FS_CardinalityType
<1>1. 0 \in P
  <2>. SUFFICES ASSUME NEW s \in SUBSET S, Cardinality(s) = 0 PROVE g[s] = h[s]
    OBVIOUS
  <2>1. s = {} /\ s \in SUBSET T
    BY <1>0, FS_EmptySet
  <2>. QED BY <2>1 DEF SumRec
<1>2. ASSUME NEW n \in P PROVE n + 1 \in P
  <2>. SUFFICES ASSUME NEW s \in SUBSET S, Cardinality(s) = n + 1 PROVE g[s] = h[s]
    OBVIOUS
  <2>1. s # {} /\ s \in SUBSET T /\ Chosen(s) \in s /\ Cardinality(s \ {Chosen(s)}) = n
    <3>1. n \in Nat /\ IsFiniteSet(s) /\ Cardinality(s) = n + 1
      BY <1>0
    <3>. QED BY <3>1, RemoveOne
  <2>2. Chosen(s) \in s
    BY <2>1
  <2>3. s \ {Chosen(s)} \in SUBSET S
    OBVIOUS
  <2>4. g[s \ {Chosen(s)}] = h[s \ {Chosen(s)}]
    BY <2>1, <2>3
  <2>5. g[s] = F[Chosen(s)] + g[s \ {Chosen(s)}]
    BY <2>1 DEF SumRec
  <2>6. h[s] = G[Chosen(s)] + h[s \ {Chosen(s)}]
    BY <2>1 DEF SumRec
  <2>. QED BY <2>2, <2>4, <2>5, <2>6
<1>. HIDE DEF P
<1>3. P = Nat
  <2>1. P \in SUBSET Nat
    BY DEF P
  <2>. QED BY <1>1, <1>2, <2>1, NatSetInduction
<1>. QED BY <1>0, <1>3 DEF P

\* A sum depends on its terms only.
LEMMA SumCongruence ==
    ASSUME NEW F, NEW G, NEW S, IsFiniteSet(S), \A x \in S : F[x] = G[x]
    PROVE  SumFunctionOnSet(F, S) = SumFunctionOnSet(G, S)
<1>. DEFINE g == CHOOSE u : SumRec(F, S, u)
            h == CHOOSE u : SumRec(G, S, u)
<1>1. SumRec(F, S, g) /\ SumRec(G, S, h)
  BY SumRecExists
<1>2. SumFunctionOnSet(F, S) = g[S] /\ SumFunctionOnSet(G, S) = h[S]
  BY SumUnfold
<1>. HIDE DEF g, h
<1>3. S \subseteq S /\ S \in SUBSET S
  OBVIOUS
<1>4. g[S] = h[S]
  <2>1. ASSUME NEW T, S \subseteq T, NEW v, SumRec(G, T, v)
        PROVE  \A s \in SUBSET S : g[s] = v[s]
    BY <1>1, <2>1, SumRecAgree
  <2>. QED BY <1>1, <1>3, <2>1
<1>. QED BY <1>2, <1>4

\* A sum without terms.
LEMMA SumEmpty == \A F : SumFunctionOnSet(F, {}) = 0
<1>. SUFFICES ASSUME NEW F PROVE SumFunctionOnSet(F, {}) = 0
  OBVIOUS
<1>1. SumRec(F, {}, CHOOSE g : SumRec(F, {}, g))
  BY SumRecExists, FS_EmptySet
<1>. QED BY <1>1, SumUnfold DEF SumRec

\* A sum is the term chosen first and the sum of the others.
LEMMA SumFirst ==
    ASSUME NEW F, NEW S, IsFiniteSet(S), S # {}
    PROVE  SumFunctionOnSet(F, S) = F[Chosen(S)] + SumFunctionOnSet(F, S \ {Chosen(S)})
<1>. DEFINE R == S \ {Chosen(S)}
            g == CHOOSE u : SumRec(F, S, u)
            h == CHOOSE u : SumRec(F, R, u)
<1>1. IsFiniteSet(R) /\ R \subseteq S
  BY FS_RemoveElement
<1>2. SumRec(F, S, g) /\ SumRec(F, R, h)
  <2>1. IsFiniteSet(R)
    BY <1>1
  <2>. HIDE DEF R
  <2>. QED BY <2>1, SumRecExists
<1>3. g[S] = F[Chosen(S)] + g[R]
  BY <1>2 DEF SumRec
<1>4. h[R] = g[R]
  <2>. HIDE DEF R, g, h
  <2>. QED BY <1>1, <1>2, SumRecAgree
<1>5. SumFunctionOnSet(F, S) = g[S] /\ SumFunctionOnSet(F, R) = h[R]
  BY SumUnfold
<1>. QED BY <1>3, <1>4, <1>5

\* The sum of integers is an integer, and does not depend on the order.
LEMMA SumInteger ==
    ASSUME NEW F, NEW S, IsFiniteSet(S), \A x \in S : F[x] \in Int
    PROVE  SumFunctionOnSet(F, S) \in Int
<1>. DEFINE P == {n \in Nat : \A s \in SUBSET S : Cardinality(s) = n => SumFunctionOnSet(F, s) \in Int}
<1>0. \A s \in SUBSET S : IsFiniteSet(s) /\ Cardinality(s) \in Nat
  BY FS_Subset, FS_CardinalityType
<1>1. 0 \in P
  BY <1>0, FS_EmptySet, SumEmpty
<1>2. ASSUME NEW n \in P PROVE n + 1 \in P
  <2>. SUFFICES ASSUME NEW s \in SUBSET S, Cardinality(s) = n + 1
                PROVE  SumFunctionOnSet(F, s) \in Int
    OBVIOUS
  <2>0. n \in Nat /\ IsFiniteSet(s) /\ Cardinality(s) = n + 1
    BY <1>0
  <2>1. IsFiniteSet(s) /\ s # {}
    BY <2>0, RemoveOne
  <2>2. Chosen(s) \in s
    BY <2>0, RemoveOne
  <2>3. s \ {Chosen(s)} \in SUBSET S /\ Cardinality(s \ {Chosen(s)}) = n
    BY <2>0, <2>2, RemoveOne
  <2>4. SumFunctionOnSet(F, s \ {Chosen(s)}) \in Int
    BY <2>3
  <2>5. SumFunctionOnSet(F, s) = F[Chosen(s)] + SumFunctionOnSet(F, s \ {Chosen(s)})
    BY <2>1, SumFirst
  <2>. QED BY <2>2, <2>4, <2>5
<1>. HIDE DEF P
<1>3. P = Nat
  <2>1. P \in SUBSET Nat
    BY DEF P
  <2>. QED BY <1>1, <1>2, <2>1, NatSetInduction
<1>. QED BY <1>0, <1>3 DEF P

\* A sum of integers is any of its terms and the sum of the others.
LEMMA SumRemove ==
    ASSUME NEW F, NEW S, IsFiniteSet(S), \A x \in S : F[x] \in Int, NEW y \in S
    PROVE  SumFunctionOnSet(F, S) = F[y] + SumFunctionOnSet(F, S \ {y})
<1>. DEFINE Sum(s) == SumFunctionOnSet(F, s)
            P == {n \in Nat : \A s \in SUBSET S : Cardinality(s) = n =>
                     \A x \in s : Sum(s) = F[x] + Sum(s \ {x})}
<1>0. \A s \in SUBSET S : IsFiniteSet(s) /\ Cardinality(s) \in Nat
  BY FS_Subset, FS_CardinalityType
<1>1. 0 \in P
  BY <1>0, FS_EmptySet
<1>2. ASSUME NEW n \in P PROVE n + 1 \in P
  <2>. SUFFICES ASSUME NEW s \in SUBSET S, Cardinality(s) = n + 1, NEW x \in s
                PROVE  Sum(s) = F[x] + Sum(s \ {x})
    OBVIOUS
  <2>. DEFINE f == Chosen(s)
  <2>0. n \in Nat /\ Cardinality(s) = n + 1
    OBVIOUS
  <2>1. IsFiniteSet(s) /\ s # {} /\ f \in s
    BY <1>0 DEF Chosen
  <2>2. Sum(s) = F[f] + Sum(s \ {f})
    BY <2>1, SumFirst
  <2>. HIDE DEF f
  <2>3. CASE x = f
    BY <2>2, <2>3
  <2>4. CASE x # f
    <3>1. /\ s \ {f} \in SUBSET S /\ Cardinality(s \ {f}) = n /\ x \in s \ {f}
          /\ s \ {x} \in SUBSET S /\ Cardinality(s \ {x}) = n /\ f \in s \ {x}
      BY <2>0, <2>1, <2>4, RemoveOne
    <3>. HIDE DEF Sum
    <3>2. /\ Sum(s \ {f}) = F[x] + Sum((s \ {f}) \ {x})
          /\ Sum(s \ {x}) = F[f] + Sum((s \ {x}) \ {f})
      BY <3>1
    <3>3. (s \ {f}) \ {x} = (s \ {x}) \ {f}
      OBVIOUS
    <3>4. /\ F[x] \in Int /\ F[f] \in Int /\ Sum((s \ {f}) \ {x}) \in Int
      <4>1. IsFiniteSet((s \ {f}) \ {x})
        BY <2>1, FS_RemoveElement
      <4>. QED BY <4>1, <2>1, SumInteger DEF Sum
    <3>5. Sum(s) = F[f] + (F[x] + Sum((s \ {f}) \ {x}))
      BY <2>2, <3>2
    <3>6. Sum(s \ {x}) = F[f] + Sum((s \ {f}) \ {x})
      BY <3>2, <3>3
    <3>. DEFINE rest == Sum((s \ {f}) \ {x})
    <3>7. rest \in Int /\ Sum(s) = F[f] + (F[x] + rest) /\ Sum(s \ {x}) = F[f] + rest
      BY <3>4, <3>5, <3>6
    <3>. HIDE DEF rest
    <3>. QED BY <3>4, <3>7
  <2>. QED BY <2>3, <2>4
<1>. HIDE DEF P, Sum
<1>3. P = Nat
  <2>1. P \in SUBSET Nat
    BY DEF P
  <2>. QED BY <1>1, <1>2, <2>1, NatSetInduction
<1>4. \A s \in SUBSET S : \A x \in s : Sum(s) = F[x] + Sum(s \ {x})
  BY <1>0, <1>3 DEF P
<1>. QED BY <1>4 DEF Sum

\* The last term of a sum over 0..n.
LEMMA SumAppend ==
    ASSUME NEW F, NEW n \in Nat, \A x \in 0..n : F[x] \in Int
    PROVE  SumFunctionOnSet(F, 0..n) = SumFunctionOnSet(F, 0..(n - 1)) + F[n]
<1>1. IsFiniteSet(0..n) /\ n \in 0..n /\ (0..n) \ {n} = 0..(n - 1)
  <2>1. IsFiniteSet(0..n)
    BY FS_Interval
  <2>. QED BY <2>1
<1>2. IsFiniteSet(0..(n - 1)) /\ SumFunctionOnSet(F, 0..(n - 1)) \in Int
  <2>1. IsFiniteSet(0..(n - 1)) /\ \A x \in 0..(n - 1) : F[x] \in Int
    BY FS_Interval
  <2>. QED BY <2>1, SumInteger
<1>3. SumFunctionOnSet(F, 0..n) = F[n] + SumFunctionOnSet(F, (0..n) \ {n})
  BY <1>1, SumRemove
<1>4. F[n] \in Int
  OBVIOUS
<1>. DEFINE below == SumFunctionOnSet(F, 0..(n - 1))
<1>5. SumFunctionOnSet(F, 0..n) = F[n] + below /\ below \in Int
  BY <1>1, <1>2, <1>3
<1>. QED BY <1>4, <1>5

\* A sum over 0..(a + b - 1) in two parts.
LEMMA SumSplit ==
    ASSUME NEW a \in Nat, NEW b \in Nat, NEW F, \A x \in 0..(a + b - 1) : F[x] \in Int
    PROVE  SumFunctionOnSet(F, 0..(a + b - 1)) =
               SumFunctionOnSet(F, 0..(a - 1)) + SumFunction([p \in 0..(b - 1) |-> F[a + p]])
<1>. DEFINE G == [p \in 0..(b - 1) |-> F[a + p]]
            P == {n \in Nat : n <= b =>
                    SumFunctionOnSet(F, 0..(a + n - 1)) =
                        SumFunctionOnSet(F, 0..(a - 1)) + SumFunctionOnSet(G, 0..(n - 1))}
<1>0. \A n \in Nat : n <= b => /\ SumFunctionOnSet(F, 0..(a + n - 1)) \in Int
                              /\ SumFunctionOnSet(G, 0..(n - 1)) \in Int
  <2>. SUFFICES ASSUME NEW n \in Nat, n <= b
                PROVE  /\ SumFunctionOnSet(F, 0..(a + n - 1)) \in Int
                       /\ SumFunctionOnSet(G, 0..(n - 1)) \in Int
    OBVIOUS
  <2>1. /\ IsFiniteSet(0..(a + n - 1)) /\ \A x \in 0..(a + n - 1) : F[x] \in Int
        /\ IsFiniteSet(0..(n - 1)) /\ \A x \in 0..(n - 1) : G[x] \in Int
    BY FS_Interval
  <2>. HIDE DEF G
  <2>. QED BY <2>1, SumInteger
<1>1. 0 \in P
  <2>1. 0..(0 - 1) = {} /\ SumFunctionOnSet(G, {}) = 0
    BY SumEmpty
  <2>2. SumFunctionOnSet(F, 0..(a + 0 - 1)) \in Int /\ a + 0 - 1 = a - 1
    <3>1. 0 \in Nat /\ 0 <= b /\ a + 0 - 1 = a - 1
      OBVIOUS
    <3>. HIDE DEF P, G
    <3>. QED BY <1>0, <3>1
  <2>. HIDE DEF G
  <2>. QED BY <2>1, <2>2
<1>2. ASSUME NEW n \in P PROVE n + 1 \in P
  <2>. SUFFICES ASSUME n + 1 <= b
                PROVE  SumFunctionOnSet(F, 0..(a + (n + 1) - 1)) =
                           SumFunctionOnSet(F, 0..(a - 1)) + SumFunctionOnSet(G, 0..((n + 1) - 1))
    OBVIOUS
  <2>1. n \in Nat /\ n <= b /\ a + (n + 1) - 1 = a + n /\ (n + 1) - 1 = n
    OBVIOUS
  <2>2. SumFunctionOnSet(F, 0..(a + n)) = SumFunctionOnSet(F, 0..(a + n - 1)) + F[a + n]
    <3>1. a + n \in Nat /\ \A x \in 0..(a + n) : F[x] \in Int
      BY <2>1
    <3>. QED BY <3>1, SumAppend
  <2>3. SumFunctionOnSet(G, 0..n) = SumFunctionOnSet(G, 0..(n - 1)) + G[n]
    <3>1. \A x \in 0..n : G[x] \in Int
      BY <2>1
    <3>. HIDE DEF G
    <3>. QED BY <2>1, <3>1, SumAppend
  <2>4. G[n] = F[a + n] /\ F[a + n] \in Int
    BY <2>1
  <2>5. SumFunctionOnSet(F, 0..(a + n - 1)) =
            SumFunctionOnSet(F, 0..(a - 1)) + SumFunctionOnSet(G, 0..(n - 1))
    BY <2>1
  <2>6. /\ SumFunctionOnSet(F, 0..(a - 1)) \in Int /\ SumFunctionOnSet(G, 0..(n - 1)) \in Int
    <3>1. a + 0 - 1 = a - 1 /\ 0 \in Nat /\ 0 <= b
      OBVIOUS
    <3>. HIDE DEF G
    <3>. QED BY <1>0, <2>1, <3>1
  <2>. HIDE DEF G
  <2>. QED BY <2>1, <2>2, <2>3, <2>4, <2>5, <2>6
<1>. HIDE DEF P
<1>3. P = Nat
  <2>1. P \in SUBSET Nat
    BY DEF P
  <2>. QED BY <1>1, <1>2, <2>1, NatSetInduction
<1>4. b \in P
  BY <1>3
<1>5. SumFunction(G) = SumFunctionOnSet(G, 0..(b - 1))
  BY DEF SumFunction
<1>. QED BY <1>4, <1>5 DEF P
-----------------------------------------------------------------------------
(* Products, quotients and remainders. *)

\* Multiplication keeps the order.
LEMMA TimesMonotone ==
    ASSUME NEW a \in Nat, NEW b \in Nat, a <= b, NEW s \in Nat
    PROVE  a * s <= b * s /\ a * s \in Nat /\ b * s \in Nat
<1>1. PICK c \in Nat : b = a + c
  <2>1. b - a \in Nat /\ b = a + (b - a)
    OBVIOUS
  <2> QED BY <2>1
<1>2. b * s = a * s + c * s /\ c * s \in Nat /\ a * s \in Nat
  BY <1>1
<1> QED
  BY <1>2

\* A number is its quotient times the divisor, and the remainder.
LEMMA DivMod ==
    ASSUME NEW a \in Nat, NEW b \in Nat \ {0}
    PROVE  /\ a \div b \in Nat /\ a % b \in 0..(b - 1)
           /\ a = (a \div b) * b + (a % b)
OBVIOUS

\* They are unique.
LEMMA QuotientUnique ==
    ASSUME NEW b \in Nat \ {0}, NEW q \in Nat, NEW r \in 0..(b - 1),
           NEW u \in Nat, NEW v \in 0..(b - 1), q * b + r = u * b + v
    PROVE  q = u /\ r = v
<1>1. CASE q < u
  <2>1. (q + 1) * b <= u * b
    BY <1>1, TimesMonotone
  <2>2. (q + 1) * b = q * b + b
    OBVIOUS
  <2>. QED BY <2>1, <2>2
<1>2. CASE u < q
  <2>1. (u + 1) * b <= q * b
    BY <1>2, TimesMonotone
  <2>2. (u + 1) * b = u * b + b
    OBVIOUS
  <2>. QED BY <2>1, <2>2
<1>3. CASE q = u
  BY <1>3
<1>. QED BY <1>1, <1>2, <1>3

\* They are those of the number they make up.
LEMMA Quotient ==
    ASSUME NEW b \in Nat \ {0}, NEW q \in Nat, NEW r \in 0..(b - 1)
    PROVE  (q * b + r) \div b = q /\ (q * b + r) % b = r
<1>. DEFINE a == q * b + r
<1>1. a \in Nat
  OBVIOUS
<1>. HIDE DEF a
<1>2. /\ a \div b \in Nat /\ a % b \in 0..(b - 1)
      /\ a = (a \div b) * b + (a % b)
  BY <1>1, DivMod
<1>. DEFINE u == a \div b
            v == a % b
<1>3. u \in Nat /\ v \in 0..(b - 1) /\ q * b + r = u * b + v
  BY <1>2 DEF a
<1>. HIDE DEF u, v
<1>4. q = u /\ r = v
  BY <1>3, QuotientUnique
<1>. QED BY <1>4 DEF a, u, v
-----------------------------------------------------------------------------
(* The tiles of a plan. *)

\* A smaller product has a smaller factor.
LEMMA Exceeds ==
    ASSUME NEW a \in Nat, NEW b \in Nat, NEW s \in Nat, a * s < b * s
    PROVE  a < b
<1>. SUFFICES ASSUME b <= a PROVE FALSE
  OBVIOUS
<1>1. b * s <= a * s
  BY TimesMonotone
<1>. QED BY <1>1

\* A valid descriptor's numbers.
LEMMA ValidNumbers ==
    ASSUME NEW d \in DescriptorType, Validate(d)
    PROVE  /\ d.m \in Nat \ {0} /\ d.n \in Nat \ {0} /\ d.k \in Nat \ {0}
           /\ d.tm \in Nat \ {0} /\ d.tn \in Nat \ {0} /\ d.tk \in Nat \ {0}
           /\ d.A \in Nat /\ d.B \in Nat /\ d.C \in Nat
BY DEF DescriptorType, Validate

\* Steps rounds up.
LEMMA StepsBounds ==
    ASSUME NEW dim \in Nat \ {0}, NEW t \in Nat \ {0}
    PROVE  /\ Steps(dim, t) \in Nat \ {0}
           /\ (Steps(dim, t) - 1) * t < dim /\ dim <= Steps(dim, t) * t
<1>. DEFINE a == dim + t - 1
            s == a \div t
            r == a % t
<1>1. a \in Nat
  OBVIOUS
<1>2. s \in Nat /\ r \in 0..(t - 1) /\ a = s * t + r
  <2>. HIDE DEF a
  <2>. QED BY <1>1, DivMod
<1>. HIDE DEF s, r
<1>3. s * t = dim + (t - 1 - r)
  BY <1>2
<1>4. s # 0
  BY <1>2, <1>3
<1>5. (s - 1) * t = s * t - t
  BY <1>2
<1>6. Steps(dim, t) = s
  BY DEF Steps, s
<1>. QED BY <1>2, <1>3, <1>4, <1>5, <1>6

\* A step is a nonempty interval inside the dimension, no longer than the
\* tile or than the first one, and the next one starts where it ends.
LEMMA StepClipped ==
    ASSUME NEW dim \in Nat \ {0}, NEW t \in Nat \ {0}, NEW s \in 0..(Steps(dim, t) - 1)
    PROVE  /\ s * t \in Nat
           /\ ClipTo(dim, s * t, t) \in 1..t
           /\ s * t + ClipTo(dim, s * t, t) <= dim
           /\ ClipTo(dim, s * t, t) <= ClipTo(dim, 0, t)
           /\ s * t + ClipTo(dim, s * t, t) =
                  IF s = Steps(dim, t) - 1 THEN dim ELSE (s + 1) * t
<1>. DEFINE from == s * t
            len == ClipTo(dim, from, t)
            last == Steps(dim, t) - 1
<1>1. Steps(dim, t) \in Nat \ {0} /\ last * t < dim /\ dim <= Steps(dim, t) * t
  BY StepsBounds
<1>2. last \in Nat /\ s \in Nat /\ s <= last /\ (last + 1) * t = Steps(dim, t) * t
  BY <1>1
<1>. HIDE DEF last
<1>3. from \in Nat /\ from <= last * t /\ (s + 1) * t = from + t /\ (last + 1) * t = last * t + t
  BY <1>2, TimesMonotone
<1>4. s < last => (s + 1) * t <= last * t
  BY <1>2, TimesMonotone
<1>5. s = last => from = last * t
  OBVIOUS
<1>6. last * t \in Int /\ (s + 1) * t \in Int /\ last * t < dim /\ dim <= (last + 1) * t
  BY <1>1, <1>2
<1>7. len = IF from + t <= dim THEN t ELSE dim - from
  BY DEF ClipTo
<1>8. ClipTo(dim, 0, t) = IF t <= dim THEN t ELSE dim
  BY DEF ClipTo
<1>. HIDE DEF from, len
<1>9. /\ len \in 1..t /\ from + len <= dim /\ len <= ClipTo(dim, 0, t)
      /\ s < last => from + len = (s + 1) * t
  BY <1>2, <1>3, <1>4, <1>6, <1>7, <1>8
<1>10. s = last => from + len = dim
  BY <1>3, <1>5, <1>6, <1>7
<1>11. s < last \/ s = last
  BY <1>2
<1>. QED BY <1>3, <1>9, <1>10, <1>11 DEF from, len, last
-----------------------------------------------------------------------------
(* Where the x-th tile of the plan is, in steps along M, N and K.          *)

KSteps(d) == Steps(d.k, d.tk)
NSteps(d) == Steps(d.n, d.tn)
MSteps(d) == Steps(d.m, d.tm)

KStep(d, x) == (x - 1) % KSteps(d)
NStep(d, x) == ((x - 1) \div KSteps(d)) % NSteps(d)
MStep(d, x) == (x - 1) \div (KSteps(d) * NSteps(d))

\* The number of the tile at given steps, counted from 1.
Place(d, a, b, c) == (a * NSteps(d) + b) * KSteps(d) + c + 1

\* The counts of steps, and of tiles.
LEMMA StepCounts ==
    ASSUME NEW d \in DescriptorType, Validate(d)
    PROVE  /\ KSteps(d) \in Nat \ {0} /\ NSteps(d) \in Nat \ {0} /\ MSteps(d) \in Nat \ {0}
           /\ KSteps(d) * NSteps(d) \in Nat \ {0}
           /\ TilesOf(d) = MSteps(d) * NSteps(d) * KSteps(d) /\ TilesOf(d) \in Nat \ {0}
<1>1. KSteps(d) \in Nat \ {0} /\ NSteps(d) \in Nat \ {0} /\ MSteps(d) \in Nat \ {0}
  BY ValidNumbers, StepsBounds DEF KSteps, NSteps, MSteps
<1>2. \A a, b \in Nat \ {0} : a * b \in Nat \ {0}
  OBVIOUS
<1>3. TilesOf(d) = MSteps(d) * NSteps(d) * KSteps(d)
  BY DEF TilesOf, KSteps, NSteps, MSteps
<1>4. MSteps(d) * NSteps(d) \in Nat \ {0} /\ KSteps(d) * NSteps(d) \in Nat \ {0}
  BY <1>1, <1>2
<1>5. MSteps(d) * NSteps(d) * KSteps(d) \in Nat \ {0}
  BY <1>1, <1>2, <1>4
<1>. QED BY <1>1, <1>3, <1>4, <1>5

\* The steps of a place, and the place of the steps.
LEMMA PlaceSteps ==
    ASSUME NEW d \in DescriptorType, Validate(d),
           NEW a \in 0..(MSteps(d) - 1), NEW b \in 0..(NSteps(d) - 1), NEW c \in 0..(KSteps(d) - 1)
    PROVE  /\ Place(d, a, b, c) \in 1..TilesOf(d)
           /\ MStep(d, Place(d, a, b, c)) = a
           /\ NStep(d, Place(d, a, b, c)) = b
           /\ KStep(d, Place(d, a, b, c)) = c
<1>. DEFINE sk == KSteps(d)
            sn == NSteps(d)
            sm == MSteps(d)
            z == (a * sn + b) * sk + c
<1>1. /\ sk \in Nat \ {0} /\ sn \in Nat \ {0} /\ sm \in Nat \ {0} /\ sk * sn \in Nat \ {0}
      /\ TilesOf(d) = sm * sn * sk
  BY StepCounts
<1>0. a \in 0..(sm - 1) /\ b \in 0..(sn - 1) /\ c \in 0..(sk - 1)
  OBVIOUS
<1>. HIDE DEF sk, sn, sm
<1>2. a * sn + b \in Nat
  BY <1>0, <1>1
<1>3. z \div sk = a * sn + b /\ z % sk = c
  BY <1>0, <1>1, <1>2, Quotient
<1>4. (a * sn + b) % sn = b
  <2>1. a \in Nat /\ b \in 0..(sn - 1) /\ sn \in Nat \ {0}
    BY <1>0, <1>1
  <2>. QED BY <2>1, Quotient
<1>5. b * sk + c \in 0..(sk * sn - 1)
  <2>1. (b + 1) * sk <= sn * sk
    BY <1>0, <1>1, TimesMonotone
  <2>2. (b + 1) * sk = b * sk + sk /\ sn * sk = sk * sn /\ b * sk \in Nat /\ sk * sn \in Nat
    BY <1>0, <1>1
  <2>. QED BY <1>0, <1>1, <2>1, <2>2
<1>6. z = a * (sk * sn) + (b * sk + c)
  BY <1>0, <1>1
<1>7. z \div (sk * sn) = a
  <2>. DEFINE w == sk * sn
              v == b * sk + c
  <2>1. w \in Nat \ {0} /\ a \in Nat /\ v \in 0..(w - 1) /\ z = a * w + v
    BY <1>0, <1>1, <1>5, <1>6
  <2>. HIDE DEF w, v, z
  <2>2. z \div w = a
    BY <2>1, Quotient
  <2>. QED BY <2>2 DEF w
<1>8. z \in 0..(sm * sn * sk - 1)
  <2>1. (a + 1) * (sk * sn) <= sm * (sk * sn)
    BY <1>0, <1>1, TimesMonotone
  <2>2. /\ (a + 1) * (sk * sn) = a * (sk * sn) + sk * sn /\ sm * (sk * sn) = sm * sn * sk
        /\ a * (sk * sn) \in Nat /\ sk * sn \in Nat
    BY <1>0, <1>1
  <2>. DEFINE w == sk * sn
              v == b * sk + c
  <2>3. /\ a * w \in Nat /\ w \in Nat /\ v \in 0..(w - 1) /\ z = a * w + v
        /\ a * w + w <= sm * sn * sk
    BY <1>5, <1>6, <2>1, <2>2
  <2>4. sm * sn * sk \in Int
    BY <1>1
  <2>. HIDE DEF w, v, z
  <2>. QED BY <2>3, <2>4
<1>9. Place(d, a, b, c) = z + 1 /\ z \in Int
  <2>1. z \in Int
    BY <1>0, <1>1
  <2>. QED BY <2>1 DEF Place, sk, sn
<1>. HIDE DEF z
<1>10. (z + 1) - 1 = z
  BY <1>9
<1>. QED BY <1>1, <1>3, <1>4, <1>7, <1>8, <1>9, <1>10 DEF MStep, NStep, KStep, sk, sn

\* The steps of a tile, and its place by them.
LEMMA StepsPlace ==
    ASSUME NEW d \in DescriptorType, Validate(d), NEW x \in 1..TilesOf(d)
    PROVE  /\ MStep(d, x) \in 0..(MSteps(d) - 1) /\ NStep(d, x) \in 0..(NSteps(d) - 1)
           /\ KStep(d, x) \in 0..(KSteps(d) - 1)
           /\ x = Place(d, MStep(d, x), NStep(d, x), KStep(d, x))
<1>. DEFINE sk == KSteps(d)
            sn == NSteps(d)
            sm == MSteps(d)
            z == x - 1
            q == z \div sk
<1>1. /\ sk \in Nat \ {0} /\ sn \in Nat \ {0} /\ sm \in Nat \ {0} /\ sk * sn \in Nat \ {0}
      /\ TilesOf(d) = sm * sn * sk /\ TilesOf(d) \in Nat
  BY StepCounts
<1>2. z \in Nat /\ z < sm * sn * sk
  BY <1>1
<1>. HIDE DEF sk, sn, sm, z
<1>3. q \in Nat /\ z % sk \in 0..(sk - 1) /\ z = q * sk + (z % sk)
  BY <1>1, <1>2, DivMod
<1>. DEFINE c == z % sk
<1>. HIDE DEF q, c
<1>4. q \div sn \in Nat /\ q % sn \in 0..(sn - 1) /\ q = (q \div sn) * sn + (q % sn)
  BY <1>1, <1>3, DivMod
<1>. DEFINE a == q \div sn
            b == q % sn
<1>. HIDE DEF a, b
<1>5. a \in Nat /\ b \in 0..(sn - 1) /\ c \in 0..(sk - 1) /\ q = a * sn + b /\ z = (a * sn + b) * sk + c
  BY <1>3, <1>4 DEF a, b, c
<1>6. b * sk + c \in 0..(sk * sn - 1)
  <2>1. (b + 1) * sk <= sn * sk
    BY <1>5, <1>1, TimesMonotone
  <2>2. (b + 1) * sk = b * sk + sk /\ sn * sk = sk * sn /\ b * sk \in Nat /\ sk * sn \in Nat
    BY <1>5, <1>1
  <2>. QED BY <1>5, <1>1, <2>1, <2>2
<1>7. z = a * (sk * sn) + (b * sk + c)
  BY <1>5, <1>1
<1>8. z \div (sk * sn) = a
  BY <1>5, <1>1, <1>6, <1>7, Quotient
<1>9. a < sm
  <2>1. a * (sk * sn) <= z /\ sm * sn * sk = sm * (sk * sn)
    BY <1>1, <1>5, <1>6, <1>7
  <2>2. a * (sk * sn) < sm * (sk * sn)
    BY <1>1, <1>2, <1>5, <2>1
  <2>. QED BY <1>1, <1>5, <2>2, Exceeds
<1>10. MStep(d, x) = a /\ NStep(d, x) = b /\ KStep(d, x) = c
  BY <1>8 DEF MStep, NStep, KStep, a, b, c, q, z, sk, sn
<1>11. x = z + 1 /\ Place(d, a, b, c) = (a * sn + b) * sk + c + 1
  BY <1>1 DEF Place, z, sk, sn
<1>. QED BY <1>1, <1>5, <1>9, <1>10, <1>11 DEF sk, sn, sm

\* A tile is a nonempty box inside the matrices, no larger than the
\* descriptor's tile or than the first one.
LEMMA TileSides ==
    ASSUME NEW d \in DescriptorType, Validate(d), NEW x \in 1..TilesOf(d)
    PROVE  LET t == TileAt(d, x) IN
           /\ t \in TileType
           /\ t.m0 = MStep(d, x) * d.tm /\ t.n0 = NStep(d, x) * d.tn /\ t.k0 = KStep(d, x) * d.tk
           /\ t.mLen = ClipTo(d.m, t.m0, d.tm) /\ t.nLen = ClipTo(d.n, t.n0, d.tn)
           /\ t.kLen = ClipTo(d.k, t.k0, d.tk)
           /\ t.mLen \in 1..d.tm /\ t.m0 + t.mLen <= d.m /\ t.mLen <= ClipTo(d.m, 0, d.tm)
           /\ t.nLen \in 1..d.tn /\ t.n0 + t.nLen <= d.n /\ t.nLen <= ClipTo(d.n, 0, d.tn)
           /\ t.kLen \in 1..d.tk /\ t.k0 + t.kLen <= d.k /\ t.kLen <= ClipTo(d.k, 0, d.tk)
<1>. DEFINE t == TileAt(d, x)
<1>1. /\ d.m \in Nat \ {0} /\ d.n \in Nat \ {0} /\ d.k \in Nat \ {0}
      /\ d.tm \in Nat \ {0} /\ d.tn \in Nat \ {0} /\ d.tk \in Nat \ {0}
  BY ValidNumbers
<1>2. t = Tile(MStep(d, x) * d.tm, NStep(d, x) * d.tn, KStep(d, x) * d.tk,
               ClipTo(d.m, MStep(d, x) * d.tm, d.tm), ClipTo(d.n, NStep(d, x) * d.tn, d.tn),
               ClipTo(d.k, KStep(d, x) * d.tk, d.tk))
  BY DEF TileAt, MStep, NStep, KStep, KSteps, NSteps
<1>3. /\ MStep(d, x) \in 0..(Steps(d.m, d.tm) - 1) /\ NStep(d, x) \in 0..(Steps(d.n, d.tn) - 1)
      /\ KStep(d, x) \in 0..(Steps(d.k, d.tk) - 1)
  BY StepsPlace DEF MSteps, NSteps, KSteps
<1>. HIDE DEF t
<1>4. /\ t.m0 = MStep(d, x) * d.tm /\ t.n0 = NStep(d, x) * d.tn /\ t.k0 = KStep(d, x) * d.tk
      /\ t.mLen = ClipTo(d.m, t.m0, d.tm) /\ t.nLen = ClipTo(d.n, t.n0, d.tn)
      /\ t.kLen = ClipTo(d.k, t.k0, d.tk)
  BY <1>2 DEF Tile
<1>5. t.m0 \in Nat /\ t.mLen \in 1..d.tm /\ t.m0 + t.mLen <= d.m /\ t.mLen <= ClipTo(d.m, 0, d.tm)
  <2>. DEFINE s == MStep(d, x)
  <2>1. s \in 0..(Steps(d.m, d.tm) - 1)
    BY <1>3
  <2>. HIDE DEF s
  <2>2. /\ s * d.tm \in Nat /\ ClipTo(d.m, s * d.tm, d.tm) \in 1..d.tm
        /\ s * d.tm + ClipTo(d.m, s * d.tm, d.tm) <= d.m
        /\ ClipTo(d.m, s * d.tm, d.tm) <= ClipTo(d.m, 0, d.tm)
    BY <1>1, <2>1, StepClipped
  <2>. QED BY <1>4, <2>2 DEF s
<1>6. t.n0 \in Nat /\ t.nLen \in 1..d.tn /\ t.n0 + t.nLen <= d.n /\ t.nLen <= ClipTo(d.n, 0, d.tn)
  <2>. DEFINE s == NStep(d, x)
  <2>1. s \in 0..(Steps(d.n, d.tn) - 1)
    BY <1>3
  <2>. HIDE DEF s
  <2>2. /\ s * d.tn \in Nat /\ ClipTo(d.n, s * d.tn, d.tn) \in 1..d.tn
        /\ s * d.tn + ClipTo(d.n, s * d.tn, d.tn) <= d.n
        /\ ClipTo(d.n, s * d.tn, d.tn) <= ClipTo(d.n, 0, d.tn)
    BY <1>1, <2>1, StepClipped
  <2>. QED BY <1>4, <2>2 DEF s
<1>7. t.k0 \in Nat /\ t.kLen \in 1..d.tk /\ t.k0 + t.kLen <= d.k /\ t.kLen <= ClipTo(d.k, 0, d.tk)
  <2>. DEFINE s == KStep(d, x)
  <2>1. s \in 0..(Steps(d.k, d.tk) - 1)
    BY <1>3
  <2>. HIDE DEF s
  <2>2. /\ s * d.tk \in Nat /\ ClipTo(d.k, s * d.tk, d.tk) \in 1..d.tk
        /\ s * d.tk + ClipTo(d.k, s * d.tk, d.tk) <= d.k
        /\ ClipTo(d.k, s * d.tk, d.tk) <= ClipTo(d.k, 0, d.tk)
    BY <1>1, <2>1, StepClipped
  <2>. QED BY <1>4, <2>2 DEF s
<1>8. t \in TileType
  <2>1. t = Tile(t.m0, t.n0, t.k0, t.mLen, t.nLen, t.kLen)
    BY <1>2, <1>4
  <2>. QED BY <2>1, <1>1, <1>5, <1>6, <1>7 DEF Tile, TileType
<1>. QED BY <1>4, <1>5, <1>6, <1>7, <1>8 DEF t

\* Where a tile ends: at the next step or, at the last one, at the edge.
LEMMA TileEnds ==
    ASSUME NEW d \in DescriptorType, Validate(d), NEW x \in 1..TilesOf(d)
    PROVE  LET t == TileAt(d, x) IN
           /\ t.m0 + t.mLen = IF MStep(d, x) = MSteps(d) - 1 THEN d.m ELSE (MStep(d, x) + 1) * d.tm
           /\ t.n0 + t.nLen = IF NStep(d, x) = NSteps(d) - 1 THEN d.n ELSE (NStep(d, x) + 1) * d.tn
           /\ t.k0 + t.kLen = IF KStep(d, x) = KSteps(d) - 1 THEN d.k ELSE (KStep(d, x) + 1) * d.tk
<1>. DEFINE t == TileAt(d, x)
<1>1. /\ d.m \in Nat \ {0} /\ d.n \in Nat \ {0} /\ d.k \in Nat \ {0}
      /\ d.tm \in Nat \ {0} /\ d.tn \in Nat \ {0} /\ d.tk \in Nat \ {0}
  BY ValidNumbers
<1>2. /\ t.m0 = MStep(d, x) * d.tm /\ t.n0 = NStep(d, x) * d.tn /\ t.k0 = KStep(d, x) * d.tk
      /\ t.mLen = ClipTo(d.m, t.m0, d.tm) /\ t.nLen = ClipTo(d.n, t.n0, d.tn)
      /\ t.kLen = ClipTo(d.k, t.k0, d.tk)
  BY TileSides
<1>. HIDE DEF t
<1>3. /\ MStep(d, x) \in 0..(Steps(d.m, d.tm) - 1) /\ NStep(d, x) \in 0..(Steps(d.n, d.tn) - 1)
      /\ KStep(d, x) \in 0..(Steps(d.k, d.tk) - 1)
      /\ MSteps(d) = Steps(d.m, d.tm) /\ NSteps(d) = Steps(d.n, d.tn) /\ KSteps(d) = Steps(d.k, d.tk)
  BY StepsPlace DEF MSteps, NSteps, KSteps
<1>4. MSteps(d) \in Nat /\ NSteps(d) \in Nat /\ KSteps(d) \in Nat
  BY StepCounts
<1>5. t.m0 + t.mLen = IF MStep(d, x) = MSteps(d) - 1 THEN d.m ELSE (MStep(d, x) + 1) * d.tm
  <2>. DEFINE s == MStep(d, x)
  <2>1. s \in 0..(Steps(d.m, d.tm) - 1)
    BY <1>3
  <2>. HIDE DEF s
  <2>2. s * d.tm + ClipTo(d.m, s * d.tm, d.tm) = IF s = Steps(d.m, d.tm) - 1 THEN d.m ELSE (s + 1) * d.tm
    BY <1>1, <2>1, StepClipped
  <2>. QED BY <1>2, <1>3, <2>2 DEF s
<1>6. t.n0 + t.nLen = IF NStep(d, x) = NSteps(d) - 1 THEN d.n ELSE (NStep(d, x) + 1) * d.tn
  <2>. DEFINE s == NStep(d, x)
  <2>1. s \in 0..(Steps(d.n, d.tn) - 1)
    BY <1>3
  <2>. HIDE DEF s
  <2>2. s * d.tn + ClipTo(d.n, s * d.tn, d.tn) = IF s = Steps(d.n, d.tn) - 1 THEN d.n ELSE (s + 1) * d.tn
    BY <1>1, <2>1, StepClipped
  <2>. QED BY <1>2, <1>3, <2>2 DEF s
<1>7. t.k0 + t.kLen = IF KStep(d, x) = KSteps(d) - 1 THEN d.k ELSE (KStep(d, x) + 1) * d.tk
  <2>. DEFINE s == KStep(d, x)
  <2>1. s \in 0..(Steps(d.k, d.tk) - 1)
    BY <1>3
  <2>. HIDE DEF s
  <2>2. s * d.tk + ClipTo(d.k, s * d.tk, d.tk) = IF s = Steps(d.k, d.tk) - 1 THEN d.k ELSE (s + 1) * d.tk
    BY <1>1, <2>1, StepClipped
  <2>. QED BY <1>2, <1>3, <2>2 DEF s
<1>. QED BY <1>5, <1>6, <1>7 DEF t

\* The steps of the first tile, of the last and of the next one.
LEMMA FirstSteps ==
    ASSUME NEW d \in DescriptorType, Validate(d)
    PROVE  MStep(d, 1) = 0 /\ NStep(d, 1) = 0 /\ KStep(d, 1) = 0 /\ 1 \in 1..TilesOf(d)
<1>1. /\ 0 \in 0..(MSteps(d) - 1) /\ 0 \in 0..(NSteps(d) - 1) /\ 0 \in 0..(KSteps(d) - 1)
      /\ KSteps(d) \in Nat /\ NSteps(d) \in Nat
  BY StepCounts
<1>2. Place(d, 0, 0, 0) = 1
  BY <1>1 DEF Place
<1>. QED BY <1>1, <1>2, PlaceSteps

\* The last tile is at the last step of each dimension.
LEMMA LastSteps ==
    ASSUME NEW d \in DescriptorType, Validate(d)
    PROVE  LET T == TilesOf(d) IN
           /\ T \in 1..T
           /\ MStep(d, T) = MSteps(d) - 1 /\ NStep(d, T) = NSteps(d) - 1 /\ KStep(d, T) = KSteps(d) - 1
<1>. DEFINE sm == MSteps(d)
            sn == NSteps(d)
            sk == KSteps(d)
<1>1. /\ sm \in Nat \ {0} /\ sn \in Nat \ {0} /\ sk \in Nat \ {0}
      /\ TilesOf(d) = sm * sn * sk /\ TilesOf(d) \in Nat \ {0}
  BY StepCounts
<1>2. Place(d, sm - 1, sn - 1, sk - 1) = ((sm - 1) * sn + (sn - 1)) * sk + (sk - 1) + 1
  BY DEF Place
<1>3. sm - 1 \in 0..(sm - 1) /\ sn - 1 \in 0..(sn - 1) /\ sk - 1 \in 0..(sk - 1)
  BY <1>1
<1>4. Place(d, sm - 1, sn - 1, sk - 1) = TilesOf(d)
  <2>. HIDE DEF sm, sn, sk
  <2>1. (sm - 1) * sn + (sn - 1) = sm * sn - 1
    BY <1>1
  <2>2. (sm * sn - 1) * sk = sm * sn * sk - sk
    BY <1>1
  <2>3. sm * sn * sk \in Int
    BY <1>1
  <2>. QED BY <1>1, <1>2, <2>1, <2>2, <2>3
<1>. QED BY <1>1, <1>3, <1>4, PlaceSteps

\* The loops of build_plan: k is the fastest step, then n, then m.
LEMMA NextSteps ==
    ASSUME NEW d \in DescriptorType, Validate(d),
           NEW x \in 1..TilesOf(d), x < TilesOf(d)
    PROVE  LET a == MStep(d, x)
               b == NStep(d, x)
               c == KStep(d, x)
           IN  /\ x + 1 \in 1..TilesOf(d)
               /\ \/ /\ c < KSteps(d) - 1
                     /\ MStep(d, x + 1) = a /\ NStep(d, x + 1) = b /\ KStep(d, x + 1) = c + 1
                  \/ /\ c = KSteps(d) - 1 /\ b < NSteps(d) - 1
                     /\ MStep(d, x + 1) = a /\ NStep(d, x + 1) = b + 1 /\ KStep(d, x + 1) = 0
                  \/ /\ c = KSteps(d) - 1 /\ b = NSteps(d) - 1 /\ a < MSteps(d) - 1
                     /\ MStep(d, x + 1) = a + 1 /\ NStep(d, x + 1) = 0 /\ KStep(d, x + 1) = 0
<1>. DEFINE sm == MSteps(d)
            sn == NSteps(d)
            sk == KSteps(d)
            a == MStep(d, x)
            b == NStep(d, x)
            c == KStep(d, x)
<1>1. /\ sm \in Nat \ {0} /\ sn \in Nat \ {0} /\ sk \in Nat \ {0}
      /\ TilesOf(d) = sm * sn * sk /\ TilesOf(d) \in Nat \ {0}
  BY StepCounts
<1>2. a \in 0..(sm - 1) /\ b \in 0..(sn - 1) /\ c \in 0..(sk - 1) /\ x = Place(d, a, b, c)
  BY StepsPlace
<1>3. \A u, v, w : Place(d, u, v, w) = (u * sn + v) * sk + w + 1
  BY DEF Place
<1>4. x + 1 \in 1..TilesOf(d)
  BY <1>1
<1>. HIDE DEF a, b, c
<1>5. CASE c < sk - 1
  <2>1. c + 1 \in 0..(sk - 1)
    BY <1>1, <1>2, <1>5
  <2>2. Place(d, a, b, c + 1) = x + 1
    <3>1. (a * sn + b) * sk \in Int
      BY <1>1, <1>2
    <3>. HIDE DEF sn, sk
    <3>. QED BY <1>2, <1>3, <3>1
  <2>. QED BY <1>2, <1>4, <1>5, <2>1, <2>2, PlaceSteps DEF a, b, c
<1>6. CASE c = sk - 1 /\ b < sn - 1
  <2>1. b + 1 \in 0..(sn - 1) /\ 0 \in 0..(sk - 1)
    BY <1>1, <1>2, <1>6
  <2>2. Place(d, a, b + 1, 0) = x + 1
    <3>. HIDE DEF sn, sk
    <3>1. (a * sn + (b + 1)) * sk = (a * sn + b) * sk + sk /\ (a * sn + b) * sk \in Int
      BY <1>1, <1>2
    <3>. QED BY <1>1, <1>2, <1>3, <1>6, <3>1
  <2>. QED BY <1>2, <1>4, <1>6, <2>1, <2>2, PlaceSteps DEF a, b, c
<1>7. CASE c = sk - 1 /\ b = sn - 1
  <2>1. a < sm - 1
    <3>. SUFFICES ASSUME a = sm - 1 PROVE FALSE
      <4>. HIDE DEF sm
      <4>. QED BY <1>1, <1>2
    <3>1. x = Place(d, sm - 1, sn - 1, sk - 1)
      BY <1>2, <1>7
    <3>. HIDE DEF sm, sn, sk
    <3>2. (sm - 1) * sn + (sn - 1) = sm * sn - 1
      BY <1>1
    <3>3. (sm * sn - 1) * sk = sm * sn * sk - sk
      BY <1>1
    <3>4. x = sm * sn * sk /\ sm * sn * sk \in Int
      BY <1>1, <1>3, <3>1, <3>2, <3>3
    <3>. QED BY <1>1, <3>4
  <2>2. a + 1 \in 0..(sm - 1) /\ 0 \in 0..(sn - 1) /\ 0 \in 0..(sk - 1)
    BY <1>1, <1>2, <2>1
  <2>3. Place(d, a + 1, 0, 0) = x + 1
    <3>. HIDE DEF sn, sk
    <3>1. (a * sn + (sn - 1)) * sk = ((a + 1) * sn) * sk - sk /\ ((a + 1) * sn) * sk \in Int
      BY <1>1, <1>2
    <3>2. (a + 1) * sn + 0 = (a + 1) * sn
      BY <1>1, <1>2
    <3>. QED BY <1>1, <1>2, <1>3, <1>7, <3>1, <3>2
  <2>. QED BY <1>2, <1>4, <1>7, <2>1, <2>2, <2>3, PlaceSteps DEF a, b, c
<1>8. c < sk - 1 \/ (c = sk - 1 /\ b < sn - 1) \/ (c = sk - 1 /\ b = sn - 1)
  <2>. HIDE DEF sn, sk
  <2>. QED BY <1>1, <1>2
<1>. QED BY <1>5, <1>6, <1>7, <1>8

\* The cells of C a tile adds to.
InBlock(t, i, j) == i \in t.m0..(t.m0 + t.mLen - 1) /\ j \in t.n0..(t.n0 + t.nLen - 1)

\* A tile's cells are at its steps of M and N.
LEMMA BlockOf ==
    ASSUME NEW d \in DescriptorType, Validate(d), NEW x \in 1..TilesOf(d),
           NEW i \in Int, NEW j \in Int
    PROVE  InBlock(TileAt(d, x), i, j) =>
               /\ i - MStep(d, x) * d.tm \in 0..(d.tm - 1)
               /\ j - NStep(d, x) * d.tn \in 0..(d.tn - 1)
               /\ i \in 0..(d.m - 1) /\ j \in 0..(d.n - 1)
<1>. DEFINE t == TileAt(d, x)
<1>1. /\ t.m0 = MStep(d, x) * d.tm /\ t.n0 = NStep(d, x) * d.tn
      /\ t.mLen \in 1..d.tm /\ t.m0 + t.mLen <= d.m
      /\ t.nLen \in 1..d.tn /\ t.n0 + t.nLen <= d.n
      /\ t.m0 \in Nat /\ t.n0 \in Nat
  BY TileSides DEF TileType
<1>2. d.m \in Nat /\ d.n \in Nat /\ d.tm \in Nat /\ d.tn \in Nat
  BY ValidNumbers
<1>. HIDE DEF t
<1>3. InBlock(t, i, j) =>
               /\ i - t.m0 \in 0..(d.tm - 1) /\ j - t.n0 \in 0..(d.tn - 1)
               /\ i \in 0..(d.m - 1) /\ j \in 0..(d.n - 1)
  BY <1>1, <1>2 DEF InBlock
<1>. QED BY <1>1, <1>3 DEF t

\* A cell is in the tiles of one block only.
LEMMA SameBlock ==
    ASSUME NEW d \in DescriptorType, Validate(d),
           NEW x \in 1..TilesOf(d), NEW y \in 1..TilesOf(d), NEW i \in Int, NEW j \in Int,
           InBlock(TileAt(d, x), i, j), InBlock(TileAt(d, y), i, j)
    PROVE  MStep(d, x) = MStep(d, y) /\ NStep(d, x) = NStep(d, y)
<1>1. d.tm \in Nat \ {0} /\ d.tn \in Nat \ {0}
  BY ValidNumbers
<1>2. /\ MStep(d, x) \in Nat /\ NStep(d, x) \in Nat /\ MStep(d, y) \in Nat /\ NStep(d, y) \in Nat
  BY StepsPlace
<1>. DEFINE rx == i - MStep(d, x) * d.tm
            ry == i - MStep(d, y) * d.tm
            sx == j - NStep(d, x) * d.tn
            sy == j - NStep(d, y) * d.tn
<1>3. /\ rx \in 0..(d.tm - 1) /\ ry \in 0..(d.tm - 1) /\ sx \in 0..(d.tn - 1) /\ sy \in 0..(d.tn - 1)
  BY BlockOf
<1>4. /\ MStep(d, x) * d.tm + rx = MStep(d, y) * d.tm + ry
      /\ NStep(d, x) * d.tn + sx = NStep(d, y) * d.tn + sy
  BY <1>1, <1>2
<1>. HIDE DEF rx, ry, sx, sy
<1>. DEFINE ax == MStep(d, x)
            ay == MStep(d, y)
            bx == NStep(d, x)
            by == NStep(d, y)
            tm == d.tm
            tn == d.tn
<1>5. /\ tm \in Nat \ {0} /\ ax \in Nat /\ ay \in Nat /\ ax * tm + rx = ay * tm + ry
      /\ tn \in Nat \ {0} /\ bx \in Nat /\ by \in Nat /\ bx * tn + sx = by * tn + sy
      /\ rx \in 0..(tm - 1) /\ ry \in 0..(tm - 1) /\ sx \in 0..(tn - 1) /\ sy \in 0..(tn - 1)
  BY <1>1, <1>2, <1>3, <1>4
<1>. HIDE DEF ax, ay, bx, by, tm, tn
<1>6. ax = ay
  BY <1>5, QuotientUnique
<1>7. bx = by
  BY <1>5, QuotientUnique
<1>. QED BY <1>6, <1>7 DEF ax, ay, bx, by

\* Of two tiles of a block the earlier ends where the later starts, or before.
LEMMA EarlierDepth ==
    ASSUME NEW d \in DescriptorType, Validate(d),
           NEW x \in 1..TilesOf(d), NEW y \in 1..TilesOf(d), x < y,
           MStep(d, x) = MStep(d, y), NStep(d, x) = NStep(d, y)
    PROVE  TileAt(d, x).k0 + TileAt(d, x).kLen <= TileAt(d, y).k0
<1>. DEFINE c == KStep(d, x)
            e == KStep(d, y)
            block == (MStep(d, x) * NSteps(d) + NStep(d, x)) * KSteps(d)
<1>1. /\ c \in 0..(KSteps(d) - 1) /\ e \in 0..(KSteps(d) - 1) /\ KSteps(d) \in Nat \ {0}
      /\ d.tk \in Nat \ {0}
  BY StepsPlace, StepCounts, ValidNumbers
<1>2. x = block + c + 1 /\ y = block + e + 1
  BY StepsPlace DEF Place
<1>3. block \in Int
  BY StepsPlace, StepCounts
<1>4. c < e
  <2>. HIDE DEF block, c, e
  <2>. QED BY <1>1, <1>2, <1>3
<1>5. TileAt(d, x).k0 + TileAt(d, x).kLen = (c + 1) * d.tk
  <2>1. c # KSteps(d) - 1
    <3>. HIDE DEF c, e
    <3>. QED BY <1>1, <1>4
  <2>. QED BY <2>1, TileEnds
<1>6. TileAt(d, y).k0 = e * d.tk
  BY TileSides
<1>. HIDE DEF c, e
<1>7. (c + 1) * d.tk <= e * d.tk
  BY <1>1, <1>4, TimesMonotone
<1>. QED BY <1>5, <1>6, <1>7

\* A tile that does not start at depth 0 follows one of its block that ends
\* where it starts.
LEMMA DepthBefore ==
    ASSUME NEW d \in DescriptorType, Validate(d), NEW y \in 1..TilesOf(d), TileAt(d, y).k0 # 0
    PROVE  LET t == TileAt(d, y)
               u == TileAt(d, y - 1)
           IN  /\ y - 1 \in 1..TilesOf(d)
               /\ u.m0 = t.m0 /\ u.mLen = t.mLen /\ u.n0 = t.n0 /\ u.nLen = t.nLen
               /\ u.k0 + u.kLen = t.k0
<1>1. d.tk \in Nat \ {0} /\ KStep(d, y) \in 0..(KSteps(d) - 1) /\ TilesOf(d) \in Nat \ {0} /\ KSteps(d) \in Nat \ {0}
  BY StepsPlace, StepCounts, ValidNumbers
<1>2. KStep(d, y) # 0
  BY <1>1, TileSides
<1>3. y # 1
  BY <1>2, FirstSteps
<1>. DEFINE x == y - 1
<1>4. x \in 1..TilesOf(d) /\ x < TilesOf(d) /\ x + 1 = y
  BY <1>1, <1>3
<1>. HIDE DEF x
<1>5. KStep(d, x) < KSteps(d) - 1 /\ MStep(d, y) = MStep(d, x) /\ NStep(d, y) = NStep(d, x)
      /\ KStep(d, y) = KStep(d, x) + 1
  BY <1>2, <1>4, NextSteps
<1>6. TileAt(d, x).k0 + TileAt(d, x).kLen = (KStep(d, x) + 1) * d.tk
  <2>1. KStep(d, x) # KSteps(d) - 1
    BY <1>1, <1>4, <1>5, StepsPlace
  <2>. QED BY <1>4, <2>1, TileEnds
<1>7. /\ TileAt(d, x).m0 = TileAt(d, y).m0 /\ TileAt(d, x).mLen = TileAt(d, y).mLen
      /\ TileAt(d, x).n0 = TileAt(d, y).n0 /\ TileAt(d, x).nLen = TileAt(d, y).nLen
      /\ TileAt(d, y).k0 = (KStep(d, x) + 1) * d.tk
  BY <1>4, <1>5, TileSides
<1>. QED BY <1>4, <1>6, <1>7 DEF x

\* The last tile of the block of a cell.
LEMMA DeepTile ==
    ASSUME NEW d \in DescriptorType, Validate(d), NEW i \in 0..(d.m - 1), NEW j \in 0..(d.n - 1)
    PROVE  \E x \in 1..TilesOf(d) :
               InBlock(TileAt(d, x), i, j) /\ TileAt(d, x).k0 + TileAt(d, x).kLen = d.k
<1>1. /\ d.m \in Nat \ {0} /\ d.n \in Nat \ {0} /\ d.tm \in Nat \ {0} /\ d.tn \in Nat \ {0}
      /\ MSteps(d) \in Nat \ {0} /\ NSteps(d) \in Nat \ {0} /\ KSteps(d) \in Nat \ {0}
  BY ValidNumbers, StepCounts
<1>2. d.m <= MSteps(d) * d.tm /\ d.n <= NSteps(d) * d.tn
  BY <1>1, StepsBounds DEF MSteps, NSteps
<1>. DEFINE a == i \div d.tm
            b == j \div d.tn
            x == Place(d, a, b, KSteps(d) - 1)
<1>3. /\ a \in Nat /\ i - a * d.tm \in 0..(d.tm - 1)
      /\ b \in Nat /\ j - b * d.tn \in 0..(d.tn - 1)
  <2>0. i \in Nat /\ j \in Nat
    BY <1>1
  <2>1. /\ a \in Nat /\ i % d.tm \in 0..(d.tm - 1) /\ i = a * d.tm + (i % d.tm)
        /\ b \in Nat /\ j % d.tn \in 0..(d.tn - 1) /\ j = b * d.tn + (j % d.tn)
    BY <1>1, <2>0, DivMod
  <2>. HIDE DEF a, b
  <2>. QED BY <1>1, <2>1
<1>. HIDE DEF a, b
<1>4. a < MSteps(d) /\ b < NSteps(d)
  <2>1. a * d.tm < MSteps(d) * d.tm /\ b * d.tn < NSteps(d) * d.tn
    BY <1>1, <1>2, <1>3
  <2>. QED BY <1>1, <1>3, <2>1, Exceeds
<1>5. /\ x \in 1..TilesOf(d) /\ MStep(d, x) = a /\ NStep(d, x) = b /\ KStep(d, x) = KSteps(d) - 1
  <2>. HIDE DEF x
  <2>0. a \in Nat /\ b \in Nat
    BY <1>3
  <2>1. a \in 0..(MSteps(d) - 1) /\ b \in 0..(NSteps(d) - 1) /\ KSteps(d) - 1 \in 0..(KSteps(d) - 1)
    BY <1>1, <1>4, <2>0
  <2>. QED BY <2>1, PlaceSteps DEF x
<1>. HIDE DEF x
<1>. DEFINE t == TileAt(d, x)
<1>6. /\ t.m0 = a * d.tm /\ t.n0 = b * d.tn
      /\ t.m0 + t.mLen = IF a = MSteps(d) - 1 THEN d.m ELSE (a + 1) * d.tm
      /\ t.n0 + t.nLen = IF b = NSteps(d) - 1 THEN d.n ELSE (b + 1) * d.tn
      /\ t.k0 + t.kLen = d.k
      /\ t.mLen \in Nat /\ t.nLen \in Nat /\ t.m0 \in Nat /\ t.n0 \in Nat
  BY <1>5, TileSides, TileEnds DEF TileType
<1>. HIDE DEF t
<1>7. (a + 1) * d.tm = a * d.tm + d.tm /\ (b + 1) * d.tn = b * d.tn + d.tn
  <2>1. \A u, v \in Nat : (u + 1) * v = u * v + v
    OBVIOUS
  <2>. QED BY <1>1, <1>3, <2>1
<1>8. i \in t.m0..(t.m0 + t.mLen - 1)
  BY <1>1, <1>3, <1>6, <1>7
<1>9. j \in t.n0..(t.n0 + t.nLen - 1)
  BY <1>1, <1>3, <1>6, <1>7
<1>. QED BY <1>5, <1>6, <1>8, <1>9 DEF InBlock, t
-----------------------------------------------------------------------------
(* Matrices in row-major order. *)

\* A cell is inside its matrix,
LEMMA CellInside ==
    ASSUME NEW m \in Nat, NEW n \in Nat \ {0}, NEW i \in 0..(m - 1), NEW j \in 0..(n - 1)
    PROVE  i * n + j \in 0..(m * n - 1)
<1>1. i \in Nat /\ j \in Nat /\ i + 1 \in Nat /\ i + 1 <= m
  OBVIOUS
<1>2. (i + 1) * n <= m * n /\ m * n \in Nat /\ i * n \in Nat
  BY <1>1, TimesMonotone
<1>3. (i + 1) * n = i * n + n
  BY <1>1
<1>. QED BY <1>1, <1>2, <1>3

\* and a word of the matrix is one of its cells.
LEMMA CellOf ==
    ASSUME NEW m \in Nat, NEW n \in Nat \ {0}, NEW o \in 0..(m * n - 1)
    PROVE  /\ o \div n \in 0..(m - 1) /\ o % n \in 0..(n - 1)
           /\ o = (o \div n) * n + (o % n)
<1>. DEFINE i == o \div n
            j == o % n
<1>0. m * n \in Nat
  OBVIOUS
<1>1. o \in Nat
  BY <1>0
<1>2. i \in Nat /\ j \in 0..(n - 1) /\ o = i * n + j
  BY <1>1, DivMod
<1>. HIDE DEF i, j
<1>3. i * n < m * n
  <2>1. o < m * n /\ i * n \in Nat /\ i * n <= o
    BY <1>0, <1>1, <1>2
  <2>. QED BY <1>0, <1>1, <2>1
<1>4. i < m
  BY <1>2, <1>3, Exceeds
<1>5. i \in 0..(m - 1)
  BY <1>2, <1>4
<1>. QED BY <1>2, <1>5 DEF i, j

\* Matrices that passed check_matrix_range are inside the memory.
LEMMA MatricesInside ==
    ASSUME NEW d \in DescriptorType, Validate(d), InMemory(d)
    PROVE  /\ d.A = WordBytes * WordAddr(d.A) /\ WordAddr(d.A) \in Nat
           /\ d.B = WordBytes * WordAddr(d.B) /\ WordAddr(d.B) \in Nat
           /\ d.C = WordBytes * WordAddr(d.C) /\ WordAddr(d.C) \in Nat
           /\ WordAddr(d.A) + d.m * d.k <= MemWords /\ d.m * d.k \in Nat
           /\ WordAddr(d.B) + d.k * d.n <= MemWords /\ d.k * d.n \in Nat
           /\ WordAddr(d.C) + d.m * d.n <= MemWords /\ d.m * d.n \in Nat
<1>1. /\ d.m \in Nat /\ d.n \in Nat /\ d.k \in Nat /\ d.A \in Nat /\ d.B \in Nat /\ d.C \in Nat
  BY ValidNumbers
<1>2. d.A % 4 = 0 /\ d.B % 4 = 0 /\ d.C % 4 = 0
  BY DEF Validate, IsWordAligned, WordBytes
<1>3. \A u, v \in Nat : u * v \in Nat
  OBVIOUS
<1>4. d.m * d.k \in Nat /\ d.k * d.n \in Nat /\ d.m * d.n \in Nat
  BY <1>1, <1>3
<1>5. /\ d.A + 4 * (d.m * d.k) <= 4 * MemWords
      /\ d.B + 4 * (d.k * d.n) <= 4 * MemWords
      /\ d.C + 4 * (d.m * d.n) <= 4 * MemWords
  BY DEF InMemory, WordBytes
<1>6. MemWords \in Nat
  BY MemoryAssumption
<1>7. \A a, s \in Nat : a % 4 = 0 /\ a + 4 * s <= 4 * MemWords =>
          a = 4 * (a \div 4) /\ a \div 4 \in Nat /\ (a \div 4) + s <= MemWords
  BY <1>6
<1>. QED BY <1>1, <1>2, <1>4, <1>5, <1>7 DEF WordBytes, WordAddr

\* The cells of the three matrices are words of the memory.
LEMMA RegionCells ==
    ASSUME NEW d \in DescriptorType, Validate(d), InMemory(d)
    PROVE  /\ \A i \in 0..(d.m - 1), p \in 0..(d.k - 1) : AAt(d, i, p) \in ARegion(d)
           /\ \A p \in 0..(d.k - 1), j \in 0..(d.n - 1) : BAt(d, p, j) \in BRegion(d)
           /\ \A i \in 0..(d.m - 1), j \in 0..(d.n - 1) : CAt(d, i, j) \in CRegion(d)
           /\ ARegion(d) \subseteq Addresses
           /\ BRegion(d) \subseteq Addresses
           /\ CRegion(d) \subseteq Addresses
<1>0. MemWords \in Nat
  BY MemoryAssumption
<1>1. /\ d.m \in Nat \ {0} /\ d.n \in Nat \ {0} /\ d.k \in Nat \ {0}
      /\ d.m \in Nat /\ d.n \in Nat /\ d.k \in Nat
  BY ValidNumbers
<1>2. \A i \in 0..(d.m - 1), p \in 0..(d.k - 1) : AAt(d, i, p) \in ARegion(d)
  <2>. TAKE i \in 0..(d.m - 1), p \in 0..(d.k - 1)
  <2>1. i * d.k + p \in 0..(d.m * d.k - 1)
    BY <1>1, CellInside
  <2>2. i * d.k \in Nat /\ p \in Nat
    BY <1>1
  <2>. QED BY <2>1, <2>2, MatricesInside DEF AAt, ARegion
<1>3. \A p \in 0..(d.k - 1), j \in 0..(d.n - 1) : BAt(d, p, j) \in BRegion(d)
  <2>. TAKE p \in 0..(d.k - 1), j \in 0..(d.n - 1)
  <2>1. p * d.n + j \in 0..(d.k * d.n - 1)
    BY <1>1, CellInside
  <2>2. p * d.n \in Nat /\ j \in Nat
    BY <1>1
  <2>. QED BY <2>1, <2>2, MatricesInside DEF BAt, BRegion
<1>4. \A i \in 0..(d.m - 1), j \in 0..(d.n - 1) : CAt(d, i, j) \in CRegion(d)
  <2>. TAKE i \in 0..(d.m - 1), j \in 0..(d.n - 1)
  <2>1. i * d.n + j \in 0..(d.m * d.n - 1)
    BY <1>1, CellInside
  <2>2. i * d.n \in Nat /\ j \in Nat
    BY <1>1
  <2>. QED BY <2>1, <2>2, MatricesInside DEF CAt, CRegion
<1>5. ARegion(d) \subseteq Addresses
  BY <1>0, MatricesInside DEF ARegion, Addresses
<1>6. BRegion(d) \subseteq Addresses
  BY <1>0, MatricesInside DEF BRegion, Addresses
<1>7. CRegion(d) \subseteq Addresses
  BY <1>0, MatricesInside DEF CRegion, Addresses
<1>. QED BY <1>2, <1>3, <1>4, <1>5, <1>6, <1>7

\* Every word of C is a cell of the matrix, and of no second one.
LEMMA CellAt ==
    ASSUME NEW d \in DescriptorType, Validate(d), InMemory(d), NEW w \in CRegion(d)
    PROVE  LET o == w - WordAddr(d.C) IN
           /\ o \div d.n \in 0..(d.m - 1) /\ o % d.n \in 0..(d.n - 1)
           /\ w = CAt(d, o \div d.n, o % d.n)
<1>. DEFINE o == w - WordAddr(d.C)
<1>1. d.m \in Nat /\ d.n \in Nat \ {0} /\ WordAddr(d.C) \in Nat /\ d.m * d.n \in Nat
  BY ValidNumbers, MatricesInside
<1>2. o \in 0..(d.m * d.n - 1) /\ w = WordAddr(d.C) + o /\ w \in Int
  BY <1>1 DEF CRegion
<1>. HIDE DEF o
<1>3. /\ o \div d.n \in 0..(d.m - 1) /\ o % d.n \in 0..(d.n - 1)
      /\ o = (o \div d.n) * d.n + (o % d.n)
  BY <1>1, <1>2, CellOf
<1>4. w = CAt(d, o \div d.n, o % d.n)
  <2>. DEFINE q == o \div d.n
              r == o % d.n
  <2>1. q * d.n \in Int /\ r \in Int /\ o = q * d.n + r
    BY <1>1, <1>3
  <2>. HIDE DEF q, r
  <2>2. w = WordAddr(d.C) + q * d.n + r
    BY <1>1, <1>2, <2>1
  <2>. QED BY <2>2 DEF CAt, q, r
<1>. QED BY <1>3, <1>4 DEF o

\* Two cells of C are two words.
LEMMA CellDistinct ==
    ASSUME NEW d \in DescriptorType, Validate(d),
           NEW i \in Nat, NEW j \in 0..(d.n - 1), NEW u \in Nat, NEW v \in 0..(d.n - 1),
           CAt(d, i, j) = CAt(d, u, v)
    PROVE  i = u /\ j = v
<1>1. d.n \in Nat \ {0} /\ d.C \in Nat
  BY ValidNumbers
<1>2. WordAddr(d.C) \in Int
  BY <1>1 DEF WordAddr, WordBytes
<1>3. i * d.n \in Int /\ u * d.n \in Int /\ j \in Int /\ v \in Int
  BY <1>1
<1>4. i * d.n + j = u * d.n + v
  BY <1>2, <1>3 DEF CAt
<1>. QED BY <1>1, <1>4, QuotientUnique
-----------------------------------------------------------------------------
(* The product. *)

\* A product of integers is an integer; of depth 0, it is 0.
LEMMA DotFacts ==
    ASSUME NEW d \in DescriptorType, Validate(d), InMemory(d), NEW mem \in Memory,
           NEW i \in 0..(d.m - 1), NEW j \in 0..(d.n - 1)
    PROVE  /\ \A p \in 0..(d.k - 1) : mem[AAt(d, i, p)] \in Int /\ mem[BAt(d, p, j)] \in Int
           /\ Dot(mem, d, i, j, 0) = 0
           /\ \A q \in 0..d.k : Dot(mem, d, i, j, q) \in Int
<1>1. \A p \in 0..(d.k - 1) : mem[AAt(d, i, p)] \in Int /\ mem[BAt(d, p, j)] \in Int
  BY RegionCells DEF Memory
<1>2. Dot(mem, d, i, j, 0) = 0
  <2>. DEFINE F == [p \in 0..(0 - 1) |-> mem[AAt(d, i, p)] * mem[BAt(d, p, j)]]
  <2>1. DOMAIN F = {}
    OBVIOUS
  <2>2. SumFunction(F) = SumFunctionOnSet(F, DOMAIN F)
    BY DEF SumFunction
  <2>. HIDE DEF F
  <2>3. SumFunction(F) = 0
    BY <2>1, <2>2, SumEmpty
  <2>. QED BY <2>3 DEF Dot, F
<1>3. ASSUME NEW q \in 0..d.k PROVE Dot(mem, d, i, j, q) \in Int
  <2>. DEFINE F == [p \in 0..(q - 1) |-> mem[AAt(d, i, p)] * mem[BAt(d, p, j)]]
  <2>0. d.k \in Nat /\ q \in Nat /\ q <= d.k
    BY ValidNumbers
  <2>1. IsFiniteSet(0..(q - 1))
    BY <2>0, FS_Interval
  <2>2. \A p \in 0..(q - 1) : F[p] \in Int
    <3>1. \A p \in 0..(q - 1) : p \in 0..(d.k - 1)
      BY <2>0
    <3>. QED BY <1>1, <3>1
  <2>3. SumFunction(F) = SumFunctionOnSet(F, 0..(q - 1))
    BY DEF SumFunction
  <2>. HIDE DEF F
  <2>4. SumFunction(F) \in Int
    BY <2>1, <2>2, <2>3, SumInteger
  <2>. QED BY <2>4 DEF Dot, F
<1>. QED BY <1>1, <1>2, <1>3

\* The b terms from the a-th on of row i of A times column j of B.
DotFrom(mem, d, i, j, a, b) ==
    SumFunction([p \in 0..(b - 1) |-> mem[AAt(d, i, a + p)] * mem[BAt(d, a + p, j)]])

\* A product accumulated up to depth a and continued for b more terms.
LEMMA DotSplit ==
    ASSUME NEW d \in DescriptorType, Validate(d), InMemory(d), NEW mem \in Memory,
           NEW i \in 0..(d.m - 1), NEW j \in 0..(d.n - 1),
           NEW a \in Nat, NEW b \in Nat, a + b <= d.k
    PROVE  Dot(mem, d, i, j, a + b) = Dot(mem, d, i, j, a) + DotFrom(mem, d, i, j, a, b)
<1>. DEFINE term(p) == mem[AAt(d, i, p)] * mem[BAt(d, p, j)]
            F == [p \in 0..(a + b - 1) |-> term(p)]
            G == [p \in 0..(a - 1) |-> term(p)]
            H == [p \in 0..(b - 1) |-> F[a + p]]
<1>0. d.k \in Nat
  BY ValidNumbers
<1>1. \A p \in 0..(a + b - 1) : term(p) \in Int
  <2>1. \A p \in 0..(a + b - 1) : p \in 0..(d.k - 1)
    BY <1>0
  <2>. QED BY <2>1, DotFacts
<1>2. SumFunction(H) = DotFrom(mem, d, i, j, a, b)
  <2>1. \A p \in 0..(b - 1) : a + p \in 0..(a + b - 1)
    OBVIOUS
  <2>2. H = [p \in 0..(b - 1) |-> mem[AAt(d, i, a + p)] * mem[BAt(d, a + p, j)]]
    BY <2>1
  <2>. QED BY <2>2 DEF DotFrom
<1>. HIDE DEF term
<1>3. SumFunctionOnSet(F, 0..(a + b - 1)) = SumFunctionOnSet(F, 0..(a - 1)) + SumFunction(H)
  <2>1. \A p \in 0..(a + b - 1) : F[p] \in Int
    BY <1>1
  <2>. HIDE DEF F
  <2>. QED BY <2>1, SumSplit
<1>4. SumFunctionOnSet(F, 0..(a - 1)) = SumFunctionOnSet(G, 0..(a - 1))
  <2>1. IsFiniteSet(0..(a - 1)) /\ \A p \in 0..(a - 1) : F[p] = G[p]
    BY FS_Interval
  <2>. HIDE DEF F, G
  <2>. QED BY <2>1, SumCongruence
<1>5. SumFunction(F) = SumFunctionOnSet(F, 0..(a + b - 1)) /\ SumFunction(G) = SumFunctionOnSet(G, 0..(a - 1))
  BY DEF SumFunction
<1>6. Dot(mem, d, i, j, a + b) = SumFunction(F) /\ Dot(mem, d, i, j, a) = SumFunction(G)
  BY DEF Dot, term
<1>. HIDE DEF F, G, H
<1>. QED BY <1>2, <1>3, <1>4, <1>5, <1>6
-----------------------------------------------------------------------------
(* The counters. *)

\* What the counters hold before the tile at steps a, b and c, which starts
\* at m0, n0 and k0 and has mL rows and nL columns, of a GEMM with sn and sk
\* steps of N and K, n columns and depth k; y tiles come before it, and e
\* reads of its block of C.
CyclesBefore(sn, sk, n, k, a, b, c, m0, n0, k0, mL, nL, y) ==
    sn * sk * m0 + b * sk * mL + c * mL + a * sk * n + sk * n0 + c * nL
        + a * sn * k + b * k + k0 - 2 * y
ReadsBefore(sn, sk, n, k, a, b, e, m0, n0, k0, mL, nL) ==
    sn * m0 * k + b * mL * k + mL * k0 + a * k * n + k * n0 + k0 * nL
        + (sk - 1) * (m0 * n + mL * n0) + e * (mL * nL)
WritesBefore(sk, n, c, m0, n0, mL, nL) == sk * (m0 * n + mL * n0) + c * (mL * nL)
MacsBefore(n, k, m0, n0, k0, mL, nL) == m0 * n * k + mL * n0 * k + mL * nL * k0

\* What the tiles before the x-th one have added to the counters.
Counted(d, x) ==
    LET t == TileAt(d, x)
        c == KStep(d, x)
    IN  [cycles |-> CyclesBefore(NSteps(d), KSteps(d), d.n, d.k, MStep(d, x), NStep(d, x), c,
                        t.m0, t.n0, t.k0, t.mLen, t.nLen, x - 1),
         reads |-> ReadsBefore(NSteps(d), KSteps(d), d.n, d.k, MStep(d, x), NStep(d, x),
                      IF c = 0 THEN 0 ELSE c - 1, t.m0, t.n0, t.k0, t.mLen, t.nLen),
         writes |-> WritesBefore(KSteps(d), d.n, c, t.m0, t.n0, t.mLen, t.nLen),
         macs |-> MacsBefore(d.n, d.k, t.m0, t.n0, t.k0, t.mLen, t.nLen)]

\* What one tile adds: every load, the array's run and the store.
TileCounts(t) ==
    [cycles |-> t.mLen + t.nLen + t.kLen - 2,
     reads |-> t.kLen * t.mLen + t.nLen * t.kLen + (IF t.k0 = 0 THEN 0 ELSE t.nLen * t.mLen),
     writes |-> t.nLen * t.mLen,
     macs |-> t.mLen * t.nLen * t.kLen]

Plus(p, q) == [cycles |-> p.cycles + q.cycles, reads |-> p.reads + q.reads,
               writes |-> p.writes + q.writes, macs |-> p.macs + q.macs]

\* The numbers of a tile, for the arithmetic of the counters.
LEMMA TileNumbers ==
    ASSUME NEW d \in DescriptorType, Validate(d), NEW x \in 1..TilesOf(d)
    PROVE  LET t == TileAt(d, x) IN
           /\ t.m0 \in Int /\ t.n0 \in Int /\ t.k0 \in Int
           /\ t.mLen \in Int /\ t.nLen \in Int /\ t.kLen \in Int
           /\ MStep(d, x) \in Int /\ NStep(d, x) \in Int /\ KStep(d, x) \in Int
           /\ NSteps(d) \in Int /\ KSteps(d) \in Int /\ MSteps(d) \in Int
           /\ d.m \in Int /\ d.n \in Int /\ d.k \in Int /\ x \in Int
           /\ (t.k0 = 0) <=> (KStep(d, x) = 0)
<1>1. TileAt(d, x).k0 = KStep(d, x) * d.tk /\ d.tk \in Nat \ {0} /\ KStep(d, x) \in Nat
  BY TileSides, ValidNumbers, StepsPlace
<1>2. (TileAt(d, x).k0 = 0) <=> (KStep(d, x) = 0)
  BY <1>1
<1>3. MStep(d, x) \in Int /\ NStep(d, x) \in Int /\ KStep(d, x) \in Int
  BY StepsPlace
<1>4. TileAt(d, x) \in TileType
  BY TileSides
<1>. QED BY <1>2, <1>3, <1>4, ValidNumbers, StepCounts DEF TileType

\* Nothing is counted before the first tile.
LEMMA CountedFirst ==
    ASSUME NEW d \in DescriptorType, Validate(d)
    PROVE  Counted(d, 1) = ZeroPerf
<1>. DEFINE t == TileAt(d, 1)
<1>0. 1 \in 1..TilesOf(d)
  BY FirstSteps
<1>1. MStep(d, 1) = 0 /\ NStep(d, 1) = 0 /\ KStep(d, 1) = 0
  BY FirstSteps
<1>2. t.m0 = 0 /\ t.n0 = 0 /\ t.k0 = 0
  BY <1>0, <1>1, TileSides, ValidNumbers
<1>3. /\ t.mLen \in Int /\ t.nLen \in Int /\ NSteps(d) \in Int /\ KSteps(d) \in Int
      /\ d.m \in Int /\ d.n \in Int /\ d.k \in Int
  BY <1>0, TileNumbers
<1>. HIDE DEF t
<1>. QED BY <1>1, <1>2, <1>3 DEF Counted, ZeroPerf, t, CyclesBefore, ReadsBefore, WritesBefore, MacsBefore

\* Each tile adds its own counts.
LEMMA CountedNext ==
    ASSUME NEW d \in DescriptorType, Validate(d), NEW x \in 1..TilesOf(d), x < TilesOf(d)
    PROVE  Counted(d, x + 1) = Plus(Counted(d, x), TileCounts(TileAt(d, x)))
<1>. DEFINE t == TileAt(d, x)
            u == TileAt(d, x + 1)
            sn == NSteps(d)
            sk == KSteps(d)
            a == MStep(d, x)
            b == NStep(d, x)
            c == KStep(d, x)
            a1 == MStep(d, x + 1)
            b1 == NStep(d, x + 1)
            c1 == KStep(d, x + 1)
            dn == d.n
            dk == d.k
            m0 == t.m0
            n0 == t.n0
            k0 == t.k0
            mL == t.mLen
            nL == t.nLen
            kL == t.kLen
            e == IF c = 0 THEN 0 ELSE c - 1
            e1 == IF c1 = 0 THEN 0 ELSE c1 - 1
<1>0. x + 1 \in 1..TilesOf(d)
  BY NextSteps
<1>1. /\ m0 \in Int /\ n0 \in Int /\ k0 \in Int /\ mL \in Int /\ nL \in Int /\ kL \in Int
      /\ a \in Int /\ b \in Int /\ c \in Int /\ sn \in Int /\ sk \in Int
      /\ dn \in Int /\ dk \in Int /\ x \in Int /\ e \in Int
      /\ (k0 = 0) <=> (c = 0)
  BY TileNumbers
<1>2. \/ /\ a1 = a /\ b1 = b /\ c1 = c + 1 /\ c1 # 0 /\ u.m0 = m0 /\ u.n0 = n0 /\ u.k0 = k0 + kL
         /\ u.mLen = mL /\ u.nLen = nL
      \/ /\ a1 = a /\ b1 = b + 1 /\ c1 = 0 /\ c = sk - 1 /\ u.m0 = m0 /\ u.n0 = n0 + nL /\ u.k0 = 0
         /\ u.mLen = mL /\ k0 + kL = dk
      \/ /\ a1 = a + 1 /\ b1 = 0 /\ c1 = 0 /\ b = sn - 1 /\ c = sk - 1
         /\ u.m0 = m0 + mL /\ u.n0 = 0 /\ u.k0 = 0
         /\ k0 + kL = dk /\ n0 + nL = dn
  <2>1. /\ u.m0 = a1 * d.tm /\ u.n0 = b1 * d.tn /\ u.k0 = c1 * d.tk
        /\ u.mLen = ClipTo(d.m, u.m0, d.tm) /\ u.nLen = ClipTo(d.n, u.n0, d.tn)
        /\ m0 = a * d.tm /\ n0 = b * d.tn /\ k0 = c * d.tk
        /\ mL = ClipTo(d.m, m0, d.tm) /\ nL = ClipTo(d.n, n0, d.tn)
    BY <1>0, TileSides
  <2>2. /\ m0 + mL = IF a = MSteps(d) - 1 THEN d.m ELSE (a + 1) * d.tm
        /\ n0 + nL = IF b = sn - 1 THEN dn ELSE (b + 1) * d.tn
        /\ k0 + kL = IF c = sk - 1 THEN dk ELSE (c + 1) * d.tk
    BY TileEnds
  <2>3. /\ d.tm \in Nat /\ d.tn \in Nat /\ d.tk \in Nat /\ a \in Nat /\ b \in Nat /\ c \in Nat
        /\ MSteps(d) \in Nat
    BY ValidNumbers, StepsPlace, StepCounts
  <2>4. \/ c < sk - 1 /\ a1 = a /\ b1 = b /\ c1 = c + 1
        \/ c = sk - 1 /\ b < sn - 1 /\ a1 = a /\ b1 = b + 1 /\ c1 = 0
        \/ /\ c = sk - 1 /\ b = sn - 1 /\ a < MSteps(d) - 1
           /\ a1 = a + 1 /\ b1 = 0 /\ c1 = 0
    BY NextSteps
  <2>5. 0 * d.tk = 0 /\ 0 * d.tn = 0
    BY <2>3
  <2>. HIDE DEF t, u, a, b, c, a1, b1, c1, m0, n0, k0, mL, nL, kL, sn, sk, dn, dk, e, e1
  <2>6. CASE c < sk - 1 /\ a1 = a /\ b1 = b /\ c1 = c + 1
    BY <1>1, <2>1, <2>2, <2>3, <2>6
  <2>7. CASE c = sk - 1 /\ b < sn - 1 /\ a1 = a /\ b1 = b + 1 /\ c1 = 0
    BY <1>1, <2>1, <2>2, <2>3, <2>5, <2>7
  <2>8. CASE /\ c = sk - 1 /\ b = sn - 1 /\ a < MSteps(d) - 1
             /\ a1 = a + 1 /\ b1 = 0 /\ c1 = 0
    BY <1>1, <2>1, <2>2, <2>3, <2>5, <2>8
  <2>. QED BY <2>4, <2>6, <2>7, <2>8
<1>3. u.mLen \in Int /\ u.nLen \in Int /\ (x + 1) - 1 = (x - 1) + 1
  BY <1>0, TileNumbers
<1>4. Counted(d, x + 1) =
        [cycles |-> CyclesBefore(sn, sk, dn, dk, a1, b1, c1, u.m0, u.n0, u.k0, u.mLen, u.nLen, (x - 1) + 1),
         reads |-> ReadsBefore(sn, sk, dn, dk, a1, b1, e1, u.m0, u.n0, u.k0, u.mLen, u.nLen),
         writes |-> WritesBefore(sk, dn, c1, u.m0, u.n0, u.mLen, u.nLen),
         macs |-> MacsBefore(dn, dk, u.m0, u.n0, u.k0, u.mLen, u.nLen)]
  BY <1>3 DEF Counted
<1>5. Counted(d, x) =
        [cycles |-> CyclesBefore(sn, sk, dn, dk, a, b, c, m0, n0, k0, mL, nL, x - 1),
         reads |-> ReadsBefore(sn, sk, dn, dk, a, b, e, m0, n0, k0, mL, nL),
         writes |-> WritesBefore(sk, dn, c, m0, n0, mL, nL),
         macs |-> MacsBefore(dn, dk, m0, n0, k0, mL, nL)]
  BY DEF Counted
<1>6. TileCounts(t) =
        [cycles |-> mL + nL + kL - 2,
         reads |-> kL * mL + nL * kL + (IF k0 = 0 THEN 0 ELSE nL * mL),
         writes |-> nL * mL,
         macs |-> mL * nL * kL]
  BY DEF TileCounts
<1>7. e1 = (IF c1 = 0 THEN 0 ELSE c1 - 1) /\ e = (IF c = 0 THEN 0 ELSE c - 1)
  OBVIOUS
<1>. DEFINE y == x - 1
            r == IF k0 = 0 THEN 0 ELSE nL * mL
            m1 == u.m0
            n1 == u.n0
            k1 == u.k0
            mL1 == u.mLen
            nL1 == u.nLen
<1>8. /\ y \in Int /\ mL1 \in Int /\ nL1 \in Int /\ m1 \in Int /\ n1 \in Int /\ k1 \in Int
      /\ a1 \in Int /\ b1 \in Int /\ c1 \in Int
  BY <1>0, <1>1, TileNumbers
<1>9. r \in Int /\ r = (IF k0 = 0 THEN 0 ELSE nL * mL)
  BY <1>1
<1>. HIDE DEF t, u, a, b, c, a1, b1, c1, m0, n0, k0, mL, nL, kL, sn, sk, dn, dk, e, e1, y, r, m1, n1, k1, mL1, nL1
<1>10. e1 \in Int /\ ((c # 0 /\ e = c - 1 /\ r = nL * mL) \/ (c = 0 /\ e = 0 /\ r = 0))
  BY <1>1, <1>7, <1>8, <1>9
<1>11. /\ CyclesBefore(sn, sk, dn, dk, a1, b1, c1, m1, n1, k1, mL1, nL1, y + 1)
            = CyclesBefore(sn, sk, dn, dk, a, b, c, m0, n0, k0, mL, nL, y) + (mL + nL + kL - 2)
       /\ ReadsBefore(sn, sk, dn, dk, a1, b1, e1, m1, n1, k1, mL1, nL1)
            = ReadsBefore(sn, sk, dn, dk, a, b, e, m0, n0, k0, mL, nL) + (kL * mL + nL * kL + r)
       /\ WritesBefore(sk, dn, c1, m1, n1, mL1, nL1) = WritesBefore(sk, dn, c, m0, n0, mL, nL) + nL * mL
       /\ MacsBefore(dn, dk, m1, n1, k1, mL1, nL1) = MacsBefore(dn, dk, m0, n0, k0, mL, nL) + mL * nL * kL
  <2>1. CASE /\ a1 = a /\ b1 = b /\ c1 = c + 1 /\ c1 # 0 /\ m1 = m0 /\ n1 = n0 /\ k1 = k0 + kL
             /\ mL1 = mL /\ nL1 = nL
    <3>1. (e1 = e + 1 /\ r = nL * mL) \/ (e1 = e /\ r = 0)
      BY <1>1, <1>7, <1>10, <2>1
    <3>. QED BY <1>1, <1>8, <1>9, <1>10, <2>1, <3>1 DEF CyclesBefore, ReadsBefore, WritesBefore, MacsBefore
  <2>2. CASE /\ a1 = a /\ b1 = b + 1 /\ c1 = 0 /\ c = sk - 1 /\ m1 = m0 /\ n1 = n0 + nL /\ k1 = 0
             /\ mL1 = mL /\ k0 + kL = dk
    <3>1. sk = c + 1 /\ dk = k0 + kL /\ e1 = 0
      BY <1>1, <1>7, <2>2
    <3>. QED BY <1>1, <1>8, <1>9, <1>10, <2>2, <3>1 DEF CyclesBefore, ReadsBefore, WritesBefore, MacsBefore
  <2>3. CASE /\ a1 = a + 1 /\ b1 = 0 /\ c1 = 0 /\ b = sn - 1 /\ c = sk - 1
             /\ m1 = m0 + mL /\ n1 = 0 /\ k1 = 0
             /\ k0 + kL = dk /\ n0 + nL = dn
    <3>1. sk = c + 1 /\ sn = b + 1 /\ dk = k0 + kL /\ dn = n0 + nL /\ e1 = 0
      BY <1>1, <1>7, <2>3
    <3>. QED BY <1>1, <1>8, <1>9, <1>10, <2>3, <3>1 DEF CyclesBefore, ReadsBefore, WritesBefore, MacsBefore
  <2>. QED BY <1>2, <2>1, <2>2, <2>3 DEF m1, n1, k1, mL1, nL1
<1>12. /\ CyclesBefore(sn, sk, dn, dk, a1, b1, c1, u.m0, u.n0, u.k0, u.mLen, u.nLen, (x - 1) + 1)
            = CyclesBefore(sn, sk, dn, dk, a, b, c, m0, n0, k0, mL, nL, x - 1) + (mL + nL + kL - 2)
       /\ ReadsBefore(sn, sk, dn, dk, a1, b1, e1, u.m0, u.n0, u.k0, u.mLen, u.nLen)
            = ReadsBefore(sn, sk, dn, dk, a, b, e, m0, n0, k0, mL, nL)
                + (kL * mL + nL * kL + (IF k0 = 0 THEN 0 ELSE nL * mL))
       /\ WritesBefore(sk, dn, c1, u.m0, u.n0, u.mLen, u.nLen) = WritesBefore(sk, dn, c, m0, n0, mL, nL) + nL * mL
       /\ MacsBefore(dn, dk, u.m0, u.n0, u.k0, u.mLen, u.nLen) = MacsBefore(dn, dk, m0, n0, k0, mL, nL) + mL * nL * kL
  BY <1>11, <1>9 DEF y, m1, n1, k1, mL1, nL1
<1>. QED BY <1>4, <1>5, <1>6, <1>12 DEF Plus, t

\* With the last tile the counters are those of the closed form.
LEMMA CountedLast ==
    ASSUME NEW d \in DescriptorType, Validate(d), NEW p \in PerfType
    PROVE  Plus(Plus(p, Counted(d, TilesOf(d))), TileCounts(TileAt(d, TilesOf(d)))) = PerfAfter(p, d)
<1>. DEFINE x == TilesOf(d)
            t == TileAt(d, x)
            a == MStep(d, x)
            b == NStep(d, x)
            c == KStep(d, x)
            sm == MSteps(d)
            sn == NSteps(d)
            sk == KSteps(d)
            e == IF c = 0 THEN 0 ELSE c - 1
            dm == d.m
            dn == d.n
            dk == d.k
            m0 == t.m0
            n0 == t.n0
            k0 == t.k0
            mL == t.mLen
            nL == t.nLen
            kL == t.kLen
<1>1. /\ x \in 1..TilesOf(d) /\ a = sm - 1 /\ b = sn - 1 /\ c = sk - 1
  BY LastSteps
<1>2. /\ m0 \in Int /\ n0 \in Int /\ k0 \in Int /\ mL \in Int /\ nL \in Int /\ kL \in Int
      /\ a \in Int /\ b \in Int /\ c \in Int /\ sn \in Int /\ sk \in Int /\ sm \in Int
      /\ (k0 = 0) <=> (c = 0)
  BY <1>1, TileNumbers
<1>3. m0 + mL = dm /\ n0 + nL = dn /\ k0 + kL = dk /\ x = sm * sn * sk
  BY <1>1, TileEnds, StepCounts
<1>4. Counted(d, x) =
        [cycles |-> CyclesBefore(sn, sk, dn, dk, a, b, c, m0, n0, k0, mL, nL, x - 1),
         reads |-> ReadsBefore(sn, sk, dn, dk, a, b, e, m0, n0, k0, mL, nL),
         writes |-> WritesBefore(sk, dn, c, m0, n0, mL, nL),
         macs |-> MacsBefore(dn, dk, m0, n0, k0, mL, nL)]
  BY DEF Counted
<1>5. TileCounts(t) =
        [cycles |-> mL + nL + kL - 2,
         reads |-> kL * mL + nL * kL + (IF k0 = 0 THEN 0 ELSE nL * mL),
         writes |-> nL * mL,
         macs |-> mL * nL * kL]
  BY DEF TileCounts
<1>6. PerfAfter(p, d) =
        [cycles |-> p.cycles + sn * sk * dm + sm * sk * dn + sm * sn * dk - 2 * sm * sn * sk,
         reads |-> p.reads + sn * dm * dk + sm * dk * dn + (sk - 1) * dm * dn,
         writes |-> p.writes + sk * dm * dn,
         macs |-> p.macs + dm * dn * dk]
  BY DEF PerfAfter, MSteps, NSteps, KSteps
<1>7. /\ p.cycles \in Int /\ p.reads \in Int /\ p.writes \in Int /\ p.macs \in Int
      /\ e = (IF c = 0 THEN 0 ELSE c - 1)
  BY DEF PerfType
<1>. DEFINE r == IF k0 = 0 THEN 0 ELSE nL * mL
            y == x - 1
            cy == CyclesBefore(sn, sk, dn, dk, a, b, c, m0, n0, k0, mL, nL, y)
            rd == ReadsBefore(sn, sk, dn, dk, a, b, e, m0, n0, k0, mL, nL)
            wr == WritesBefore(sk, dn, c, m0, n0, mL, nL)
            ma == MacsBefore(dn, dk, m0, n0, k0, mL, nL)
<1>8. r \in Int /\ r = (IF k0 = 0 THEN 0 ELSE nL * mL) /\ y = x - 1
  BY <1>2
<1>9. /\ Counted(d, x) = [cycles |-> cy, reads |-> rd, writes |-> wr, macs |-> ma]
      /\ TileCounts(t) = [cycles |-> mL + nL + kL - 2, reads |-> kL * mL + nL * kL + r,
                          writes |-> nL * mL, macs |-> mL * nL * kL]
  BY <1>4, <1>5
<1>. HIDE DEF x, t, a, b, c, sm, sn, sk, e, dm, dn, dk, m0, n0, k0, mL, nL, kL, r, y
<1>10. /\ sm = a + 1 /\ sn = b + 1 /\ sk = c + 1 /\ dm = m0 + mL /\ dn = n0 + nL /\ dk = k0 + kL
       /\ dm \in Int /\ dn \in Int /\ dk \in Int /\ e \in Int
       /\ ((c # 0 /\ e = c - 1 /\ r = nL * mL) \/ (c = 0 /\ e = 0 /\ r = 0))
  BY <1>1, <1>2, <1>3, <1>7, <1>8
<1>11. y = sm * sn * sk - 1 /\ y \in Int
  BY <1>2, <1>3, <1>8
<1>12. /\ sn * sk * dm + sm * sk * dn + sm * sn * dk - 2 * sm * sn * sk = cy + (mL + nL + kL - 2)
       /\ sn * dm * dk + sm * dk * dn + (sk - 1) * dm * dn = rd + (kL * mL + nL * kL + r)
       /\ sk * dm * dn = wr + nL * mL
       /\ dm * dn * dk = ma + mL * nL * kL
  BY <1>2, <1>8, <1>10, <1>11 DEF cy, rd, wr, ma, CyclesBefore, ReadsBefore, WritesBefore, MacsBefore
<1>13. cy \in Int /\ rd \in Int /\ wr \in Int /\ ma \in Int
  BY <1>2, <1>10, <1>11 DEF CyclesBefore, ReadsBefore, WritesBefore, MacsBefore
<1>14. /\ sn * sk * dm \in Int /\ sm * sk * dn \in Int /\ sm * sn * dk \in Int /\ 2 * sm * sn * sk \in Int
       /\ sn * dm * dk \in Int /\ sm * dk * dn \in Int /\ (sk - 1) * dm * dn \in Int
       /\ sk * dm * dn \in Int /\ dm * dn * dk \in Int
  BY <1>2, <1>10
<1>15. /\ mL + nL + kL - 2 \in Int /\ kL * mL + nL * kL + r \in Int
       /\ nL * mL \in Int /\ mL * nL * kL \in Int
  BY <1>2, <1>8
<1>. HIDE DEF cy, rd, wr, ma
<1>16. /\ (p.cycles + cy) + (mL + nL + kL - 2)
             = p.cycles + sn * sk * dm + sm * sk * dn + sm * sn * dk - 2 * sm * sn * sk
       /\ (p.reads + rd) + (kL * mL + nL * kL + r)
             = p.reads + sn * dm * dk + sm * dk * dn + (sk - 1) * dm * dn
       /\ (p.writes + wr) + nL * mL = p.writes + sk * dm * dn
       /\ (p.macs + ma) + mL * nL * kL = p.macs + dm * dn * dk
  BY <1>7, <1>12, <1>13, <1>14, <1>15
<1>17. Plus(Plus(p, Counted(d, x)), TileCounts(t)) =
         [cycles |-> (p.cycles + cy) + (mL + nL + kL - 2), reads |-> (p.reads + rd) + (kL * mL + nL * kL + r),
          writes |-> (p.writes + wr) + nL * mL, macs |-> (p.macs + ma) + mL * nL * kL]
  BY <1>9 DEF Plus
<1>. QED BY <1>6, <1>16, <1>17 DEF t, x
-----------------------------------------------------------------------------
(* Descriptors in memory. *)

\* A valid descriptor has one of the three modes.
LEMMA ValidMode ==
    ASSUME NEW d, Validate(d)
    PROVE  d.mode \in Modes
BY DEF Validate, SidesFit, Modes

\* The dataflow word of a known mode selects that mode again.
LEMMA ModeWord ==
    ASSUME NEW mode \in Modes
    PROVE  LET c == CHOOSE x \in 0..2 : ModeOf[x + 1] = mode
           IN  c \in 0..2 /\ ModeOf[c + 1] = mode
<1>1. \E x \in 0..2 : ModeOf[x + 1] = mode
  <2>1. ModeOf[0 + 1] = "WS" /\ ModeOf[1 + 1] = "OS" /\ ModeOf[2 + 1] = "IS"
    BY DEF ModeOf
  <2>2. 0 \in 0..2 /\ 1 \in 0..2 /\ 2 \in 0..2
    OBVIOUS
  <2>. QED BY <2>1, <2>2 DEF Modes
<1>. QED BY <1>1

\* Whatever the words are, what is read from them is a descriptor.
LEMMA LoadedDescriptor ==
    ASSUME NEW m \in Memory, NEW base
    PROVE  LoadFromMemory(m, base) \in DescriptorType
<1>1. DefaultDescriptor \in DescriptorType
  BY ArrayAssumption DEF DefaultDescriptor, DescriptorType, Modes
<1>2. ASSUME Readable(m, base) PROVE FromWords(WordsAt(m, base)) \in DescriptorType
  <2>. DEFINE raw == WordsAt(m, base)
  <2>1. \A i \in 1..10 : raw[i] \in Nat
    <3>. SUFFICES ASSUME NEW i \in 1..10 PROVE raw[i] \in Nat
      OBVIOUS
    <3>1. i - 1 \in 0..(WordCount - 1) /\ i \in 1..WordCount
      BY DEF WordCount
    <3>2. WordAddr(base) + (i - 1) \in DOMAIN m /\ m[WordAddr(base) + (i - 1)] >= 0
      BY <1>2, <3>1 DEF Readable
    <3>3. m[WordAddr(base) + (i - 1)] \in Nat
      BY <3>2 DEF Memory
    <3>4. raw[i] = m[WordAddr(base) + i - 1]
      BY <3>1 DEF WordsAt
    <3>5. WordAddr(base) + i - 1 = WordAddr(base) + (i - 1)
      BY <3>2 DEF Memory, Addresses
    <3>. QED BY <3>3, <3>4, <3>5
  <2>2. /\ raw[1] \in Nat /\ raw[2] \in Nat /\ raw[3] \in Nat /\ raw[4] \in Nat /\ raw[5] \in Nat
        /\ raw[6] \in Nat /\ raw[7] \in Nat /\ raw[8] \in Nat /\ raw[9] \in Nat /\ raw[10] \in Nat
    BY <2>1
  <2>. HIDE DEF raw
  <2>3. (IF raw[7] \in 0..2 THEN ModeOf[raw[7] + 1] ELSE Unknown) \in Modes \cup {Unknown}
    <3>1. CASE raw[7] \in 0..2
      <4>1. raw[7] = 0 \/ raw[7] = 1 \/ raw[7] = 2
        BY <3>1
      <4>. QED BY <4>1 DEF ModeOf, Modes
    <3>. QED BY <3>1
  <2>4. FromWords(raw) \in DescriptorType
    BY <2>2, <2>3 DEF FromWords, DescriptorType
  <2>. QED BY <2>4 DEF raw
<1>. QED BY <1>1, <1>2 DEF LoadFromMemory

\* The words of a descriptor whose mode is known are integers.
LEMMA WordsOfDescriptor ==
    ASSUME NEW d \in DescriptorType, d.mode \in Modes
    PROVE  \A i \in 1..10 : ToWords(d)[i] \in Int
<1>1. \A x \in Nat : AsInt32(x) \in Int
  BY WordAssumption DEF AsInt32
<1>3. (CHOOSE x \in 0..2 : ModeOf[x + 1] = d.mode) \in Int
  BY ModeWord
<1>. DEFINE c == CHOOSE x \in 0..2 : ModeOf[x + 1] = d.mode
<1>4. /\ AsInt32(d.m) \in Int /\ AsInt32(d.n) \in Int /\ AsInt32(d.k) \in Int
      /\ AsInt32(d.A) \in Int /\ AsInt32(d.B) \in Int /\ AsInt32(d.C) \in Int
      /\ AsInt32(d.tm) \in Int /\ AsInt32(d.tn) \in Int /\ AsInt32(d.tk) \in Int
  BY <1>1 DEF DescriptorType
<1>5. ToWords(d) = <<AsInt32(d.m), AsInt32(d.n), AsInt32(d.k), AsInt32(d.A), AsInt32(d.B),
                     AsInt32(d.C), c, AsInt32(d.tm), AsInt32(d.tn), AsInt32(d.tk)>>
  BY DEF ToWords
<1>6. c \in Int
  BY <1>3
<1>. HIDE DEF c
<1>. SUFFICES ASSUME NEW i \in 1..10 PROVE ToWords(d)[i] \in Int
  OBVIOUS
<1>7. \/ i = 1 \/ i = 2 \/ i = 3 \/ i = 4 \/ i = 5 \/ i = 6 \/ i = 7 \/ i = 8 \/ i = 9 \/ i = 10
  OBVIOUS
<1>. QED BY <1>4, <1>5, <1>6, <1>7

\* store_to_memory leaves a memory.
LEMMA StoredMemory ==
    ASSUME NEW m \in Memory, NEW d \in DescriptorType, NEW base \in Nat
    PROVE  Stored(m, d, base) \in Memory
<1>1. CASE Validate(d) /\ IsWordAligned(base)
  <2>1. Stored(m, d, base) =
          [w \in Addresses |->
              IF w - WordAddr(base) \in 0..9 THEN ToWords(d)[w - WordAddr(base) + 1] ELSE m[w]]
    BY <1>1 DEF Stored, Memory, WordCount
  <2>2. WordAddr(base) \in Int
    BY DEF WordAddr, WordBytes
  <2>3. ASSUME NEW w \in Addresses
        PROVE (IF w - WordAddr(base) \in 0..9 THEN ToWords(d)[w - WordAddr(base) + 1] ELSE m[w]) \in Int
    <3>1. CASE w - WordAddr(base) \in 0..9
      <4>1. w - WordAddr(base) + 1 \in 1..10
        BY <3>1, <2>2
      <4>. QED BY <3>1, <4>1, <1>1, WordsOfDescriptor, ValidMode
    <3>. QED BY <3>1 DEF Memory
  <2>. QED BY <2>1, <2>3 DEF Memory
<1>. QED BY <1>1 DEF Stored

\* INT32 and UINT32 agree below 2^31.
LEMMA SameInt32 ==
    ASSUME NEW x \in Nat, 2 * x < Word
    PROVE  AsInt32(x) = x
BY WordAssumption DEF AsInt32

\* The descriptor its words describe.
LEMMA WordsDescribe ==
    ASSUME NEW d \in DescriptorType, Validate(d),
           \A f \in {"m", "n", "k", "A", "B", "C", "tm", "tn", "tk"} : 2 * d[f] < Word
    PROVE  /\ FromWords(ToWords(d)) = d
           /\ \A i \in 1..10 : ToWords(d)[i] >= 0
<1>. DEFINE c == CHOOSE x \in 0..2 : ModeOf[x + 1] = d.mode
<1>1. c \in 0..2 /\ ModeOf[c + 1] = d.mode
  BY ValidMode, ModeWord
<1>2. /\ d.m \in Nat /\ d.n \in Nat /\ d.k \in Nat /\ d.A \in Nat /\ d.B \in Nat /\ d.C \in Nat
      /\ d.tm \in Nat /\ d.tn \in Nat /\ d.tk \in Nat
  BY DEF DescriptorType
<1>3. /\ 2 * d.m < Word /\ 2 * d.n < Word /\ 2 * d.k < Word
      /\ 2 * d.A < Word /\ 2 * d.B < Word /\ 2 * d.C < Word
      /\ 2 * d.tm < Word /\ 2 * d.tn < Word /\ 2 * d.tk < Word
  OBVIOUS
<1>4. ToWords(d) = <<AsInt32(d.m), AsInt32(d.n), AsInt32(d.k), AsInt32(d.A), AsInt32(d.B),
                     AsInt32(d.C), c, AsInt32(d.tm), AsInt32(d.tn), AsInt32(d.tk)>>
  BY DEF ToWords
<1>. HIDE DEF c
<1>5. ToWords(d) = <<d.m, d.n, d.k, d.A, d.B, d.C, c, d.tm, d.tn, d.tk>>
  BY <1>2, <1>3, <1>4, SameInt32
<1>6. \A i \in 1..10 : ToWords(d)[i] >= 0
  <2>. SUFFICES ASSUME NEW i \in 1..10 PROVE ToWords(d)[i] >= 0
    OBVIOUS
  <2>1. \/ i = 1 \/ i = 2 \/ i = 3 \/ i = 4 \/ i = 5 \/ i = 6 \/ i = 7 \/ i = 8 \/ i = 9 \/ i = 10
    OBVIOUS
  <2>. QED BY <1>1, <1>2, <1>5, <2>1
<1>7. FromWords(ToWords(d)) =
        [m |-> d.m, n |-> d.n, k |-> d.k, A |-> d.A, B |-> d.B, C |-> d.C, mode |-> d.mode,
         tm |-> d.tm, tn |-> d.tn, tk |-> d.tk]
  BY <1>1, <1>5 DEF FromWords
<1>. QED BY <1>6, <1>7 DEF DescriptorType

\* A descriptor that was stored is read back.
LEMMA ReadsBack ==
    ASSUME NEW m \in Memory, NEW d \in DescriptorType, NEW base \in Nat, Storable(m, d, base),
           \A f \in {"m", "n", "k", "A", "B", "C", "tm", "tn", "tk"} : 2 * d[f] < Word
    PROVE  LoadFromMemory(Stored(m, d, base), base) = d
<1>. DEFINE s == Stored(m, d, base)
            at == WordAddr(base)
<1>0. Validate(d) /\ IsWordAligned(base) /\ at \in Int
  BY DEF Storable, WordAddr, WordBytes
<1>1. FromWords(ToWords(d)) = d /\ \A i \in 1..10 : ToWords(d)[i] >= 0
  BY <1>0, WordsDescribe
<1>2. \A i \in 0..9 : at + i \in DOMAIN m
  BY DEF Storable, WordCount
<1>3. s = [w \in DOMAIN m |-> IF w - at \in 0..9 THEN ToWords(d)[w - at + 1] ELSE m[w]]
  BY <1>0 DEF Stored, WordCount
<1>. HIDE DEF s, at
<1>4. \A i \in 0..9 : at + i \in DOMAIN s /\ s[at + i] = ToWords(d)[i + 1]
  <2>. SUFFICES ASSUME NEW i \in 0..9 PROVE at + i \in DOMAIN s /\ s[at + i] = ToWords(d)[i + 1]
    OBVIOUS
  <2>1. at + i \in DOMAIN m /\ (at + i) - at = i
    BY <1>0, <1>2
  <2>. QED BY <1>3, <2>1
<1>5. Readable(s, base)
  <2>1. \A i \in 0..9 : at + i \in DOMAIN s /\ s[at + i] >= 0
    BY <1>1, <1>4
  <2>. QED BY <1>0, <2>1 DEF Readable, WordCount, at
<1>6. WordsAt(s, base) = ToWords(d)
  <2>1. WordsAt(s, base) = [i \in 1..10 |-> s[at + i - 1]]
    BY DEF WordsAt, WordCount, at
  <2>2. \A i \in 1..10 : s[at + i - 1] = ToWords(d)[i]
    <3>. SUFFICES ASSUME NEW i \in 1..10 PROVE s[at + i - 1] = ToWords(d)[i]
      OBVIOUS
    <3>1. i - 1 \in 0..9 /\ at + i - 1 = at + (i - 1) /\ (i - 1) + 1 = i
      BY <1>0
    <3>. QED BY <1>4, <3>1
  <2>3. ToWords(d) = [i \in 1..10 |-> ToWords(d)[i]]
    BY DEF ToWords
  <2>. QED BY <2>1, <2>2, <2>3
<1>7. LoadFromMemory(s, base) = FromWords(ToWords(d))
  BY <1>5, <1>6 DEF LoadFromMemory
<1>. QED BY <1>1, <1>7 DEF s

-----------------------------------------------------------------------------
(* A run. *)

\* What a run adds to the counters is not negative: a tile of a dimension has
\* at least one element.
LEMMA PerfGrows ==
    ASSUME NEW d \in DescriptorType, Validate(d), NEW p \in PerfType
    PROVE  PerfAfter(p, d) \in PerfType
<1>. DEFINE sm == Steps(d.m, d.tm)
            sn == Steps(d.n, d.tn)
            sk == Steps(d.k, d.tk)
            m == d.m
            n == d.n
            k == d.k
<1>1. /\ m \in Nat \ {0} /\ n \in Nat \ {0} /\ k \in Nat \ {0}
      /\ d.tm \in Nat \ {0} /\ d.tn \in Nat \ {0} /\ d.tk \in Nat \ {0}
  BY ValidNumbers
<1>2. ASSUME NEW a \in Nat \ {0}, NEW t \in Nat \ {0}
      PROVE  Steps(a, t) \in Nat \ {0} /\ Steps(a, t) <= a
  <2>1. Steps(a, t) \in Nat \ {0} /\ (Steps(a, t) - 1) * t < a
    BY StepsBounds
  <2>. DEFINE s == Steps(a, t) - 1
  <2>2. s \in Nat /\ s * t < a
    BY <2>1
  <2>. HIDE DEF s
  <2>3. s * 1 <= s * t
    <3>1. 1 * s <= t * s
      BY <2>2, TimesMonotone
    <3>. QED BY <3>1, <2>2
  <2>4. s < a
    BY <2>2, <2>3
  <2>. QED BY <2>1, <2>4 DEF s
<1>3. /\ sm \in Nat \ {0} /\ sm <= m /\ sn \in Nat \ {0} /\ sn <= n
      /\ sk \in Nat \ {0} /\ sk <= k
  BY <1>1, <1>2
<1>4. PerfAfter(p, d) =
        [cycles |-> p.cycles + sn * sk * m + sm * sk * n + sm * sn * k - 2 * sm * sn * sk,
         reads |-> p.reads + sn * m * k + sm * k * n + (sk - 1) * m * n,
         writes |-> p.writes + sk * m * n,
         macs |-> p.macs + m * n * k]
  BY DEF PerfAfter
<1>5. p.cycles \in Nat /\ p.reads \in Nat /\ p.writes \in Nat /\ p.macs \in Nat
  BY DEF PerfType
<1>. HIDE DEF sm, sn, sk, m, n, k
<1>6. \A a, b, c \in Nat : a * b * c \in Nat
  OBVIOUS
<1>7. /\ sn * m * k \in Nat /\ sm * k * n \in Nat /\ sk * m * n \in Nat /\ m * n * k \in Nat
      /\ (sk - 1) * m * n \in Nat
  <2>1. sk - 1 \in Nat
    BY <1>3
  <2>. QED BY <2>1, <1>1, <1>3, <1>6
<1>8. sn * sk * m + sm * sk * n + sm * sn * k - 2 * sm * sn * sk \in Nat
  <2>. DEFINE u == sn * sk
              v == sm * sk
  <2>1. u \in Nat /\ v \in Nat /\ sm * sn * k \in Nat
    BY <1>1, <1>3
  <2>2. sm * u <= m * u /\ sn * v <= n * v
    BY <1>1, <1>3, <2>1, TimesMonotone
  <2>3. sm * u \in Nat /\ m * u \in Nat /\ n * v \in Nat /\ sn * v \in Nat
    BY <1>1, <1>3, <2>1
  <2>4. sm * u = sm * sn * sk /\ sn * v = sm * sn * sk
    BY <1>3
  <2>5. m * u = sn * sk * m /\ n * v = sm * sk * n
    BY <1>1, <1>3
  <2>6. 2 * sm * sn * sk = sm * u + sn * v
    BY <1>3
  <2>. HIDE DEF u, v
  <2>. DEFINE z == sm * sn * k
  <2>7. m * u + n * v + z - (sm * u + sn * v) \in Nat
    <3>1. z \in Nat
      BY <2>1
    <3>. HIDE DEF z
    <3>. QED BY <3>1, <2>2, <2>3
  <2>. QED BY <2>5, <2>6, <2>7
<1>. DEFINE x == sn * sk * m + sm * sk * n + sm * sn * k - 2 * sm * sn * sk
<1>9. p.cycles + sn * sk * m + sm * sk * n + sm * sn * k - 2 * sm * sn * sk = p.cycles + x
  <2>1. /\ sn * sk * m \in Int /\ sm * sk * n \in Int /\ sm * sn * k \in Int
        /\ 2 * sm * sn * sk \in Int
    BY <1>1, <1>3
  <2>. QED BY <2>1, <1>5
<1>10. x \in Nat
  BY <1>8
<1>. HIDE DEF x
<1>11. p.cycles + x \in Nat
  BY <1>5, <1>10
<1>12. /\ p.reads + sn * m * k + sm * k * n + (sk - 1) * m * n \in Nat
       /\ p.writes + sk * m * n \in Nat /\ p.macs + m * n * k \in Nat
  BY <1>5, <1>7
<1>. QED BY <1>4, <1>9, <1>11, <1>12 DEF PerfType

\* The product is a memory.
LEMMA ProductMemory ==
    ASSUME NEW d \in DescriptorType, Validate(d), InMemory(d), NEW m \in Memory
    PROVE  Multiply(m, d) \in Memory
<1>1. ASSUME NEW w \in CRegion(d)
      PROVE  Dot(m, d, (w - WordAddr(d.C)) \div d.n, (w - WordAddr(d.C)) % d.n, d.k) \in Int
  <2>1. /\ (w - WordAddr(d.C)) \div d.n \in 0..(d.m - 1)
        /\ (w - WordAddr(d.C)) % d.n \in 0..(d.n - 1)
    BY CellAt
  <2>2. d.k \in 0..d.k
    BY ValidNumbers
  <2>. QED BY <2>1, <2>2, DotFacts
<1>2. \A w \in Addresses : Multiply(m, d)[w] \in Int
  BY <1>1 DEF Multiply, Memory
<1>. QED BY <1>2 DEF Multiply, Memory

\* and its words in C are the products of rows and columns.
LEMMA ProductCells ==
    ASSUME NEW d \in DescriptorType, Validate(d), InMemory(d), NEW m \in Memory,
           NEW i \in 0..(d.m - 1), NEW j \in 0..(d.n - 1)
    PROVE  Multiply(m, d)[CAt(d, i, j)] = Dot(m, d, i, j, d.k)
<1>. DEFINE w == CAt(d, i, j)
            u == (w - WordAddr(d.C)) \div d.n
            v == (w - WordAddr(d.C)) % d.n
<1>1. w \in CRegion(d) /\ w \in Addresses
  BY RegionCells
<1>2. u \in 0..(d.m - 1) /\ v \in 0..(d.n - 1) /\ w = CAt(d, u, v)
  BY <1>1, CellAt
<1>3. u = i /\ v = j
  <2>1. u \in Nat /\ i \in Nat /\ CAt(d, i, j) = CAt(d, u, v)
    BY <1>2
  <2>. HIDE DEF w, u, v
  <2>. QED BY <1>2, <2>1, CellDistinct
<1>4. Multiply(m, d)[w] = Dot(m, d, u, v, d.k)
  BY <1>1 DEF Multiply
<1>. QED BY <1>3, <1>4

\* A memory a driver wrote ten words to is a memory.
LEMMA ImageMemory ==
    ASSUME NEW m \in Memory, NEW base \in Nat, NEW raw \in [1..WordCount -> Int]
    PROVE  Loaded(m, WordAddr(base), raw) \in Memory
<1>1. Len(raw) = 10
  BY DEF WordCount
<1>2. WordAddr(base) \in Int
  BY DEF WordAddr, WordBytes
<1>3. ASSUME NEW w \in Addresses
      PROVE  (IF w - WordAddr(base) \in 0..(Len(raw) - 1) THEN raw[w - WordAddr(base) + 1] ELSE m[w]) \in Int
  <2>1. CASE w - WordAddr(base) \in 0..9
    <3>1. w - WordAddr(base) + 1 \in 1..10
      BY <1>2, <2>1
    <3>. QED BY <1>1, <2>1, <3>1 DEF WordCount
  <2>. QED BY <1>1, <2>1 DEF Memory
<1>. QED BY <1>3 DEF Loaded, Memory

\* The words of such a descriptor, written one after the other.
LEMMA DescriptorMemory ==
    ASSUME NEW m \in Memory, NEW base \in Nat, NEW d \in DescriptorType, d.mode \in Modes
    PROVE  Loaded(m, WordAddr(base), ToWords(d)) \in Memory
<1>1. ToWords(d) = [i \in 1..10 |-> ToWords(d)[i]]
  BY DEF ToWords
<1>2. ToWords(d) \in [1..WordCount -> Int]
  BY <1>1, WordsOfDescriptor DEF WordCount
<1>. HIDE DEF ToWords
<1>. QED BY <1>2, ImageMemory

\* The device after a reset.
LEMMA ResetTyped == ResetNpu \in NpuType /\ ResetNpu.state = "IDLE" /\ ResetNpu.error = "NONE"
BY ArrayAssumption
   DEF ResetNpu, NpuType, DefaultDescriptor, DescriptorType, Modes, NpuStates, NpuErrors,
       PerfType, ZeroPerf

\* The controller after submit(d) and, where that accepts d, run().
AfterStart(n, d) ==
    IF Submitted(n, d).state = "ERROR" THEN Submitted(n, d) ELSE Ran(Submitted(n, d), TRUE)

\* Either both accept the descriptor, or the controller is left in ERROR with
\* its counters as they were.
LEMMA StartVerdict ==
    ASSUME NEW n \in NpuType, NEW d
    PROVE  \/ /\ Validate(d) /\ InMemory(d)
              /\ AfterStart(n, d) = [desc |-> d, state |-> "DONE", error |-> "NONE",
                                     perf |-> PerfAfter(n.perf, d)]
           \/ \E e \in {d, n.desc}, why \in NpuErrors \ {"NONE"} :
                  AfterStart(n, d) = [desc |-> e, state |-> "ERROR", error |-> why, perf |-> n.perf]
<1>. DEFINE s == Submitted(n, d)
<1>1. n = [desc |-> n.desc, state |-> n.state, error |-> n.error, perf |-> n.perf]
  BY DEF NpuType
<1>2. CASE ~Validate(d)
  <2>1. s = [desc |-> n.desc, state |-> "ERROR", error |-> "INVALID_DESC", perf |-> n.perf]
    BY <1>1, <1>2 DEF Submitted, Failed
  <2>2. AfterStart(n, d) = s
    BY <2>1 DEF AfterStart
  <2>. QED BY <2>1, <2>2 DEF NpuErrors
<1>3. CASE Validate(d)
  <2>1. s = [desc |-> d, state |-> "IDLE", error |-> "NONE", perf |-> n.perf]
    BY <1>1, <1>3 DEF Submitted
  <2>2. AfterStart(n, d) = Ran(s, TRUE)
    BY <2>1 DEF AfterStart
  <2>. HIDE DEF s
  <2>3. CASE InMemory(d) /\ FirstTileFits(d)
    <3>1. Ran(s, TRUE) = [desc |-> d, state |-> "DONE", error |-> "NONE", perf |-> PerfAfter(n.perf, d)]
      BY <1>3, <2>1, <2>3 DEF Ran
    <3>. QED BY <1>3, <2>2, <2>3, <3>1
  <2>4. CASE ~(InMemory(d) /\ FirstTileFits(d))
    <3>1. Ran(s, TRUE) = Failed(s, "OUT_OF_RANGE")
      BY <1>3, <2>1, <2>4 DEF Ran
    <3>2. Ran(s, TRUE) = [desc |-> d, state |-> "ERROR", error |-> "OUT_OF_RANGE", perf |-> n.perf]
      BY <2>1, <3>1 DEF Failed
    <3>. QED BY <2>2, <3>2 DEF NpuErrors
  <2>. QED BY <2>3, <2>4
<1>. QED BY <1>2, <1>3

\* The types of a device that is not started, or was and has answered.
LEMMA StartKeepsTypes ==
    ASSUME NEW n \in NpuType, NEW d \in DescriptorType
    PROVE  /\ AfterStart(n, d) \in NpuType
           /\ (AfterStart(n, d).state = "ERROR") <=> (AfterStart(n, d).error # "NONE")
           /\ AfterStart(n, d).state \in {"DONE", "ERROR"}
<1>1. n.desc \in DescriptorType /\ n.perf \in PerfType
  BY DEF NpuType
<1>2. CASE Validate(d) /\ AfterStart(n, d) = [desc |-> d, state |-> "DONE", error |-> "NONE",
                                            perf |-> PerfAfter(n.perf, d)]
  <2>1. PerfAfter(n.perf, d) \in PerfType
    BY <1>1, <1>2, PerfGrows
  <2>. QED BY <1>2, <2>1 DEF NpuType, NpuStates, NpuErrors
<1>3. ASSUME NEW e \in {d, n.desc}, NEW why \in NpuErrors \ {"NONE"},
             AfterStart(n, d) = [desc |-> e, state |-> "ERROR", error |-> why, perf |-> n.perf]
      PROVE  /\ AfterStart(n, d) \in NpuType
             /\ (AfterStart(n, d).state = "ERROR") <=> (AfterStart(n, d).error # "NONE")
             /\ AfterStart(n, d).state \in {"DONE", "ERROR"}
  BY <1>1, <1>3 DEF NpuType, NpuStates
<1>. QED BY <1>2, <1>3, StartVerdict

\* What a START leaves in memory is a memory.
LEMMA BecomesMemory ==
    ASSUME NEW d \in DescriptorType, Validate(d), InMemory(d), NEW m \in Memory, NEW next,
           MayBecome(m, d, next)
    PROVE  next \in Memory
BY ProductMemory DEF MayBecome
=============================================================================
