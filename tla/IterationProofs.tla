--------------------------- MODULE IterationProofs ---------------------------
(***************************************************************************)
(* Induction over the natural numbers as statements about sets of numbers, *)
(* and what a function defined by recursion over them satisfies.           *)
(***************************************************************************)
EXTENDS Naturals, FiniteSets, FiniteSetTheorems, WellFoundedInduction, TLAPS

(* Every set of numbers has a least element. *)
LEMMA LeastNatural ==
    ASSUME NEW T, T \subseteq Nat, T # {}
    PROVE  \E m \in T : \A n \in T : m <= n
<1>1. IsWellFoundedOn({p \in Nat \X Nat : p[1] < p[2]}, Nat)
  BY NatLessThanWellFounded DEF OpToRel
<1> DEFINE R == {p \in Nat \X Nat : p[1] < p[2]}
<1>3. \E m \in T : \A n \in T : <<n, m>> \notin R
  <2> HIDE DEF R
  <2>1. IsWellFoundedOn(R, Nat)
    BY <1>1 DEF R
  <2> QED
    BY <2>1, WFMin
<1>4. ASSUME NEW m \in T, NEW n \in T, <<n, m>> \notin R PROVE m <= n
  <2>1. <<n, m>> \in Nat \X Nat /\ <<n, m>>[1] = n /\ <<n, m>>[2] = m
    OBVIOUS
  <2>2. ~(n < m)
    BY <1>4, <2>1
  <2> QED
    BY <2>2
<1> HIDE DEF R
<1> QED
  BY <1>3, <1>4

(* A set that holds 0, and n + 1 with every n, holds every number. *)
LEMMA NatSets ==
    ASSUME NEW S, 0 \in S, \A n \in Nat : n \in S => n + 1 \in S
    PROVE  Nat \subseteq S
<1> SUFFICES ASSUME Nat \ S # {} PROVE FALSE
  OBVIOUS
<1>1. PICK m \in Nat \ S : \A n \in Nat \ S : m <= n
  BY LeastNatural
<1> QED
  BY <1>1

(* Iterating a function is possible: what a recursive definition over the  *)
(* numbers asks for exists.                                                *)
LEMMA Iteration ==
    ASSUME NEW S, NEW a \in S, NEW F \in [S -> S]
    PROVE  \E g \in [Nat -> S] : g[0] = a /\ \A n \in Nat : g[n + 1] = F[g[n]]
<1> DEFINE Good(n, h) == h[0] = a /\ \A i \in 0..n : i < n => h[i + 1] = F[h[i]]
           Defined == {n \in Nat : \E h \in [Nat -> S] : Good(n, h)}
<1>1. Nat \subseteq Defined
  <2>1. 0 \in Defined
    <3>1. [i \in Nat |-> a] \in [Nat -> S] /\ Good(0, [i \in Nat |-> a])
      OBVIOUS
    <3> QED
      BY <3>1
  <2>2. ASSUME NEW n \in Nat, n \in Defined PROVE n + 1 \in Defined
    <3>1. PICK h \in [Nat -> S] : Good(n, h)
      BY <2>2
    <3> DEFINE j == [h EXCEPT ![n + 1] = F[h[n]]]
    <3>2. j \in [Nat -> S]
      OBVIOUS
    <3>3. \A i \in 0..n : j[i] = h[i]
      OBVIOUS
    <3>4. j[n + 1] = F[h[n]]
      OBVIOUS
    <3> HIDE DEF j
    <3>5. Good(n + 1, j)
      <4>1. j[0] = a
        BY <3>1, <3>3
      <4>2. ASSUME NEW i \in 0..(n + 1), i < n + 1 PROVE j[i + 1] = F[j[i]]
        <5>1. CASE i = n
          BY <5>1, <3>3, <3>4
        <5>2. CASE i < n
          BY <5>2, <3>1, <3>3
        <5> QED
          BY <4>2, <5>1, <5>2
      <4> QED
        BY <4>1, <4>2
    <3> QED
      BY <3>2, <3>5
  <2> HIDE DEF Defined
  <2> QED
    BY <2>1, <2>2, NatSets
<1>2. ASSUME NEW n \in Nat, NEW h \in [Nat -> S], NEW j \in [Nat -> S],
             Good(n, h), Good(n, j), NEW m \in Nat, m <= n
      PROVE  h[m] = j[m]
  <2> DEFINE Same == {i \in Nat : i <= n => h[i] = j[i]}
  <2>1. 0 \in Same
    BY <1>2
  <2>2. ASSUME NEW i \in Nat, i \in Same PROVE i + 1 \in Same
    <3> SUFFICES ASSUME i + 1 <= n PROVE h[i + 1] = j[i + 1]
      OBVIOUS
    <3>1. h[i] = j[i] /\ i \in 0..n /\ i < n
      BY <2>2
    <3> QED
      BY <1>2, <3>1
  <2>3. Nat \subseteq Same
    <3> HIDE DEF Same
    <3> QED
      BY <2>1, <2>2, NatSets
  <2> QED
    BY <1>2, <2>3
<1> DEFINE At(n) == CHOOSE h \in [Nat -> S] : Good(n, h)
           g == [n \in Nat |-> At(n)[n]]
<1>3. ASSUME NEW n \in Nat PROVE At(n) \in [Nat -> S] /\ Good(n, At(n))
  <2>1. \E h \in [Nat -> S] : Good(n, h)
    BY <1>1
  <2> HIDE DEF Good
  <2> QED
    BY <2>1
<1> HIDE DEF At
<1>4. g \in [Nat -> S]
  BY <1>3
<1>5. g[0] = a
  BY <1>3
<1>6. ASSUME NEW n \in Nat PROVE g[n + 1] = F[g[n]]
  <2>1. Good(n, At(n + 1))
    BY <1>3
  <2>2. At(n + 1)[n] = At(n)[n]
    <3>1. At(n) \in [Nat -> S] /\ At(n + 1) \in [Nat -> S] /\ Good(n, At(n))
      BY <1>3
    <3> HIDE DEF Good
    <3> QED
      BY <1>2, <2>1, <3>1
  <2>3. At(n + 1)[n + 1] = F[At(n + 1)[n]]
    BY <1>3
  <2> QED
    BY <2>2, <2>3
<1> HIDE DEF g
<1> QED
  BY <1>4, <1>5, <1>6

Iterates(g, S, a, F) ==
    g \in [Nat -> S] /\ g[0] = a /\ \A n \in Nat : g[n + 1] = F[g[n]]

LEMMA IterationExists ==
    ASSUME NEW S, NEW a \in S, NEW F \in [S -> S]
    PROVE  \E g : Iterates(g, S, a, F)
BY Iteration DEF Iterates

(* So is iterating functions that depend on the number of the step. *)
Unfolds(g, S, a, F) ==
    g \in [Nat -> S] /\ g[0] = a /\ \A n \in Nat : g[n + 1] = F[n][g[n]]

LEMMA IndexedIteration ==
    ASSUME NEW D, NEW c \in D, NEW H \in [Nat -> [D -> D]]
    PROVE  \E g : Unfolds(g, D, c, H)
<1>1. PICK T : T = Nat \X D
  OBVIOUS
<1>2. PICK G : G = [p \in T |-> <<p[1] + 1, H[p[1]][p[2]]>>]
  OBVIOUS
<1>3. PICK b : b = <<0, c>>
  OBVIOUS
<1>4. PICK h : Iterates(h, T, b, G)
  <2>1. b \in T /\ G \in [T -> T]
    BY <1>1, <1>2, <1>3
  <2> QED
    BY <2>1, IterationExists
<1>5. ASSUME NEW n \in Nat
      PROVE  h[n + 1][1] = h[n][1] + 1 /\ h[n + 1][2] = H[h[n][1]][h[n][2]] /\ h[n][2] \in D
  <2>1. h[n] \in T /\ h[n + 1] = G[h[n]]
    BY <1>4 DEF Iterates
  <2> QED
    BY <1>1, <1>2, <2>1
<1> DEFINE Counted == {n \in Nat : h[n][1] = n}
<1>6. Nat \subseteq Counted
  <2>1. 0 \in Counted
    BY <1>3, <1>4 DEF Iterates
  <2>2. ASSUME NEW n \in Nat, n \in Counted PROVE n + 1 \in Counted
    BY <1>5, <2>2
  <2> HIDE DEF Counted
  <2> QED
    BY <2>1, <2>2, NatSets
<1> DEFINE g == [n \in Nat |-> h[n][2]]
<1>7. g \in [Nat -> D]
  BY <1>5
<1>8. g[0] = c
  BY <1>3, <1>4 DEF Iterates
<1>9. ASSUME NEW n \in Nat PROVE g[n + 1] = H[n][g[n]]
  <2>1. h[n] \in T /\ h[n][1] = n /\ g[n] = h[n][2] /\ g[n + 1] = h[n + 1][2]
    BY <1>4, <1>6 DEF Iterates
  <2> HIDE DEF g, Counted
  <2> QED
    BY <1>5, <2>1
<1> HIDE DEF g
<1> QED
  BY <1>7, <1>8, <1>9 DEF Unfolds

(* The same up to a bound. *)
LEMMA BoundedInduction ==
    ASSUME NEW m \in Nat, NEW S, 0 \in S, \A i \in 1..m : i - 1 \in S => i \in S
    PROVE  \A i \in 0..m : i \in S
<1> DEFINE T == {i \in Nat : i <= m => i \in S}
<1>1. 0 \in T
  OBVIOUS
<1>2. ASSUME NEW i \in Nat, i \in T PROVE i + 1 \in T
  <2> SUFFICES ASSUME i + 1 <= m PROVE i + 1 \in S
    OBVIOUS
  <2>1. i \in S
    BY <1>2
  <2>2. i + 1 \in 1..m /\ (i + 1) - 1 = i
    OBVIOUS
  <2> QED
    BY <2>1, <2>2
<1>3. Nat \subseteq T
  <2> HIDE DEF T
  <2> QED
    BY <1>1, <1>2, NatSets
<1> QED
  BY <1>3

Follows(w, m, D, c, H) ==
    w \in [0..m -> D] /\ w[0] = c /\ \A i \in 1..m : w[i] = H[i][w[i - 1]]

LEMMA BoundedIteration ==
    ASSUME NEW m \in Nat, NEW D, NEW c \in D, NEW H \in [1..m -> [D -> D]]
    PROVE  \E w : Follows(w, m, D, c, H)
<1>1. PICK F : F = [k \in Nat |-> [x \in D |-> IF k + 1 \in 1..m THEN H[k + 1][x] ELSE x]]
  OBVIOUS
<1>2. F \in [Nat -> [D -> D]]
  BY <1>1
<1>3. PICK g : Unfolds(g, D, c, F)
  BY <1>2, IndexedIteration
<1>4. g \in [Nat -> D] /\ g[0] = c
  BY <1>3 DEF Unfolds
<1>5. ASSUME NEW i \in 1..m PROVE g[i] = H[i][g[i - 1]]
  <2>1. i - 1 \in Nat /\ (i - 1) + 1 = i
    OBVIOUS
  <2>2. g[(i - 1) + 1] = F[i - 1][g[i - 1]] /\ g[i - 1] \in D
    BY <1>3, <2>1 DEF Unfolds
  <2>3. F[i - 1][g[i - 1]] = H[i][g[i - 1]]
    BY <1>1, <2>1, <2>2
  <2> QED
    BY <2>1, <2>2, <2>3
<1> DEFINE w == [i \in 0..m |-> g[i]]
<1>6. w \in [0..m -> D] /\ w[0] = c
  BY <1>4
<1>7. ASSUME NEW i \in 1..m PROVE w[i] = H[i][w[i - 1]]
  <2>1. i \in 0..m /\ i - 1 \in 0..m
    OBVIOUS
  <2> QED
    BY <1>5, <2>1
<1> HIDE DEF w
<1> QED
  BY <1>6, <1>7 DEF Follows

(* A growing sequence of subsets of a finite set stops growing: after as   *)
(* many steps as the set has elements, when each member is a function of   *)
(* the one before.                                                         *)
LEMMA GrowthEnds ==
    ASSUME NEW U, IsFiniteSet(U), NEW g \in [Nat -> SUBSET U],
           NEW F \in [SUBSET U -> SUBSET U],
           \A n \in Nat : g[n + 1] = F[g[n]] /\ g[n] \subseteq g[n + 1]
    PROVE  F[g[Cardinality(U)]] = g[Cardinality(U)]
<1> DEFINE Grown == {n \in Nat : F[g[n]] = g[n] \/ Cardinality(g[n]) >= n}
<1>1. ASSUME NEW n \in Nat PROVE IsFiniteSet(g[n]) /\ Cardinality(g[n]) \in Nat
                                /\ Cardinality(g[n]) <= Cardinality(U)
  BY FS_Subset, FS_CardinalityType
<1>2. 0 \in Grown
  BY <1>1
<1>3. ASSUME NEW n \in Nat, n \in Grown PROVE n + 1 \in Grown
  <2>1. CASE F[g[n]] = g[n]
    BY <2>1
  <2>2. CASE F[g[n]] # g[n] /\ Cardinality(g[n]) >= n
    <3>1. g[n] \subseteq g[n + 1] /\ g[n] # g[n + 1]
      BY <2>2
    <3>2. IsFiniteSet(g[n + 1]) /\ Cardinality(g[n]) <= Cardinality(g[n + 1])
          /\ Cardinality(g[n]) # Cardinality(g[n + 1])
      BY <1>1, <3>1, FS_Subset
    <3>3. Cardinality(g[n]) < Cardinality(g[n + 1])
      BY <1>1, <3>2
    <3> QED
      BY <1>1, <2>2, <3>3
  <2> QED
    BY <1>3, <2>1, <2>2
<1>4. Nat \subseteq Grown
  <2> HIDE DEF Grown
  <2> QED
    BY <1>2, <1>3, NatSets
<1>5. Cardinality(U) \in Nat
  BY FS_CardinalityType
<1> DEFINE N == Cardinality(U)
<1>6. CASE Cardinality(g[N]) >= N
  <2>1. g[N] \in SUBSET U /\ Cardinality(g[N]) = Cardinality(U)
    BY <1>1, <1>5, <1>6
  <2>2. g[N] = U
    BY <2>1, FS_Subset
  <2>3. F[U] = U
    <3>1. g[N] \subseteq g[N + 1] /\ g[N + 1] = F[g[N]] /\ g[N + 1] \subseteq U
      BY <1>5
    <3> QED
      BY <2>2, <3>1
  <2> QED
    BY <2>2, <2>3
<1> QED
  BY <1>4, <1>5, <1>6
=============================================================================
