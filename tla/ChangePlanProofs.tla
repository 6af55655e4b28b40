--------------------------- MODULE ChangePlanProofs ---------------------------
(***************************************************************************)
(* The edits of a change plan land on the lines they name, also when the   *)
(* writing of one is cut off, and a plan whose preview was accepted is     *)
(* applied without a refusal when macros are expanded in order; for any    *)
(* source, plans and number of edits of a plan.                            *)
(***************************************************************************)
EXTENDS ChangePlan, IterationProofs, SequenceTheorems

(* F is what s is flattened to, up to each of its elements. *)
Flats(T, s, F) ==
    /\ s \in Seq(Seq(T))
    /\ F \in [0..Len(s) -> Seq(T)]
    /\ F[0] = <<>>
    /\ \A i \in 1..Len(s) : F[i] = F[i - 1] \o s[i]
    /\ F[Len(s)] = FlattenSeq(s)

(* Induction up to n. *)
LEMMA UpTo ==
    ASSUME NEW n \in Nat, NEW S, 0 \in S, \A i \in 1..n : i - 1 \in S => i \in S
    PROVE  0..n \subseteq S
<1> DEFINE B == S \cup {i \in Nat : i > n}
<1>1. \A i \in Nat : i \in B => i + 1 \in B
  <2> SUFFICES ASSUME NEW i \in Nat, i \in B PROVE i + 1 \in B
    OBVIOUS
  <2>1. CASE i >= n
    BY <2>1
  <2>2. CASE i < n
    <3>1. i \in S /\ i + 1 \in 1..n /\ (i + 1) - 1 = i
      BY <2>2
    <3> QED
      BY <3>1
  <2> QED
    BY <2>1, <2>2
<1>2. Nat \subseteq B
  <2>1. 0 \in B
    OBVIOUS
  <2> HIDE DEF B
  <2> QED
    BY <1>1, <2>1, NatSets
<1> QED
  BY <1>2

(* The recursive function of FlattenSeq is defined. *)
LEMMA FlattenDefined ==
    ASSUME NEW s, NEW n \in Nat
    PROVE  \E f : f = [i \in 1..n |-> IF i = 1 THEN s[i] ELSE f[i - 1] \o s[i]]
<1> DEFINE Rec(m, f) == f = [i \in 1..m |-> IF i = 1 THEN s[i] ELSE f[i - 1] \o s[i]]
           S == {m \in Nat : \E f : Rec(m, f)}
<1>1. 0 \in S
  <2>1. Rec(0, [i \in 1..0 |-> s[i]])
    OBVIOUS
  <2> QED
    BY <2>1
<1>2. ASSUME NEW m \in Nat, m \in S PROVE m + 1 \in S
  <2>1. PICK f : Rec(m, f)
    BY <1>2
  <2> DEFINE last == IF m + 1 = 1 THEN s[m + 1] ELSE f[m] \o s[m + 1]
             g == [i \in 1..(m + 1) |-> IF i = m + 1 THEN last ELSE f[i]]
  <2>2. \A i \in 1..m : f[i] = IF i = 1 THEN s[i] ELSE f[i - 1] \o s[i]
    BY <2>1
  <2>3. ASSUME NEW i \in 1..(m + 1)
        PROVE  g[i] = IF i = 1 THEN s[i] ELSE g[i - 1] \o s[i]
    <3>1. CASE i = m + 1
      <4>1. i # 1 => g[i - 1] = f[m]
        BY <3>1
      <4>2. g[i] = last
        BY <3>1
      <4> QED
        BY <3>1, <4>1, <4>2
    <3>2. CASE i # m + 1
      <4>1. i \in 1..m /\ g[i] = f[i] /\ (i # 1 => g[i - 1] = f[i - 1])
        BY <3>2
      <4> QED
        BY <2>2, <4>1
    <3> QED
      BY <3>1, <3>2
  <2>4. g = [i \in 1..(m + 1) |-> g[i]]
    OBVIOUS
  <2>5. Rec(m + 1, g)
    <3> HIDE DEF g
    <3> QED
      BY <2>3, <2>4
  <2>6. \E h : Rec(m + 1, h)
    <3> HIDE DEF Rec
    <3> QED
      BY <2>5
  <2> HIDE DEF Rec
  <2>7. m + 1 \in Nat
    OBVIOUS
  <2> QED
    BY <2>6, <2>7
<1>3. n \in S
  <2> HIDE DEF S
  <2> QED
    BY <1>1, <1>2, NatSets
<1> QED
  BY <1>3

LEMMA Flattened ==
    ASSUME NEW T, NEW s \in Seq(Seq(T))
    PROVE  \E F : Flats(T, s, F)
<1> DEFINE n == Len(s)
<1>0. n \in Nat /\ DOMAIN s = 1..n /\ \A i \in 1..n : s[i] \in Seq(T)
  OBVIOUS
<1>1. CASE n = 0
  <2>1. s = <<>> /\ FlattenSeq(s) = s
    BY <1>1 DEF FlattenSeq
  <2> DEFINE F == [i \in 0..0 |-> <<>>]
  <2>2. Flats(T, s, F)
    BY <1>1, <2>1 DEF Flats
  <2> QED
    BY <2>2
<1>2. CASE n # 0
  <2> DEFINE Rec(f) == f = [i \in 1..n |-> IF i = 1 THEN s[i] ELSE f[i - 1] \o s[i]]
             f == CHOOSE h : Rec(h)
             F == [i \in 0..n |-> IF i = 0 THEN <<>> ELSE f[i]]
  <2>1. FlattenSeq(s) = f[n]
    BY <1>2, Zenon DEF FlattenSeq
  <2>2. Rec(f)
    <3>1. \E h : Rec(h)
      BY <1>0, FlattenDefined
    <3> QED
      BY <3>1
  <2>3. \A i \in 1..n : f[i] = IF i = 1 THEN s[i] ELSE f[i - 1] \o s[i]
    BY <2>2
  <2> HIDE DEF f, Rec
  <2>4. \A i \in 1..n : F[i] = F[i - 1] \o s[i]
    <3> SUFFICES ASSUME NEW i \in 1..n PROVE F[i] = F[i - 1] \o s[i]
      OBVIOUS
    <3>1. CASE i = 1
      <4>1. F[i] = s[i] /\ F[i - 1] = <<>>
        BY <1>0, <2>3, <3>1
      <4> QED
        BY <1>0, <4>1, ConcatEmptySeq
    <3>2. CASE i # 1
      <4>1. F[i] = f[i] /\ F[i - 1] = f[i - 1]
        BY <1>0, <3>2
      <4> QED
        BY <2>3, <3>2, <4>1
    <3> QED
      BY <3>1, <3>2
  <2>5. F[0] = <<>> /\ F[n] = FlattenSeq(s) /\ F = [i \in 0..n |-> F[i]]
    BY <1>0, <1>2, <2>1
  <2> HIDE DEF F
  <2> DEFINE S == {i \in 0..n : F[i] \in Seq(T)}
  <2>6. 0 \in S
    <3>1. 0 \in 0..n /\ <<>> \in Seq(T)
      BY <1>0
    <3> QED
      BY <2>5, <3>1
  <2>7. ASSUME NEW i \in 1..n, i - 1 \in S PROVE i \in S
    <3>1. F[i] = F[i - 1] \o s[i] /\ F[i - 1] \in Seq(T) /\ s[i] \in Seq(T) /\ i \in 0..n
      BY <1>0, <2>4, <2>7
    <3>2. F[i - 1] \o s[i] \in Seq(T)
      BY <3>1, ConcatProperties
    <3> QED
      BY <3>1, <3>2
  <2>8. 0..n \subseteq S
    <3> HIDE DEF S
    <3> QED
      BY <1>0, <2>6, <2>7, UpTo
  <2>9. F \in [0..n -> Seq(T)]
    BY <2>5, <2>8
  <2> QED
    BY <2>4, <2>5, <2>9 DEF Flats
<1> QED
  BY <1>1, <1>2

LEMMA FlatTypes ==
    ASSUME NEW T, NEW s, NEW F, Flats(T, s, F)
    PROVE  /\ Len(s) \in Nat /\ DOMAIN s = 1..Len(s)
           /\ \A i \in 1..Len(s) : s[i] \in Seq(T) /\ F[i] = F[i - 1] \o s[i]
           /\ \A i \in 0..Len(s) : F[i] \in Seq(T)
           /\ F[0] = <<>> /\ F[Len(s)] = FlattenSeq(s) /\ FlattenSeq(s) \in Seq(T)
<1>1. s \in Seq(Seq(T)) /\ Len(s) \in Nat
  BY DEF Flats
<1>2. DOMAIN s = 1..Len(s) /\ \A i \in 1..Len(s) : s[i] \in Seq(T)
  BY <1>1
<1>3. \A i \in 0..Len(s) : F[i] \in Seq(T)
  BY DEF Flats
<1>4. FlattenSeq(s) \in Seq(T)
  BY <1>1, <1>3 DEF Flats
<1> QED
  BY <1>1, <1>2, <1>3, <1>4 DEF Flats

(* What two sequences end with alike adds the same to both. *)
EndAlike(T, s, F, t, G, m) ==
    /\ Flats(T, s, F) /\ Flats(T, t, G)
    /\ Len(s) = Len(t) /\ m \in 0..Len(s)
    /\ \A i \in (m + 1)..Len(s) : s[i] = t[i]

SameTail(T, x, u, y, v) == \E R \in Seq(T) : x = u \o R /\ y = v \o R

LEMMA SameEnd ==
    ASSUME NEW T, NEW s, NEW F, NEW t, NEW G, NEW m, EndAlike(T, s, F, t, G, m)
    PROVE  SameTail(T, FlattenSeq(s), F[m], FlattenSeq(t), G[m])
<1> DEFINE n == Len(s)
           Both(k) == \E R \in Seq(T) : F[m + k] = F[m] \o R /\ G[m + k] = G[m] \o R
           S == {k \in 0..(n - m) : Both(k)}
<1> USE DEF EndAlike
<1>0. /\ n \in Nat /\ F[m] \in Seq(T) /\ G[m] \in Seq(T)
      /\ \A i \in (m + 1)..n : s[i] \in Seq(T) /\ F[i] = F[i - 1] \o s[i] /\ G[i] = G[i - 1] \o s[i]
  <2>1. n \in Nat /\ m \in 0..n /\ Len(t) = n
    BY FlatTypes
  <2>2. F[m] \in Seq(T) /\ G[m] \in Seq(T)
    BY <2>1, FlatTypes
  <2>3. \A i \in (m + 1)..n : i \in 1..n
    BY <2>1
  <2>4. \A i \in 1..n : s[i] \in Seq(T) /\ F[i] = F[i - 1] \o s[i]
    BY FlatTypes
  <2>5. \A i \in 1..Len(t) : G[i] = G[i - 1] \o t[i]
    BY FlatTypes
  <2> QED
    BY <2>1, <2>2, <2>3, <2>4, <2>5
<1>1. 0 \in S
  <2>1. <<>> \in Seq(T) /\ F[m] = F[m] \o <<>> /\ G[m] = G[m] \o <<>> /\ m + 0 = m
    BY <1>0, ConcatEmptySeq
  <2>2. Both(0)
    BY <2>1
  <2> QED
    BY <1>0, <2>2
<1>2. ASSUME NEW k \in 1..(n - m), k - 1 \in S PROVE k \in S
  <2>1. PICK R \in Seq(T) : F[m + (k - 1)] = F[m] \o R /\ G[m + (k - 1)] = G[m] \o R
    BY <1>2
  <2> DEFINE x == s[m + k]
  <2>2. /\ m + k \in (m + 1)..n /\ (m + k) - 1 = m + (k - 1)
        /\ x \in Seq(T)
    <3>1. m + k \in (m + 1)..n /\ (m + k) - 1 = m + (k - 1)
      BY <1>0
    <3> QED
      BY <1>0, <3>1
  <2>3. F[m + k] = (F[m] \o R) \o x /\ G[m + k] = (G[m] \o R) \o x
    BY <1>0, <2>1, <2>2
  <2>4. R \o x \in Seq(T)
    BY <2>2
  <2>5. F[m + k] = F[m] \o (R \o x) /\ G[m + k] = G[m] \o (R \o x)
    <3> HIDE DEF x
    <3>1. F[m] \in Seq(T) /\ G[m] \in Seq(T) /\ R \in Seq(T) /\ x \in Seq(T)
      BY <1>0, <2>2
    <3>2. \A u \in Seq(T) : (u \o R) \o x = u \o (R \o x)
      BY <3>1, ConcatAssociative
    <3>3. /\ (F[m] \o R) \o x = F[m] \o (R \o x)
          /\ (G[m] \o R) \o x = G[m] \o (R \o x)
      BY <3>1, <3>2
    <3> QED
      BY <2>3, <3>3
  <2>6. Both(k)
    BY <2>4, <2>5
  <2>7. k \in 0..(n - m)
    BY <1>0
  <2> QED
    BY <2>6, <2>7
<1>3. 0..(n - m) \subseteq S
  <2>1. n - m \in Nat
    BY <1>0
  <2> HIDE DEF S
  <2> QED
    BY <1>1, <1>2, <2>1, UpTo
<1>4. n - m \in 0..(n - m) /\ m + (n - m) = n
  BY <1>0
<1>5. Both(n - m)
  BY <1>3, <1>4
<1>6. FlattenSeq(s) = F[n] /\ FlattenSeq(t) = G[n]
  BY FlatTypes
<1> QED
  BY <1>4, <1>5, <1>6 DEF SameTail

(* Elements of one line each are the lines. *)
OneEach(T, s, F, b, m) ==
    /\ Flats(T, s, F) /\ b \in Seq(T)
    /\ m \in Nat /\ m <= Len(s) /\ m <= Len(b)
    /\ \A i \in 1..m : s[i] = <<b[i]>>

LEMMA Singles ==
    ASSUME NEW T, NEW s, NEW F, NEW b, NEW m, OneEach(T, s, F, b, m)
    PROVE  F[m] = SubSeq(b, 1, m)
<1> USE DEF OneEach
<1> DEFINE S == {i \in 0..m : F[i] = SubSeq(b, 1, i)}
<1>1. 0 \in S
  <2>1. SubSeq(b, 1, 0) = <<>>
    BY SubSeqEmpty
  <2>2. F[0] = <<>>
    BY DEF Flats
  <2>3. 0 \in 0..m
    OBVIOUS
  <2> QED
    BY <2>1, <2>2, <2>3
<1>2. ASSUME NEW i \in 1..m, i - 1 \in S PROVE i \in S
  <2>1. F[i] = SubSeq(b, 1, i - 1) \o <<b[i]>>
    <3>1. i \in 1..Len(s) /\ s[i] = <<b[i]>>
      BY FlatTypes
    <3>2. F[i] = F[i - 1] \o s[i]
      BY <3>1, FlatTypes
    <3> QED
      BY <1>2, <3>1, <3>2
  <2>2. SubSeq(b, 1, i - 1) \in Seq(T) /\ b[i] \in T /\ SubSeq(b, 1, i) \in Seq(T)
    OBVIOUS
  <2>3. SubSeq(b, 1, i) = SubSeq(b, 1, i - 1) \o <<b[i]>>
    <3>1. Len(SubSeq(b, 1, i - 1)) = i - 1 /\ Len(SubSeq(b, 1, i)) = i
      OBVIOUS
    <3>2. \A j \in 1..i : SubSeq(b, 1, i)[j] = b[j]
      OBVIOUS
    <3>3. \A j \in 1..(i - 1) : SubSeq(b, 1, i - 1)[j] = b[j]
      OBVIOUS
    <3> DEFINE u == SubSeq(b, 1, i - 1) \o <<b[i]>>
    <3>4. u \in Seq(T) /\ Len(u) = i
      BY <2>2, <3>1
    <3>5. \A j \in 1..i : u[j] = b[j]
      BY <2>2, <3>1, <3>3
    <3> HIDE DEF u
    <3>6. u = SubSeq(b, 1, i)
      BY <2>2, <3>1, <3>2, <3>4, <3>5, SeqEqual
    <3> QED
      BY <3>6 DEF u
  <2>4. i \in 0..m
    OBVIOUS
  <2> QED
    BY <2>1, <2>3, <2>4
<1>3. 0..m \subseteq S
  <2> HIDE DEF S
  <2> QED
    BY <1>1, <1>2, UpTo
<1> QED
  BY <1>3
-----------------------------------------------------------------------------
(* A plan's edits, one more at a time from the bottom up. *)

(* What becomes of line i of b. *)
NewOf(A) == (CHOOSE e \in A : TRUE).new

Made(b, E, i) ==
    LET starts == {e \in E : e.lo = i}
        inside == \E e \in E : e.lo <= i /\ i <= e.hi
    IN  IF starts # {} THEN NewOf(starts)
        ELSE IF inside THEN <<>> ELSE <<b[i]>>

AllMade(b, E) == [i \in DOMAIN b |-> Made(b, E, i)]

LEMMA PatchedIsMade ==
    ASSUME NEW T, NEW b \in Seq(T), NEW E, \A e \in E : e.new \in Seq(T)
    PROVE  /\ AllPatched(b, E) = FlattenSeq(AllMade(b, E))
           /\ AllMade(b, E) \in Seq(Seq(T))
           /\ Len(AllMade(b, E)) = Len(b)
<1>1. AllPatched(b, E) = FlattenSeq(AllMade(b, E))
  BY Zenon DEF AllPatched, AllMade, Made, NewOf
<1>2. ASSUME NEW i \in 1..Len(b) PROVE Made(b, E, i) \in Seq(T)
  <2> DEFINE starts == {e \in E : e.lo = i}
  <2>1. starts # {} => (CHOOSE e \in starts : TRUE) \in E
    OBVIOUS
  <2>2. <<>> \in Seq(T) /\ <<b[i]>> \in Seq(T)
    OBVIOUS
  <2> QED
    BY <2>1, <2>2 DEF Made, NewOf
<1> QED
  BY <1>1, <1>2 DEF AllMade

LEMMA NothingMade ==
    ASSUME NEW T, NEW b \in Seq(T)
    PROVE  AllPatched(b, {}) = b
<1> DEFINE s == AllMade(b, {})
<1>1. AllPatched(b, {}) = FlattenSeq(s) /\ s \in Seq(Seq(T)) /\ Len(s) = Len(b)
  BY PatchedIsMade
<1>2. \A i \in 1..Len(b) : s[i] = <<b[i]>>
  BY DEF AllMade, Made
<1> HIDE DEF s
<1>3. PICK F : Flats(T, s, F)
  BY <1>1, Flattened
<1>4. F[Len(b)] = SubSeq(b, 1, Len(b))
  <2>1. Len(b) \in Nat /\ Len(b) <= Len(s) /\ Len(b) <= Len(b)
    BY <1>1
  <2>2. OneEach(T, s, F, b, Len(b))
    BY <1>2, <1>3, <2>1 DEF OneEach
  <2> QED
    BY <2>2, Singles
<1>5. SubSeq(b, 1, Len(b)) = b
  BY SubSeqFull
<1> QED
  BY <1>1, <1>3, <1>4, <1>5 DEF Flats

(* Text that is cut out of a concatenation. *)
LEMMA CutAround ==
    ASSUME NEW T, NEW x \in Seq(T), NEW y \in Seq(T),
           NEW m \in 0..Len(x)
    PROVE  /\ SubSeq(x \o y, 1, m) = SubSeq(x, 1, m)
           /\ SubSeq(x \o y, Len(x) + 1, Len(x \o y)) = y
<1> DEFINE z == x \o y
<1>0. /\ z \in Seq(T) /\ Len(z) = Len(x) + Len(y) /\ Len(x) \in Nat /\ Len(y) \in Nat
      /\ \A i \in 1..Len(x) : z[i] = x[i]
      /\ \A i \in 1..Len(y) : z[Len(x) + i] = y[i]
  BY ConcatProperties
<1> HIDE DEF z
<1>1. SubSeq(z, 1, m) = SubSeq(x, 1, m)
  <2>1. /\ SubSeq(z, 1, m) \in Seq(T) /\ SubSeq(x, 1, m) \in Seq(T)
        /\ Len(SubSeq(z, 1, m)) = m /\ Len(SubSeq(x, 1, m)) = m
        /\ \A i \in 1..m : SubSeq(z, 1, m)[i] = z[i] /\ SubSeq(x, 1, m)[i] = x[i]
    BY <1>0
  <2>2. \A i \in 1..m : z[i] = x[i]
    BY <1>0
  <2> QED
    BY <2>1, <2>2, SeqEqual
<1>2. SubSeq(z, Len(x) + 1, Len(z)) = y
  <2> DEFINE t == SubSeq(z, Len(x) + 1, Len(z))
  <2>1. /\ t \in Seq(T) /\ Len(t) = Len(y)
        /\ \A i \in 1..Len(y) : t[i] = z[Len(x) + i]
    BY <1>0
  <2> HIDE DEF t
  <2>2. t = y
    BY <1>0, <2>1, SeqEqual
  <2> QED
    BY <2>2 DEF t
<1> QED
  BY <1>1, <1>2 DEF z

BeginsWith(T, x, u) == \E R \in Seq(T) : x = u \o R

Associates(T) == \A p, q, r \in Seq(T) : (p \o q) \o r = p \o (q \o r)

LEMMA SequencesAssociate == ASSUME NEW T PROVE Associates(T)
<1> SUFFICES ASSUME NEW p \in Seq(T), NEW q \in Seq(T), NEW r \in Seq(T)
             PROVE  (p \o q) \o r = p \o (q \o r)
  BY DEF Associates
<1>1. (p \o q) \o r = p \o (q \o r)
  BY ConcatAssociative
<1> QED
  BY <1>1

(* What begins a beginning begins the whole. *)
LEMMA BeginningOfBeginning ==
    ASSUME NEW T, NEW x \in Seq(T), NEW u \in Seq(T), NEW v \in Seq(T),
           BeginsWith(T, x, u), BeginsWith(T, u, v)
    PROVE  BeginsWith(T, x, v)
<1>1. PICK R \in Seq(T) : x = u \o R
  BY DEF BeginsWith
<1>2. PICK Q \in Seq(T) : u = v \o Q
  BY DEF BeginsWith
<1>3. (v \o Q) \o R = v \o (Q \o R) /\ Q \o R \in Seq(T)
  BY <1>1, <1>2, ConcatAssociative, ConcatProperties
<1> QED
  BY <1>1, <1>2, <1>3 DEF BeginsWith

(* The first lines of a text, all of them or none. *)
LEMMA FirstLines ==
    ASSUME NEW T, NEW x \in Seq(T), NEW n \in 0..Len(x)
    PROVE  SubSeq(x, 1, n) \in Seq(T) /\ BeginsWith(T, x, SubSeq(x, 1, n))
<1> DEFINE u == SubSeq(x, 1, n)
           v == SubSeq(x, n + 1, Len(x))
<1>1. u \in Seq(T) /\ v \in Seq(T) /\ Len(u) = n /\ Len(v) = Len(x) - n
  OBVIOUS
<1>2. /\ \A i \in 1..n : u[i] = x[i]
      /\ \A i \in 1..(Len(x) - n) : v[i] = x[n + i]
  OBVIOUS
<1> HIDE DEF u, v
<1>3. /\ u \o v \in Seq(T) /\ Len(u \o v) = Len(x)
      /\ \A i \in 1..Len(x) : (u \o v)[i] = x[i]
  <2>1. u \o v \in Seq(T) /\ Len(u \o v) = Len(u) + Len(v)
    BY <1>1, ConcatProperties
  <2>2. ASSUME NEW i \in 1..Len(x) PROVE (u \o v)[i] = x[i]
    <3>1. CASE i <= n
      BY <1>1, <1>2, <3>1, ConcatProperties
    <3>2. CASE i > n
      <4>1. i - n \in 1..Len(v) /\ n + (i - n) = i
        BY <1>1, <3>2
      <4>2. (u \o v)[Len(u) + (i - n)] = v[i - n]
        BY <1>1, <4>1, ConcatProperties
      <4> QED
        BY <1>1, <1>2, <4>1, <4>2
    <3>3. i \in Nat /\ n \in Nat
      OBVIOUS
    <3>4. i <= n \/ i > n
      BY <3>3
    <3> QED
      BY <3>1, <3>2, <3>4
  <2> QED
    BY <1>1, <2>1, <2>2
<1>4. x = u \o v
  BY <1>3, SeqEqual
<1> QED
  BY <1>1, <1>4 DEF BeginsWith, u

LEMMA BeginsWithItself ==
    ASSUME NEW T, NEW x \in Seq(T)
    PROVE  BeginsWith(T, x, x) /\ BeginsWith(T, x, <<>>)
<1>1. x = x \o <<>> /\ x = <<>> \o x /\ <<>> \in Seq(T)
  BY ConcatEmptySeq
<1> QED
  BY <1>1 DEF BeginsWith

LEMMA BeginningIsPrefix ==
    ASSUME NEW T, NEW x \in Seq(T), NEW u \in Seq(T), BeginsWith(T, x, u)
    PROVE  IsPrefix(u, x) /\ Len(u) <= Len(x)
<1>1. PICK R \in Seq(T) : x = u \o R
  BY DEF BeginsWith
<1>2. Len(x) = Len(u) + Len(R) /\ Len(u) \in Nat /\ Len(R) \in Nat /\ Len(u) \in 0..Len(u)
  BY <1>1, ConcatProperties
<1>3. SubSeq(x, 1, Len(u)) = SubSeq(u, 1, Len(u))
  BY <1>1, <1>2, CutAround
<1> QED
  BY <1>2, <1>3 DEF IsPrefix

(* An edit of a beginning makes of it a beginning of what it makes of the  *)
(* whole.                                                                  *)
LEMMA PatchedBeginning ==
    ASSUME NEW T, NEW x \in Seq(T), NEW u \in Seq(T), BeginsWith(T, x, u),
           NEW e, e.lo \in Nat, e.hi \in Nat, e.new \in Seq(T),
           1 <= e.lo, e.lo <= e.hi, e.hi <= Len(u)
    PROVE  Patched(u, e) \in Seq(T) /\ BeginsWith(T, Patched(x, e), Patched(u, e))
<1> DEFINE lo == e.lo
           hi == e.hi
           a == SubSeq(u, 1, lo - 1)
           h == SubSeq(u, 1, hi)
           d == SubSeq(u, hi + 1, Len(u))
<1>0. Associates(T)
  BY SequencesAssociate
<1>1. PICK R \in Seq(T) : x = u \o R
  BY DEF BeginsWith
<1>2. /\ lo \in Nat /\ hi \in Nat /\ Len(u) \in Nat /\ Len(R) \in Nat
      /\ hi <= Len(u) /\ lo - 1 \in 0..Len(u) /\ lo - 1 \in 0..hi
  OBVIOUS
<1>3. a \in Seq(T) /\ h \in Seq(T) /\ d \in Seq(T) /\ Len(h) = hi
  BY <1>2
<1>4. SubSeq(x, 1, lo - 1) = a
  BY <1>1, <1>2, CutAround
<1>5. u = h \o d
  <2>1. hi \in 0..Len(u)
    BY <1>2
  <2>2. PICK Q \in Seq(T) : u = h \o Q
    <3>1. PICK n : n = hi
      OBVIOUS
    <3>2. BeginsWith(T, u, SubSeq(u, 1, n))
      BY <2>1, <3>1, FirstLines
    <3> QED
      BY <3>1, <3>2 DEF BeginsWith
  <2>3. SubSeq(h \o Q, Len(h) + 1, Len(h \o Q)) = Q
    <3>1. 0 \in 0..Len(h)
      BY <1>2, <1>3
    <3> QED
      BY <1>3, <3>1, CutAround
  <2>4. d = Q
    BY <1>3, <2>2, <2>3
  <2> QED
    BY <2>2, <2>4
<1> HIDE DEF a, d, h
<1>6. x = h \o (d \o R) /\ d \o R \in Seq(T)
  <2>1. h \in Seq(T) /\ d \in Seq(T) /\ R \in Seq(T)
    BY <1>3
  <2>2. (h \o d) \o R = h \o (d \o R)
    BY <1>0, <2>1 DEF Associates
  <2>3. d \o R \in Seq(T)
    BY <2>1, ConcatProperties
  <2> QED
    BY <1>1, <1>5, <2>2, <2>3
<1>7. SubSeq(x, hi + 1, Len(x)) = d \o R
  <2> DEFINE q == d \o R
  <2>1. 0 \in 0..Len(h) /\ q \in Seq(T)
    BY <1>2, <1>3, <1>6
  <2> HIDE DEF q
  <2>2. SubSeq(h \o q, Len(h) + 1, Len(h \o q)) = q
    BY <1>3, <2>1, CutAround
  <2> QED
    BY <1>3, <1>6, <2>2 DEF q
<1>8. Patched(x, e) = (a \o e.new) \o (d \o R) /\ Patched(u, e) = (a \o e.new) \o d
  BY <1>4, <1>7 DEF Patched, a, d
<1>9. a \o e.new \in Seq(T) /\ (a \o e.new) \o d \in Seq(T)
  BY <1>3, ConcatProperties
<1>10. (a \o e.new) \o (d \o R) = ((a \o e.new) \o d) \o R
  <2> DEFINE g == a \o e.new
  <2> HIDE DEF g
  <2>1. g \in Seq(T)
    BY <1>9 DEF g
  <2>2. d \in Seq(T) /\ R \in Seq(T)
    BY <1>3
  <2>3. g \o (d \o R) = (g \o d) \o R
    BY <1>0, <2>1, <2>2 DEF Associates
  <2> QED
    BY <2>3 DEF g
<1> QED
  BY <1>8, <1>9, <1>10 DEF BeginsWith

(* An edit above all others patches what they have made of the text. *)
LEMMA OneMoreMade ==
    ASSUME NEW T, NEW b \in Seq(T), NEW E, NEW e,
           \A x \in E \cup {e} : x.new \in Seq(T) /\ x.lo \in Nat /\ x.hi \in Nat,
           1 <= e.lo, e.lo <= e.hi, e.hi <= Len(b), \A x \in E : e.hi < x.lo
    PROVE  /\ AllPatched(b, E) \in Seq(T)
           /\ e.hi <= Len(AllPatched(b, E))
           /\ AllPatched(b, E \cup {e}) = Patched(AllPatched(b, E), e)
           /\ BeginsWith(T, Patched(AllPatched(b, E), e), SubSeq(b, 1, e.lo - 1) \o e.new)
<1> DEFINE n == Len(b)
           lo == e.lo
           hi == e.hi
           s == AllMade(b, E)
           t == AllMade(b, E \cup {e})
           a == SubSeq(b, 1, lo - 1)
           ab == SubSeq(b, 1, hi)
           src0 == AllPatched(b, E)
<1>0. /\ n \in Nat /\ lo \in Nat /\ hi \in Nat /\ lo - 1 \in Nat
      /\ 1 <= lo /\ lo <= hi /\ hi <= n /\ e.new \in Seq(T)
  OBVIOUS
<1>1. src0 = FlattenSeq(s) /\ s \in Seq(Seq(T)) /\ Len(s) = n
  BY PatchedIsMade
<1>2. AllPatched(b, E \cup {e}) = FlattenSeq(t) /\ t \in Seq(Seq(T)) /\ Len(t) = n
  BY PatchedIsMade
<1>3. \A i \in 1..hi : s[i] = <<b[i]>>
  <2> SUFFICES ASSUME NEW i \in 1..hi PROVE Made(b, E, i) = <<b[i]>>
    BY <1>0 DEF AllMade
  <2>1. \A x \in E : i < x.lo
    BY <1>0
  <2>2. {x \in E : x.lo = i} = {} /\ ~\E x \in E : x.lo <= i /\ i <= x.hi
    BY <1>0, <2>1
  <2> QED
    BY <2>2 DEF Made
<1>4. /\ \A i \in 1..(lo - 1) : t[i] = <<b[i]>>
      /\ t[lo] = e.new
      /\ \A i \in (lo + 1)..hi : t[i] = <<>>
      /\ \A i \in (hi + 1)..n : t[i] = s[i]
  <2>1. \A i \in 1..n : t[i] = Made(b, E \cup {e}, i) /\ s[i] = Made(b, E, i)
    BY DEF AllMade
  <2>2. ASSUME NEW i \in 1..hi
        PROVE  {x \in E \cup {e} : x.lo = i} = IF i = lo THEN {e} ELSE {}
    BY <1>0
  <2>3. ASSUME NEW i \in 1..hi
        PROVE  (\E x \in E \cup {e} : x.lo <= i /\ i <= x.hi) <=> lo <= i
    BY <1>0
  <2>4. (CHOOSE x \in {e} : TRUE) = e
    OBVIOUS
  <2>5. ASSUME NEW i \in 1..(lo - 1) PROVE t[i] = <<b[i]>>
    <3>1. i \in 1..hi /\ i \in 1..n /\ i # lo /\ ~(lo <= i)
      BY <1>0
    <3> QED
      BY <2>1, <2>2, <2>3, <3>1 DEF Made
  <2>6. t[lo] = e.new
    <3>1. lo \in 1..hi /\ lo \in 1..n
      BY <1>0
    <3>2. {x \in E \cup {e} : x.lo = lo} = {e}
      BY <2>2, <3>1
    <3>3. Made(b, E \cup {e}, lo) = e.new
      BY <2>4, <3>2 DEF Made, NewOf
    <3> QED
      BY <2>1, <3>1, <3>3
  <2>7. ASSUME NEW i \in (lo + 1)..hi PROVE t[i] = <<>>
    <3>1. i \in 1..hi /\ i \in 1..n /\ i # lo /\ lo <= i
      BY <1>0
    <3> QED
      BY <2>1, <2>2, <2>3, <3>1 DEF Made
  <2>8. ASSUME NEW i \in (hi + 1)..n PROVE t[i] = s[i]
    <3>1. i \in 1..n /\ i # lo /\ ~(i <= hi)
      BY <1>0
    <3>2. {x \in E \cup {e} : x.lo = i} = {x \in E : x.lo = i}
      BY <3>1
    <3>3. (\E x \in E \cup {e} : x.lo <= i /\ i <= x.hi) <=> (\E x \in E : x.lo <= i /\ i <= x.hi)
      BY <3>1
    <3>4. Made(b, E \cup {e}, i) = Made(b, E, i)
      BY <3>2, <3>3 DEF Made
    <3> QED
      BY <2>1, <3>1, <3>4
  <2> QED
    BY <2>5, <2>6, <2>7, <2>8
<1> HIDE DEF s, t
<1>5. PICK F : Flats(T, s, F)
  BY <1>1, Flattened
<1>6. PICK G : Flats(T, t, G)
  BY <1>2, Flattened
<1>7. F[hi] = ab
  <2>1. hi \in Nat /\ hi <= Len(s) /\ hi <= Len(b)
    BY <1>0, <1>1
  <2>2. OneEach(T, s, F, b, hi)
    BY <1>3, <1>5, <2>1 DEF OneEach
  <2> QED
    BY <2>2, Singles
<1>8. G[lo - 1] = a
  <2>1. lo - 1 \in Nat /\ lo - 1 <= Len(t) /\ lo - 1 <= Len(b)
    BY <1>0, <1>2
  <2>2. OneEach(T, t, G, b, lo - 1)
    BY <1>4, <1>6, <2>1 DEF OneEach
  <2> QED
    BY <2>2, Singles
<1>9. a \in Seq(T) /\ ab \in Seq(T) /\ Len(a) = lo - 1 /\ Len(ab) = hi /\ a \o e.new \in Seq(T)
  <2>1. a \in Seq(T) /\ ab \in Seq(T) /\ Len(a) = lo - 1 /\ Len(ab) = hi
    BY <1>0
  <2> QED
    BY <1>0, <2>1, ConcatProperties
<1>10. G[hi] = a \o e.new
  <2> DEFINE S == {k \in 0..(hi - lo) : G[lo + k] = a \o e.new}
  <2>1. 0 \in S
    <3>1. lo \in 1..Len(t) /\ 0 \in 0..(hi - lo) /\ lo + 0 = lo
      BY <1>0, <1>2
    <3>2. G[lo] = G[lo - 1] \o t[lo]
      BY <1>6, <3>1 DEF Flats
    <3> QED
      BY <1>4, <1>8, <3>1, <3>2
  <2>2. ASSUME NEW k \in 1..(hi - lo), k - 1 \in S PROVE k \in S
    <3>1. /\ lo + k \in 1..Len(t) /\ k \in 0..(hi - lo) /\ (lo + k) - 1 = lo + (k - 1)
          /\ lo + k \in (lo + 1)..hi
      BY <1>0, <1>2
    <3>2. G[lo + k] = G[(lo + k) - 1] \o t[lo + k]
      BY <1>6, <3>1, FlatTypes
    <3>3. G[lo + k] = (a \o e.new) \o <<>>
      BY <1>4, <2>2, <3>1, <3>2
    <3>4. (a \o e.new) \o <<>> = a \o e.new
      BY <1>9, ConcatEmptySeq
    <3> QED
      BY <3>1, <3>3, <3>4
  <2>3. hi - lo \in Nat /\ lo + (hi - lo) = hi /\ hi - lo \in 0..(hi - lo)
    BY <1>0
  <2>4. 0..(hi - lo) \subseteq S
    <3> HIDE DEF S
    <3> QED
      BY <2>1, <2>2, <2>3, UpTo
  <2> QED
    BY <2>3, <2>4
<1>11. PICK R \in Seq(T) : FlattenSeq(s) = F[hi] \o R /\ FlattenSeq(t) = G[hi] \o R
  <2>1. Len(s) = n /\ Len(s) = Len(t) /\ hi \in 0..Len(s) /\ \A i \in (hi + 1)..Len(s) : s[i] = t[i]
    BY <1>0, <1>1, <1>2, <1>4
  <2>2. EndAlike(T, s, F, t, G, hi)
    BY <1>5, <1>6, <2>1 DEF EndAlike
  <2>3. SameTail(T, FlattenSeq(s), F[hi], FlattenSeq(t), G[hi])
    BY <2>2, SameEnd
  <2> QED
    BY <2>3 DEF SameTail
<1> HIDE DEF a, ab, src0, lo, hi
<1>12. src0 = ab \o R /\ AllPatched(b, E \cup {e}) = (a \o e.new) \o R
  BY <1>1, <1>2, <1>7, <1>10, <1>11
<1>13. src0 \in Seq(T) /\ hi <= Len(src0)
  BY <1>0, <1>9, <1>12, ConcatProperties
<1>14. SubSeq(src0, 1, lo - 1) = a
  <2>1. lo - 1 \in 0..Len(ab)
    BY <1>0, <1>9
  <2>2. SubSeq(ab \o R, 1, lo - 1) = SubSeq(ab, 1, lo - 1)
    BY <1>9, <2>1, CutAround
  <2>3. SubSeq(ab, 1, lo - 1) = a
    <3>1. /\ SubSeq(ab, 1, lo - 1) \in Seq(T) /\ Len(SubSeq(ab, 1, lo - 1)) = lo - 1
          /\ \A i \in 1..(lo - 1) : SubSeq(ab, 1, lo - 1)[i] = ab[i]
      BY <1>0, <1>9
    <3>2. \A i \in 1..(lo - 1) : ab[i] = b[i] /\ a[i] = b[i]
      BY <1>0 DEF a, ab
    <3> DEFINE u == SubSeq(ab, 1, lo - 1)
    <3>3. u \in Seq(T) /\ Len(u) = Len(a) /\ \A i \in 1..Len(u) : u[i] = a[i]
      BY <1>9, <3>1, <3>2
    <3> HIDE DEF u
    <3>4. u = a
      BY <1>9, <3>3, SeqEqual
    <3> QED
      BY <3>4 DEF u
  <2> QED
    BY <1>12, <2>2, <2>3
<1>15. SubSeq(src0, hi + 1, Len(src0)) = R
  <2>1. 0 \in 0..Len(ab)
    BY <1>0, <1>9
  <2> QED
    BY <1>9, <1>12, <2>1, CutAround
<1>16. Patched(src0, e) = (a \o e.new) \o R
  BY <1>14, <1>15 DEF Patched, lo, hi
<1> QED
  BY <1>12, <1>13, <1>16 DEF a, src0, lo, hi, BeginsWith
-----------------------------------------------------------------------------
(* The order of the edits. *)

LEMMA PlansAreTyped ==
    ASSUME NEW p \in Plans
    PROVE  /\ p \in Seq(PlanEdit) /\ Len(p) \in Nat /\ DOMAIN p = 1..Len(p)
           /\ \A i \in DOMAIN p : /\ p[i].lo \in Nat /\ p[i].hi \in Nat /\ p[i].at \in Nat
                                  /\ p[i].new \in Seq(Lines)
<1>1. p \in Seq(PlanEdit) /\ Len(p) \in Nat /\ DOMAIN p = 1..Len(p)
  BY ConstantsOK
<1>2. \A i \in DOMAIN p : p[i] \in PlanEdit
  BY <1>1
<1> QED
  BY <1>1, <1>2 DEF PlanEdit

Rank(p, i) == Cardinality(Below(p, i))

(* Every edit has a place of its own: the number of those below it. *)
LEMMA RanksAreOnto ==
    ASSUME NEW p \in Plans, Valid(p)
    PROVE  /\ \A i \in DOMAIN p : Rank(p, i) \in 0..(Len(p) - 1)
           /\ \A i, j \in DOMAIN p : p[i].lo < p[j].lo => Rank(p, j) < Rank(p, i)
           /\ \A i, j \in DOMAIN p : i # j => p[i].lo # p[j].lo
           /\ \A k \in 0..(Len(p) - 1) : \E i \in DOMAIN p : Rank(p, i) = k
<1> DEFINE n == Len(p)
           D == DOMAIN p
<1>0. /\ n \in Nat /\ D = 1..n /\ IsFiniteSet(D) /\ Cardinality(D) = n
      /\ \A i \in D : p[i].lo \in Nat /\ p[i].hi \in Nat /\ p[i].lo <= p[i].hi
  <2>1. n \in Nat /\ D = 1..n /\ \A i \in D : p[i].lo \in Nat /\ p[i].hi \in Nat
    BY PlansAreTyped
  <2>2. IsFiniteSet(1..n) /\ Cardinality(1..n) = n
    BY <2>1, FS_Interval
  <2> QED
    BY <2>1, <2>2 DEF Valid
<1>1. \A i, j \in D : i # j => p[i].lo # p[j].lo
  BY <1>0 DEF Valid, Overlap
<1>2. \A i, j \in D : j \in Below(p, i) <=> p[j].lo > p[i].lo
  <2>1. \A i, j \in D : i # j /\ p[j].lo = p[i].lo => FALSE
    BY <1>1
  <2>2. ASSUME NEW i \in D, NEW j \in D PROVE j \in Below(p, i) <=> p[j].lo > p[i].lo
    <3>1. CASE i = j
      BY <1>0, <3>1 DEF Below
    <3>2. CASE i # j
      BY <1>0, <2>1, <3>2 DEF Below
    <3> QED
      BY <3>1, <3>2
  <2> QED
    BY <2>2
<1>3. \A i \in D : Below(p, i) \subseteq D
  BY DEF Below
<1>4. ASSUME NEW i \in D
      PROVE  /\ IsFiniteSet(Below(p, i)) /\ Rank(p, i) \in Nat
             /\ Below(p, i) \subseteq D \ {i} /\ Rank(p, i) \in 0..(n - 1)
  <2>1. Below(p, i) \subseteq D \ {i}
    BY <1>0, <1>2, <1>3
  <2>2. IsFiniteSet(D \ {i}) /\ Cardinality(D \ {i}) = n - 1
    BY <1>0, FS_RemoveElement
  <2>3. IsFiniteSet(Below(p, i)) /\ Rank(p, i) <= n - 1
    BY <2>1, <2>2, FS_Subset DEF Rank
  <2>4. Rank(p, i) \in Nat
    BY <2>3, FS_CardinalityType DEF Rank
  <2> QED
    BY <1>0, <2>1, <2>3, <2>4
<1>5. ASSUME NEW i \in D, NEW j \in D, p[i].lo < p[j].lo PROVE Rank(p, j) < Rank(p, i)
  <2>1. Below(p, j) \in SUBSET Below(p, i)
    BY <1>0, <1>5, <1>2, <1>3
  <2>2. j \in Below(p, i) /\ j \notin Below(p, j)
    BY <1>0, <1>5, <1>2
  <2>3. IsFiniteSet(Below(p, i)) /\ Rank(p, i) \in Nat /\ Rank(p, j) \in Nat
    BY <1>4
  <2>4. Rank(p, j) <= Rank(p, i) /\ (Rank(p, i) = Rank(p, j) => Below(p, i) = Below(p, j))
    BY <2>1, <2>3, FS_Subset DEF Rank
  <2> QED
    BY <2>2, <2>3, <2>4
<1>6. ASSUME NEW k \in 0..(n - 1) PROVE \E i \in D : Rank(p, i) = k
  <2> DEFINE R == 0..(n - 1)
             f == [i \in D |-> Rank(p, i)]
  <2>1. f \in [D -> R]
    BY <1>4
  <2>2. \A i, j \in D : f[i] = f[j] => i = j
    <3>1. \A i, j \in D : i # j => p[i].lo < p[j].lo \/ p[j].lo < p[i].lo
      BY <1>0, <1>1
    <3>2. \A i \in D : Rank(p, i) \in Nat
      BY <1>4
    <3> QED
      BY <1>5, <3>1, <3>2
  <2>3. f \in Injection(D, R)
    <3> HIDE DEF D, R, f
    <3> QED
      BY <2>1, <2>2 DEF Injection, IsInjective
  <2>4. IsFiniteSet(R) /\ Cardinality(R) = n
    <3>1. 0 \in Int /\ n - 1 \in Int
      BY <1>0
    <3>2. IsFiniteSet(R) /\ Cardinality(R) = IF 0 > n - 1 THEN 0 ELSE (n - 1) - 0 + 1
      BY <3>1, FS_Interval
    <3> QED
      BY <1>0, <3>2
  <2> HIDE DEF D, R, f
  <2>5. f \in Surjection(D, R)
    BY <1>0, <2>3, <2>4, FS_Injection
  <2>6. PICK i \in D : f[i] = k
    BY <2>5 DEF Surjection, R
  <2> QED
    BY <2>6 DEF f
<1> QED
  BY <1>1, <1>4, <1>5, <1>6

(* Every edit has its turn, each above all that come before it. *)
LEMMA OrderIsBottomUp ==
    ASSUME NEW p \in Plans, Valid(p)
    PROVE  /\ DOMAIN Order(p) = 1..Len(p)
           /\ \A k \in 1..Len(p) : Order(p)[k] \in DOMAIN p
           /\ \A k, l \in 1..Len(p) : k < l => p[Order(p)[l]].hi < p[Order(p)[k]].lo
           /\ \A i \in DOMAIN p : \E k \in 1..Len(p) : Order(p)[k] = i
<1> DEFINE n == Len(p)
<1>0. /\ n \in Nat /\ DOMAIN p = 1..n
      /\ \A i \in DOMAIN p : p[i].lo \in Nat /\ p[i].hi \in Nat
  BY PlansAreTyped
<1>1. DOMAIN Order(p) = 1..n
  BY <1>0 DEF Order
<1>2. ASSUME NEW k \in 1..n
      PROVE  Order(p)[k] \in DOMAIN p /\ Rank(p, Order(p)[k]) = k - 1
  <2>1. Order(p)[k] = CHOOSE i \in DOMAIN p : Rank(p, i) = k - 1
    BY <1>0 DEF Order, Rank
  <2>2. k - 1 \in 0..(n - 1)
    BY <1>0
  <2>3. \E i \in DOMAIN p : Rank(p, i) = k - 1
    BY <2>2, RanksAreOnto
  <2> QED
    BY <2>1, <2>3
<1>3. ASSUME NEW k \in 1..n, NEW l \in 1..n, k < l
      PROVE  p[Order(p)[l]].hi < p[Order(p)[k]].lo
  <2> DEFINE i == Order(p)[k]
             j == Order(p)[l]
  <2>1. i \in DOMAIN p /\ j \in DOMAIN p /\ Rank(p, i) = k - 1 /\ Rank(p, j) = l - 1
    BY <1>2
  <2>2. i # j /\ ~(Rank(p, j) < Rank(p, i))
    BY <1>0, <1>3, <2>1
  <2> HIDE DEF i, j
  <2>3. ~(p[i].lo < p[j].lo) /\ p[i].lo # p[j].lo
    BY <2>1, <2>2, RanksAreOnto
  <2>4. p[j].lo <= p[i].lo
    BY <1>0, <2>1, <2>3
  <2>5. ~(p[i].lo <= p[j].hi)
    BY <2>1, <2>2, <2>4 DEF Valid, Overlap
  <2> QED
    BY <1>0, <2>1, <2>5 DEF i, j
<1>4. ASSUME NEW i \in DOMAIN p PROVE \E k \in 1..n : Order(p)[k] = i
  <2>1. Rank(p, i) \in 0..(n - 1)
    BY RanksAreOnto
  <2> DEFINE k == Rank(p, i) + 1
             j == Order(p)[k]
  <2>2. k \in 1..n /\ k - 1 = Rank(p, i)
    BY <1>0, <2>1
  <2>3. j \in DOMAIN p /\ Rank(p, j) = Rank(p, i)
    BY <1>2, <2>2
  <2> HIDE DEF j
  <2>4. ~(p[i].lo < p[j].lo) /\ ~(p[j].lo < p[i].lo)
    BY <1>0, <2>1, <2>3, RanksAreOnto
  <2>5. i = j
    BY <1>0, <2>3, <2>4, RanksAreOnto
  <2> QED
    BY <2>2, <2>5 DEF j
<1> QED
  BY <1>1, <1>2, <1>3, <1>4
-----------------------------------------------------------------------------
(* The inductive invariants. *)

MadeBy(J) == {plan[j] : j \in J}

(* What was written, whole or cut off, and the text it should have made. *)
Tried == applied \cup cut
Whole == AllPatched(before, MadeBy(Tried))

(* While only the plan changes the source, what was written is among the   *)
(* edits whose turn it was, each in lines that the source had, and the     *)
(* source begins what they make of it.                                     *)
Landing ==
    /\ Valid(plan) /\ before \in Seq(Lines)
    /\ call.pc \in {"edit", "write", "fill", "ended"}
    /\ call.i \in 1..Len(plan)
    /\ Tried \subseteq DOMAIN plan
    /\ call.pc # "ended" =>
          \A j \in Tried : \E k \in 1..(call.i - 1) : j = Order(plan)[k]
    /\ \A j \in Tried : plan[j].hi <= Len(before)
    /\ BeginsWith(Lines, Whole, src)
    /\ cut = {} /\ call.pc # "fill" => src = Whole
    /\ call.pc = "write" => InRange(src, plan[Edit]) /\ call.text = Patched(src, plan[Edit])

(* While a file is filled, the text for it begins what the edit at hand    *)
(* would make of the whole.                                                *)
Filling ==
    call.pc = "fill" =>
        /\ plan[Edit].hi <= Len(before)
        /\ call.text \in Seq(Lines)
        /\ BeginsWith(Lines, AllPatched(before, MadeBy(Tried \cup {Edit})), call.text)
        /\ cut = {} => call.text = AllPatched(before, MadeBy(Tried \cup {Edit}))

LandInv ==
    /\ userEdits \in Nat /\ plan \in Plans
    /\ DOMAIN call = DOMAIN NoCall
    /\ userEdits = 0 =>
          /\ src \in Seq(Lines)
          /\ call.kind # "apply" =>
                applied = {} /\ cut = {} /\ call.pc \notin {"write", "fill"}
          /\ call.kind = "apply" => Landing /\ Filling

(* And a preview has accepted the edits whose turn it was. *)
PreviewInv ==
    userEdits = 0 =>
        /\ call.kind # "apply" => src = FirstSource
        /\ call.kind = "apply" => before = FirstSource
        /\ previewed = "ok" => \A i \in DOMAIN plan : Accepts(FirstSource, plan[i])
        /\ call.kind = "preview" =>
              /\ Valid(plan) /\ call.pc = "edit" /\ call.i \in 1..Len(plan)
              /\ \A k \in 1..(call.i - 1) : Accepts(FirstSource, plan[Order(plan)[k]])

CallFields == DOMAIN NoCall

LEMMA FieldsOfCalls ==
    /\ CallFields = {"pc", "kind", "i", "text"}
    /\ NoCall.pc = "idle" /\ NoCall.kind = "none" /\ NoCall.i = 1
BY DEF CallFields, NoCall

(* What the turn of the next edit changes of a call. *)
LEMMA NextTurn ==
    ASSUME DOMAIN call = CallFields, call.kind = "apply", call.i \in 1..Len(plan),
           Len(plan) \in Nat, NextEdit
    PROVE  /\ DOMAIN call' = CallFields /\ call'.kind = "apply"
           /\ \/ call'.pc = "edit" /\ call'.i = call.i + 1 /\ call'.i \in 1..Len(plan)
              \/ call'.pc = "ended" /\ call'.i = call.i
BY FieldsOfCalls DEF NextEdit

LEMMA LandStart == Init => LandInv
<1> SUFFICES ASSUME Init PROVE LandInv
  OBVIOUS
<1>1. /\ src \in Seq(Lines) /\ call = NoCall /\ applied = {} /\ cut = {}
      /\ plan \in Plans /\ userEdits = 0
  BY ConstantsOK DEF Init
<1> QED
  BY <1>1, FieldsOfCalls DEF LandInv

(* The edit at hand lies above all that were made. *)
LEMMA EditAtHand ==
    ASSUME LandInv, userEdits = 0, call.kind = "apply",
           call.pc \in {"edit", "write", "fill"}
    PROVE  /\ plan \in Plans /\ Valid(plan) /\ Edit \in DOMAIN plan
           /\ plan[Edit].lo \in Nat /\ plan[Edit].hi \in Nat /\ plan[Edit].new \in Seq(Lines)
           /\ 1 <= plan[Edit].lo /\ plan[Edit].lo <= plan[Edit].hi
           /\ \A x \in MadeBy(Tried) :
                 /\ plan[Edit].hi < x.lo
                 /\ x.new \in Seq(Lines) /\ x.lo \in Nat /\ x.hi \in Nat
<1>0. plan \in Plans /\ Landing /\ Valid(plan) /\ call.i \in 1..Len(plan)
  BY DEF LandInv, Landing
<1>1. /\ Len(plan) \in Nat /\ DOMAIN plan = 1..Len(plan)
      /\ \A i \in DOMAIN plan : /\ plan[i].lo \in Nat /\ plan[i].hi \in Nat
                                /\ plan[i].new \in Seq(Lines)
  BY <1>0, PlansAreTyped
<1>2. Edit \in DOMAIN plan
  BY <1>0, OrderIsBottomUp DEF Edit
<1>3. 1 <= plan[Edit].lo /\ plan[Edit].lo <= plan[Edit].hi
  BY <1>0, <1>1, <1>2 DEF Valid
<1>4. ASSUME NEW j \in Tried PROVE j \in DOMAIN plan /\ plan[Edit].hi < plan[j].lo
  <2>1. PICK k \in 1..(call.i - 1) : j = Order(plan)[k]
    BY <1>0, <1>4 DEF Landing
  <2>2. k \in 1..Len(plan) /\ k < call.i
    BY <1>0, <1>1
  <2>3. plan[Order(plan)[call.i]].hi < plan[Order(plan)[k]].lo
    BY <1>0, <2>2, OrderIsBottomUp
  <2> QED
    BY <1>0, <2>1, <2>3 DEF Edit, Landing
<1> QED
  BY <1>0, <1>1, <1>2, <1>3, <1>4 DEF MadeBy

(* The whole text is one of lines. *)
LEMMA WholeIsLines ==
    ASSUME NEW J, J \subseteq DOMAIN plan, plan \in Plans, before \in Seq(Lines)
    PROVE  AllPatched(before, MadeBy(J)) \in Seq(Lines)
<1> DEFINE E == MadeBy(J)
<1>1. \A x \in E : x.new \in Seq(Lines)
  BY PlansAreTyped DEF MadeBy
<1> HIDE DEF E
<1>2. AllMade(before, E) \in Seq(Seq(Lines)) /\ AllPatched(before, E) = FlattenSeq(AllMade(before, E))
  BY <1>1, PatchedIsMade
<1>3. PICK F : Flats(Lines, AllMade(before, E), F)
  BY <1>2, Flattened
<1>4. FlattenSeq(AllMade(before, E)) \in Seq(Lines)
  BY <1>3, FlatTypes
<1> QED
  BY <1>2, <1>4 DEF E

(* What the source has to have for the edit at hand, the text had before. *)
LEMMA EditFits ==
    ASSUME LandInv, userEdits = 0, call.kind = "apply", call.pc \in {"edit", "write"},
           InRange(src, plan[Edit])
    PROVE  plan[Edit].hi <= Len(before)
<1> DEFINE e == plan[Edit]
<1>0. /\ before \in Seq(Lines) /\ BeginsWith(Lines, Whole, src) /\ src \in Seq(Lines)
      /\ Tried \subseteq DOMAIN plan /\ plan \in Plans
      /\ \A j \in Tried : plan[j].hi <= Len(before)
  BY DEF LandInv, Landing
<1>1. e.hi \in Nat /\ e.hi <= Len(Whole) /\ Len(Whole) \in Nat
  <2>1. Whole \in Seq(Lines)
    BY <1>0, WholeIsLines DEF Whole
  <2>2. Len(src) <= Len(Whole)
    BY <1>0, <2>1, BeginningIsPrefix
  <2>3. e.hi \in Nat /\ e.hi <= Len(src)
    BY EditAtHand DEF InRange
  <2>4. Len(src) \in Nat /\ Len(Whole) \in Nat
    BY <1>0, <2>1
  <2> HIDE DEF e
  <2> QED
    BY <2>2, <2>3, <2>4
<1>2. CASE Tried = {}
  <2>1. MadeBy(Tried) = {}
    BY <1>2 DEF MadeBy
  <2>2. Whole = before
    BY <1>0, <2>1, NothingMade DEF Whole
  <2> QED
    BY <1>1, <2>2
<1>3. CASE Tried # {}
  <2>1. PICK j \in Tried : TRUE
    BY <1>3
  <2>2. plan \in Plans /\ Valid(plan)
    BY EditAtHand
  <2>3. plan[j].lo <= plan[j].hi /\ plan[j].lo \in Nat /\ plan[j].hi \in Nat
    BY <1>0, <2>1, <2>2, PlansAreTyped DEF Valid
  <2>4. plan[j] \in MadeBy(Tried)
    BY <2>1 DEF MadeBy
  <2>5. e.hi < plan[j].lo
    BY <2>4, EditAtHand
  <2>6. Len(before) \in Nat /\ plan[j].hi <= Len(before)
    BY <1>0, <2>1
  <2> HIDE DEF e
  <2>7. e.hi <= Len(before)
    BY <1>1, <2>3, <2>5, <2>6
  <2> QED
    BY <2>7 DEF e
<1> QED
  BY <1>2, <1>3

LEMMA StartLands == ASSUME LandInv, StartApply PROVE LandInv'
<1>1. /\ Valid(plan) /\ call.pc = "idle" /\ before' = src
      /\ call' = [NoCall EXCEPT !.pc = "edit", !.kind = "apply"]
      /\ UNCHANGED <<src, plan, previewed, applied, failed, cut, userEdits>>
  BY DEF StartApply
<1>2. DOMAIN call' = CallFields /\ call'.pc = "edit" /\ call'.kind = "apply" /\ call'.i = 1
  BY <1>1 DEF CallFields, NoCall
<1>3. plan \in Plans /\ Len(plan) \in Nat /\ plan \in Seq(PlanEdit) /\ plan # <<>>
  BY <1>1, PlansAreTyped DEF LandInv, Valid
<1>4. ASSUME userEdits = 0 PROVE Landing' /\ Filling' /\ src' \in Seq(Lines)
  <2>1. call.kind # "apply"
    BY <1>1, <1>4 DEF LandInv, Landing
  <2>2. src \in Seq(Lines) /\ Tried = {}
    BY <1>4, <2>1 DEF LandInv, Tried
  <2>3. Tried' = {} /\ MadeBy(Tried)' = {}
    BY <1>1, <2>2 DEF MadeBy, Tried
  <2>4. AllPatched(src, {}) = src /\ BeginsWith(Lines, src, src)
    BY <2>2, NothingMade, BeginsWithItself
  <2>5. 1 \in 1..Len(plan)
    BY <1>3
  <2>6. Valid(plan)' /\ Whole' = src
    <3>1. Valid(plan)'
      BY <1>1 DEF Valid, Overlap
    <3>2. Whole' = AllPatched(before', MadeBy(Tried)')
      BY DEF Whole, AllPatched
    <3> QED
      BY <1>1, <2>3, <2>4, <3>1, <3>2
  <2>7. BeginsWith(Lines, Whole, src)'
    BY <1>1, <2>4, <2>6 DEF BeginsWith
  <2> QED
    BY <1>1, <1>2, <2>2, <2>3, <2>5, <2>6, <2>7 DEF Landing, Filling
<1> QED
  BY <1>1, <1>2, <1>3, <1>4 DEF LandInv, CallFields

(* Nothing is written: the call goes on, or to its next edit. *)
LEMMA NothingWritten ==
    ASSUME LandInv, UNCHANGED <<src, plan, applied, cut, before, userEdits>>,
           DOMAIN call' = CallFields,
           userEdits = 0 /\ call.kind = "apply" =>
              /\ call.pc # "fill"
              /\ call'.kind = "apply" /\ call'.pc \in {"edit", "ended", "write"}
              /\ call'.i \in 1..Len(plan) /\ call.i <= call'.i
              /\ call'.pc # "ended" => call.pc # "ended"
              /\ call'.pc = "write" =>
                    /\ call'.i = call.i /\ InRange(src, plan[Edit])
                    /\ call'.text = Patched(src, plan[Edit]),
           userEdits = 0 /\ call.kind # "apply" =>
              call'.kind # "apply" /\ call'.pc \notin {"write", "fill"}
    PROVE  LandInv'
<1>1. ASSUME userEdits = 0, call.kind = "apply" PROVE Landing' /\ Filling'
  <2>1. Landing /\ plan \in Plans
    BY <1>1 DEF LandInv
  <2>2. Valid(plan)' = Valid(plan)
    BY DEF Valid, Overlap
  <2>3. Whole' = Whole /\ Tried' = Tried
    BY DEF Whole, Tried, AllPatched, MadeBy
  <2>4. Order(plan)' = Order(plan)
    BY DEF Order, Below
  <2>5. Len(plan) \in Nat
    BY <2>1, PlansAreTyped
  <2>6. call'.pc # "ended" =>
          \A j \in Tried : \E k \in 1..(call'.i - 1) : j = Order(plan)[k]
    <3> SUFFICES ASSUME call'.pc # "ended", NEW j \in Tried
                 PROVE  \E k \in 1..(call'.i - 1) : j = Order(plan)[k]
      OBVIOUS
    <3>1. PICK k \in 1..(call.i - 1) : j = Order(plan)[k]
      BY <1>1, <2>1 DEF Landing
    <3>2. call.i \in Nat /\ call'.i \in Nat
      BY <1>1, <2>1, <2>5 DEF Landing
    <3>3. k \in 1..(call'.i - 1)
      BY <1>1, <3>2
    <3> QED
      BY <3>1, <3>3
  <2>7. call'.pc = "write" => Edit' = Edit
    BY <1>1, <2>4 DEF Edit
  <2>8. call'.pc = "write" => InRange(src, plan[Edit])' /\ call'.text = Patched(src, plan[Edit])'
    BY <1>1, <2>7 DEF InRange, Patched
  <2>9. BeginsWith(Lines, Whole, src)' = BeginsWith(Lines, Whole, src)
    BY <2>3 DEF BeginsWith
  <2> QED
    BY <1>1, <2>1, <2>2, <2>3, <2>4, <2>6, <2>8, <2>9 DEF Landing, Filling
<1> QED
  BY <1>1 DEF LandInv, CallFields

(* The edit at hand makes of what was begun a beginning of what it makes   *)
(* of the whole.                                                           *)
LEMMA WholePatched ==
    ASSUME LandInv, userEdits = 0, call.kind = "apply", call.pc = "write"
    PROVE  /\ Patched(src, plan[Edit]) \in Seq(Lines)
           /\ BeginsWith(Lines, AllPatched(before, MadeBy(Tried \cup {Edit})), Patched(src, plan[Edit]))
           /\ cut = {} => Patched(src, plan[Edit]) = AllPatched(before, MadeBy(Tried \cup {Edit}))
           /\ plan[Edit].hi <= Len(before)
<1> DEFINE e == plan[Edit]
           E == MadeBy(Tried)
<1>1. /\ before \in Seq(Lines) /\ src \in Seq(Lines) /\ InRange(src, e)
      /\ BeginsWith(Lines, Whole, src) /\ (cut = {} => src = Whole)
      /\ Tried \subseteq DOMAIN plan /\ plan \in Plans
  BY DEF LandInv, Landing
<1>2. /\ e.lo \in Nat /\ e.hi \in Nat /\ e.new \in Seq(Lines) /\ 1 <= e.lo /\ e.lo <= e.hi
      /\ \A x \in E : e.hi < x.lo /\ x.new \in Seq(Lines) /\ x.lo \in Nat /\ x.hi \in Nat
  BY EditAtHand
<1>3. e.hi <= Len(before)
  BY <1>1, EditFits
<1>4. MadeBy(Tried \cup {Edit}) = E \cup {e}
  BY DEF MadeBy
<1>5. Whole = AllPatched(before, E) /\ Whole \in Seq(Lines)
  BY <1>1, WholeIsLines DEF Whole
<1>6. e.hi <= Len(src)
  BY <1>1 DEF InRange
<1> HIDE DEF e, E
<1>7. AllPatched(before, E \cup {e}) = Patched(Whole, e)
  BY <1>1, <1>2, <1>3, <1>5, OneMoreMade
<1>8. Patched(src, e) \in Seq(Lines) /\ BeginsWith(Lines, Patched(Whole, e), Patched(src, e))
  BY <1>1, <1>2, <1>5, <1>6, PatchedBeginning
<1> QED
  BY <1>1, <1>3, <1>4, <1>7, <1>8 DEF e

(* The file is emptied. *)
LEMMA TruncateLands == ASSUME LandInv, Truncate PROVE LandInv'
<1>1. /\ call.pc = "write" /\ src' = <<>> /\ call' = [call EXCEPT !.pc = "fill"]
      /\ UNCHANGED <<plan, previewed, applied, failed, cut, before, userEdits>>
      /\ DOMAIN call = CallFields /\ plan \in Plans /\ userEdits \in Nat
  BY DEF Truncate, LandInv, CallFields
<1>2. /\ DOMAIN call' = CallFields /\ call'.pc = "fill" /\ call'.kind = call.kind
      /\ call'.i = call.i /\ call'.text = call.text
  BY <1>1, FieldsOfCalls
<1>3. ASSUME userEdits = 0 PROVE src' \in Seq(Lines) /\ Landing' /\ Filling' /\ call.kind = "apply"
  <2>1. call.kind = "apply" /\ Landing
    BY <1>1, <1>3 DEF LandInv
  <2>2. call.text = Patched(src, plan[Edit])
    BY <1>1, <2>1 DEF Landing
  <2>3. /\ call.text \in Seq(Lines) /\ plan[Edit].hi <= Len(before)
        /\ BeginsWith(Lines, AllPatched(before, MadeBy(Tried \cup {Edit})), call.text)
        /\ cut = {} => call.text = AllPatched(before, MadeBy(Tried \cup {Edit}))
    BY <1>1, <1>3, <2>1, <2>2, WholePatched
  <2>4. /\ Tried' = Tried /\ Whole' = Whole
        /\ Order(plan)' = Order(plan) /\ Valid(plan)' = Valid(plan)
    BY <1>1 DEF Tried, Whole, AllPatched, MadeBy, Order, Below, Valid, Overlap
  <2>5. Edit' = Edit
    BY <1>2, <2>4 DEF Edit
  <2>6. AllPatched(before, MadeBy(Tried \cup {Edit}))' = AllPatched(before, MadeBy(Tried \cup {Edit}))
    BY <1>1, <2>4, <2>5 DEF AllPatched, MadeBy
  <2>7. Filling'
    <3>1. BeginsWith(Lines, AllPatched(before, MadeBy(Tried \cup {Edit})), call.text)'
      BY <1>2, <2>3, <2>6 DEF BeginsWith
    <3>2. plan[Edit]'.hi <= Len(before')
      BY <1>1, <2>3, <2>5
    <3> QED
      BY <1>1, <1>2, <2>3, <2>6, <3>1, <3>2 DEF Filling
  <2>8. BeginsWith(Lines, Whole, <<>>)
    <3>1. Whole \in Seq(Lines)
      BY <1>1, <2>1, WholeIsLines DEF Whole, Landing
    <3> QED
      BY <3>1, BeginsWithItself
  <2>9. BeginsWith(Lines, Whole, src)'
    BY <1>1, <2>4, <2>8 DEF BeginsWith
  <2> QED
    BY <1>1, <1>2, <2>1, <2>4, <2>7, <2>9 DEF Landing
<1> QED
  BY <1>1, <1>2, <1>3 DEF LandInv, CallFields

(* The file is filled, or cut off. *)
LEMMA FillLands ==
    ASSUME LandInv, call.pc = "fill",
           UNCHANGED <<plan, before, userEdits>>,
           DOMAIN call' = CallFields,
           src' \in Beginnings(call.text), Tried' = Tried \cup {Edit},
           cut' = {} => cut = {} /\ src' = call.text,
           userEdits = 0 =>
              /\ call'.kind = "apply"
              /\ \/ call'.pc = "edit" /\ call'.i = call.i + 1 /\ call'.i \in 1..Len(plan)
                 \/ call'.pc = "ended" /\ call'.i = call.i
    PROVE  LandInv'
<1>1. ASSUME userEdits = 0 PROVE src' \in Seq(Lines) /\ Landing' /\ Filling'
  <2> DEFINE A == AllPatched(before, MadeBy(Tried \cup {Edit}))
  <2>1. call.kind = "apply" /\ Landing /\ Filling /\ plan \in Plans
    BY <1>1 DEF LandInv
  <2>2. Edit \in DOMAIN plan
    BY <1>1, <2>1, EditAtHand
  <2>3. /\ call.text \in Seq(Lines) /\ plan[Edit].hi <= Len(before) /\ before \in Seq(Lines)
        /\ BeginsWith(Lines, A, call.text) /\ (cut = {} => call.text = A)
    BY <2>1 DEF Filling, Landing
  <2>4. A \in Seq(Lines)
    <3>1. Tried \cup {Edit} \subseteq DOMAIN plan
      BY <2>1, <2>2 DEF Landing
    <3> QED
      BY <2>1, <2>3, <3>1, WholeIsLines
  <2>5. Whole' = A
    <3>1. MadeBy(Tried)' = MadeBy(Tried \cup {Edit})
      BY DEF MadeBy
    <3>2. Whole' = AllPatched(before', MadeBy(Tried)')
      BY DEF Whole, AllPatched
    <3> QED
      BY <3>1, <3>2
  <2> HIDE DEF A
  <2>6. src' \in Seq(Lines) /\ BeginsWith(Lines, A, src')
    <3>1. PICK n \in 0..Len(call.text) : src' = SubSeq(call.text, 1, n)
      BY DEF Beginnings
    <3>2. src' \in Seq(Lines) /\ BeginsWith(Lines, call.text, src')
      BY <2>3, <3>1, FirstLines
    <3>3. BeginsWith(Lines, A, src')
      <4>1. PICK u : u = src'
        OBVIOUS
      <4>2. PICK t : t = call.text
        OBVIOUS
      <4>3. BeginsWith(Lines, A, u)
        BY <2>3, <2>4, <3>2, <4>1, <4>2, BeginningOfBeginning
      <4> QED
        BY <4>1, <4>3
    <3> QED
      BY <3>2, <3>3
  <2>7. BeginsWith(Lines, Whole, src)'
    BY <2>5, <2>6 DEF BeginsWith
  <2>8. Valid(plan)' = Valid(plan) /\ Order(plan)' = Order(plan)
    BY DEF Valid, Overlap, Order, Below
  <2>9. Len(plan) \in Nat
    BY <2>1, PlansAreTyped
  <2>10. call'.pc # "ended" =>
            \A j \in Tried' : \E k \in 1..(call'.i - 1) : j = Order(plan)[k]
    <3> SUFFICES ASSUME call'.pc # "ended", NEW j \in Tried'
                 PROVE  \E k \in 1..(call'.i - 1) : j = Order(plan)[k]
      OBVIOUS
    <3>1. call'.i - 1 = call.i /\ call.i \in Nat /\ call.i \in 1..(call'.i - 1)
      BY <1>1, <2>1, <2>9 DEF Landing
    <3>2. CASE j = Edit
      BY <3>1, <3>2 DEF Edit
    <3>3. CASE j \in Tried
      <4>1. PICK k \in 1..(call.i - 1) : j = Order(plan)[k]
        BY <2>1, <3>3 DEF Landing
      <4>2. k \in 1..(call'.i - 1)
        BY <3>1
      <4> QED
        BY <4>1, <4>2
    <3> QED
      BY <3>2, <3>3
  <2>11. Tried' \subseteq DOMAIN plan /\ \A j \in Tried' : plan[j].hi <= Len(before)
    BY <2>1, <2>2, <2>3 DEF Landing
  <2>12. cut' = {} => src' = Whole'
    BY <2>3, <2>5
  <2>13. call'.i \in 1..Len(plan) /\ call'.pc \in {"edit", "ended"}
    BY <1>1, <2>1 DEF Landing
  <2> QED
    BY <1>1, <2>1, <2>6, <2>7, <2>8, <2>10, <2>11, <2>12, <2>13 DEF Landing, Filling
<1> QED
  BY <1>1 DEF LandInv, CallFields

LEMMA WritesLand ==
    ASSUME LandInv, WriteEdit \/ WriteFails \/ CrashInWrite
    PROVE  LandInv'
<1>1. /\ call.pc = "fill" /\ UNCHANGED <<plan, before, userEdits>>
      /\ Tried' = Tried \cup {Edit}
  BY DEF WriteEdit, WriteFails, CrashInWrite, Tried
<1>2. /\ DOMAIN call = CallFields /\ plan \in Plans /\ Len(plan) \in Nat
      /\ CallFields = {"pc", "kind", "i", "text"} /\ DOMAIN NoCall = CallFields
  BY PlansAreTyped, FieldsOfCalls DEF LandInv, CallFields
<1>3. userEdits = 0 => call.kind = "apply" /\ Landing /\ Filling
  BY <1>1 DEF LandInv
<1>4. CASE userEdits # 0
  <2>1. DOMAIN call' = CallFields
    BY <1>2 DEF WriteEdit, WriteFails, CrashInWrite, NextEdit
  <2> QED
    BY <1>1, <1>4, <2>1 DEF LandInv, CallFields
<1>5. CASE userEdits = 0 /\ (WriteEdit \/ WriteFails)
  <2>1. call.i \in 1..Len(plan) /\ NextEdit
    BY <1>3, <1>5 DEF Landing, WriteEdit, WriteFails
  <2>2. /\ DOMAIN call' = CallFields /\ call'.kind = "apply"
        /\ \/ call'.pc = "edit" /\ call'.i = call.i + 1 /\ call'.i \in 1..Len(plan)
           \/ call'.pc = "ended" /\ call'.i = call.i
    BY <1>2, <1>3, <1>5, <2>1, NextTurn
  <2>3. call.text \in Seq(Lines)
    BY <1>1, <1>3, <1>5 DEF Filling
  <2>4. src' \in Beginnings(call.text) /\ (cut' = {} => cut = {} /\ src' = call.text)
    <3>1. CASE WriteEdit
      <4>1. Len(call.text) \in 0..Len(call.text) /\ SubSeq(call.text, 1, Len(call.text)) = call.text
        BY <2>3, SubSeqFull
      <4> QED
        BY <3>1, <4>1 DEF WriteEdit, Beginnings
    <3>2. CASE WriteFails
      BY <3>2 DEF WriteFails
    <3> QED
      BY <1>5, <3>1, <3>2
  <2> QED
    BY <1>1, <2>2, <2>4, FillLands
<1>6. CASE userEdits = 0 /\ CrashInWrite
  <2>1. call' = [call EXCEPT !.pc = "ended"] /\ src' \in Beginnings(call.text) /\ cut' # {}
    BY <1>6 DEF CrashInWrite
  <2>2. DOMAIN call' = CallFields /\ call'.kind = "apply" /\ call'.pc = "ended" /\ call'.i = call.i
    BY <1>2, <1>3, <1>6, <2>1
  <2> QED
    BY <1>1, <2>1, <2>2, FillLands
<1> QED
  BY <1>4, <1>5, <1>6

LEMMA NextLands == LandInv /\ [Next]_vars => LandInv'
<1> SUFFICES ASSUME LandInv, [Next]_vars PROVE LandInv'
  OBVIOUS
<1>0. /\ DOMAIN call = CallFields /\ plan \in Plans /\ Len(plan) \in Nat
      /\ CallFields = {"pc", "kind", "i", "text"}
      /\ NoCall.pc = "idle" /\ NoCall.kind = "none"
      /\ DOMAIN NoCall = CallFields
  BY PlansAreTyped, FieldsOfCalls DEF LandInv, CallFields
<1>1. userEdits = 0 /\ call.kind = "apply" =>
         /\ call.i \in 1..Len(plan) /\ call.i <= call.i
         /\ call.pc \in {"edit", "write", "fill", "ended"}
  BY <1>0 DEF LandInv, Landing
<1>2. CASE StartPreview
  <2>1. call.pc = "idle" /\ UNCHANGED <<src, plan, applied, cut, before, userEdits>>
    BY <1>2 DEF StartPreview
  <2>2. \/ call' = call
        \/ DOMAIN call' = CallFields /\ call'.kind = "preview" /\ call'.pc = "edit"
    BY <1>0, <1>2 DEF StartPreview
  <2> QED
    BY <1>0, <1>1, <2>1, <2>2, NothingWritten
<1>3. CASE PreviewEdit
  <2>1. /\ call.pc = "edit" /\ call.kind = "preview"
        /\ UNCHANGED <<src, plan, applied, cut, before, userEdits>>
    BY <1>3 DEF PreviewEdit
  <2>2. \/ call' = NoCall
        \/ DOMAIN call' = CallFields /\ call'.kind = "preview" /\ call'.pc = "edit"
    BY <1>0, <1>3, <2>1 DEF PreviewEdit, NextEdit
  <2> QED
    BY <1>0, <2>1, <2>2, NothingWritten
<1>4. CASE StartApply
  BY <1>4, StartLands
<1>5. CASE ApplyEdit
  <2>1. /\ call.pc = "edit" /\ call.kind = "apply"
        /\ UNCHANGED <<src, plan, applied, cut, before, userEdits>>
    BY <1>5 DEF ApplyEdit
  <2>2. CASE Accepts(src, plan[Edit])
    <3>1. call' = [call EXCEPT !.pc = "write", !.text = Patched(src, plan[Edit])]
      BY <1>5, <2>2 DEF ApplyEdit
    <3>2. InRange(src, plan[Edit])
      BY <2>2 DEF Accepts
    <3>3. /\ DOMAIN call' = CallFields /\ call'.kind = "apply" /\ call'.pc = "write"
          /\ call'.i = call.i /\ call'.text = Patched(src, plan[Edit])
      BY <1>0, <2>1, <3>1
    <3> QED
      BY <1>1, <2>1, <3>2, <3>3, NothingWritten
  <2>3. CASE ~Accepts(src, plan[Edit])
    <3>1. NextEdit
      BY <1>5, <2>3 DEF ApplyEdit
    <3>2. DOMAIN call' = CallFields /\ call'.kind = "apply" /\ call'.pc \in {"edit", "ended"}
      BY <1>0, <2>1, <3>1 DEF NextEdit
    <3>3. userEdits = 0 => call'.i \in 1..Len(plan) /\ call.i <= call'.i
      BY <1>0, <1>1, <2>1, <3>1, NextTurn
    <3> QED
      BY <2>1, <3>2, <3>3, NothingWritten
  <2> QED
    BY <2>2, <2>3
<1>6. CASE WriteEdit \/ WriteFails \/ CrashInWrite
  BY <1>6, WritesLand
<1>7. CASE OpenFails
  <2>1. /\ call.pc = "write" /\ NextEdit
        /\ UNCHANGED <<src, plan, applied, cut, before, userEdits>>
    BY <1>7 DEF OpenFails
  <2>2. DOMAIN call' = CallFields
    BY <1>0, <2>1 DEF NextEdit
  <2>3. userEdits = 0 => call.kind = "apply"
    BY <2>1 DEF LandInv
  <2>4. userEdits = 0 => /\ call'.kind = "apply" /\ call'.pc \in {"edit", "ended"}
                         /\ call'.i \in 1..Len(plan) /\ call.i <= call'.i
    BY <1>0, <1>1, <2>1, <2>3, NextTurn
  <2> QED
    BY <2>1, <2>2, <2>3, <2>4, NothingWritten
<1>8. CASE Crash
  <2>1. /\ call.pc \in {"edit", "write"}
        /\ UNCHANGED <<src, plan, applied, cut, before, userEdits>>
    BY <1>8 DEF Crash
  <2>2. CASE call.kind = "apply"
    <3>1. call' = [call EXCEPT !.pc = "ended"]
      BY <1>8, <2>2 DEF Crash
    <3>2. /\ DOMAIN call' = CallFields /\ call'.kind = "apply" /\ call'.pc = "ended"
          /\ call'.i = call.i
      BY <1>0, <2>2, <3>1
    <3> QED
      BY <1>1, <2>1, <2>2, <3>2, NothingWritten
  <2>3. CASE call.kind # "apply"
    <3>1. call' = NoCall
      BY <1>8, <2>3 DEF Crash
    <3> QED
      BY <1>0, <2>1, <2>3, <3>1, NothingWritten
  <2> QED
    BY <2>2, <2>3
<1>9. CASE UserEdit
  <2>1. userEdits' = userEdits + 1 /\ UNCHANGED <<plan, call>>
    BY <1>9 DEF UserEdit
  <2> QED
    BY <2>1 DEF LandInv
<1>10. CASE Truncate
  BY <1>10, TruncateLands
<1>11. CASE UNCHANGED vars
  <2>1. UNCHANGED <<src, plan, call, applied, cut, before, userEdits>>
    BY <1>11 DEF vars
  <2>2. CASE call.pc # "fill"
    <3>1. userEdits = 0 /\ call.kind = "apply" /\ call.pc = "write" =>
            InRange(src, plan[Edit]) /\ call.text = Patched(src, plan[Edit])
      BY DEF LandInv, Landing
    <3>2. userEdits = 0 /\ call.kind # "apply" => call.pc \notin {"write", "fill"}
      BY DEF LandInv
    <3> QED
      BY <1>0, <1>1, <2>1, <2>2, <3>1, <3>2, NothingWritten
  <2>3. CASE call.pc = "fill"
    <3>1. /\ Tried' = Tried /\ Edit' = Edit /\ Whole' = Whole
          /\ Order(plan)' = Order(plan) /\ Valid(plan)' = Valid(plan)
      BY <2>1 DEF Tried, Edit, Whole, AllPatched, MadeBy, Order, Below, Valid, Overlap
    <3>2. AllPatched(before, MadeBy(Tried \cup {Edit}))' = AllPatched(before, MadeBy(Tried \cup {Edit}))
      BY <2>1, <3>1 DEF AllPatched, MadeBy
    <3>3. /\ BeginsWith(Lines, Whole, src)' = BeginsWith(Lines, Whole, src)
          /\ BeginsWith(Lines, AllPatched(before, MadeBy(Tried \cup {Edit})), call.text)'
                = BeginsWith(Lines, AllPatched(before, MadeBy(Tried \cup {Edit})), call.text)
      BY <2>1, <3>1, <3>2 DEF BeginsWith
    <3>4. plan[Edit]' = plan[Edit]
      BY <2>1, <3>1
    <3>5. Landing /\ Filling => Landing' /\ Filling'
      BY <2>1, <2>3, <3>1, <3>2, <3>3, <3>4 DEF Landing, Filling
    <3> QED
      BY <1>0, <2>1, <2>3, <3>5 DEF LandInv, CallFields
  <2> QED
    BY <2>2, <2>3
<1> QED
  BY <1>2, <1>3, <1>4, <1>5, <1>6, <1>7, <1>8, <1>9, <1>10, <1>11 DEF Next

(* At every moment of an apply call, whatever edits of it failed, the      *)
(* source is what the applied edits make of the text the call found, each  *)
(* at the lines it named in that text; and where a write was cut off, or   *)
(* the program killed in it, the beginning of that.                        *)
THEOREM EditsLand == Spec => []EditsLandOnTargets
<1>1. Init => LandInv
  BY LandStart
<1>2. LandInv /\ [Next]_vars => LandInv'
  BY NextLands
<1>3. LandInv => EditsLandOnTargets
  <2> SUFFICES ASSUME LandInv, userEdits = 0, call.kind = "apply"
               PROVE  IsPrefix(src, Whole) /\ (cut = {} /\ call.pc # "fill" => src = Whole)
    BY DEF EditsLandOnTargets, Whole, Tried, MadeBy
  <2>1. Landing /\ src \in Seq(Lines) /\ plan \in Plans
    BY DEF LandInv
  <2>2. Whole \in Seq(Lines)
    BY <2>1, WholeIsLines DEF Whole, Landing
  <2>3. IsPrefix(src, Whole)
    BY <2>1, <2>2, BeginningIsPrefix DEF Landing
  <2> QED
    BY <2>1, <2>3 DEF Landing
<1> QED
  BY <1>1, <1>2, <1>3, PTL DEF Spec
-----------------------------------------------------------------------------
(* What a preview accepts, the application accepts. *)

(* An anchor that is accepted within a beginning is accepted within any    *)
(* text with that beginning, when both are expanded.                       *)
LEMMA SameAnchor ==
    ASSUME ExpandsInOrder(Seq(Lines)),
           NEW X \in Seq(Lines), NEW Y \in Seq(Lines),
           Expand(X).ok, Expand(X \o Y).ok,
           NEW k \in Nat, k # 0, k <= Len(Expand(X).lines)
    PROVE  /\ k <= Len(Expand(X \o Y).lines)
           /\ Expand(X \o Y).lines[k] = Expand(X).lines[k]
<1>1. /\ Len(Expand(X).lines) \in Nat /\ Len(Expand(X \o Y).lines) \in Nat
      /\ Len(Expand(X).lines) <= Len(Expand(X \o Y).lines)
      /\ \A i \in 1..Len(Expand(X).lines) : Expand(X \o Y).lines[i] = Expand(X).lines[i]
  BY DEF ExpandsInOrder
<1> QED
  BY <1>1

LEMMA AcceptedLater ==
    ASSUME ExpandsInOrder(Seq(Lines)),
           NEW b \in Seq(Lines), NEW E, NEW e,
           \A x \in E \cup {e} : x.new \in Seq(Lines) /\ x.lo \in Nat /\ x.hi \in Nat,
           1 <= e.lo, e.lo <= e.hi, \A x \in E : e.hi < x.lo, e.at \in Nat,
           Accepts(b, e), AnchoredAbove(b, e),
           Expand(Patched(AllPatched(b, E), e)).ok
    PROVE  Accepts(AllPatched(b, E), e)
<1> DEFINE s == AllPatched(b, E)
           X == SubSeq(b, 1, e.lo - 1) \o e.new
           Y == SubSeq(b, e.hi + 1, Len(b))
<1>1. e.hi <= Len(b) /\ e.at # 0 /\ Expand(X).ok /\ e.at <= Len(Expand(X).lines)
  BY DEF Accepts, AnchoredAbove, InRange
<1>2. s \in Seq(Lines) /\ e.hi <= Len(s) /\ BeginsWith(Lines, Patched(s, e), X)
  BY <1>1, OneMoreMade
<1>3. PICK R \in Seq(Lines) : Patched(s, e) = X \o R
  BY <1>2 DEF BeginsWith
<1>4. X \in Seq(Lines) /\ Y \in Seq(Lines) /\ Patched(b, e) = X \o Y
  <2>1. e.lo \in Nat /\ e.hi \in Nat /\ Len(b) \in Nat /\ e.new \in Seq(Lines)
    OBVIOUS
  <2>2. SubSeq(b, 1, e.lo - 1) \in Seq(Lines) /\ Y \in Seq(Lines)
    BY <1>1, <2>1
  <2>3. X \in Seq(Lines)
    BY <2>1, <2>2, ConcatProperties
  <2> QED
    BY <2>2, <2>3 DEF Patched
<1>5. Expand(X \o R).ok
  BY <1>3
<1> HIDE DEF X, Y
<1>6. Expand(X \o Y).ok /\ Expand(X \o Y).lines[e.at] = e.expected
  BY <1>4 DEF Accepts
<1>7. Expand(X \o Y).lines[e.at] = Expand(X).lines[e.at]
  BY <1>1, <1>4, <1>6, SameAnchor
<1>8. e.at <= Len(Expand(X \o R).lines) /\ Expand(X \o R).lines[e.at] = Expand(X).lines[e.at]
  BY <1>1, <1>3, <1>4, <1>5, SameAnchor
<1>9. InRange(s, e)
  <2>1. Len(s) \in Nat /\ e.lo <= Len(s)
    BY <1>2
  <2> QED
    BY <1>2, <2>1 DEF InRange
<1> HIDE DEF s
<1> QED
  BY <1>1, <1>3, <1>5, <1>6, <1>7, <1>8, <1>9 DEF Accepts, s

LEMMA NextPreviews == LandInv /\ PreviewInv /\ [Next]_vars => PreviewInv'
<1> SUFFICES ASSUME LandInv, PreviewInv, [Next]_vars, userEdits' = 0 PROVE PreviewInv'
  BY DEF PreviewInv
<1>0. /\ DOMAIN call = CallFields /\ plan \in Plans /\ Len(plan) \in Nat
      /\ CallFields = {"pc", "kind", "i", "text"}
      /\ NoCall.pc = "idle" /\ NoCall.kind = "none" /\ NoCall.i = 1
      /\ DOMAIN NoCall = CallFields
      /\ plan \in Seq(PlanEdit) /\ DOMAIN plan = 1..Len(plan)
  BY PlansAreTyped, FieldsOfCalls DEF LandInv, CallFields
<1>1. plan' = plan
  BY DEF Next, StartPreview, PreviewEdit, StartApply, ApplyEdit, OpenFails, Truncate, WriteEdit,
         WriteFails, Crash, CrashInWrite, UserEdit, vars
<1>2. Order(plan)' = Order(plan) /\ Valid(plan)' = Valid(plan)
  BY <1>1 DEF Order, Below, Valid, Overlap
<1>3. \A e : Accepts(FirstSource, e)' = Accepts(FirstSource, e)
  BY DEF Accepts, InRange, Patched
<1>4. userEdits = 0 /\ UNCHANGED userEdits /\ ~UserEdit
  BY DEF LandInv, Next, StartPreview, PreviewEdit, StartApply, ApplyEdit, OpenFails, Truncate,
         WriteEdit, WriteFails, Crash, CrashInWrite, UserEdit, vars
<1>5. /\ call.kind # "apply" => src = FirstSource
      /\ call.kind = "apply" => before = FirstSource
      /\ previewed = "ok" => \A i \in DOMAIN plan : Accepts(FirstSource, plan[i])
  BY <1>4 DEF PreviewInv
<1>6. CASE StartPreview
  <2>1. call.pc = "idle" /\ UNCHANGED <<src, before>> /\ previewed' # "ok"
    BY <1>6 DEF StartPreview
  <2>2. CASE call' = call
    BY <1>1, <1>2, <1>3, <1>4, <1>5, <2>1, <2>2 DEF PreviewInv
  <2>3. CASE call' # call
    <3>1. Valid(plan) /\ call' = [NoCall EXCEPT !.pc = "edit", !.kind = "preview"]
      BY <1>6, <2>3 DEF StartPreview
    <3>2. call'.pc = "edit" /\ call'.kind = "preview" /\ call'.i = 1
      BY <1>0, <3>1
    <3>3. plan # <<>> /\ 1 \in 1..Len(plan)
      BY <1>0, <3>1 DEF Valid
    <3>4. src = FirstSource
      BY <1>4, <1>5, <2>1 DEF LandInv, Landing
    <3>5. ~\E k \in 1..(call'.i - 1) : TRUE
      BY <3>2
    <3> QED
      BY <1>1, <1>2, <2>1, <3>1, <3>2, <3>3, <3>4, <3>5 DEF PreviewInv
  <2> QED
    BY <2>2, <2>3
<1>7. CASE PreviewEdit
  <2>1. /\ call.pc = "edit" /\ call.kind = "preview" /\ UNCHANGED <<src, before>>
        /\ src = FirstSource
    BY <1>5, <1>7 DEF PreviewEdit
  <2>2. /\ Valid(plan) /\ call.i \in 1..Len(plan)
        /\ \A k \in 1..(call.i - 1) : Accepts(FirstSource, plan[Order(plan)[k]])
    BY <1>4, <2>1 DEF PreviewInv
  <2>3. CASE Accepts(src, plan[Edit])
    <3>1. NextEdit /\ previewed' = IF call.i = Len(plan) THEN "ok" ELSE previewed
      BY <1>7, <2>3 DEF PreviewEdit
    <3>2. Accepts(FirstSource, plan[Order(plan)[call.i]])
      BY <2>1, <2>3 DEF Edit
    <3>3. \A k \in 1..call.i : Accepts(FirstSource, plan[Order(plan)[k]])
      <4>1. \A k \in 1..call.i : k = call.i \/ k \in 1..(call.i - 1)
        BY <2>2
      <4> QED
        BY <2>2, <3>2, <4>1
    <3>4. previewed' = "ok" => \A i \in DOMAIN plan : Accepts(FirstSource, plan[i])
      <4>1. CASE call.i = Len(plan)
        <5>1. \A i \in DOMAIN plan : \E k \in 1..Len(plan) : Order(plan)[k] = i
          BY <1>0, <2>2, OrderIsBottomUp
        <5> QED
          BY <3>3, <4>1, <5>1
      <4>2. CASE call.i # Len(plan)
        BY <1>5, <3>1, <4>2
      <4> QED
        BY <4>1, <4>2
    <3>5. CASE call.i < Len(plan)
      <4>1. call'.pc = "edit" /\ call'.kind = "preview" /\ call'.i = call.i + 1
        BY <1>0, <2>1, <3>1, <3>5 DEF NextEdit
      <4>2. call'.i \in 1..Len(plan) /\ call'.i - 1 = call.i
        BY <1>0, <2>2, <3>5, <4>1
      <4> QED
        BY <1>1, <1>2, <1>3, <2>1, <2>2, <3>3, <3>4, <4>1, <4>2 DEF PreviewInv
    <3>6. CASE ~(call.i < Len(plan))
      <4>1. call' = NoCall
        BY <2>1, <3>1, <3>6 DEF NextEdit
      <4> QED
        BY <1>0, <1>1, <1>3, <2>1, <3>4, <4>1 DEF PreviewInv
    <3> QED
      BY <3>5, <3>6
  <2>4. CASE ~Accepts(src, plan[Edit])
    <3>1. call' = NoCall /\ previewed' = "refused"
      BY <1>7, <2>4 DEF PreviewEdit
    <3> QED
      BY <1>0, <2>1, <3>1 DEF PreviewInv
  <2> QED
    BY <2>3, <2>4
<1>8. CASE StartApply
  <2>1. /\ call.pc = "idle" /\ before' = src /\ previewed' = previewed
        /\ call' = [NoCall EXCEPT !.pc = "edit", !.kind = "apply"]
    BY <1>8 DEF StartApply
  <2>2. call'.kind = "apply"
    BY <1>0, <2>1
  <2>3. src = FirstSource
    BY <1>4, <1>5, <2>1 DEF LandInv, Landing
  <2> QED
    BY <1>1, <1>3, <1>5, <2>1, <2>2, <2>3 DEF PreviewInv
<1>9. CASE ApplyEdit \/ OpenFails \/ Truncate \/ WriteEdit \/ WriteFails \/ CrashInWrite
  <2>1. call.kind = "apply" /\ UNCHANGED <<before, previewed>>
    BY <1>4, <1>9
    DEF ApplyEdit, OpenFails, Truncate, WriteEdit, WriteFails, CrashInWrite, LandInv
  <2>2. call'.kind = "apply"
    BY <1>0, <1>9, <2>1
    DEF ApplyEdit, OpenFails, Truncate, WriteEdit, WriteFails, CrashInWrite, NextEdit
  <2> QED
    BY <1>1, <1>3, <1>5, <2>1, <2>2 DEF PreviewInv
<1>10. CASE Crash
  <2>1. UNCHANGED <<src, before>> /\ (previewed' = "ok" => previewed = "ok")
    BY <1>10 DEF Crash
  <2>2. \/ call.kind = "apply" /\ call'.kind = "apply"
        \/ call.kind # "apply" /\ call' = NoCall
    BY <1>0, <1>10 DEF Crash
  <2> QED
    BY <1>0, <1>1, <1>3, <1>5, <2>1, <2>2 DEF PreviewInv
<1>11. CASE UNCHANGED vars
  BY <1>2, <1>3, <1>4, <1>11 DEF PreviewInv, vars
<1> QED
  BY <1>4, <1>6, <1>7, <1>8, <1>9, <1>10, <1>11 DEF Next

(* A plan whose preview accepted every edit on its own, with no anchor     *)
(* below its edit, is applied without a refusal, however the edits that    *)
(* were made before have moved the lines below them, unless the edits      *)
(* together make a text that cannot be expanded.  The macro processor is   *)
(* only asked to read a text in order.                                     *)
THEOREM PreviewsHold ==
    ASSUME ExpandsInOrder(Seq(Lines))
    PROVE  Spec => PreviewedEditsApply
<1>1. Init => LandInv /\ PreviewInv
  <2>1. Init => PreviewInv
    BY FieldsOfCalls DEF Init, PreviewInv
  <2> QED
    BY <2>1, LandStart
<1>2. LandInv /\ PreviewInv /\ [Next]_vars => (LandInv /\ PreviewInv)'
  BY NextLands, NextPreviews
<1>3. ASSUME LandInv, PreviewInv, Next,
             previewed = "ok", userEdits = 0, cut = {}, call.pc = "edit", call.kind = "apply",
             \A i \in DOMAIN plan : AnchoredAbove(before, plan[i]),
             Expand(Patched(src, plan[Edit])).ok
      PROVE  failed' = failed
  <2> DEFINE e == plan[Edit]
             E == MadeBy(Tried)
  <2>1. /\ before \in Seq(Lines) /\ src = AllPatched(before, E) /\ before = FirstSource
        /\ \A i \in DOMAIN plan : Accepts(before, plan[i])
    BY <1>3 DEF LandInv, Landing, PreviewInv, Whole
  <2>2. /\ Edit \in DOMAIN plan /\ plan \in Plans
        /\ e.lo \in Nat /\ e.hi \in Nat /\ e.new \in Seq(Lines)
        /\ 1 <= e.lo /\ e.lo <= e.hi
        /\ \A x \in E : e.hi < x.lo /\ x.new \in Seq(Lines) /\ x.lo \in Nat /\ x.hi \in Nat
    BY <1>3, EditAtHand
  <2>3. e.at \in Nat /\ Accepts(before, e) /\ AnchoredAbove(before, e)
    BY <1>3, <2>1, <2>2, PlansAreTyped
  <2>4. Expand(Patched(AllPatched(before, E), e)).ok
    BY <1>3, <2>1
  <2> HIDE DEF e, E
  <2>5. Accepts(src, e)
    BY <2>1, <2>2, <2>3, <2>4, AcceptedLater
  <2>6. Accepts(src, plan[Edit])
    BY <2>5 DEF e
  <2> QED
    BY <1>3, <2>6
    DEF Next, StartPreview, PreviewEdit, StartApply, ApplyEdit, OpenFails, Truncate, WriteEdit,
        WriteFails, Crash, CrashInWrite, UserEdit
<1>4. LandInv /\ PreviewInv /\ [Next]_vars =>
        [(/\ previewed = "ok" /\ userEdits = 0 /\ cut = {}
          /\ call.pc = "edit" /\ call.kind = "apply"
          /\ \A i \in DOMAIN plan : AnchoredAbove(before, plan[i])
          /\ Expand(Patched(src, plan[Edit])).ok)
         => failed' = failed]_vars
  BY <1>3
<1> QED
  BY <1>1, <1>2, <1>4, PTL DEF Spec, PreviewedEditsApply
=============================================================================
