-------------------------- MODULE MacroReaderProofs --------------------------
(***************************************************************************)
(* The lexer and the parser of a macro document keep a stack each; for     *)
(* every text, the two agree after every token, or the text is refused.    *)
(*                                                                         *)
(* The invariant, ReaderInv.  Of the lexer (LexerRuns): every token is one *)
(* of those its state can yield, and the shape after it is the one before  *)
(* it with what such a token does (Scanned).  Of the parser (ParserRuns):  *)
(* its open states track the shape of the tokens read (Tracks): either     *)
(* they mirror it, or more macros are open in the parser than in the       *)
(* lexer, and that they stay; in both, every macro has its parameter above *)
(* it and as many comments are open on top.  At the end only the root is   *)
(* open, which is no macro, and the two mirror each other.                 *)
(***************************************************************************)
EXTENDS MacroReader, IterationProofs, SequenceTheorems

LexState == {"block", "verbatim", "macro", "comment"}
NodeState == LexState \cup {"param"}

-----------------------------------------------------------------------------
(* Counting the macros of a stack                                          *)

LEMMA MacrosUpTo ==
    ASSUME NEW s \in Seq(NodeState), NEW k \in 0..Len(s)
    PROVE  /\ MacrosIn(s, k) \in Nat
           /\ k = 0 => MacrosIn(s, k) = 0
           /\ k > 0 => MacrosIn(s, k) = MacrosIn(s, k - 1) + (IF s[k] = "macro" THEN 1 ELSE 0)
<1> DEFINE M(j) == {i \in 1..j : s[i] = "macro"}
<1>1. ASSUME NEW j \in Nat PROVE IsFiniteSet(M(j)) /\ Cardinality(M(j)) \in Nat
  <2>1. IsFiniteSet(1..j) /\ M(j) \subseteq 1..j
    BY FS_Interval
  <2> QED
    BY <2>1, FS_Subset, FS_CardinalityType
<1>4. \A j \in Nat : MacrosIn(s, j) = Cardinality(M(j))
  BY DEF MacrosIn
<1>2. CASE k = 0
  <2>1. M(0) = {}
    OBVIOUS
  <2> QED
    BY <1>1, <1>2, <1>4, <2>1, FS_EmptySet
<1>3. CASE k > 0
  <2>1. k - 1 \in Nat /\ k \in Nat
    BY <1>3
  <2>2. CASE s[k] = "macro"
    <3>1. M(k) = M(k - 1) \cup {k} /\ k \notin M(k - 1)
      BY <2>1, <2>2
    <3>2. Cardinality(M(k)) = Cardinality(M(k - 1)) + 1
      BY <1>1, <2>1, <3>1, FS_AddElement
    <3> HIDE DEF M
    <3> QED
      BY <1>1, <1>3, <1>4, <2>1, <2>2, <3>2
  <2>3. CASE s[k] # "macro"
    <3>1. M(k) = M(k - 1)
      BY <2>1, <2>3
    <3> HIDE DEF M
    <3> QED
      BY <1>1, <1>3, <1>4, <2>1, <2>3, <3>1
  <2> QED
    BY <2>2, <2>3
<1> QED
  BY <1>2, <1>3

LEMMA MacrosSame ==
    ASSUME NEW s \in Seq(NodeState), NEW t \in Seq(NodeState), NEW k \in Nat,
           \A i \in 1..k : s[i] = t[i]
    PROVE  MacrosIn(s, k) = MacrosIn(t, k)
<1>1. {i \in 1..k : s[i] = "macro"} = {i \in 1..k : t[i] = "macro"}
  OBVIOUS
<1> QED
  BY <1>1 DEF MacrosIn

LEMMA MacrosPush ==
    ASSUME NEW s \in Seq(NodeState), NEW x \in NodeState
    PROVE  /\ Append(s, x) \in Seq(NodeState) /\ Len(Append(s, x)) = Len(s) + 1
           /\ \A i \in 1..Len(s) : Append(s, x)[i] = s[i]
           /\ Append(s, x)[Len(s) + 1] = x
           /\ \A k \in 0..Len(s) : MacrosIn(Append(s, x), k) = MacrosIn(s, k)
           /\ Macros(s) \in Nat
           /\ Macros(Append(s, x)) = Macros(s) + (IF x = "macro" THEN 1 ELSE 0)
<1> DEFINE t == Append(s, x)
<1>1. /\ t \in Seq(NodeState) /\ Len(t) = Len(s) + 1 /\ Len(s) \in Nat
      /\ \A i \in 1..Len(s) : t[i] = s[i]
      /\ t[Len(s) + 1] = x
  OBVIOUS
<1> HIDE DEF t
<1>2. ASSUME NEW k \in 0..Len(s) PROVE MacrosIn(t, k) = MacrosIn(s, k)
  <2>1. \A i \in 1..k : t[i] = s[i]
    BY <1>1
  <2> QED
    BY <1>1, <2>1, MacrosSame
<1>3. Macros(t) = MacrosIn(t, Len(s)) + (IF x = "macro" THEN 1 ELSE 0)
  <2>1. Len(t) \in 0..Len(t) /\ Len(t) > 0 /\ Len(t) - 1 = Len(s)
    BY <1>1
  <2> QED
    BY <1>1, <2>1, MacrosUpTo DEF Macros
<1>4. MacrosIn(t, Len(s)) = Macros(s) /\ Macros(s) \in Nat
  BY <1>1, <1>2, MacrosUpTo DEF Macros
<1> QED
  BY <1>1, <1>2, <1>3, <1>4 DEF t

LEMMA FrontOfSeq ==
    ASSUME NEW U, NEW s \in Seq(U), s # <<>>
    PROVE  /\ Front(s) \in Seq(U) /\ Len(Front(s)) = Len(s) - 1
           /\ Len(s) \in Nat /\ Len(s) > 0
           /\ \A i \in 1..(Len(s) - 1) : Front(s)[i] = s[i]
           /\ Last(s) = s[Len(s)] /\ Last(s) \in U
<1>1. Len(s) \in Nat /\ Len(s) > 0
  BY EmptySeq, LenProperties
<1>2. \A i \in 1..Len(s) : s[i] \in U
  OBVIOUS
<1>3. 1 \in Int /\ Len(s) - 1 \in Int /\ \A i \in 1..(Len(s) - 1) : s[i] \in U
  BY <1>1, <1>2
<1>4. /\ SubSeq(s, 1, Len(s) - 1) \in Seq(U)
      /\ Len(SubSeq(s, 1, Len(s) - 1)) = Len(s) - 1
      /\ \A i \in 1..(Len(s) - 1) : SubSeq(s, 1, Len(s) - 1)[i] = s[i]
  <2> DEFINE n == Len(s) - 1
  <2>1. /\ SubSeq(s, 1, n) \in Seq(U)
        /\ Len(SubSeq(s, 1, n)) = IF 1 <= n THEN n - 1 + 1 ELSE 0
        /\ \A i \in 1..(n - 1 + 1) : SubSeq(s, 1, n)[i] = s[1 + i - 1]
    BY <1>3, SubSeqProperties
  <2>2. ASSUME NEW i \in 1..(Len(s) - 1) PROVE SubSeq(s, 1, Len(s) - 1)[i] = s[i]
    <3>1. i \in 1..(Len(s) - 1 - 1 + 1) /\ 1 + i - 1 = i
      BY <1>1
    <3> QED
      BY <2>1, <3>1
  <2> HIDE DEF n
  <2>5. n \in Nat
    BY <1>1 DEF n
  <2>3. n - 1 + 1 = n /\ (~(1 <= n) => n = 0)
    BY <2>5
  <2>4. Len(SubSeq(s, 1, n)) = n
    BY <2>1, <2>3
  <2> QED
    BY <2>1, <2>2, <2>4 DEF n
<1> QED
  BY <1>1, <1>2, <1>4 DEF Front, Last

LEMMA MacrosPop ==
    ASSUME NEW U, U \subseteq NodeState, NEW s \in Seq(U), s # <<>>
    PROVE  /\ Front(s) \in Seq(U) /\ Len(Front(s)) = Len(s) - 1
           /\ Len(s) \in Nat /\ Len(s) > 0 /\ Last(s) = s[Len(s)] /\ Last(s) \in U
           /\ \A i \in 1..(Len(s) - 1) : Front(s)[i] = s[i]
           /\ \A k \in 0..(Len(s) - 1) : MacrosIn(Front(s), k) = MacrosIn(s, k)
           /\ Macros(Front(s)) \in Nat
           /\ Macros(s) = Macros(Front(s)) + (IF Last(s) = "macro" THEN 1 ELSE 0)
<1> DEFINE t == Front(s)
<1>1. /\ t \in Seq(U) /\ Len(t) = Len(s) - 1 /\ Len(s) \in Nat /\ Len(s) > 0
      /\ \A i \in 1..(Len(s) - 1) : t[i] = s[i]
      /\ Last(s) = s[Len(s)] /\ Last(s) \in U
  BY FrontOfSeq
<1>2. t \in Seq(NodeState) /\ s \in Seq(NodeState)
  BY <1>1, SeqMonotonic
<1> HIDE DEF t
<1>3. ASSUME NEW k \in 0..(Len(s) - 1) PROVE MacrosIn(t, k) = MacrosIn(s, k)
  <2>1. (\A i \in 1..k : t[i] = s[i]) /\ k \in Nat
    BY <1>1
  <2> QED
    BY <1>2, <2>1, MacrosSame
<1>4. Macros(s) = MacrosIn(s, Len(s) - 1) + (IF Last(s) = "macro" THEN 1 ELSE 0)
  <2>1. Len(s) \in 0..Len(s)
    BY <1>1
  <2> QED
    BY <1>1, <1>2, <2>1, MacrosUpTo DEF Macros
<1>5. MacrosIn(s, Len(s) - 1) = Macros(t)
  <2>1. Len(s) - 1 \in 0..(Len(s) - 1)
    BY <1>1
  <2> QED
    BY <1>1, <1>3, <2>1 DEF Macros
<1>6. Macros(t) \in Nat
  <2>1. Len(t) \in 0..Len(t)
    BY <1>1
  <2> QED
    BY <1>2, <2>1, MacrosUpTo DEF Macros
<1> QED
  BY <1>1, <1>3, <1>4, <1>5, <1>6 DEF t

LEMMA MacrosGrow ==
    ASSUME NEW s \in Seq(NodeState), NEW j \in 0..Len(s), NEW k \in j..Len(s)
    PROVE  MacrosIn(s, j) <= MacrosIn(s, k)
<1> DEFINE M(i) == {n \in 1..i : s[n] = "macro"}
<1>1. IsFiniteSet(1..k) /\ M(k) \subseteq 1..k /\ M(j) \subseteq M(k)
  BY FS_Interval
<1>2. MacrosIn(s, j) = Cardinality(M(j)) /\ MacrosIn(s, k) = Cardinality(M(k))
  BY DEF MacrosIn
<1> HIDE DEF M
<1> QED
  BY <1>1, <1>2, FS_Subset

-----------------------------------------------------------------------------
(* Stacks that mirror each other                                           *)

LEMMA MirrorPlace ==
    ASSUME NEW t \in Seq(NodeState), NEW s \in Seq(LexState), Mirrors(t, s),
           NEW k \in 1..Len(s)
    PROVE  LET at == k + MacrosIn(s, k - 1) IN
           /\ at \in 1..Len(t) /\ t[at] = s[k] /\ at \in Nat
           /\ s[k] = "macro" => at + 1 \in 1..Len(t) /\ t[at + 1] = "param"
           /\ k < Len(s) => at + (IF s[k] = "macro" THEN 1 ELSE 0)
                               <= Len(s) - 1 + MacrosIn(s, Len(s) - 1)
<1> DEFINE at == k + MacrosIn(s, k - 1)
           one == IF s[k] = "macro" THEN 1 ELSE 0
<1>1. s \in Seq(NodeState) /\ Len(s) \in Nat /\ DOMAIN s = 1..Len(s)
  BY SeqMonotonic DEF NodeState
<1>2. /\ MacrosIn(s, k - 1) \in Nat /\ MacrosIn(s, k) \in Nat
      /\ MacrosIn(s, k) = MacrosIn(s, k - 1) + one
  <2>1. k \in 0..Len(s) /\ k - 1 \in 0..Len(s) /\ k > 0
    BY <1>1
  <2> QED
    BY <1>1, <2>1, MacrosUpTo
<1>3. MacrosIn(s, k) <= Macros(s) /\ Macros(s) \in Nat
  <2>1. k \in 0..Len(s) /\ Len(s) \in k..Len(s) /\ Len(s) \in 0..Len(s)
    BY <1>1
  <2> QED
    BY <1>1, <2>1, MacrosGrow, MacrosUpTo DEF Macros
<1>4. Len(t) = Len(s) + Macros(s) /\ t[at] = s[k] /\ (s[k] = "macro" => t[at + 1] = "param")
  BY <1>1 DEF Mirrors
<1>5. k < Len(s) => MacrosIn(s, k) <= MacrosIn(s, Len(s) - 1) /\ MacrosIn(s, Len(s) - 1) \in Nat
  <2> SUFFICES ASSUME k < Len(s)
               PROVE  MacrosIn(s, k) <= MacrosIn(s, Len(s) - 1) /\ MacrosIn(s, Len(s) - 1) \in Nat
    OBVIOUS
  <2>1. k \in 0..Len(s) /\ Len(s) - 1 \in k..Len(s) /\ Len(s) - 1 \in 0..Len(s)
    BY <1>1
  <2> QED
    BY <1>1, <2>1, MacrosGrow, MacrosUpTo
<1> QED
  BY <1>1, <1>2, <1>3, <1>4, <1>5

(* What the parser has on top. *)
LEMMA MirrorTop ==
    ASSUME NEW t \in Seq(NodeState), NEW s \in Seq(LexState), Mirrors(t, s), s # <<>>
    PROVE  t # <<>> /\ Last(t) = IF Last(s) = "macro" THEN "param" ELSE Last(s)
<1>1. Len(s) \in 1..Len(s) /\ Len(s) \in Nat /\ s \in Seq(NodeState)
  <2>1. Len(s) \in Nat /\ Len(s) > 0
    BY FrontOfSeq
  <2> QED
    BY <2>1, SeqMonotonic DEF NodeState
<1> DEFINE at == Len(s) + MacrosIn(s, Len(s) - 1)
<1>2. /\ at \in 1..Len(t) /\ t[at] = s[Len(s)] /\ at \in Nat
      /\ s[Len(s)] = "macro" => at + 1 \in 1..Len(t) /\ t[at + 1] = "param"
  BY <1>1, MirrorPlace
<1>3. Len(t) = at + (IF s[Len(s)] = "macro" THEN 1 ELSE 0)
  <2>1. /\ Macros(s) = MacrosIn(s, Len(s) - 1) + (IF s[Len(s)] = "macro" THEN 1 ELSE 0)
        /\ MacrosIn(s, Len(s) - 1) \in Nat
    <3>1. Len(s) \in 0..Len(s) /\ Len(s) - 1 \in 0..Len(s) /\ Len(s) > 0
      BY <1>1
    <3> QED
      BY <1>1, <3>1, MacrosUpTo DEF Macros
  <2>2. Len(t) = Len(s) + Macros(s)
    BY DEF Mirrors
  <2> QED
    BY <1>1, <2>1, <2>2
<1>4. t # <<>>
  BY <1>2
<1> QED
  BY <1>2, <1>3, <1>4 DEF Last

LEMMA MirrorPush ==
    ASSUME NEW t \in Seq(NodeState), NEW s \in Seq(LexState), Mirrors(t, s),
           NEW x \in LexState
    PROVE  /\ x # "macro" => Mirrors(Append(t, x), Append(s, x))
           /\ Mirrors(Append(Append(t, "macro"), "param"), Append(s, "macro"))
<1> DEFINE n == Len(s)
<1>0. s \in Seq(NodeState) /\ n \in Nat /\ Len(t) \in Nat /\ x \in NodeState
      /\ "macro" \in NodeState /\ "param" \in NodeState
  BY SeqMonotonic DEF NodeState, LexState
<1>1. Len(t) = n + Macros(s) /\ Macros(s) \in Nat /\ MacrosIn(s, n) = Macros(s)
  BY <1>0, MacrosPush DEF Mirrors, Macros
<1>2. ASSUME x # "macro" PROVE Mirrors(Append(t, x), Append(s, x))
  <2> DEFINE u == Append(t, x)
             v == Append(s, x)
  <2>1. /\ Len(u) = Len(t) + 1 /\ \A i \in 1..Len(t) : u[i] = t[i]
        /\ u[Len(t) + 1] = x
    BY <1>0, MacrosPush
  <2>2. /\ Len(v) = n + 1 /\ (\A i \in 1..n : v[i] = s[i]) /\ v[n + 1] = x /\ v \in Seq(NodeState)
        /\ \A k \in 0..n : MacrosIn(v, k) = MacrosIn(s, k)
        /\ Macros(v) = Macros(s)
    BY <1>0, <1>2, MacrosPush
  <2> HIDE DEF u, v
  <2>3. ASSUME NEW k \in 1..n
        PROVE  LET at == k + MacrosIn(v, k - 1) IN
               u[at] = v[k] /\ (v[k] = "macro" => u[at + 1] = "param")
    <3>1. MacrosIn(v, k - 1) = MacrosIn(s, k - 1) /\ v[k] = s[k]
      BY <1>0, <2>2
    <3>2. LET at == k + MacrosIn(s, k - 1) IN
          /\ at \in 1..Len(t) /\ t[at] = s[k]
          /\ s[k] = "macro" => at + 1 \in 1..Len(t) /\ t[at + 1] = "param"
      BY MirrorPlace
    <3> QED
      BY <2>1, <3>1, <3>2
  <2>4. u[(n + 1) + MacrosIn(v, (n + 1) - 1)] = v[n + 1]
    <3>1. (n + 1) - 1 = n /\ n \in 0..n
      BY <1>0
    <3>2. MacrosIn(v, (n + 1) - 1) = Macros(s)
      BY <1>1, <2>2, <3>1
    <3>3. (n + 1) + Macros(s) = Len(t) + 1
      BY <1>0, <1>1
    <3> QED
      BY <2>1, <2>2, <3>2, <3>3
  <2>5. Len(u) = Len(v) + Macros(v)
    BY <1>0, <1>1, <2>1, <2>2
  <2>6. DOMAIN v = 1..(n + 1)
    BY <2>2
  <2>7. \A k \in DOMAIN v : k \in 1..n \/ k = n + 1
    BY <1>0, <2>6
  <2>8. v[n + 1] # "macro"
    BY <1>2, <2>2
  <2>9. Mirrors(u, v)
    BY <2>3, <2>4, <2>5, <2>7, <2>8 DEF Mirrors
  <2> QED
    BY <2>9 DEF u, v
<1>3. Mirrors(Append(Append(t, "macro"), "param"), Append(s, "macro"))
  <2> DEFINE w == Append(t, "macro")
             u == Append(w, "param")
             v == Append(s, "macro")
  <2>0. w \in Seq(NodeState) /\ Len(w) = Len(t) + 1 /\ (\A i \in 1..Len(t) : w[i] = t[i])
        /\ w[Len(t) + 1] = "macro"
    BY <1>0, MacrosPush
  <2> HIDE DEF w
  <2>1. /\ Len(u) = Len(t) + 2 /\ \A i \in 1..Len(t) : u[i] = t[i]
        /\ u[Len(t) + 1] = "macro" /\ u[Len(t) + 2] = "param"
    <3>1. Len(u) = Len(w) + 1 /\ (\A i \in 1..Len(w) : u[i] = w[i]) /\ u[Len(w) + 1] = "param"
      BY <1>0, <2>0, MacrosPush
    <3>2. Len(w) + 1 = Len(t) + 2 /\ Len(t) + 1 \in 1..Len(w)
          /\ \A i \in 1..Len(t) : i \in 1..Len(w)
      BY <1>0, <2>0
    <3> QED
      BY <2>0, <3>1, <3>2
  <2>2. /\ Len(v) = n + 1 /\ (\A i \in 1..n : v[i] = s[i]) /\ v[n + 1] = "macro" /\ v \in Seq(NodeState)
        /\ \A k \in 0..n : MacrosIn(v, k) = MacrosIn(s, k)
        /\ Macros(v) = Macros(s) + 1
    BY <1>0, MacrosPush
  <2> HIDE DEF u, v
  <2>3. ASSUME NEW k \in 1..n
        PROVE  LET at == k + MacrosIn(v, k - 1) IN
               u[at] = v[k] /\ (v[k] = "macro" => u[at + 1] = "param")
    <3>1. MacrosIn(v, k - 1) = MacrosIn(s, k - 1) /\ v[k] = s[k]
      BY <1>0, <2>2
    <3>2. LET at == k + MacrosIn(s, k - 1) IN
          /\ at \in 1..Len(t) /\ t[at] = s[k]
          /\ s[k] = "macro" => at + 1 \in 1..Len(t) /\ t[at + 1] = "param"
      BY MirrorPlace
    <3> QED
      BY <2>1, <3>1, <3>2
  <2>4. LET at == (n + 1) + MacrosIn(v, (n + 1) - 1) IN
        u[at] = v[n + 1] /\ u[at + 1] = "param"
    <3>1. (n + 1) - 1 = n /\ n \in 0..n
      BY <1>0
    <3>2. MacrosIn(v, (n + 1) - 1) = Macros(s)
      BY <1>1, <2>2, <3>1
    <3>3. (n + 1) + Macros(s) = Len(t) + 1 /\ ((n + 1) + Macros(s)) + 1 = Len(t) + 2
      BY <1>0, <1>1
    <3> QED
      BY <2>1, <2>2, <3>2, <3>3
  <2>5. Len(u) = Len(v) + Macros(v)
    BY <1>0, <1>1, <2>1, <2>2
  <2>6. DOMAIN v = 1..(n + 1)
    BY <2>2
  <2>7. \A k \in DOMAIN v : k \in 1..n \/ k = n + 1
    BY <1>0, <2>6
  <2>9. Mirrors(u, v)
    BY <2>3, <2>4, <2>5, <2>7 DEF Mirrors
  <2> QED
    BY <2>9 DEF u, v, w
<1> QED
  BY <1>2, <1>3

LEMMA MirrorCut ==
    ASSUME NEW t \in Seq(NodeState), NEW s \in Seq(LexState), Mirrors(t, s), s # <<>>,
           NEW u \in Seq(NodeState), Len(u) = Len(s) - 1 + MacrosIn(s, Len(s) - 1),
           \A i \in 1..Len(u) : u[i] = t[i]
    PROVE  Mirrors(u, Front(s))
<1> DEFINE n == Len(s) - 1
           v == Front(s)
<1>0. s \in Seq(NodeState)
  BY SeqMonotonic DEF NodeState
<1>1. /\ Len(v) = n /\ n \in Nat /\ Len(s) = n + 1 /\ DOMAIN v = 1..n
      /\ \A i \in 1..n : v[i] = s[i]
      /\ \A k \in 0..n : MacrosIn(v, k) = MacrosIn(s, k)
      /\ v \in Seq(NodeState)
  <2>1. /\ Len(v) = n /\ Len(s) \in Nat /\ Len(s) > 0
        /\ \A i \in 1..n : v[i] = s[i]
        /\ \A k \in 0..n : MacrosIn(v, k) = MacrosIn(s, k)
        /\ v \in Seq(NodeState)
    BY <1>0, MacrosPop
  <2> HIDE DEF v
  <2> QED
    BY <2>1
<1> HIDE DEF v
<1>2. MacrosIn(s, n) \in Nat /\ Macros(v) = MacrosIn(s, n)
  <2>1. n \in 0..n /\ n \in 0..Len(s)
    BY <1>1
  <2> QED
    BY <1>0, <1>1, <2>1, MacrosUpTo DEF Macros
<1>3. ASSUME NEW k \in 1..n
      PROVE  LET at == k + MacrosIn(v, k - 1) IN
             u[at] = v[k] /\ (v[k] = "macro" => u[at + 1] = "param")
  <2>1. MacrosIn(v, k - 1) = MacrosIn(s, k - 1) /\ v[k] = s[k]
    BY <1>1
  <2> DEFINE at == k + MacrosIn(s, k - 1)
  <2>2. /\ at \in 1..Len(t) /\ t[at] = s[k]
        /\ s[k] = "macro" => at + 1 \in 1..Len(t) /\ t[at + 1] = "param"
        /\ k < Len(s) => at + (IF s[k] = "macro" THEN 1 ELSE 0) <= n + MacrosIn(s, n)
    <3>1. k \in 1..Len(s)
      BY <1>1
    <3> QED
      BY <3>1, MirrorPlace
  <2>3. at \in 1..Len(u) /\ (s[k] = "macro" => at + 1 \in 1..Len(u))
    <3> HIDE DEF at
    <3>1. k < Len(s) /\ at \in Nat /\ at >= 1 /\ Len(u) = n + MacrosIn(s, n) /\ Len(u) \in Nat
      BY <1>1, <1>2, <2>2
    <3> QED
      BY <2>2, <3>1
  <2> QED
    BY <2>1, <2>2, <2>3
<1> QED
  BY <1>1, <1>2, <1>3 DEF Mirrors, v

LEMMA MirrorPop ==
    ASSUME NEW t \in Seq(NodeState), NEW s \in Seq(LexState), Mirrors(t, s), s # <<>>
    PROVE  /\ Last(s) # "macro" => Mirrors(Front(t), Front(s))
           /\ Last(s) = "macro" => Front(t) # <<>> /\ Mirrors(Front(Front(t)), Front(s))
<1> DEFINE n == Len(s) - 1
           one == IF Last(s) = "macro" THEN 1 ELSE 0
<1>0. s \in Seq(NodeState)
  BY SeqMonotonic DEF NodeState
<1>1. Len(s) \in Nat /\ Len(s) > 0 /\ Last(s) = s[Len(s)]
  BY FrontOfSeq
<1>2. MacrosIn(s, n) \in Nat /\ Len(t) = Len(s) + MacrosIn(s, n) + one
  <2>1. Len(s) \in 0..Len(s) /\ n \in 0..Len(s)
    BY <1>1
  <2>2. Macros(s) = MacrosIn(s, n) + one /\ MacrosIn(s, n) \in Nat
    BY <1>0, <1>1, <2>1, MacrosUpTo DEF Macros
  <2>3. Len(t) = Len(s) + Macros(s)
    BY DEF Mirrors
  <2> QED
    BY <1>1, <2>2, <2>3
<1>3. t # <<>>
  BY MirrorTop
<1>4. /\ Front(t) \in Seq(NodeState) /\ Len(Front(t)) = Len(t) - 1
      /\ \A i \in 1..(Len(t) - 1) : Front(t)[i] = t[i]
  BY <1>3, FrontOfSeq
<1>5. CASE Last(s) # "macro"
  <2>1. Len(Front(t)) = n + MacrosIn(s, n)
    BY <1>1, <1>2, <1>4, <1>5
  <2>2. \A i \in 1..Len(Front(t)) : Front(t)[i] = t[i]
    BY <1>4
  <2> QED
    BY <1>4, <1>5, <2>1, <2>2, MirrorCut
<1>6. CASE Last(s) = "macro"
  <2> DEFINE w == Front(t)
  <2>1. Len(w) = Len(s) + MacrosIn(s, n)
    BY <1>1, <1>2, <1>4, <1>6
  <2> HIDE DEF w
  <2>2. w # <<>> /\ w \in Seq(NodeState)
    <3>1. Len(w) > 0
      BY <1>1, <1>2, <2>1
    <3> QED
      BY <1>4, <3>1 DEF w
  <2>3. /\ Front(w) \in Seq(NodeState) /\ Len(Front(w)) = Len(w) - 1
        /\ \A i \in 1..(Len(w) - 1) : Front(w)[i] = w[i]
    BY <2>2, FrontOfSeq
  <2>4. Len(Front(w)) = n + MacrosIn(s, n)
    BY <1>1, <1>2, <2>1, <2>3
  <2>5. \A i \in 1..Len(Front(w)) : Front(w)[i] = t[i]
    <3>1. \A i \in 1..Len(Front(w)) : i \in 1..(Len(w) - 1) /\ i \in 1..(Len(t) - 1)
      BY <1>1, <1>2, <1>4, <2>1, <2>3 DEF w
    <3> QED
      BY <1>4, <2>3, <3>1 DEF w
  <2>6. Mirrors(Front(w), Front(s))
    BY <2>3, <2>4, <2>5, MirrorCut
  <2> QED
    BY <1>6, <2>2, <2>6 DEF w
<1> QED
  BY <1>5, <1>6

-----------------------------------------------------------------------------
(* What the two stacks have in common, also after they diverged            *)

Paired(t) ==
    \A k \in DOMAIN t :
        /\ t[k] = "macro" => k < Len(t) /\ t[k + 1] = "param"
        /\ t[k] = "param" => k > 1 /\ t[k - 1] = "macro"

InComments(s, n) ==
    /\ n \in 0..Len(s)
    /\ \A k \in DOMAIN s : s[k] = "comment" <=> k > Len(s) - n

Tracks(t, s) ==
    /\ t \in Seq(NodeState) /\ s \in Seq(LexState)
    /\ Paired(t)
    /\ \E n \in Nat : InComments(t, n) /\ InComments(s, n)
    /\ (Mirrors(t, s) /\ Macros(t) = Macros(s)) \/ Macros(t) > Macros(s)

LEMMA CommentTop ==
    ASSUME NEW t \in Seq(NodeState), NEW n \in Nat, InComments(t, n)
    PROVE  n > 0 <=> (t # <<>> /\ Last(t) = "comment")
<1>1. CASE t = <<>>
  BY <1>1 DEF InComments
<1>2. CASE t # <<>>
  <2>1. Len(t) \in Nat /\ Len(t) > 0 /\ Last(t) = t[Len(t)]
    BY <1>2, FrontOfSeq
  <2>2. DOMAIN t = 1..Len(t)
    BY LenProperties
  <2>3. Len(t) \in DOMAIN t
    BY <2>1, <2>2
  <2>4. t[Len(t)] = "comment" <=> Len(t) > Len(t) - n
    BY <2>3 DEF InComments
  <2> QED
    BY <1>2, <2>1, <2>4
<1> QED
  BY <1>1, <1>2

LEMMA CommentPush ==
    ASSUME NEW t \in Seq(NodeState), NEW n \in Nat, InComments(t, n), NEW x \in NodeState
    PROVE  /\ x = "comment" => InComments(Append(t, x), n + 1)
           /\ x # "comment" /\ n = 0 => InComments(Append(t, x), 0)
<1> DEFINE u == Append(t, x)
<1>1. /\ u \in Seq(NodeState) /\ Len(u) = Len(t) + 1
      /\ \A i \in 1..Len(t) : u[i] = t[i]
      /\ u[Len(t) + 1] = x
  BY MacrosPush
<1> HIDE DEF u
<1>2. Len(t) \in Nat /\ DOMAIN t = 1..Len(t) /\ DOMAIN u = 1..(Len(t) + 1)
  BY <1>1, LenProperties
<1>3. \A k \in DOMAIN u : k \in DOMAIN t \/ k = Len(t) + 1
  BY <1>2
<1>4. x = "comment" => InComments(u, n + 1)
  <2> SUFFICES ASSUME x = "comment" PROVE InComments(u, n + 1)
    OBVIOUS
  <2>1. n + 1 \in 0..Len(u) /\ Len(u) - (n + 1) = Len(t) - n
    BY <1>1, <1>2 DEF InComments
  <2>4. ASSUME NEW k \in DOMAIN u PROVE u[k] = "comment" <=> k > Len(u) - (n + 1)
    <3>2. CASE k \in DOMAIN t
      BY <1>1, <1>2, <2>1, <3>2 DEF InComments
    <3>3. CASE k = Len(t) + 1
      BY <1>1, <1>2, <2>1, <3>3 DEF InComments
    <3> QED
      BY <1>3, <3>2, <3>3
  <2> QED
    BY <2>1, <2>4 DEF InComments
<1>5. x # "comment" /\ n = 0 => InComments(u, 0)
  <2> SUFFICES ASSUME x # "comment", n = 0, NEW k \in DOMAIN u
               PROVE  0 \in 0..Len(u) /\ (u[k] = "comment" <=> k > Len(u) - 0)
    BY DEF InComments
  <2>1. 0 \in 0..Len(u) /\ ~(k > Len(u) - 0)
    BY <1>1, <1>2
  <2>2. CASE k \in DOMAIN t
    BY <1>1, <1>2, <2>1, <2>2 DEF InComments
  <2>3. CASE k = Len(t) + 1
    BY <1>1, <1>2, <2>1, <2>3 DEF InComments
  <2> QED
    BY <1>3, <2>1, <2>2, <2>3
<1> QED
  BY <1>4, <1>5 DEF u

LEMMA CommentPop ==
    ASSUME NEW t \in Seq(NodeState), NEW n \in Nat, InComments(t, n), t # <<>>
    PROVE  /\ n > 0 => InComments(Front(t), n - 1)
           /\ n = 0 => InComments(Front(t), 0)
<1> DEFINE u == Front(t)
<1>1. /\ u \in Seq(NodeState) /\ Len(u) = Len(t) - 1
      /\ Len(t) \in Nat /\ Len(t) > 0
      /\ \A i \in 1..(Len(t) - 1) : u[i] = t[i]
  BY FrontOfSeq
<1> HIDE DEF u
<1>2. DOMAIN u = 1..(Len(t) - 1) /\ DOMAIN t = 1..Len(t)
  BY <1>1, LenProperties
<1>3. n > 0 => InComments(u, n - 1)
  BY <1>1, <1>2 DEF InComments
<1>4. n = 0 => InComments(u, 0)
  BY <1>1, <1>2 DEF InComments
<1> QED
  BY <1>3, <1>4 DEF u

LEMMA PairedTop ==
    ASSUME NEW t \in Seq(NodeState), Paired(t), t # <<>>
    PROVE  /\ Last(t) # "macro"
           /\ Last(t) = "param" => Front(t) # <<>> /\ Last(Front(t)) = "macro"
<1>1. Len(t) \in Nat /\ Len(t) > 0 /\ Last(t) = t[Len(t)] /\ DOMAIN t = 1..Len(t)
  BY FrontOfSeq, LenProperties
<1>2. Len(t) \in DOMAIN t
  BY <1>1
<1>3. Last(t) # "macro"
  BY <1>1, <1>2 DEF Paired
<1>4. ASSUME Last(t) = "param" PROVE Front(t) # <<>> /\ Last(Front(t)) = "macro"
  <2>1. Len(t) > 1 /\ t[Len(t) - 1] = "macro"
    BY <1>1, <1>2, <1>4 DEF Paired
  <2>2. /\ Front(t) \in Seq(NodeState) /\ Len(Front(t)) = Len(t) - 1
        /\ \A i \in 1..(Len(t) - 1) : Front(t)[i] = t[i]
    BY FrontOfSeq
  <2>3. Front(t) # <<>>
    BY <1>1, <2>1, <2>2
  <2>5. Last(Front(t)) = Front(t)[Len(Front(t))]
    BY DEF Last
  <2>4. Last(Front(t)) = Front(t)[Len(t) - 1] /\ Len(t) - 1 \in 1..(Len(t) - 1)
    BY <1>1, <2>1, <2>2, <2>5
  <2> QED
    BY <2>1, <2>2, <2>3, <2>4
<1> QED
  BY <1>3, <1>4

LEMMA PairedPush ==
    ASSUME NEW t \in Seq(NodeState), Paired(t), NEW x \in LexState
    PROVE  /\ x # "macro" => Paired(Append(t, x))
           /\ Paired(Append(Append(t, "macro"), "param"))
<1>0. x \in NodeState /\ "macro" \in NodeState /\ "param" \in NodeState
      /\ Len(t) \in Nat /\ DOMAIN t = 1..Len(t)
  BY LenProperties DEF NodeState, LexState
<1>1. ASSUME x # "macro" PROVE Paired(Append(t, x))
  <2> DEFINE u == Append(t, x)
  <2>1. /\ u \in Seq(NodeState) /\ Len(u) = Len(t) + 1 /\ \A i \in 1..Len(t) : u[i] = t[i]
        /\ u[Len(t) + 1] = x
    BY <1>0, MacrosPush
  <2> HIDE DEF u
  <2>2. DOMAIN u = 1..(Len(t) + 1) /\ x # "param"
    BY <2>1, LenProperties DEF LexState
  <2>3. ASSUME NEW k \in DOMAIN u
        PROVE  /\ u[k] = "macro" => k < Len(u) /\ u[k + 1] = "param"
               /\ u[k] = "param" => k > 1 /\ u[k - 1] = "macro"
    <3>1. CASE k = Len(t) + 1
      BY <1>1, <2>1, <2>2, <3>1
    <3>2. CASE k \in 1..Len(t)
      BY <1>0, <2>1, <3>2 DEF Paired
    <3> QED
      BY <1>0, <2>2, <3>1, <3>2
  <2>4. Paired(u)
    BY <2>3 DEF Paired
  <2> QED
    BY <2>4 DEF u
<1>2. Paired(Append(Append(t, "macro"), "param"))
  <2> DEFINE w == Append(t, "macro")
             u == Append(w, "param")
  <2>1. /\ w \in Seq(NodeState) /\ Len(w) = Len(t) + 1 /\ \A i \in 1..Len(t) : w[i] = t[i]
        /\ w[Len(t) + 1] = "macro"
    BY <1>0, MacrosPush
  <2> HIDE DEF w
  <2>2. /\ u \in Seq(NodeState) /\ Len(u) = Len(w) + 1 /\ (\A i \in 1..Len(w) : u[i] = w[i])
        /\ u[Len(w) + 1] = "param"
    BY <1>0, <2>1, MacrosPush
  <2> HIDE DEF u
  <2>3. DOMAIN u = 1..(Len(t) + 2) /\ Len(u) = Len(t) + 2
        /\ u[Len(t) + 1] = "macro" /\ u[Len(t) + 2] = "param"
        /\ \A i \in 1..Len(t) : u[i] = t[i]
    BY <1>0, <2>1, <2>2, LenProperties
  <2>4. ASSUME NEW k \in DOMAIN u
        PROVE  /\ u[k] = "macro" => k < Len(u) /\ u[k + 1] = "param"
               /\ u[k] = "param" => k > 1 /\ u[k - 1] = "macro"
    <3>1. CASE k = Len(t) + 2
      <4>1. k - 1 = Len(t) + 1 /\ k > 1
        BY <1>0, <3>1
      <4> QED
        BY <2>3, <3>1, <4>1
    <3>2. CASE k = Len(t) + 1
      <4>1. k + 1 = Len(t) + 2 /\ k < Len(u)
        BY <1>0, <2>3, <3>2
      <4> QED
        BY <2>3, <3>2, <4>1
    <3>3. CASE k \in 1..Len(t)
      BY <1>0, <2>3, <3>3 DEF Paired
    <3> QED
      BY <1>0, <2>3, <3>1, <3>2, <3>3
  <2>5. Paired(u)
    BY <2>4 DEF Paired
  <2> QED
    BY <2>5 DEF u, w
<1> QED
  BY <1>1, <1>2

LEMMA PairedPop ==
    ASSUME NEW t \in Seq(NodeState), Paired(t), t # <<>>
    PROVE  /\ Last(t) # "param" => Paired(Front(t))
           /\ Last(t) = "param" => Paired(Front(Front(t)))
<1>1. /\ Len(t) \in Nat /\ Len(t) > 0 /\ Last(t) = t[Len(t)] /\ DOMAIN t = 1..Len(t)
      /\ Front(t) \in Seq(NodeState) /\ Len(Front(t)) = Len(t) - 1
      /\ \A i \in 1..(Len(t) - 1) : Front(t)[i] = t[i]
  BY FrontOfSeq, LenProperties
<1>2. ASSUME Last(t) # "param" PROVE Paired(Front(t))
  <2> DEFINE u == Front(t)
  <2>1. DOMAIN u = 1..(Len(t) - 1)
    BY <1>1, LenProperties
  <2>2. ASSUME NEW k \in DOMAIN u
        PROVE  /\ u[k] = "macro" => k < Len(u) /\ u[k + 1] = "param"
               /\ u[k] = "param" => k > 1 /\ u[k - 1] = "macro"
    <3>1. u[k] = t[k] /\ k \in DOMAIN t /\ k \in 1..(Len(t) - 1)
      BY <1>1, <2>1
    <3>2. t[k] = "macro" => k + 1 # Len(t)
      BY <1>1, <1>2, <3>1 DEF Paired
    <3>3. t[k] = "macro" => k < Len(u) /\ u[k + 1] = t[k + 1]
      BY <1>1, <3>1, <3>2
    <3>4. t[k] = "param" => k > 1 /\ u[k - 1] = t[k - 1]
      BY <1>1, <3>1 DEF Paired
    <3> QED
      BY <3>1, <3>3, <3>4 DEF Paired
  <2> QED
    BY <2>2 DEF Paired
<1>3. ASSUME Last(t) = "param" PROVE Paired(Front(Front(t)))
  <2> DEFINE w == Front(t)
             u == Front(w)
  <2>0. w # <<>> /\ Len(t) > 1
    BY <1>1, <1>3, PairedTop
  <2>1. /\ u \in Seq(NodeState) /\ Len(u) = Len(w) - 1
        /\ \A i \in 1..(Len(w) - 1) : u[i] = w[i]
    BY <1>1, <2>0, FrontOfSeq
  <2> HIDE DEF u
  <2>2. /\ DOMAIN u = 1..(Len(t) - 2) /\ Len(u) = Len(t) - 2
        /\ \A i \in 1..(Len(t) - 2) : u[i] = t[i]
    BY <1>1, <2>0, <2>1, LenProperties
  <2>3. ASSUME NEW k \in DOMAIN u
        PROVE  /\ u[k] = "macro" => k < Len(u) /\ u[k + 1] = "param"
               /\ u[k] = "param" => k > 1 /\ u[k - 1] = "macro"
    <3>1. u[k] = t[k] /\ k \in DOMAIN t /\ k \in 1..(Len(t) - 2)
      BY <1>1, <2>2
    <3>2. t[Len(t) - 1] = "macro"
      <4>1. Len(t) \in DOMAIN t
        BY <1>1
      <4> QED
        BY <1>1, <1>3, <4>1 DEF Paired
    <3>3. t[k] = "macro" => k + 1 # Len(t) - 1
      BY <3>1, <3>2 DEF Paired
    <3>4. t[k] = "macro" => k < Len(u) /\ u[k + 1] = t[k + 1]
      BY <1>1, <2>2, <3>1, <3>3
    <3>5. t[k] = "param" => k > 1 /\ u[k - 1] = t[k - 1]
      BY <1>1, <2>2, <3>1 DEF Paired
    <3> QED
      BY <3>1, <3>4, <3>5 DEF Paired
  <2> QED
    BY <2>3 DEF Paired, u
<1> QED
  BY <1>2, <1>3

-----------------------------------------------------------------------------
(* What a token does to both stacks                                        *)

LEMMA TracksTop ==
    ASSUME NEW t, NEW s, Tracks(t, s), s # <<>>
    PROVE  /\ t \in Seq(NodeState) /\ s \in Seq(LexState) /\ s \in Seq(NodeState)
           /\ t # <<>> /\ Macros(t) \in Nat /\ Macros(s) \in Nat
           /\ Last(t) \in NodeState /\ Last(t) # "macro" /\ Last(s) \in LexState
           /\ (Last(t) = "comment") <=> (Last(s) = "comment")
           /\ \/ /\ Mirrors(t, s)
                 /\ Last(t) = IF Last(s) = "macro" THEN "param" ELSE Last(s)
                 /\ Macros(t) = Macros(s)
              \/ Macros(t) > Macros(s)
<1>1. t \in Seq(NodeState) /\ s \in Seq(LexState) /\ Paired(t)
  BY DEF Tracks
<1>2. s \in Seq(NodeState)
  BY <1>1, SeqMonotonic DEF NodeState
<1>3. Macros(t) \in Nat /\ Macros(s) \in Nat
  <2>1. "block" \in NodeState
    BY DEF NodeState, LexState
  <2> QED
    BY <1>1, <1>2, <2>1, MacrosPush
<1>4. Mirrors(t, s) => t # <<>> /\ Last(t) = IF Last(s) = "macro" THEN "param" ELSE Last(s)
  BY <1>1, MirrorTop
<1>5. Macros(t) > Macros(s) => t # <<>>
  <2>1. MacrosIn(t, 0) = 0
    <3>1. 0 \in 0..Len(t)
      BY <1>1, LenProperties
    <3> QED
      BY <1>1, <3>1, MacrosUpTo
  <2>2. t = <<>> => Macros(t) = 0
    BY <2>1, EmptySeq DEF Macros
  <2> QED
    BY <1>3, <2>2
<1>6. (Mirrors(t, s) /\ Macros(t) = Macros(s)) \/ Macros(t) > Macros(s)
  BY DEF Tracks
<1>7. t # <<>>
  BY <1>4, <1>5, <1>6
<1>8. Last(t) \in NodeState /\ Last(t) # "macro" /\ Last(s) \in LexState
  BY <1>1, <1>7, FrontOfSeq, PairedTop
<1>9. (Last(t) = "comment") <=> (Last(s) = "comment")
  <2>1. PICK n \in Nat : InComments(t, n) /\ InComments(s, n)
    BY DEF Tracks
  <2>2. n > 0 <=> (t # <<>> /\ Last(t) = "comment")
    BY <1>1, <2>1, CommentTop
  <2>3. n > 0 <=> (s # <<>> /\ Last(s) = "comment")
    BY <1>2, <2>1, CommentTop
  <2> QED
    BY <1>7, <2>2, <2>3
<1> QED
  BY <1>1, <1>2, <1>3, <1>4, <1>6, <1>7, <1>8, <1>9

(* Outside comments there is none below either. *)
LEMMA OutsideComments ==
    ASSUME NEW t, NEW s, Tracks(t, s), s # <<>>, Last(t) # "comment"
    PROVE  InComments(t, 0) /\ InComments(s, 0)
<1>1. PICK n \in Nat : InComments(t, n) /\ InComments(s, n)
  BY DEF Tracks
<1>2. n > 0 <=> (t # <<>> /\ Last(t) = "comment")
  BY <1>1, TracksTop, CommentTop
<1>3. n = 0
  BY <1>2
<1> QED
  BY <1>1, <1>3

LEMMA BothPush ==
    ASSUME NEW t, NEW s, Tracks(t, s), s # <<>>,
           NEW x \in LexState, x # "macro", x = "comment" \/ Last(t) # "comment"
    PROVE  Tracks(Append(t, x), Append(s, x))
<1>1. /\ t \in Seq(NodeState) /\ s \in Seq(LexState) /\ s \in Seq(NodeState)
      /\ Macros(t) \in Nat /\ Macros(s) \in Nat /\ x \in NodeState
  BY TracksTop DEF NodeState
<1>2. Append(t, x) \in Seq(NodeState) /\ Append(s, x) \in Seq(LexState)
  BY <1>1
<1>3. Paired(Append(t, x))
  BY <1>1, PairedPush DEF Tracks
<1>4. \E n \in Nat : InComments(Append(t, x), n) /\ InComments(Append(s, x), n)
  <2>1. CASE x = "comment"
    <3>1. PICK n \in Nat : InComments(t, n) /\ InComments(s, n)
      BY DEF Tracks
    <3>2. InComments(Append(t, x), n + 1) /\ InComments(Append(s, x), n + 1)
      BY <1>1, <2>1, <3>1, CommentPush
    <3> QED
      BY <3>2
  <2>2. CASE x # "comment"
    <3>1. InComments(t, 0) /\ InComments(s, 0)
      BY <2>2, OutsideComments
    <3>2. InComments(Append(t, x), 0) /\ InComments(Append(s, x), 0)
      BY <1>1, <2>2, <3>1, CommentPush
    <3> QED
      BY <3>2
  <2> QED
    BY <2>1, <2>2
<1>5. Macros(Append(t, x)) = Macros(t) /\ Macros(Append(s, x)) = Macros(s)
  BY <1>1, MacrosPush
<1>6. Mirrors(t, s) => Mirrors(Append(t, x), Append(s, x))
  BY <1>1, MirrorPush
<1> QED
  BY <1>2, <1>3, <1>4, <1>5, <1>6 DEF Tracks

LEMMA BothPushMacro ==
    ASSUME NEW t, NEW s, Tracks(t, s), s # <<>>, Last(t) # "comment"
    PROVE  Tracks(Append(Append(t, "macro"), "param"), Append(s, "macro"))
<1> DEFINE u == Append(t, "macro")
           v == Append(u, "param")
           w == Append(s, "macro")
<1>1. /\ t \in Seq(NodeState) /\ s \in Seq(LexState) /\ s \in Seq(NodeState)
      /\ Macros(t) \in Nat /\ Macros(s) \in Nat
      /\ "macro" \in LexState /\ "macro" \in NodeState /\ "param" \in NodeState
  BY TracksTop DEF NodeState, LexState
<1>2. u \in Seq(NodeState) /\ w \in Seq(LexState)
  BY <1>1
<1>3. Paired(v) /\ (Mirrors(t, s) => Mirrors(v, w))
  BY <1>1, PairedPush, MirrorPush DEF Tracks
<1>4. InComments(u, 0) /\ InComments(w, 0)
  <2>1. InComments(t, 0) /\ InComments(s, 0)
    BY OutsideComments
  <2> QED
    BY <1>1, <2>1, CommentPush
<1>5. Macros(u) = Macros(t) + 1 /\ Macros(w) = Macros(s) + 1
  BY <1>1, MacrosPush
<1> HIDE DEF u, w
<1>6. v \in Seq(NodeState) /\ InComments(v, 0) /\ Macros(v) = Macros(u)
  <2>1. v \in Seq(NodeState)
    BY <1>1, <1>2
  <2>2. InComments(v, 0)
    BY <1>1, <1>2, <1>4, CommentPush
  <2>3. Macros(v) = Macros(u) + 0
    BY <1>1, <1>2, MacrosPush
  <2>4. Macros(u) \in Nat
    BY <1>1, <1>5
  <2> QED
    BY <2>1, <2>2, <2>3, <2>4
<1> HIDE DEF v
<1>7. (Mirrors(v, w) /\ Macros(v) = Macros(w)) \/ Macros(v) > Macros(w)
  BY <1>1, <1>3, <1>5, <1>6 DEF Tracks
<1>8. Tracks(v, w)
  BY <1>2, <1>3, <1>4, <1>6, <1>7 DEF Tracks
<1> QED
  BY <1>8 DEF u, v, w

LEMMA BothPop ==
    ASSUME NEW t, NEW s, Tracks(t, s), s # <<>>, Last(t) # "param"
    PROVE  Tracks(Front(t), Front(s))
<1>1. /\ t \in Seq(NodeState) /\ s \in Seq(LexState) /\ s \in Seq(NodeState) /\ t # <<>>
      /\ Macros(t) \in Nat /\ Macros(s) \in Nat /\ Last(t) # "macro"
  BY TracksTop
<1>2. Front(t) \in Seq(NodeState) /\ Front(s) \in Seq(LexState)
  BY <1>1, FrontOfSeq
<1>3. Paired(Front(t))
  BY <1>1, PairedPop DEF Tracks
<1>4. \E n \in Nat : InComments(Front(t), n) /\ InComments(Front(s), n)
  <2>1. PICK n \in Nat : InComments(t, n) /\ InComments(s, n)
    BY DEF Tracks
  <2>2. n > 0 => InComments(Front(t), n - 1) /\ InComments(Front(s), n - 1)
    BY <1>1, <2>1, CommentPop
  <2>3. n = 0 => InComments(Front(t), 0) /\ InComments(Front(s), 0)
    BY <1>1, <2>1, CommentPop
  <2>4. n > 0 => n - 1 \in Nat
    OBVIOUS
  <2> QED
    BY <2>2, <2>3, <2>4
<1>5. /\ Macros(Front(t)) \in Nat /\ Macros(t) = Macros(Front(t)) + 0
      /\ Macros(Front(s)) \in Nat
      /\ Macros(s) = Macros(Front(s)) + (IF Last(s) = "macro" THEN 1 ELSE 0)
  BY <1>1, MacrosPop
<1>6. CASE Mirrors(t, s) /\ Macros(t) = Macros(s)
               /\ Last(t) = IF Last(s) = "macro" THEN "param" ELSE Last(s)
  <2>1. Last(s) # "macro" /\ Mirrors(Front(t), Front(s))
    BY <1>1, <1>6, MirrorPop
  <2>2. Macros(Front(t)) = Macros(Front(s))
    BY <1>5, <1>6, <2>1
  <2> QED
    BY <1>2, <1>3, <1>4, <2>1, <2>2 DEF Tracks
<1>7. CASE Macros(t) > Macros(s)
  <2>1. Macros(Front(t)) > Macros(Front(s))
    BY <1>5, <1>7
  <2> QED
    BY <1>2, <1>3, <1>4, <2>1 DEF Tracks
<1> QED
  BY <1>6, <1>7, TracksTop

LEMMA BothPopMacro ==
    ASSUME NEW t, NEW s, Tracks(t, s), s # <<>>, Last(t) = "param", Last(s) = "macro"
    PROVE  Tracks(Front(Front(t)), Front(s))
<1> DEFINE u == Front(t)
<1>1. /\ t \in Seq(NodeState) /\ s \in Seq(LexState) /\ s \in Seq(NodeState) /\ t # <<>>
      /\ Macros(t) \in Nat /\ Macros(s) \in Nat
  BY TracksTop
<1>2. u \in Seq(NodeState) /\ Front(s) \in Seq(LexState)
  BY <1>1, FrontOfSeq
<1>3. Paired(Front(u)) /\ u # <<>> /\ Last(u) = "macro"
  BY <1>1, PairedPop, PairedTop DEF Tracks
<1>4. InComments(u, 0) /\ InComments(Front(s), 0)
  <2>1. InComments(t, 0) /\ InComments(s, 0)
    BY OutsideComments
  <2> QED
    BY <1>1, <2>1, CommentPop
<1>5. /\ Macros(u) \in Nat /\ Macros(t) = Macros(u) + 0
      /\ Macros(Front(s)) \in Nat /\ Macros(s) = Macros(Front(s)) + 1
  BY <1>1, MacrosPop
<1>8. Mirrors(t, s) => Mirrors(Front(u), Front(s))
  BY <1>1, MirrorPop
<1> HIDE DEF u
<1>6. /\ Front(u) \in Seq(NodeState) /\ InComments(Front(u), 0)
      /\ Macros(Front(u)) \in Nat /\ Macros(u) = Macros(Front(u)) + 1
  BY <1>2, <1>3, <1>4, FrontOfSeq, CommentPop, MacrosPop
<1>7. (Mirrors(t, s) /\ Macros(t) = Macros(s)) \/ Macros(t) > Macros(s)
  BY DEF Tracks
<1>9. (Mirrors(t, s) /\ Macros(Front(u)) = Macros(Front(s))) \/ Macros(Front(u)) > Macros(Front(s))
  BY <1>5, <1>6, <1>7
<1>10. Tracks(Front(u), Front(s))
  BY <1>2, <1>3, <1>4, <1>6, <1>8, <1>9 DEF Tracks
<1> QED
  BY <1>10 DEF u

(* The lexer leaves a state and the parser does not: of what it has open,  *)
(* that can only be the arguments of a macro.                              *)
LEMMA LexerPops ==
    ASSUME NEW t, NEW s, Tracks(t, s), s # <<>>, Last(t) # "comment", Last(t) # Last(s)
    PROVE  Tracks(t, Front(s))
<1>1. /\ t \in Seq(NodeState) /\ s \in Seq(LexState) /\ s \in Seq(NodeState) /\ t # <<>>
      /\ Macros(t) \in Nat /\ Macros(s) \in Nat
  BY TracksTop
<1>2. Front(s) \in Seq(LexState) /\ Paired(t)
  BY <1>1, FrontOfSeq DEF Tracks
<1>4. InComments(t, 0) /\ InComments(Front(s), 0)
  <2>1. InComments(t, 0) /\ InComments(s, 0)
    BY OutsideComments
  <2> QED
    BY <1>1, <2>1, CommentPop
<1>5. /\ Macros(Front(s)) \in Nat
      /\ Macros(s) = Macros(Front(s)) + (IF Last(s) = "macro" THEN 1 ELSE 0)
  BY <1>1, MacrosPop
<1>6. Macros(t) > Macros(Front(s))
  <2>1. CASE Last(t) = (IF Last(s) = "macro" THEN "param" ELSE Last(s)) /\ Macros(t) = Macros(s)
    <3>1. Last(s) = "macro"
      BY <2>1
    <3> QED
      BY <1>1, <1>5, <2>1, <3>1
  <2>2. CASE Macros(t) > Macros(s)
    BY <1>1, <1>5, <2>2
  <2> QED
    BY <2>1, <2>2, TracksTop
<1> QED
  BY <1>1, <1>2, <1>4, <1>6 DEF Tracks

LEMMA ParserPops ==
    ASSUME NEW t, NEW s, Tracks(t, s), s # <<>>, Last(t) = "verbatim", Last(s) # "verbatim"
    PROVE  Tracks(Front(t), s)
<1>1. /\ t \in Seq(NodeState) /\ s \in Seq(LexState) /\ s \in Seq(NodeState) /\ t # <<>>
      /\ Macros(t) \in Nat /\ Macros(s) \in Nat
  BY TracksTop
<1>2. Front(t) \in Seq(NodeState) /\ Paired(Front(t))
  BY <1>1, FrontOfSeq, PairedPop DEF Tracks
<1>4. InComments(Front(t), 0) /\ InComments(s, 0)
  <2>1. InComments(t, 0) /\ InComments(s, 0)
    BY OutsideComments
  <2> QED
    BY <1>1, <2>1, CommentPop
<1>5. Macros(Front(t)) \in Nat /\ Macros(t) = Macros(Front(t)) + 0
  BY <1>1, MacrosPop
<1>6. Macros(t) > Macros(s)
  <2>1. ~(Last(t) = (IF Last(s) = "macro" THEN "param" ELSE Last(s)))
    OBVIOUS
  <2> QED
    BY <2>1, TracksTop
<1>7. Macros(Front(t)) > Macros(s)
  BY <1>1, <1>5, <1>6
<1> QED
  BY <1>1, <1>2, <1>4, <1>7 DEF Tracks

-----------------------------------------------------------------------------
(* The open nodes and their states                                         *)

Opened(frames, t) ==
    /\ \E U : frames \in Seq(U)
    /\ Len(frames) = Len(t)
    /\ \A k \in 1..Len(t) : "state" \in DOMAIN frames[k] /\ frames[k].state = t[k]

LEMMA OpenedTop ==
    ASSUME NEW f, NEW t \in Seq(NodeState), Opened(f, t)
    PROVE  /\ f = <<>> <=> t = <<>>
           /\ t # <<>> => Last(f).state = Last(t)
<1>1. PICK U : f \in Seq(U)
  BY DEF Opened
<1>2. Len(f) \in Nat /\ Len(f) = Len(t) /\ DOMAIN f = 1..Len(f)
  BY <1>1, LenProperties DEF Opened
<1>3. f = <<>> <=> Len(f) = 0
  BY <1>1, <1>2, EmptySeq
<1>4. t = <<>> <=> Len(t) = 0
  BY EmptySeq, LenProperties
<1>5. t # <<>> => Last(f).state = Last(t)
  <2>1. t # <<>> => Len(t) \in 1..Len(t)
    BY <1>2, <1>4
  <2> QED
    BY <1>2, <2>1 DEF Opened, Last
<1> QED
  BY <1>2, <1>3, <1>4, <1>5

LEMMA OpenedPush ==
    ASSUME NEW f, NEW t \in Seq(NodeState), Opened(f, t), NEW x \in NodeState, NEW node
    PROVE  Opened(PushNode(f, x, node), Append(t, x))
<1>1. PICK U : f \in Seq(U)
  BY DEF Opened
<1> DEFINE y == Frame(x, node)
           V == U \cup {y}
           g == Append(f, y)
<1>2. f \in Seq(V) /\ y \in V
  BY <1>1, SeqMonotonic
<1>4. y.state = x /\ "state" \in DOMAIN y
  BY DEF Frame
<1> HIDE DEF y, V
<1>3. /\ g \in Seq(V) /\ Len(g) = Len(f) + 1 /\ Len(f) \in Nat
      /\ \A i \in 1..Len(f) : g[i] = f[i]
      /\ g[Len(f) + 1] = y
  BY <1>2
<1>5. /\ Len(Append(t, x)) = Len(t) + 1 /\ Append(t, x)[Len(t) + 1] = x
      /\ \A i \in 1..Len(t) : Append(t, x)[i] = t[i]
  BY MacrosPush
<1> HIDE DEF g
<1>6. ASSUME NEW k \in 1..(Len(t) + 1)
      PROVE  "state" \in DOMAIN g[k] /\ g[k].state = Append(t, x)[k]
  <2>1. k \in 1..Len(t) \/ k = Len(t) + 1
    BY <1>3 DEF Opened
  <2> QED
    BY <1>3, <1>4, <1>5, <2>1 DEF Opened
<1>7. Opened(g, Append(t, x))
  BY <1>3, <1>5, <1>6 DEF Opened
<1> QED
  BY <1>7 DEF PushNode, g, y

LEMMA OpenedAdd ==
    ASSUME NEW f, NEW t \in Seq(NodeState), Opened(f, t), NEW node
    PROVE  Opened(AddChild(f, node), t)
<1>1. PICK U : f \in Seq(U)
  BY DEF Opened
<1> DEFINE g == AddChild(f, node)
           V == {g[k] : k \in 1..Len(f)}
<1>2. DOMAIN f = 1..Len(f) /\ Len(f) \in Nat /\ Len(f) = Len(t)
  BY <1>1, LenProperties DEF Opened
<1>3. DOMAIN g = 1..Len(f) /\ g = [k \in 1..Len(f) |-> g[k]]
  BY <1>2 DEF AddChild
<1>4. \A k \in 1..Len(f) : k # Len(f) => g[k] = f[k]
  BY <1>2 DEF AddChild
<1>5. Len(f) \in 1..Len(f) =>
        "state" \in DOMAIN g[Len(f)] /\ g[Len(f)].state = f[Len(f)].state
  <2> SUFFICES ASSUME Len(f) \in 1..Len(f)
               PROVE  "state" \in DOMAIN g[Len(f)] /\ g[Len(f)].state = f[Len(f)].state
    OBVIOUS
  <2>1. "state" \in DOMAIN f[Len(f)]
    BY <1>2 DEF Opened
  <2>2. g[Len(f)] = [f[Len(f)] EXCEPT !.node.parts = Append(@, node)]
    BY <1>2 DEF AddChild
  <2> HIDE DEF g
  <2> QED
    BY <2>1, <2>2
<1>6. g \in [1..Len(f) -> V]
  BY <1>3
<1> HIDE DEF g, V
<1>7. g \in Seq(V) /\ Len(g) = Len(f)
  BY <1>2, <1>6
<1>8. \A k \in 1..Len(t) : "state" \in DOMAIN g[k] /\ g[k].state = t[k]
  BY <1>2, <1>4, <1>5 DEF Opened
<1>9. Opened(g, t)
  BY <1>2, <1>7, <1>8 DEF Opened
<1> QED
  BY <1>9 DEF g

LEMMA OpenedClose ==
    ASSUME NEW f, NEW t \in Seq(NodeState), Opened(f, t), t # <<>>, NEW end
    PROVE  Opened(CloseTop(f, end), Front(t))
<1>1. PICK U : f \in Seq(U)
  BY DEF Opened
<1>2. f # <<>> /\ Len(f) = Len(t)
  BY OpenedTop DEF Opened
<1>3. /\ Front(f) \in Seq(U) /\ Len(Front(f)) = Len(f) - 1
      /\ \A i \in 1..(Len(f) - 1) : Front(f)[i] = f[i]
  BY <1>1, <1>2, FrontOfSeq
<1>4. /\ Front(t) \in Seq(NodeState) /\ Len(Front(t)) = Len(t) - 1 /\ Len(t) \in Nat
      /\ \A i \in 1..(Len(t) - 1) : Front(t)[i] = t[i]
  BY FrontOfSeq
<1>5. Opened(Front(f), Front(t))
  <2>1. \A k \in 1..(Len(t) - 1) : k \in 1..Len(t)
    BY <1>4
  <2> QED
    BY <1>2, <1>3, <1>4, <2>1 DEF Opened
<1> QED
  BY <1>4, <1>5, OpenedAdd DEF CloseTop

LEMMA OpenedNext ==
    ASSUME NEW f, NEW t \in Seq(NodeState), Opened(f, t), t # <<>>, Last(t) = "param",
           NEW end, NEW node
    PROVE  Opened(PushNode(CloseTop(f, end), "param", node), t)
<1>1. "param" \in NodeState
  BY DEF NodeState
<1>2. /\ Front(t) \in Seq(NodeState) /\ Len(Front(t)) = Len(t) - 1
      /\ Len(t) \in Nat /\ Len(t) > 0 /\ Last(t) = t[Len(t)]
      /\ \A i \in 1..(Len(t) - 1) : Front(t)[i] = t[i]
  BY FrontOfSeq
<1>3. Opened(PushNode(CloseTop(f, end), "param", node), Append(Front(t), "param"))
  BY <1>1, <1>2, OpenedClose, OpenedPush
<1> DEFINE u == Append(Front(t), "param")
<1>4. /\ u \in Seq(NodeState) /\ Len(u) = Len(Front(t)) + 1
      /\ \A i \in 1..Len(Front(t)) : u[i] = Front(t)[i]
      /\ u[Len(Front(t)) + 1] = "param"
  BY <1>1, <1>2, MacrosPush
<1> HIDE DEF u
<1>5. Len(u) = Len(t)
  BY <1>2, <1>4
<1>6. ASSUME NEW i \in 1..Len(u) PROVE u[i] = t[i]
  <2>1. i \in 1..(Len(t) - 1) \/ i = Len(t)
    BY <1>2, <1>5
  <2>2. Len(Front(t)) + 1 = Len(t)
    BY <1>2
  <2> QED
    BY <1>2, <1>4, <2>1, <2>2
<1>7. u = t
  BY <1>4, <1>5, <1>6, SeqEqual
<1> QED
  BY <1>3, <1>7 DEF u

-----------------------------------------------------------------------------
(* What the lexer makes of the text                                        *)

Quiet == {"Text", "Var", "LineComment", "Special", "VerbatimClose",
          "Comma", "Equal", "Space", "Ident"}
Opening == [Macro |-> "macro", BlockOpen |-> "block",
            VerbatimOpen |-> "verbatim", CommentOpen |-> "comment"]
Kinds == Quiet \cup {"Macro", "BlockOpen", "VerbatimOpen", "CommentOpen"}
               \cup {"BlockClose", "CloseParen", "CommentClose"}

\* The tokens there are in a state, and what each does to the stack.
Possible(top, kind, do, state) ==
    \/ /\ top \in {"block", "macro"}
       /\ \/ kind \in Quiet /\ do = "continue"
          \/ kind = "Macro" /\ do = "push" /\ state = "macro"
          \/ kind = "BlockOpen" /\ do = "push" /\ state = "block"
          \/ kind = "VerbatimOpen" /\ do = "push" /\ state = "verbatim"
          \/ kind = "CommentOpen" /\ do = "push" /\ state = "comment"
          \/ kind = "BlockClose" /\ do = "pop"
          \/ kind = "CloseParen" /\ do = "pop" /\ top = "macro"
    \/ /\ top = "verbatim"
       /\ \/ kind = "Text" /\ do = "continue"
          \/ kind = "VerbatimOpen" /\ do = "push" /\ state = "verbatim"
          \/ kind = "VerbatimClose" /\ do = "pop"
    \/ /\ top = "comment"
       /\ \/ kind = "Text" /\ do = "continue"
          \/ kind = "CommentOpen" /\ do = "push" /\ state = "comment"
          \/ kind = "CommentClose" /\ do = "pop"

Fits(top, piece) ==
    /\ Possible(top, piece.kind, piece.do, piece.state)
    /\ piece.to \in Nat

Scanned(s, kind, v) ==
    /\ s # <<>> /\ kind \in Kinds
    /\ \E do \in {"continue", "push", "pop"}, state \in LexState :
          /\ Possible(Last(s), kind, do, state)
          /\ v = CASE do = "push" -> Append(s, state)
                   [] do = "pop"  -> Front(s)
                   [] do = "continue" -> s

LEMMA MinOfNat ==
    ASSUME NEW S, S \subseteq Nat, NEW n \in S
    PROVE  Min(S) \in S
<1>1. \E m \in S : \A k \in S : m <= k
  BY LeastNatural
<1> QED
  BY <1>1 DEF Min

LEMMA FindAfter ==
    ASSUME source \in Seq(Symbols), NEW symbols, NEW i \in Nat, i <= EndOfText
    PROVE  Find(symbols, i) \in Nat /\ Find(symbols, i) >= i
<1> DEFINE S == {j \in i..Len(source) : source[j] \in symbols} \cup {EndOfText}
<1>1. Len(source) \in Nat /\ EndOfText \in Nat
  BY LenProperties DEF EndOfText
<1>2. S \subseteq Nat /\ EndOfText \in S /\ \A j \in S : j >= i
  BY <1>1
<1> HIDE DEF S
<1>3. Min(S) \in S
  BY <1>2, MinOfNat
<1>4. Find(symbols, i) = Min(S)
  BY DEF Find, S
<1> QED
  BY <1>2, <1>3, <1>4

LEMMA InText ==
    ASSUME source \in Seq(Symbols), NEW i \in Nat, At(i) # "eof"
    PROVE  i < EndOfText
<1>1. Len(source) \in Nat /\ DOMAIN source = 1..Len(source)
  BY LenProperties
<1>2. i \in DOMAIN source
  BY DEF At
<1> QED
  BY <1>1, <1>2 DEF EndOfText

LEMMA IdentifierAfter ==
    ASSUME source \in Seq(Symbols), NEW i \in Nat
    PROVE  IdentifierEnd(i) \in Nat /\ IdentifierEnd(i) >= i
<1>0. Len(source) \in Nat /\ EndOfText \in Nat
  BY LenProperties DEF EndOfText
<1>1. CASE At(i) \in Letters
  <2>1. i < EndOfText
    BY <1>1, InText DEF Letters
  <2>2. i <= EndOfText
    BY <1>0, <2>1
  <2> QED
    BY <1>1, <2>2, FindAfter DEF IdentifierEnd
<1>2. CASE At(i) \notin Letters
  BY <1>2 DEF IdentifierEnd
<1> QED
  BY <1>1, <1>2

LEMMA LineAfter ==
    ASSUME source \in Seq(Symbols), NEW i \in Nat
    PROVE  AfterLine(i) \in Nat
<1> DEFINE S == {j \in i..Len(source) : source[j] \in {Newline}} \cup {EndOfText}
<1>1. Len(source) \in Nat /\ EndOfText \in Nat
  BY LenProperties DEF EndOfText
<1>2. S \subseteq Nat /\ EndOfText \in S
  BY <1>1
<1> HIDE DEF S
<1>3. Min(S) \in Nat
  BY <1>2, MinOfNat
<1>4. Find({Newline}, i) = Min(S)
  BY DEF Find, S
<1> DEFINE T == {Find({Newline}, i) + 1, EndOfText}
<1>5. T \subseteq Nat /\ EndOfText \in T
  BY <1>1, <1>3, <1>4
<1> HIDE DEF T
<1>6. Min(T) \in Nat
  BY <1>5, MinOfNat
<1> QED
  BY <1>6 DEF AfterLine, T

LEMMA DelimiterAfter ==
    ASSUME source \in Seq(Symbols), NEW i \in Nat, i <= EndOfText
    PROVE  CommentDelimiter(i) \in Nat /\ CommentDelimiter(i) >= i
<1> DEFINE P(j) == Spells(j, <<Sigil, "/", "*">>) \/ Spells(j, <<Sigil, "*", "/">>)
           S == {j \in i..Len(source) : P(j)} \cup {EndOfText}
<1>1. Len(source) \in Nat /\ EndOfText \in Nat
  BY LenProperties DEF EndOfText
<1>4. CommentDelimiter(i) = Min(S)
  BY DEF CommentDelimiter
<1> HIDE DEF P
<1>2. S \subseteq Nat /\ EndOfText \in S /\ \A j \in S : j >= i
  BY <1>1
<1> HIDE DEF S
<1>3. Min(S) \in S
  BY <1>2, MinOfNat
<1> QED
  BY <1>2, <1>3, <1>4

LEMMA FitsSigil ==
    ASSUME NEW top \in {"block", "macro"}, NEW i \in Nat
    PROVE  /\ \A kind \in Quiet : Fits(top, Plain(kind, i)) /\ Fits(top, Wrong(kind, i))
           /\ Fits(top, Opens("Macro", i, "macro")) /\ Fits(top, Opens("BlockOpen", i, "block"))
           /\ Fits(top, Opens("VerbatimOpen", i, "verbatim"))
           /\ Fits(top, Opens("CommentOpen", i, "comment"))
           /\ Fits(top, Closes("BlockClose", i))
<1>1. \A kind \in Quiet : Fits(top, Plain(kind, i)) /\ Fits(top, Wrong(kind, i))
  BY DEF Fits, Possible, Plain, Wrong, Piece
<1>2. Fits(top, Opens("Macro", i, "macro")) /\ Fits(top, Opens("BlockOpen", i, "block"))
  BY DEF Fits, Possible, Opens, Piece
<1>3. /\ Fits(top, Opens("VerbatimOpen", i, "verbatim"))
      /\ Fits(top, Opens("CommentOpen", i, "comment"))
  BY DEF Fits, Possible, Opens, Piece
<1>4. \A wrong : Fits(top, Piece("BlockClose", i, "pop", "", wrong))
  BY DEF Fits, Possible, Piece
<1>5. Fits(top, Closes("BlockClose", i))
  BY <1>4, Zenon DEF Closes
<1> QED
  BY <1>1, <1>2, <1>3, <1>5

LEMMA BareSigilFits ==
    ASSUME source \in Seq(Symbols), NEW i \in Nat, i <= EndOfText,
           NEW top \in {"block", "macro"}
    PROVE  Fits(top, AfterBareSigil(i))
<1> DEFINE p == AfterBareSigil(i)
           c == At(i)
           d == At(i + 1)
<1>1. AfterLine(i + 2) \in Nat /\ AfterLine(i + 1) \in Nat /\ i + 1 \in Nat /\ i + 2 \in Nat
      /\ EndOfText \in Nat
  BY LineAfter, LenProperties DEF EndOfText
<1>2. \/ p = Opens("CommentOpen", i + 2, "comment")
      \/ p = Plain("LineComment", AfterLine(i + 2))
      \/ p = Plain("LineComment", AfterLine(i + 1))
      \/ p = Wrong("Text", i + 1)
      \/ p = Plain("Special", i + 1)
      \/ p = Plain("Text", i)
      \/ p = Wrong("Text", i)
  <2>1. i = EndOfText \/ i < EndOfText
    BY <1>1
  <2>2. \/ c = "/" /\ d = "*"
        \/ c \in {"/", "-"} /\ d = c
        \/ c \in {"/", "-"} /\ d # c /\ <<c, d>> # <<"/", "*">>
        \/ c = "#"
        \/ c = Sigil
        \/ i = EndOfText
        \/ i < EndOfText /\ c \notin {"/", "-", "#", Sigil}
    BY <2>1
  <2> QED
    BY <2>2 DEF AfterBareSigil
<1> HIDE DEF p
<1>4. "LineComment" \in Quiet /\ "Text" \in Quiet /\ "Special" \in Quiet
  BY DEF Quiet
<1>3. Fits(top, p)
  BY <1>1, <1>2, <1>4, FitsSigil
<1> QED
  BY <1>3 DEF p

LEMMA SigilFits ==
    ASSUME source \in Seq(Symbols), NEW i \in Nat, i <= EndOfText,
           NEW top \in {"block", "macro"}
    PROVE  Fits(top, AfterSigil(i))
<1> DEFINE p == AfterSigil(i)
           j == IdentifierEnd(i)
           c == At(j)
<1>1. j \in Nat /\ j >= i /\ j + 1 \in Nat
  BY IdentifierAfter
<1>2. Fits(top, VarAfter(i))
  <2>1. IdentifierEnd(i + 1) \in Nat /\ IdentifierEnd(i + 1) + 1 \in Nat
    BY IdentifierAfter
  <2> HIDE DEF p, j, c
  <2> QED
    BY <2>1 DEF VarAfter, Fits, Possible, Plain, Wrong, Piece, Quiet
<1>3. Fits(top, AfterBareSigil(i))
  BY BareSigilFits
<1>4. \/ p = VarAfter(i)
      \/ p = Opens("Macro", j + 1, "macro")
      \/ p = Opens("BlockOpen", j + 1, "block")
      \/ p = Closes("BlockClose", j + 1)
      \/ p = Opens("VerbatimOpen", j + 1, "verbatim")
      \/ p = Wrong("VerbatimClose", j + 1)
      \/ p = Plain("Text", j)
      \/ p = AfterBareSigil(i)
  <2>1. \/ c = Paren /\ j = i
        \/ c = Paren /\ j > i
        \/ c = Brace
        \/ c = EndBrace
        \/ c = Bracket
        \/ c = EndBracket
        \/ c \notin Brackets /\ j > i
        \/ c \notin Brackets /\ j = i
    BY <1>1 DEF Brackets
  <2> QED
    BY <2>1 DEF AfterSigil
<1> HIDE DEF p, j, c
<1>6. "VerbatimClose" \in Quiet /\ "Text" \in Quiet
  BY DEF Quiet
<1>5. Fits(top, p)
  BY <1>1, <1>2, <1>3, <1>4, <1>6, FitsSigil
<1> QED
  BY <1>5 DEF p

LEMMA PieceFits ==
    ASSUME source \in Seq(Symbols), NEW i \in Nat, i < EndOfText
    PROVE  /\ Fits("block", InBlock(i))
           /\ Fits("verbatim", InVerbatim(i))
           /\ Fits("macro", InMacro(i))
           /\ Fits("comment", InComment(i))
<1>0. Len(source) \in Nat /\ EndOfText \in Nat /\ i + 1 \in Nat /\ i + 3 \in Nat
      /\ i + 1 <= EndOfText /\ i <= EndOfText
  BY LenProperties DEF EndOfText
<1>1. \A S : Find(S, i) \in Nat
  BY <1>0, FindAfter
<1>2. Fits("block", InBlock(i))
  <2>1. Fits("block", AfterSigil(i + 1))
    BY <1>0, SigilFits
  <2>2. Fits("block", Plain("Text", Find({Sigil}, i)))
    BY <1>1 DEF Fits, Possible, Plain, Piece, Quiet
  <2> QED
    BY <2>1, <2>2 DEF InBlock
<1>3. Fits("verbatim", InVerbatim(i))
  <2> DEFINE p == InVerbatim(i)
             j == IdentifierEnd(i + 1)
  <2>1. j \in Nat /\ j + 1 \in Nat /\ Find({Sigil}, i) \in Nat
    BY <1>0, <1>1, IdentifierAfter
  <2>2. \/ p = Plain("Text", Find({Sigil}, i))
        \/ p = Opens("VerbatimOpen", j + 1, "verbatim")
        \/ p = Closes("VerbatimClose", j + 1)
        \/ p = Plain("Text", j)
    BY DEF InVerbatim
  <2> HIDE DEF p, j
  <2>4. \A wrong : Fits("verbatim", Piece("VerbatimClose", j + 1, "pop", "", wrong))
    BY <2>1 DEF Fits, Possible, Piece
  <2>5. Fits("verbatim", Closes("VerbatimClose", j + 1))
    BY <2>4, Zenon DEF Closes
  <2>6. Fits("verbatim", Opens("VerbatimOpen", j + 1, "verbatim"))
    BY <2>1 DEF Fits, Possible, Opens, Piece
  <2>7. \A to \in Nat : Fits("verbatim", Plain("Text", to))
    BY DEF Fits, Possible, Plain, Piece
  <2>3. Fits("verbatim", p)
    BY <2>1, <2>2, <2>5, <2>6, <2>7
  <2> QED
    BY <2>3 DEF p
<1>4. Fits("macro", InMacro(i))
  <2> DEFINE p == InMacro(i)
             rest == Blanks \cup {EndParen, Comma, Equals, Sigil}
  <2>1. /\ Find(Symbols \ Blanks, i) \in Nat /\ Find(rest, i) \in Nat
        /\ IdentifierEnd(i) \in Nat
    BY <1>1, IdentifierAfter
  <2>2. Fits("macro", AfterSigil(i + 1))
    BY <1>0, SigilFits
  <2>3. \/ p = Exits("CloseParen", i + 1)
        \/ p = Plain("Comma", i + 1)
        \/ p = Plain("Equal", i + 1)
        \/ p = Plain("Space", Find(Symbols \ Blanks, i))
        \/ p = AfterSigil(i + 1)
        \/ p = Plain("Ident", IdentifierEnd(i))
        \/ p = Plain("Text", Find(rest, i))
    BY DEF InMacro
  <2> HIDE DEF p, rest
  <2>5. Fits("macro", Exits("CloseParen", i + 1))
    BY <1>0 DEF Fits, Possible, Exits, Piece
  <2>6. "macro" \in {"block", "macro"} /\ "Text" \in Quiet /\ "Ident" \in Quiet
        /\ "Space" \in Quiet /\ "Equal" \in Quiet /\ "Comma" \in Quiet
    BY DEF Quiet
  <2>7. \A kind \in Quiet, to \in Nat : Fits("macro", Plain(kind, to))
    BY <2>6, FitsSigil
  <2>4. Fits("macro", p)
    BY <1>0, <2>1, <2>2, <2>3, <2>5, <2>6, <2>7
  <2> QED
    BY <2>4 DEF p
<1>5. Fits("comment", InComment(i))
  <2> DEFINE p == InComment(i)
             j == CommentDelimiter(i)
  <2>1. j \in Nat /\ j >= i
    BY <1>0, DelimiterAfter
  <2>2. j > i \/ (j = i /\ At(i + 1) = "/") \/ (j = i /\ At(i + 1) # "/")
    BY <2>1
  <2>3. \/ p = Plain("Text", j)
        \/ p = Wrong("Text", j)
        \/ p = Opens("CommentOpen", i + 3, "comment")
        \/ p = Exits("CommentClose", i + 3)
    BY <2>2 DEF InComment
  <2> HIDE DEF p, j
  <2>5. Fits("comment", Plain("Text", j)) /\ Fits("comment", Wrong("Text", j))
    BY <2>1 DEF Fits, Possible, Plain, Wrong, Piece
  <2>6. /\ Fits("comment", Opens("CommentOpen", i + 3, "comment"))
        /\ Fits("comment", Exits("CommentClose", i + 3))
    BY <1>0 DEF Fits, Possible, Opens, Exits, Piece
  <2>4. Fits("comment", p)
    BY <2>3, <2>5, <2>6
  <2> QED
    BY <2>4 DEF p
<1> QED
  BY <1>2, <1>3, <1>4, <1>5

-----------------------------------------------------------------------------
(* The invariant                                                           *)

TokenSet == [kind : Kinds, from : Nat, to : Nat]

\* The lexer's stack before the token that is the i-th.
Before(sh, i) == IF i = 1 THEN <<"block">> ELSE sh[i - 1]

LexerRuns ==
    /\ source \in Seq(Symbols)
    /\ lexer.pos \in Nat
    /\ lexer.tokens \in Seq(TokenSet)
    /\ shapes \in Seq(Seq(LexState)) /\ Len(shapes) = Len(lexer.tokens)
    /\ \A i \in 1..Len(shapes) : Scanned(Before(shapes, i), lexer.tokens[i].kind, shapes[i])
    /\ lexer.pos < EndOfText => lexer.stack = Before(shapes, Len(shapes) + 1)

ParserRuns ==
    /\ stage = "lex" => parser = [at |-> 1, open |-> <<Root>>]
    /\ stage \in {"parse", "build"} =>
          /\ parser.at \in 1..(Len(shapes) + 1)
          /\ \E t : Opened(parser.open, t) /\ Tracks(t, Before(shapes, parser.at))
    /\ stage = "build" => Len(parser.open) = 1

ReaderInv == LexerRuns /\ ParserRuns

LEMMA RootOpened ==
    Opened(<<Root>>, <<"block">>) /\ Tracks(<<"block">>, <<"block">>)
<1> DEFINE t == <<"block">>
<1>1. /\ t \in Seq(NodeState) /\ t \in Seq(LexState) /\ Len(t) = 1 /\ t[1] = "block"
      /\ DOMAIN t = 1..1
  BY DEF NodeState, LexState
<1>2. Opened(<<Root>>, t)
  <2>1. <<Root>> \in Seq({Root}) /\ Len(<<Root>>) = 1 /\ <<Root>>[1] = Root
    OBVIOUS
  <2>2. "state" \in DOMAIN Root /\ Root.state = "block"
    BY DEF Root, Frame
  <2> HIDE DEF t
  <2>3. \A k \in 1..Len(t) : k = 1
    BY <1>1
  <2> QED
    BY <1>1, <2>1, <2>2, <2>3 DEF Opened
<1> HIDE DEF t
<1>3. Paired(t) /\ InComments(t, 0)
  BY <1>1 DEF Paired, InComments
<1>4. MacrosIn(t, 0) = 0 /\ MacrosIn(t, 1) = 0
  <2>1. {i \in 1..0 : t[i] = "macro"} = {} /\ {i \in 1..1 : t[i] = "macro"} = {}
    BY <1>1
  <2> QED
    BY <2>1, FS_EmptySet DEF MacrosIn
<1>5. Macros(t) = 0
  BY <1>1, <1>4 DEF Macros
<1>6. Mirrors(t, t)
  BY <1>1, <1>4, <1>5 DEF Mirrors
<1>7. Tracks(t, t)
  BY <1>1, <1>3, <1>6 DEF Tracks
<1> QED
  BY <1>2, <1>7 DEF t

LEMMA BeforeShape ==
    ASSUME LexerRuns, NEW i \in 1..(Len(shapes) + 1)
    PROVE  Before(shapes, i) \in Seq(LexState)
<1>1. Len(shapes) \in Nat /\ \A k \in 1..Len(shapes) : shapes[k] \in Seq(LexState)
  BY LenProperties, ElementOfSeq DEF LexerRuns
<1>2. <<"block">> \in Seq(LexState)
  BY DEF LexState
<1> QED
  BY <1>1, <1>2 DEF Before

LEMMA LexKeeps ==
    ASSUME LexerRuns, NEW piece, lexer.stack # <<>>, Fits(TopState, piece), Lex(piece)
    PROVE  LexerRuns'
<1> DEFINE n == Len(shapes)
           s == Before(shapes, n + 1)
           v == CASE piece.do = "push" -> Append(lexer.stack, piece.state)
                  [] piece.do = "pop"  -> Front(lexer.stack)
                  [] OTHER -> lexer.stack
           token == Token(piece.kind, lexer.pos, piece.to)
           atEnd == piece.to = EndOfText /\ piece.do = "continue"
<1>1. /\ n \in Nat /\ Len(lexer.tokens) = n /\ lexer.tokens \in Seq(TokenSet)
      /\ shapes \in Seq(Seq(LexState)) /\ lexer.pos \in Nat
  BY LenProperties DEF LexerRuns
<1>2. s \in Seq(LexState) /\ lexer.stack = s /\ s # <<>>
  <2>1. n + 1 \in 1..(n + 1)
    BY <1>1
  <2> QED
    BY <2>1, BeforeShape DEF LexerRuns, Lex
<1>3. /\ lexer'.pos = piece.to /\ lexer'.tokens = Append(lexer.tokens, token)
      /\ lexer'.stack = (IF atEnd THEN Front(v) ELSE v)
      /\ shapes' = Append(shapes, v)
      /\ source' = source
  BY DEF Lex
<1>4. Possible(Last(s), piece.kind, piece.do, piece.state) /\ piece.to \in Nat
  BY <1>2 DEF Fits, TopState
<1>5. piece.kind \in Kinds /\ piece.do \in {"push", "pop", "continue"}
      /\ (piece.do = "push" => piece.state \in LexState)
  BY <1>4 DEF Possible, Kinds, Quiet, LexState
<1>6. v = CASE piece.do = "push" -> Append(s, piece.state)
            [] piece.do = "pop"  -> Front(s)
            [] piece.do = "continue" -> s
  <2>1. CASE piece.do = "push"
    BY <1>2, <2>1
  <2>2. CASE piece.do = "pop"
    BY <1>2, <2>2
  <2>3. CASE piece.do = "continue"
    BY <1>2, <2>3
  <2> QED
    BY <1>5, <2>1, <2>2, <2>3
<1> HIDE DEF v, token, atEnd
<1>7. v \in Seq(LexState)
  <2>1. CASE piece.do = "push"
    BY <1>2, <1>5, <1>6, <2>1
  <2>2. CASE piece.do = "pop"
    BY <1>2, <1>6, <2>2, FrontOfSeq
  <2>3. CASE piece.do = "continue"
    BY <1>2, <1>6, <2>3
  <2> QED
    BY <1>5, <2>1, <2>2, <2>3
<1>8. Scanned(s, piece.kind, v)
  <2>1. CASE piece.do = "push"
    BY <1>2, <1>4, <1>5, <1>6, <2>1 DEF Scanned
  <2>2. CASE piece.do # "push"
    <3>1. Possible(Last(s), piece.kind, piece.do, "block")
      BY <1>4, <2>2 DEF Possible
    <3>2. "block" \in LexState
      BY DEF LexState
    <3>3. v = CASE piece.do = "push" -> Append(s, "block")
                [] piece.do = "pop"  -> Front(s)
                [] piece.do = "continue" -> s
      <4>1. CASE piece.do = "pop"
        BY <1>6, <4>1
      <4>2. CASE piece.do = "continue"
        BY <1>6, <4>2
      <4> QED
        BY <1>5, <2>2, <4>1, <4>2
    <3> QED
      BY <1>2, <1>5, <3>1, <3>2, <3>3 DEF Scanned
  <2> QED
    BY <2>1, <2>2
<1>9. token \in TokenSet /\ token.kind = piece.kind
  BY <1>1, <1>4, <1>5 DEF token, Token, TokenSet
<1>10. /\ shapes' \in Seq(Seq(LexState)) /\ Len(shapes') = n + 1 /\ shapes'[n + 1] = v
       /\ \A i \in 1..n : shapes'[i] = shapes[i]
  BY <1>1, <1>3, <1>7
<1>11. /\ lexer'.tokens \in Seq(TokenSet) /\ Len(lexer'.tokens) = n + 1
       /\ lexer'.tokens[n + 1] = token
       /\ \A i \in 1..n : lexer'.tokens[i] = lexer.tokens[i]
  BY <1>1, <1>3, <1>9
<1>12. ASSUME NEW i \in 1..(n + 1) PROVE Before(shapes', i) = Before(shapes, i)
  <2>1. i # 1 => i - 1 \in 1..n
    BY <1>1
  <2> QED
    BY <1>10, <2>1 DEF Before
<1>13. ASSUME NEW i \in 1..(n + 1)
       PROVE  Scanned(Before(shapes', i), lexer'.tokens[i].kind, shapes'[i])
  <2>1. CASE i = n + 1
    BY <1>8, <1>9, <1>10, <1>11, <1>12, <2>1
  <2>2. CASE i \in 1..n
    <3>1. Scanned(Before(shapes, i), lexer.tokens[i].kind, shapes[i])
      BY <2>2 DEF LexerRuns
    <3> QED
      BY <1>10, <1>11, <1>12, <2>2, <3>1
  <2> QED
    BY <1>1, <2>1, <2>2
<1>14. lexer'.pos < EndOfText' => lexer'.stack = Before(shapes', Len(shapes') + 1)
  <2>1. EndOfText' = EndOfText /\ EndOfText \in Nat
    BY <1>3, LenProperties DEF EndOfText, LexerRuns
  <2>2. lexer'.pos < EndOfText' => ~atEnd
    BY <1>3, <1>4, <2>1 DEF atEnd
  <2>3. Before(shapes', Len(shapes') + 1) = v
    <3>1. Before(shapes', Len(shapes') + 1) = shapes'[(n + 1) + 1 - 1]
      BY <1>1, <1>10 DEF Before
    <3>2. (n + 1) + 1 - 1 = n + 1
      BY <1>1
    <3> QED
      BY <1>10, <3>1, <3>2
  <2> QED
    BY <1>3, <2>2, <2>3
<1> QED
  <2>1. source' \in Seq(Symbols) /\ lexer'.pos \in Nat
    BY <1>3, <1>4 DEF LexerRuns
  <2>2. \A i \in 1..Len(shapes') : Scanned(Before(shapes', i), lexer'.tokens[i].kind, shapes'[i])
    BY <1>10, <1>13
  <2> QED
    BY <1>10, <1>11, <1>14, <2>1, <2>2 DEF LexerRuns

LEMMA LexerStep ==
    ASSUME ReaderInv, LexBlock \/ LexVerbatim \/ LexMacro \/ LexComment
    PROVE  ReaderInv'
<1>0. source \in Seq(Symbols) /\ lexer.pos \in Nat /\ LexerRuns
  BY DEF ReaderInv, LexerRuns
<1>1. ASSUME NEW piece, lexer.stack # <<>>, Lex(piece),
             lexer.pos < EndOfText => Fits(TopState, piece)
      PROVE  ReaderInv'
  <2>1. lexer.pos < EndOfText /\ stage = "lex" /\ stage' = "lex" /\ parser' = parser
    BY <1>1 DEF Lex
  <2>2. LexerRuns'
    BY <1>0, <1>1, <2>1, LexKeeps
  <2>3. ParserRuns'
    BY <2>1 DEF ReaderInv, ParserRuns, Root
  <2> QED
    BY <2>2, <2>3 DEF ReaderInv
<1>2. CASE LexBlock
  BY <1>0, <1>1, <1>2, PieceFits DEF LexBlock
<1>3. CASE LexVerbatim
  BY <1>0, <1>1, <1>3, PieceFits DEF LexVerbatim
<1>4. CASE LexMacro
  BY <1>0, <1>1, <1>4, PieceFits DEF LexMacro
<1>5. CASE LexComment
  BY <1>0, <1>1, <1>5, PieceFits DEF LexComment
<1> QED
  BY <1>2, <1>3, <1>4, <1>5

LEMMA LexEndStep ==
    ASSUME ReaderInv, LexEnd
    PROVE  ReaderInv'
<1>1. UNCHANGED <<source, lexer, shapes, parser>> /\ stage = "lex"
      /\ stage' \in {"parse", "refused"}
  BY DEF LexEnd
<1>2. LexerRuns'
  BY <1>1 DEF ReaderInv, LexerRuns, Before, EndOfText
<1>3. parser'.at = 1 /\ parser'.open = <<Root>>
  BY <1>1 DEF ReaderInv, ParserRuns
<1>4. Before(shapes', 1) = <<"block">>
  BY DEF Before
<1>5. parser'.at \in 1..(Len(shapes') + 1)
  <2>1. Len(shapes') \in Nat
    BY <1>2, LenProperties DEF LexerRuns
  <2> QED
    BY <1>3, <2>1
<1>6. Opened(parser'.open, <<"block">>) /\ Tracks(<<"block">>, Before(shapes', parser'.at))
  BY <1>3, <1>4, RootOpened
<1>7. ParserRuns'
  BY <1>1, <1>5, <1>6 DEF ParserRuns
<1> QED
  BY <1>2, <1>7 DEF ReaderInv

-----------------------------------------------------------------------------
(* The parser's steps                                                      *)

LEMMA ReadToken ==
    ASSUME ReaderInv, NEW state, Handle(state)
    PROVE  /\ stage = "parse" /\ LexerRuns
           /\ parser.at \in 1..Len(shapes) /\ Len(shapes) \in Nat
           /\ Before(shapes, parser.at + 1) = shapes[parser.at]
           /\ Scanned(Before(shapes, parser.at), Current.kind, shapes[parser.at])
           /\ Before(shapes, parser.at) # <<>>
           /\ \E t : /\ Opened(parser.open, t) /\ Tracks(t, Before(shapes, parser.at))
                     /\ t \in Seq(NodeState) /\ t # <<>> /\ Last(t) = state
<1>1. stage = "parse" /\ LexerRuns /\ parser.open # <<>> /\ Last(parser.open).state = state
  BY DEF Handle, ReaderInv, FrameOnTop
<1>2. Len(shapes) \in Nat /\ parser.at \in 1..Len(shapes)
  BY <1>1, LenProperties DEF LexerRuns, Handle
<1>3. Before(shapes, parser.at + 1) = shapes[parser.at]
  <2>1. parser.at + 1 # 1 /\ (parser.at + 1) - 1 = parser.at
    BY <1>2
  <2> QED
    BY <2>1 DEF Before
<1>4. Scanned(Before(shapes, parser.at), Current.kind, shapes[parser.at])
  BY <1>1, <1>2 DEF LexerRuns, Current
<1>5. Before(shapes, parser.at) # <<>>
  BY <1>4 DEF Scanned
<1>6. PICK t : Opened(parser.open, t) /\ Tracks(t, Before(shapes, parser.at))
  BY <1>1 DEF ReaderInv, ParserRuns
<1>7. t \in Seq(NodeState)
  BY <1>6 DEF Tracks
<1>8. t # <<>> /\ Last(t) = state
  BY <1>1, <1>6, <1>7, OpenedTop
<1> QED
  BY <1>1, <1>2, <1>3, <1>4, <1>5, <1>6, <1>7, <1>8

LEMMA TokenRead ==
    ASSUME ReaderInv, NEW state, Handle(state), NEW frames, Becomes(frames),
           NEW t, Opened(frames, t), Tracks(t, shapes[parser.at])
    PROVE  ReaderInv'
<1>1. UNCHANGED <<source, lexer, shapes, stage>> /\ stage = "parse"
      /\ parser'.at = parser.at + 1 /\ parser'.open = frames
  BY DEF Becomes, Handle
<1>2. LexerRuns'
  BY <1>1 DEF ReaderInv, LexerRuns, EndOfText
<1>3. /\ parser.at \in 1..Len(shapes) /\ Len(shapes) \in Nat
      /\ Before(shapes, parser.at + 1) = shapes[parser.at]
  BY ReadToken
<1>4. parser'.at \in 1..(Len(shapes') + 1)
  BY <1>1, <1>3
<1>5. Opened(parser'.open, t) /\ Tracks(t, Before(shapes', parser'.at))
  BY <1>1, <1>3
<1>6. ParserRuns'
  BY <1>1, <1>4, <1>5 DEF ParserRuns
<1> QED
  BY <1>2, <1>6 DEF ReaderInv

LEMMA StageStep ==
    ASSUME ReaderInv, UNCHANGED <<source, lexer, shapes, parser>>,
           stage' \in {"refused", "done"} \/ (stage = "parse" /\ stage' = "build" /\ Len(parser.open) = 1)
    PROVE  ReaderInv'
<1>1. LexerRuns'
  BY DEF ReaderInv, LexerRuns, EndOfText
<1>2. ParserRuns'
  BY DEF ReaderInv, ParserRuns
<1> QED
  BY <1>1, <1>2 DEF ReaderInv

\* What a token does to the lexer's stack, by its kind.
LEMMA ScannedKinds ==
    ASSUME NEW s, NEW kind, NEW v, Scanned(s, kind, v)
    PROVE  /\ kind \in {"Comma", "Ident", "Space", "Equal"} => v = s
           /\ kind = "BlockClose" => v = Front(s) /\ Last(s) \in {"block", "macro"}
           /\ kind = "VerbatimClose" => (v = s \/ (v = Front(s) /\ Last(s) = "verbatim"))
           /\ kind = "VerbatimClose" /\ Last(s) = "verbatim" => v = Front(s)
           /\ kind = "CloseParen" => v = Front(s) /\ Last(s) = "macro"
           /\ kind = "BlockOpen" => v = Append(s, "block")
           /\ kind = "VerbatimOpen" => v = Append(s, "verbatim")
           /\ kind = "Macro" => v = Append(s, "macro")
           /\ kind = "CommentOpen" => v = Append(s, "comment")
           /\ kind = "CommentClose" => v = Front(s) /\ Last(s) = "comment"
           /\ Last(s) = "comment" /\ kind \notin {"CommentOpen", "CommentClose"} => v = s
           /\ \/ v = s
              \/ kind \in {"BlockOpen", "VerbatimOpen", "Macro", "CommentOpen"}
              \/ v = Front(s) /\ kind \in {"BlockClose", "VerbatimClose", "CloseParen", "CommentClose"}
<1>1. PICK do \in {"continue", "push", "pop"}, state \in LexState :
         /\ Possible(Last(s), kind, do, state)
         /\ v = CASE do = "push" -> Append(s, state)
                   [] do = "pop"  -> Front(s)
                   [] do = "continue" -> s
  BY DEF Scanned
<1>2. CASE do = "continue"
  <2>1. v = s
    BY <1>1, <1>2
  <2> QED
    BY <1>1, <1>2, <2>1 DEF Possible, Quiet
<1>3. CASE do = "push"
  <2>1. v = Append(s, state)
    BY <1>1, <1>3
  <2> QED
    BY <1>1, <1>3, <2>1 DEF Possible, Quiet
<1>4. CASE do = "pop"
  <2>1. v = Front(s)
    BY <1>1, <1>4
  <2> QED
    BY <1>1, <1>4, <2>1 DEF Possible, Quiet
<1> QED
  BY <1>1, <1>2, <1>3, <1>4

LEMMA ParserStep ==
    ASSUME ReaderInv,
           \/ CloseBlock \/ NextParam \/ CloseMacro \/ ParamLeaf \/ InsideComment
           \/ OpenBlock \/ OpenMacro \/ OpenComment \/ Leaf
    PROVE  ReaderInv'
<1> DEFINE s == Before(shapes, parser.at)
           v == shapes[parser.at]
           Kind == Current.kind
<1>0. ASSUME NEW state, Handle(state)
      PROVE  /\ Scanned(s, Kind, v) /\ s # <<>>
             /\ \E t : /\ Opened(parser.open, t) /\ Tracks(t, s)
                       /\ t \in Seq(NodeState) /\ t # <<>> /\ Last(t) = state
  BY <1>0, ReadToken
<1>00. ASSUME NEW state, Handle(state), NEW frames, Becomes(frames),
              NEW t, Opened(frames, t), Tracks(t, v)
       PROVE  ReaderInv'
  BY <1>00, TokenRead
<1> HIDE DEF s, v, Kind
<1>1. CASE CloseBlock
  <2>1. PICK state \in DOMAIN CloseOf :
          /\ Handle(state) /\ Current.kind = CloseOf[state]
          /\ IF Tag(Current) # Tag(FrameOnTop.node)
             THEN Refuse
             ELSE Becomes(IF Len(parser.open) = 1 THEN <<>>
                          ELSE CloseTop(parser.open, Current.to))
    BY <1>1 DEF CloseBlock
  <2>2. (state = "block" /\ Kind = "BlockClose") \/ (state = "verbatim" /\ Kind = "VerbatimClose")
    BY <2>1 DEF CloseOf, Kind
  <2>3. CASE Refuse
    BY <2>3, StageStep DEF Refuse
  <2>4. CASE Becomes(IF Len(parser.open) = 1 THEN <<>> ELSE CloseTop(parser.open, Current.to))
    <3> DEFINE frames == IF Len(parser.open) = 1 THEN <<>> ELSE CloseTop(parser.open, Current.to)
    <3>1. PICK t : /\ Opened(parser.open, t) /\ Tracks(t, s)
                   /\ t \in Seq(NodeState) /\ t # <<>> /\ Last(t) = state
      BY <1>0, <2>1
    <3>2. Scanned(s, Kind, v) /\ s # <<>>
      BY <1>0, <2>1
    <3>3. Opened(frames, Front(t))
      <4>1. CASE Len(parser.open) = 1
        <5>1. Len(Front(t)) = Len(t) - 1 /\ Len(t) = 1
          BY <3>1, <4>1, FrontOfSeq DEF Opened
        <5>2. <<>> \in Seq({1}) /\ Len(<<>>) = 0
          OBVIOUS
        <5>3. Opened(<<>>, Front(t))
          BY <5>1, <5>2 DEF Opened
        <5> QED
          BY <4>1, <5>3
      <4>2. CASE Len(parser.open) # 1
        BY <3>1, <4>2, OpenedClose
      <4> QED
        BY <4>1, <4>2
    <3>4. Tracks(Front(t), v)
      <4>1. CASE v = Front(s)
        BY <2>2, <3>1, <3>2, <4>1, BothPop
      <4>2. CASE v # Front(s)
        <5>1. state = "verbatim" /\ v = s /\ Last(s) # "verbatim"
          BY <2>2, <3>2, <4>2, ScannedKinds
        <5> QED
          BY <3>1, <3>2, <5>1, ParserPops
      <4> QED
        BY <4>1, <4>2
    <3> HIDE DEF frames
    <3>5. Becomes(frames)
      BY <2>4 DEF frames
    <3> QED
      BY <1>00, <2>1, <3>3, <3>4, <3>5
  <2> QED
    BY <2>1, <2>3, <2>4
<1>2. CASE NextParam
  <2>1. Handle("param") /\ Kind = "Comma"
        /\ Becomes(PushNode(CloseTop(parser.open, Current.from), "param",
                            TokenNode("param", Current)))
    BY <1>2 DEF NextParam, Kind
  <2>2. PICK t : /\ Opened(parser.open, t) /\ Tracks(t, s)
                 /\ t \in Seq(NodeState) /\ t # <<>> /\ Last(t) = "param"
    BY <1>0, <2>1
  <2>3. v = s
    BY <1>0, <2>1, ScannedKinds
  <2>4. Opened(PushNode(CloseTop(parser.open, Current.from), "param",
                        TokenNode("param", Current)), t)
    BY <2>2, OpenedNext
  <2> QED
    BY <1>00, <2>1, <2>2, <2>3, <2>4
<1>3. CASE CloseMacro
  <2>1. Handle("param") /\ Kind = "CloseParen"
        /\ Becomes(CloseTop(CloseTop(parser.open, Current.to), Current.to))
    BY <1>3 DEF CloseMacro, Kind
  <2>2. PICK t : /\ Opened(parser.open, t) /\ Tracks(t, s)
                 /\ t \in Seq(NodeState) /\ t # <<>> /\ Last(t) = "param"
    BY <1>0, <2>1
  <2>3. v = Front(s) /\ Last(s) = "macro" /\ s # <<>>
    BY <1>0, <2>1, ScannedKinds
  <2>4. Front(t) \in Seq(NodeState) /\ Front(t) # <<>>
    BY <2>2, FrontOfSeq, PairedTop DEF Tracks
  <2>5. Opened(CloseTop(parser.open, Current.to), Front(t))
    BY <2>2, OpenedClose
  <2>6. Opened(CloseTop(CloseTop(parser.open, Current.to), Current.to), Front(Front(t)))
    BY <2>4, <2>5, OpenedClose
  <2>7. Tracks(Front(Front(t)), v)
    BY <2>2, <2>3, BothPopMacro
  <2> QED
    BY <1>00, <2>1, <2>6, <2>7
<1>4. CASE ParamLeaf
  <2>1. PICK node : /\ Handle("param") /\ Kind \in {"Ident", "Space", "Equal"}
                    /\ Becomes(AddChild(parser.open, node))
    BY <1>4 DEF ParamLeaf, Kind
  <2>2. PICK t : /\ Opened(parser.open, t) /\ Tracks(t, s)
                 /\ t \in Seq(NodeState) /\ t # <<>> /\ Last(t) = "param"
    BY <1>0, <2>1
  <2>3. v = s
    BY <1>0, <2>1, ScannedKinds
  <2>4. Opened(AddChild(parser.open, node), t)
    BY <2>2, OpenedAdd
  <2> QED
    BY <1>00, <2>1, <2>2, <2>3, <2>4
<1>5. CASE InsideComment
  <2>1. Handle("comment")
    BY <1>5 DEF InsideComment
  <2>2. PICK t : /\ Opened(parser.open, t) /\ Tracks(t, s)
                 /\ t \in Seq(NodeState) /\ t # <<>> /\ Last(t) = "comment"
    BY <1>0, <2>1
  <2>3. Scanned(s, Kind, v) /\ s # <<>> /\ Last(s) = "comment"
    BY <1>0, <2>1, <2>2, TracksTop
  <2>4. "comment" \in NodeState /\ "comment" \in LexState
    BY DEF NodeState, LexState
  <2>5. CASE Kind = "CommentClose"
    <3>1. Becomes(CloseTop(parser.open, Current.to))
      BY <1>5, <2>5 DEF InsideComment, Kind
    <3>2. Opened(CloseTop(parser.open, Current.to), Front(t))
      BY <2>2, OpenedClose
    <3>3. Tracks(Front(t), v)
      BY <2>2, <2>3, <2>5, ScannedKinds, BothPop
    <3> QED
      BY <1>00, <2>1, <3>1, <3>2, <3>3
  <2>6. CASE Kind = "CommentOpen"
    <3> DEFINE frames == PushNode(parser.open, "comment", TokenNode("comment", Current))
    <3>1. Becomes(frames)
      BY <1>5, <2>6 DEF InsideComment, Kind
    <3>2. Opened(frames, Append(t, "comment"))
      BY <2>2, <2>4, OpenedPush
    <3>4. v = Append(s, "comment")
      BY <2>3, <2>6, ScannedKinds
    <3>3. Tracks(Append(t, "comment"), v)
      BY <2>2, <2>3, <2>4, <3>4, BothPush
    <3> QED
      BY <1>00, <2>1, <3>1, <3>2, <3>3
  <2>7. CASE Kind \notin {"CommentClose", "CommentOpen"}
    <3>1. Becomes(parser.open)
      BY <1>5, <2>7 DEF InsideComment, Kind
    <3>2. v = s
      BY <2>3, <2>7, ScannedKinds
    <3> QED
      BY <1>00, <2>1, <2>2, <3>1, <3>2
  <2> QED
    BY <2>5, <2>6, <2>7
<1>6. ASSUME Unconsumed
      PROVE  \E state : /\ Handle(state) /\ state # "comment"
                        /\ state = "block" => Kind # "BlockClose"
                        /\ state = "verbatim" => Kind # "VerbatimClose"
                        /\ state = "param" => Kind \notin {"Comma", "CloseParen", "Ident", "Space", "Equal"}
                        /\ state \in {"block", "verbatim", "param"}
  BY <1>6 DEF Unconsumed, CloseOf, Kind
<1>7. CASE OpenBlock
  <2>1. PICK state : Handle(state) /\ state # "comment"
    BY <1>6, <1>7 DEF OpenBlock
  <2>2. PICK t : /\ Opened(parser.open, t) /\ Tracks(t, s)
                 /\ t \in Seq(NodeState) /\ t # <<>> /\ Last(t) = state
    BY <1>0, <2>1
  <2>3. PICK x \in {"block", "verbatim"} :
          /\ Becomes(PushNode(parser.open, x, TokenNode("block", Current)))
          /\ v = Append(s, x)
    <3>1. Kind = "BlockOpen" => v = Append(s, "block")
      BY <1>0, <2>1, ScannedKinds
    <3>2. Kind = "VerbatimOpen" => v = Append(s, "verbatim")
      BY <1>0, <2>1, ScannedKinds
    <3> QED
      BY <1>7, <3>1, <3>2 DEF OpenBlock, Kind
  <2>4. x \in LexState /\ x # "macro" /\ x \in NodeState
    BY DEF LexState, NodeState
  <2>5. Opened(PushNode(parser.open, x, TokenNode("block", Current)), Append(t, x))
    BY <2>2, <2>4, OpenedPush
  <2>6. Tracks(Append(t, x), v)
    BY <1>0, <2>1, <2>2, <2>3, <2>4, BothPush
  <2> QED
    BY <1>00, <2>1, <2>3, <2>5, <2>6
<1>8. CASE OpenMacro
  <2>1. PICK state : Handle(state) /\ state # "comment"
    BY <1>6, <1>8 DEF OpenMacro
  <2>2. PICK t : /\ Opened(parser.open, t) /\ Tracks(t, s)
                 /\ t \in Seq(NodeState) /\ t # <<>> /\ Last(t) = state
    BY <1>0, <2>1
  <2>3. v = Append(s, "macro") /\ s # <<>>
    BY <1>0, <1>8, <2>1, ScannedKinds DEF OpenMacro, Kind
  <2>4. "macro" \in NodeState /\ "param" \in NodeState
    BY DEF LexState, NodeState
  <2> DEFINE one == PushNode(parser.open, "macro", TokenNode("macro", Current))
             frames == PushNode(one, "param", PNode("param", Current.from, Current.from))
  <2>5. Opened(one, Append(t, "macro"))
    BY <2>2, <2>4, OpenedPush
  <2>6. Becomes(frames)
    BY <1>8 DEF OpenMacro
  <2> HIDE DEF one
  <2>7. Opened(frames, Append(Append(t, "macro"), "param"))
    <3>1. Append(t, "macro") \in Seq(NodeState)
      BY <2>2, <2>4
    <3> QED
      BY <2>4, <2>5, <3>1, OpenedPush
  <2>8. Tracks(Append(Append(t, "macro"), "param"), v)
    BY <2>1, <2>2, <2>3, BothPushMacro
  <2> HIDE DEF frames
  <2> QED
    BY <1>00, <2>1, <2>6, <2>7, <2>8
<1>9. CASE OpenComment
  <2>1. PICK state : Handle(state) /\ state # "comment"
    BY <1>6, <1>9 DEF OpenComment
  <2>2. PICK t : /\ Opened(parser.open, t) /\ Tracks(t, s)
                 /\ t \in Seq(NodeState) /\ t # <<>> /\ Last(t) = state
    BY <1>0, <2>1
  <2>3. v = Append(s, "comment") /\ s # <<>>
    BY <1>0, <1>9, <2>1, ScannedKinds DEF OpenComment, Kind
  <2>4. "comment" \in NodeState /\ "comment" \in LexState
    BY DEF LexState, NodeState
  <2>5. Opened(PushNode(parser.open, "comment", TokenNode("comment", Current)), Append(t, "comment"))
    BY <2>2, <2>4, OpenedPush
  <2>6. Becomes(PushNode(parser.open, "comment", TokenNode("comment", Current)))
    BY <1>9 DEF OpenComment
  <2>7. Tracks(Append(t, "comment"), v)
    BY <2>2, <2>3, <2>4, BothPush
  <2> QED
    BY <1>00, <2>1, <2>5, <2>6, <2>7
<1>10. CASE Leaf
  <2>1. PICK state : /\ Handle(state) /\ state # "comment"
                     /\ state = "block" => Kind # "BlockClose"
                     /\ state = "verbatim" => Kind # "VerbatimClose"
                     /\ state \in {"block", "verbatim", "param"}
    BY <1>6, <1>10 DEF Leaf
  <2>2. PICK t : /\ Opened(parser.open, t) /\ Tracks(t, s)
                 /\ t \in Seq(NodeState) /\ t # <<>> /\ Last(t) = state
    BY <1>0, <2>1
  <2>3. Scanned(s, Kind, v) /\ s # <<>>
    BY <1>0, <2>1
  <2>4. Kind \notin {"BlockOpen", "VerbatimOpen", "Macro", "CommentOpen"}
    BY <1>10 DEF Leaf, Kind
  <2>5. PICK node : Becomes(AddChild(parser.open, node))
    BY <1>10 DEF Leaf
  <2>6. Opened(AddChild(parser.open, node), t)
    BY <2>2, OpenedAdd
  <2>7. Last(s) # "comment" /\ Last(t) # "macro" /\ Last(t) # "comment"
    BY <2>1, <2>2, <2>3, TracksTop
  <2>8. v = s \/ (v = Front(s) /\ Last(t) # Last(s))
    <3>1. \/ v = s
          \/ v = Front(s) /\ Kind \in {"BlockClose", "VerbatimClose", "CloseParen", "CommentClose"}
      BY <2>3, <2>4, ScannedKinds
    <3>2. Kind = "BlockClose" => Last(s) \in {"block", "macro"} /\ Last(t) \notin {"block", "macro"}
      BY <2>1, <2>2, <2>3, <2>7, ScannedKinds
    <3>3. Kind = "VerbatimClose" => v = s \/ (Last(s) = "verbatim" /\ Last(t) # "verbatim")
      BY <2>1, <2>2, <2>3, ScannedKinds
    <3>4. Kind = "CloseParen" => Last(s) = "macro"
      BY <2>3, ScannedKinds
    <3>5. Kind # "CommentClose"
      BY <2>3, <2>7, ScannedKinds
    <3> QED
      BY <2>7, <3>1, <3>2, <3>3, <3>4, <3>5
  <2>9. Tracks(t, v)
    <3>1. CASE v = s
      BY <2>2, <3>1
    <3>2. CASE v = Front(s) /\ Last(t) # Last(s)
      BY <2>2, <2>3, <2>7, <3>2, LexerPops
    <3> QED
      BY <2>8, <3>1, <3>2
  <2> QED
    BY <1>00, <2>1, <2>5, <2>6, <2>9
<1> QED
  BY <1>1, <1>2, <1>3, <1>4, <1>5, <1>7, <1>8, <1>9, <1>10

-----------------------------------------------------------------------------

LEMMA StatesOpened ==
    ASSUME NEW t \in Seq(NodeState), Opened(parser.open, t)
    PROVE  OpenStates = t
<1>1. PICK U : parser.open \in Seq(U)
  BY DEF Opened
<1>2. Len(parser.open) \in Nat /\ DOMAIN parser.open = 1..Len(parser.open)
  BY <1>1, LenProperties
<1>3. Len(parser.open) = Len(t) /\ \A k \in 1..Len(t) : parser.open[k].state = t[k]
  BY DEF Opened
<1>4. t \in [1..Len(t) -> NodeState]
  BY LenProperties
<1>5. OpenStates = [k \in 1..Len(t) |-> parser.open[k].state]
  BY <1>2, <1>3 DEF OpenStates
<1>6. [k \in 1..Len(t) |-> parser.open[k].state] = [k \in 1..Len(t) |-> t[k]]
  BY <1>3
<1> QED
  BY <1>4, <1>5, <1>6

LEMMA AgreeFromInv ==
    ASSUME ReaderInv
    PROVE  StacksAgree
<1> SUFFICES ASSUME stage \in {"parse", "build"}
             PROVE  /\ Mirrors(OpenStates, Shape) \/ Macros(OpenStates) > Macros(Shape)
                    /\ stage = "build" => Mirrors(OpenStates, Shape)
  BY DEF StacksAgree
<1>1. PICK t : Opened(parser.open, t) /\ Tracks(t, Before(shapes, parser.at))
  BY DEF ReaderInv, ParserRuns
<1>2. t \in Seq(NodeState)
  BY <1>1 DEF Tracks
<1>3. OpenStates = t
  BY <1>1, <1>2, StatesOpened
<1>4. Shape = Before(shapes, parser.at)
  BY DEF Shape, Before
<1>5. Mirrors(OpenStates, Shape) \/ Macros(OpenStates) > Macros(Shape)
  BY <1>1, <1>3, <1>4 DEF Tracks
<1>6. ASSUME stage = "build" PROVE Mirrors(OpenStates, Shape)
  <2>1. Len(t) = 1
    BY <1>1, <1>6 DEF ReaderInv, ParserRuns, Opened
  <2>2. t # <<>> /\ DOMAIN t = 1..1
    BY <1>2, <2>1, EmptySeq, LenProperties
  <2>3. Macros(t) = 0
    <3>1. t[1] # "macro"
      BY <1>1, <2>1, <2>2 DEF Tracks, Paired
    <3>2. {i \in 1..1 : t[i] = "macro"} = {}
      BY <3>1
    <3> QED
      BY <2>1, <3>2, FS_EmptySet DEF Macros, MacrosIn
  <2>4. Macros(Shape) \in Nat
    <3>1. parser.at \in 1..(Len(shapes) + 1)
      BY DEF ReaderInv, ParserRuns
    <3>2. Before(shapes, parser.at) \in Seq(NodeState) /\ "block" \in NodeState
      BY <1>1, SeqMonotonic DEF Tracks, NodeState, LexState
    <3> QED
      BY <1>4, <3>2, MacrosPush
  <2> QED
    BY <1>3, <1>5, <2>3, <2>4
<1> QED
  BY <1>5, <1>6

LEMMA ReaderStart ==
    ASSUME ReaderInit
    PROVE  ReaderInv
<1>1. source \in Seq(Symbols) /\ stage = "lex" /\ shapes = <<>>
      /\ lexer.pos = 1 /\ lexer.stack = <<"block">> /\ lexer.tokens = <<>>
      /\ parser = [at |-> 1, open |-> <<Root>>]
  BY DEF ReaderInit, Untouched
<1>2. Len(shapes) = 0 /\ Len(lexer.tokens) = 0 /\ shapes \in Seq(Seq(LexState))
      /\ lexer.tokens \in Seq(TokenSet)
  BY <1>1
<1>3. Before(shapes, Len(shapes) + 1) = <<"block">>
  BY <1>2 DEF Before
<1>4. LexerRuns
  BY <1>1, <1>2, <1>3 DEF LexerRuns
<1>5. ParserRuns
  BY <1>1 DEF ParserRuns
<1> QED
  BY <1>4, <1>5 DEF ReaderInv

(* The stacks of the lexer and the parser agree after every token of every *)
(* text, but in a text that will be refused.                               *)
THEOREM ReadersAgree == ReaderSpec => []StacksAgree
<1>1. ReaderInit => ReaderInv
  BY ReaderStart
<1>2. ReaderInv /\ [ReaderNext]_readerVars => ReaderInv'
  <2> SUFFICES ASSUME ReaderInv, [ReaderNext]_readerVars
               PROVE  ReaderInv'
    OBVIOUS
  <2>1. CASE LexBlock \/ LexVerbatim \/ LexMacro \/ LexComment
    BY <2>1, LexerStep
  <2>2. CASE LexEnd
    BY <2>2, LexEndStep
  <2>3. CASE \/ CloseBlock \/ NextParam \/ CloseMacro \/ ParamLeaf \/ InsideComment
             \/ OpenBlock \/ OpenMacro \/ OpenComment \/ Leaf
    BY <2>3, ParserStep
  <2>4. CASE ParseEnd
    <3>1. stage' = "refused" \/ (stage = "parse" /\ stage' = "build" /\ Len(parser.open) = 1)
      BY <2>4 DEF ParseEnd
    <3>2. UNCHANGED <<source, lexer, shapes, parser>>
      BY <2>4 DEF ParseEnd
    <3> QED
      BY <3>1, <3>2, StageStep
  <2>5. CASE Finish
    <3>1. stage' = "done" /\ UNCHANGED <<source, lexer, shapes, parser>>
      BY <2>5 DEF Finish
    <3> QED
      BY <3>1, StageStep
  <2>6. CASE UNCHANGED readerVars
    <3>1. UNCHANGED <<source, lexer, shapes, parser, stage>>
      BY <2>6 DEF readerVars
    <3>2. LexerRuns' /\ ParserRuns'
      BY <3>1 DEF ReaderInv, LexerRuns, ParserRuns, EndOfText
    <3> QED
      BY <3>2 DEF ReaderInv
  <2> QED
    BY <2>1, <2>2, <2>3, <2>4, <2>5, <2>6 DEF ReaderNext, ReadStep
<1>3. ReaderInv => StacksAgree
  BY AgreeFromInv
<1> QED
  BY <1>1, <1>2, <1>3, PTL DEF ReaderSpec
=============================================================================
