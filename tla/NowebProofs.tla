----------------------------- MODULE NowebProofs -----------------------------
(***************************************************************************)
(* The proofs about the chunk store, for all sources, chunks and depths.   *)
(***************************************************************************)
EXTENDS Noweb, IterationProofs, SequenceTheorems

-----------------------------------------------------------------------------
(* Sequences joined one after the other. *)

(* What FlattenSeq does, step by step. *)
FlattensBy(g, s, T) ==
    /\ g \in [Nat -> Seq(T)]
    /\ g[0] = <<>>
    /\ \A i \in 1..Len(s) : g[i] = g[i - 1] \o s[i]
    /\ FlattenSeq(s) = g[Len(s)]

LEMMA FlattenSteps ==
    ASSUME NEW T, NEW s \in Seq(Seq(T))
    PROVE  \E g : FlattensBy(g, s, T)
<1> DEFINE F == [k \in Nat |-> [x \in Seq(T) |->
                    IF k + 1 \in 1..Len(s) THEN x \o s[k + 1] ELSE x]]
<1>1. F \in [Nat -> [Seq(T) -> Seq(T)]]
  <2>1. ASSUME NEW m \in 1..Len(s), NEW x \in Seq(T) PROVE x \o s[m] \in Seq(T)
    <3>1. s[m] \in Seq(T)
      OBVIOUS
    <3> QED
      BY <3>1, ConcatProperties
  <2> QED
    BY <2>1
<1>2. PICK g : Unfolds(g, Seq(T), <<>>, F)
  <2>1. <<>> \in Seq(T)
    OBVIOUS
  <2> HIDE DEF F
  <2> QED
    BY <1>1, <2>1, IndexedIteration
<1>3. g \in [Nat -> Seq(T)] /\ g[0] = <<>>
  BY <1>2 DEF Unfolds
<1>4. ASSUME NEW i \in 1..Len(s)
      PROVE  g[i] = g[i - 1] \o s[i]
  <2>1. i - 1 \in Nat /\ (i - 1) + 1 = i
    OBVIOUS
  <2>2. g[(i - 1) + 1] = F[i - 1][g[i - 1]] /\ g[i - 1] \in Seq(T)
    BY <1>2, <2>1 DEF Unfolds
  <2>3. F[i - 1][g[i - 1]] = g[i - 1] \o s[i]
    BY <2>1, <2>2
  <2> HIDE DEF F
  <2> QED
    BY <2>1, <2>2, <2>3
<1> HIDE DEF F
<1>5. ASSUME 1 \in 1..Len(s) PROVE g[1] = s[1]
  <2>1. 1 - 1 = 0 /\ s[1] \in Seq(T)
    BY <1>5
  <2>2. g[1] = g[1 - 1] \o s[1]
    BY <1>4, <1>5
  <2>3. <<>> \o s[1] = s[1]
    BY <2>1, ConcatEmptySeq
  <2> QED
    BY <1>3, <2>1, <2>2, <2>3
<1>7. FlattenSeq(s) = g[Len(s)]
  <2>1. CASE Len(s) = 0
    BY <2>1, <1>3 DEF FlattenSeq
  <2>2. CASE Len(s) # 0
    <3> DEFINE Eq(h) == h = [i \in 1..Len(s) |-> IF i = 1 THEN s[i] ELSE h[i - 1] \o s[i]]
               v == CHOOSE h : Eq(h)
               w == [i \in 1..Len(s) |-> g[i]]
    <3>1. Eq(w)
      <4>1. ASSUME NEW i \in 1..Len(s)
            PROVE  w[i] = IF i = 1 THEN s[i] ELSE w[i - 1] \o s[i]
        <5>1. CASE i = 1
          BY <1>5, <5>1
        <5>2. CASE i # 1
          <6>1. i - 1 \in 1..Len(s)
            BY <5>2
          <6> QED
            BY <1>4, <5>2, <6>1
        <5> QED
          BY <5>1, <5>2
      <4> HIDE DEF w
      <4>2. w = [i \in 1..Len(s) |-> w[i]]
        BY DEF w
      <4> QED
        BY <4>1, <4>2
    <3>2. Eq(v)
      BY <3>1, Zenon
    <3>3. \A i \in 1..Len(s) : v[i] = IF i = 1 THEN s[i] ELSE v[i - 1] \o s[i]
      BY <3>2, Zenon
    <3> DEFINE Same == {i \in Nat : i + 1 \in 1..Len(s) => v[i + 1] = g[i + 1]}
    <3>4. Nat \subseteq Same
      <4>1. 0 \in Same
        <5>1. 1 \in 1..Len(s)
          BY <2>2
        <5> HIDE DEF v
        <5> QED
          BY <1>5, <3>3, <5>1
      <4>2. ASSUME NEW i \in Nat, i \in Same PROVE i + 1 \in Same
        <5> SUFFICES ASSUME (i + 1) + 1 \in 1..Len(s) PROVE v[(i + 1) + 1] = g[(i + 1) + 1]
          OBVIOUS
        <5>1. v[i + 1] = g[i + 1]
          BY <4>2
        <5> DEFINE m == (i + 1) + 1
        <5>2. m \in 1..Len(s) /\ m # 1 /\ m - 1 = i + 1
          OBVIOUS
        <5> HIDE DEF v, m
        <5>3. v[m] = v[m - 1] \o s[m] /\ g[m] = g[m - 1] \o s[m]
          BY <1>4, <3>3, <5>2
        <5> QED
          BY <5>1, <5>2, <5>3 DEF m
      <4> HIDE DEF Same
      <4> QED
        BY <4>1, <4>2, NatSets
    <3>5. FlattenSeq(s) = v[Len(s)]
      BY <2>2 DEF FlattenSeq
    <3>6. Len(s) - 1 \in Nat /\ (Len(s) - 1) + 1 = Len(s) /\ Len(s) \in 1..Len(s)
      BY <2>2
    <3> HIDE DEF v
    <3>7. v[(Len(s) - 1) + 1] = g[(Len(s) - 1) + 1]
      BY <3>4, <3>6
    <3> QED
      BY <3>5, <3>6, <3>7
  <2> QED
    BY <2>1, <2>2
<1> QED
  BY <1>3, <1>4, <1>7 DEF FlattensBy

LEMMA FlattenType ==
    ASSUME NEW T, NEW s \in Seq(Seq(T))
    PROVE  FlattenSeq(s) \in Seq(T)
<1>1. PICK g : FlattensBy(g, s, T)
  BY FlattenSteps
<1> QED
  BY <1>1, LenProperties DEF FlattensBy

LEMMA FlattenAppend ==
    ASSUME NEW T, NEW s \in Seq(Seq(T)), NEW x \in Seq(T)
    PROVE  FlattenSeq(Append(s, x)) = FlattenSeq(s) \o x
<1> DEFINE u == Append(s, x)
<1>1. u \in Seq(Seq(T)) /\ Len(u) = Len(s) + 1 /\ u[Len(s) + 1] = x
      /\ \A i \in 1..Len(s) : u[i] = s[i]
  OBVIOUS
<1> HIDE DEF u
<1>2. PICK g : FlattensBy(g, s, T)
  BY FlattenSteps
<1>3. PICK h : FlattensBy(h, u, T)
  BY <1>1, FlattenSteps
<1> DEFINE Same == {i \in Nat : i <= Len(s) => h[i] = g[i]}
<1>4. Nat \subseteq Same
  <2>1. 0 \in Same
    BY <1>2, <1>3 DEF FlattensBy
  <2>2. ASSUME NEW i \in Nat, i \in Same PROVE i + 1 \in Same
    <3> SUFFICES ASSUME i + 1 <= Len(s) PROVE h[i + 1] = g[i + 1]
      OBVIOUS
    <3>1. i + 1 \in 1..Len(s) /\ i + 1 \in 1..Len(u) /\ (i + 1) - 1 = i
      BY <1>1
    <3>2. h[i] = g[i]
      BY <2>2
    <3> QED
      BY <1>1, <1>2, <1>3, <3>1, <3>2 DEF FlattensBy
  <2> HIDE DEF Same
  <2> QED
    BY <2>1, <2>2, NatSets
<1>5. h[Len(s)] = g[Len(s)]
  BY <1>4
<1>6. Len(s) + 1 \in 1..Len(u) /\ (Len(s) + 1) - 1 = Len(s)
  BY <1>1
<1>7. h[Len(s) + 1] = h[Len(s)] \o x
  BY <1>1, <1>3, <1>6 DEF FlattensBy
<1> QED
  BY <1>1, <1>2, <1>3, <1>5, <1>7 DEF FlattensBy, u

LEMMA FlattenSingles ==
    ASSUME NEW T, NEW t \in Seq(T)
    PROVE  FlattenSeq([i \in 1..Len(t) |-> <<t[i]>>]) = t
<1> DEFINE s == [i \in 1..Len(t) |-> <<t[i]>>]
<1>1. s \in Seq(Seq(T)) /\ Len(s) = Len(t) /\ \A i \in 1..Len(t) : s[i] = <<t[i]>>
  OBVIOUS
<1> HIDE DEF s
<1>2. PICK g : FlattensBy(g, s, T)
  BY <1>1, FlattenSteps
<1> DEFINE Good == {i \in Nat : i <= Len(t) =>
                        Len(g[i]) = i /\ \A j \in 1..i : g[i][j] = t[j]}
<1>3. Nat \subseteq Good
  <2>1. 0 \in Good
    BY <1>2 DEF FlattensBy
  <2>2. ASSUME NEW i \in Nat, i \in Good PROVE i + 1 \in Good
    <3> SUFFICES ASSUME i + 1 <= Len(t)
                 PROVE  Len(g[i + 1]) = i + 1 /\ \A j \in 1..(i + 1) : g[i + 1][j] = t[j]
      OBVIOUS
    <3>1. i + 1 \in 1..Len(s) /\ (i + 1) - 1 = i
      BY <1>1
    <3> DEFINE m == i + 1
    <3>2. m \in 1..Len(s) /\ m - 1 = i /\ s[m] = <<t[m]>> /\ t[m] \in T
      BY <1>1, <3>1
    <3> HIDE DEF m
    <3>3. g[m] = g[m - 1] \o s[m] /\ g[i] \in Seq(T)
      BY <1>2, <3>2 DEF FlattensBy
    <3>4. g[i + 1] = g[i] \o <<t[i + 1]>> /\ g[i] \in Seq(T) /\ t[i + 1] \in T
      BY <3>2, <3>3 DEF m
    <3>5. Len(g[i]) = i /\ \A j \in 1..i : g[i][j] = t[j]
      BY <2>2
    <3> QED
      BY <3>4, <3>5
  <2> HIDE DEF Good
  <2> QED
    BY <2>1, <2>2, NatSets
<1>4. FlattenSeq(s) \in Seq(T) /\ Len(FlattenSeq(s)) = Len(t)
      /\ \A j \in 1..Len(t) : FlattenSeq(s)[j] = t[j]
  <2>1. FlattenSeq(s) = g[Len(t)] /\ Len(t) \in Nat /\ g[Len(t)] \in Seq(T)
    BY <1>1, <1>2 DEF FlattensBy
  <2> QED
    BY <1>3, <2>1
<1>5. FlattenSeq(s) = t
  BY <1>4, SeqEqual
<1> QED
  BY <1>5 DEF s

(* The numbers of a set that is bounded lie between its least and its      *)
(* greatest.                                                               *)
LEMMA MinAndMax ==
    ASSUME NEW m \in Nat, NEW K, K \subseteq 1..m, K # {}
    PROVE  /\ Min(K) \in K /\ \A i \in K : Min(K) <= i
           /\ Max(K) \in K /\ \A i \in K : i <= Max(K)
<1>1. \E a \in K : \A i \in K : a <= i
  <2>1. K \subseteq Nat
    OBVIOUS
  <2> QED
    BY <2>1, LeastNatural
<1>2. \E a \in K : \A i \in K : i <= a
  <2> DEFINE U == {m - i : i \in K}
  <2>1. U \subseteq Nat /\ U # {}
    <3>1. ASSUME NEW i \in K PROVE m - i \in Nat
      OBVIOUS
    <3> QED
      BY <3>1
  <2>2. PICK b \in U : \A j \in U : b <= j
    <3> HIDE DEF U
    <3> QED
      BY <2>1, LeastNatural
  <2>3. PICK a \in K : b = m - a
    BY <2>2
  <2>4. ASSUME NEW i \in K PROVE i <= a
    <3>1. b <= m - i
      BY <2>2
    <3> QED
      BY <2>3, <3>1
  <2> QED
    BY <2>4
<1> QED
  BY <1>1, <1>2 DEF Min, Max
-----------------------------------------------------------------------------
(* What an expansion gives. *)

ExpandErrors == {"none", "RecursionLimit", "RecursiveReference", "UndefinedChunk"}

OutLinesOf(c, d) == {OutLine(c, d, k) : k \in {j \in DOMAIN d.body : d.body[j].kind # "ref"}}
OutLines == UNION {UNION {OutLinesOf(c, d) : d \in Range(store.defs[c])} : c \in Names}

Results == [err : ExpandErrors, lines : Seq(OutLines), deps : SUBSET UNION {EdgesOf(c) : c \in Names}]

(* The bodies of the definitions hold text and references. *)
BodyOK(body) ==
    /\ body \in Seq(Range(body))
    /\ \A k \in DOMAIN body :
          /\ body[k].kind \in {"ref", "text"}
          /\ body[k].kind = "ref" => body[k].name \in Names /\ body[k].opts \in SUBSET Options

DefsOK ==
    \A c \in Names :
        /\ store.defs[c] \in Seq(Range(store.defs[c]))
        /\ \A d \in Range(store.defs[c]) : BodyOK(d.body)

LEMMA SpacedType ==
    ASSUME NEW T, NEW opts, NEW s \in Seq(T)
    PROVE  Spaced(opts, s) \in Seq(T)
<1>1. CASE "tight" \in opts
  <2> DEFINE u == [i \in DOMAIN s |-> IF Blank(s[i]) THEN <<>> ELSE <<s[i]>>]
  <2>1. u \in Seq(Seq(T))
    <3>1. ASSUME NEW i \in 1..Len(s)
          PROVE  (IF Blank(s[i]) THEN <<>> ELSE <<s[i]>>) \in Seq(T)
      <4>1. <<>> \in Seq(T) /\ <<s[i]>> \in Seq(T)
        OBVIOUS
      <4> QED
        BY <4>1
    <3>2. u = [i \in 1..Len(s) |-> IF Blank(s[i]) THEN <<>> ELSE <<s[i]>>]
      OBVIOUS
    <3> HIDE DEF u
    <3> QED
      BY <3>1, <3>2
  <2> HIDE DEF u
  <2>2. FlattenSeq(u) \in Seq(T)
    BY <2>1, FlattenType
  <2> QED
    BY <1>1, <2>2 DEF Spaced, u
<1>2. CASE "tight" \notin opts /\ "compact" \in opts
  <2> DEFINE K == {i \in DOMAIN s : ~Blank(s[i])}
  <2>1. CASE K = {}
    BY <1>2, <2>1 DEF Spaced, Trimmed
  <2>2. CASE K # {}
    <3>1. K \subseteq 1..Len(s) /\ Len(s) \in Nat
      OBVIOUS
    <3> HIDE DEF K
    <3>2. Min(K) \in 1..Len(s) /\ Max(K) \in 1..Len(s)
      BY <2>2, <3>1, MinAndMax
    <3>3. SubSeq(s, Min(K), Max(K)) \in Seq(T)
      BY <3>2, SubSeqProperties
    <3> QED
      BY <1>2, <2>2, <3>3 DEF Spaced, Trimmed, K
  <2> QED
    BY <2>1, <2>2
<1>3. CASE "tight" \notin opts /\ "compact" \notin opts
  BY <1>3 DEF Spaced
<1> QED
  BY <1>1, <1>2, <1>3

LEMMA JoinedResults ==
    ASSUME NEW rs \in Seq(Results)
    PROVE  /\ Joined(rs) \in Results
           /\ Joined(rs).err = "none" => \A i \in DOMAIN rs : rs[i].err = "none"
           /\ Joined(rs).err # "none" => \E i \in DOMAIN rs : rs[i].err = Joined(rs).err
           /\ Joined(rs).deps = UNION {rs[i].deps : i \in DOMAIN rs}
<1> DEFINE bad == {i \in DOMAIN rs : rs[i].err # "none"}
           ls == [i \in DOMAIN rs |-> rs[i].lines]
           J == Joined(rs)
<1>1. \A i \in DOMAIN rs : rs[i] \in Results
  OBVIOUS
<1>2. FlattenSeq(ls) \in Seq(OutLines)
  <2>1. ls \in Seq(Seq(OutLines))
    BY <1>1 DEF Results
  <2> HIDE DEF ls
  <2> QED
    BY <2>1, FlattenType
<1>3. bad # {} => Min(bad) \in bad
  <2>1. bad \subseteq 1..Len(rs) /\ Len(rs) \in Nat
    OBVIOUS
  <2> HIDE DEF bad
  <2> QED
    BY <2>1, MinAndMax
<1>4. /\ J.err = IF bad = {} THEN "none" ELSE rs[Min(bad)].err
      /\ J.lines = FlattenSeq(ls)
      /\ J.deps = UNION {rs[i].deps : i \in DOMAIN rs}
      /\ J = [err |-> J.err, lines |-> J.lines, deps |-> J.deps]
  BY DEF Joined
<1>5. J.err \in ExpandErrors /\ J.deps \in SUBSET UNION {EdgesOf(c) : c \in Names}
  <2>1. \A i \in DOMAIN rs : /\ rs[i].err \in ExpandErrors
                            /\ rs[i].deps \in SUBSET UNION {EdgesOf(c) : c \in Names}
    BY <1>1 DEF Results
  <2>2. "none" \in ExpandErrors
    BY DEF ExpandErrors
  <2> HIDE DEF J
  <2> QED
    BY <1>3, <1>4, <2>1, <2>2
<1> HIDE DEF ls, J
<1>6. J \in Results
  BY <1>2, <1>4, <1>5 DEF Results
<1> QED
  BY <1>3, <1>4, <1>6 DEF J

RefsIn(d) == {b \in Range(d.body) : b.kind = "ref"}
SubCall(x, l) == [chunk |-> l.name, opts |-> l.opts, stack |-> Append(x.stack, x.chunk)]

LEMMA ItemResults ==
    ASSUME DefsOK, NEW below \in [Calls -> Results], NEW x \in Calls,
           NEW d \in Range(store.defs[x.chunk]), NEW k \in DOMAIN d.body
    PROVE  /\ Item(below, x, d, k) \in Results
           /\ d.body[k].kind # "ref" => /\ Item(below, x, d, k).err = "none"
                                        /\ Item(below, x, d, k).deps = {}
           /\ d.body[k].kind = "ref" =>
                 LET l == d.body[k]
                 IN  /\ l \in RefsIn(d)
                     /\ SubCall(x, l) \in Calls
                     /\ Item(below, x, d, k).err = below[SubCall(x, l)].err
                     /\ Item(below, x, d, k).deps =
                            {<<x.chunk, l.name, d.file>>} \cup below[SubCall(x, l)].deps
<1> DEFINE l == d.body[k]
           sub == below[SubCall(x, l)]
           item == Item(below, x, d, k)
<1>1. x.chunk \in Names /\ x.stack \in Seq(Names) /\ BodyOK(d.body) /\ l \in Range(d.body)
  BY DEF Calls, DefsOK, Range
<1>2. CASE l.kind = "ref"
  <2>1. SubCall(x, l) \in Calls /\ l \in RefsIn(d)
    <3>1. l.name \in Names /\ l.opts \in SUBSET Options /\ Append(x.stack, x.chunk) \in Seq(Names)
      BY <1>1, <1>2, AppendProperties DEF BodyOK
    <3> QED
      BY <1>1, <1>2, <3>1 DEF SubCall, Calls, RefsIn
  <2>2. sub \in Results
    BY <2>1
  <2>3. item = [err |-> sub.err, lines |-> Spaced(l.opts, sub.lines),
                deps |-> {<<x.chunk, l.name, d.file>>} \cup sub.deps]
    BY <1>2 DEF Item, SubCall, Edges
  <2>4. Spaced(l.opts, sub.lines) \in Seq(OutLines)
    BY <2>2, SpacedType DEF Results
  <2>5. <<x.chunk, l.name, d.file>> \in UNION {EdgesOf(c) : c \in Names}
    <3>1. <<x.chunk, l.name, d.file>> \in EdgesOf(x.chunk)
      BY <2>1 DEF EdgesOf, RefsIn
    <3> QED
      BY <1>1, <3>1
  <2> HIDE DEF item, sub
  <2>6. item \in Results
    BY <2>2, <2>3, <2>4, <2>5 DEF Results
  <2> QED
    BY <1>2, <2>1, <2>3, <2>6 DEF item, sub
<1>3. CASE l.kind # "ref"
  <2>1. item = [err |-> "none", lines |-> <<OutLine(x.chunk, d, k)>>, deps |-> {}]
    BY <1>3 DEF Item, Nothing
  <2>2. OutLine(x.chunk, d, k) \in OutLines
    <3>1. OutLine(x.chunk, d, k) \in OutLinesOf(x.chunk, d)
      BY <1>3 DEF OutLinesOf
    <3> QED
      BY <1>1, <3>1 DEF OutLines
  <2>3. <<OutLine(x.chunk, d, k)>> \in Seq(OutLines)
    BY <2>2
  <2> HIDE DEF item
  <2>4. item \in Results
    BY <2>1, <2>3 DEF Results, ExpandErrors
  <2> QED
    BY <1>3, <2>1, <2>4 DEF item
<1> QED
  BY <1>2, <1>3

LEMMA DefinitionResults ==
    ASSUME DefsOK, NEW below \in [Calls -> Results], NEW x \in Calls,
           NEW d \in Range(store.defs[x.chunk])
    PROVE  LET y == Definition(below, x, d)
           IN  /\ y \in Results
               /\ y.err = "none" => \A l \in RefsIn(d) : below[SubCall(x, l)].err = "none"
               /\ y.err # "none" => \E l \in RefsIn(d) : below[SubCall(x, l)].err = y.err
               /\ y.deps = UNION {{<<x.chunk, l.name, d.file>>} \cup below[SubCall(x, l)].deps :
                                  l \in RefsIn(d)}
<1> DEFINE rs == [k \in DOMAIN d.body |-> Item(below, x, d, k)]
           y == Definition(below, x, d)
           Edge(l) == {<<x.chunk, l.name, d.file>>} \cup below[SubCall(x, l)].deps
<1>1. BodyOK(d.body)
  BY DEF Calls, DefsOK
<1>2. rs \in Seq(Results) /\ DOMAIN rs = DOMAIN d.body
  <2>1. ASSUME NEW k \in DOMAIN d.body PROVE Item(below, x, d, k) \in Results
    BY ItemResults
  <2>2. DOMAIN d.body = 1..Len(d.body) /\ Len(d.body) \in Nat
    BY <1>1 DEF BodyOK
  <2> QED
    BY <2>1, <2>2
<1>3. \A k \in DOMAIN d.body : rs[k] = Item(below, x, d, k)
  OBVIOUS
<1> HIDE DEF rs
<1>4. /\ Joined(rs) \in Results
      /\ Joined(rs).err = "none" => \A k \in DOMAIN d.body : rs[k].err = "none"
      /\ Joined(rs).err # "none" => \E k \in DOMAIN d.body : rs[k].err = Joined(rs).err
      /\ Joined(rs).deps = UNION {rs[k].deps : k \in DOMAIN d.body}
  BY <1>2, JoinedResults
<1>5. /\ y \in Results
      /\ y.err = Joined(rs).err
      /\ y.deps = Joined(rs).deps
  <2>1. y = [Joined(rs) EXCEPT !.lines = Spaced(x.opts, @)]
    BY DEF Definition, rs
  <2>2. Spaced(x.opts, Joined(rs).lines) \in Seq(OutLines)
    BY <1>4, SpacedType DEF Results
  <2> HIDE DEF y
  <2> QED
    BY <1>4, <2>1, <2>2 DEF Results
<1>6. \A k \in DOMAIN d.body :
         /\ d.body[k].kind # "ref" => rs[k].err = "none" /\ rs[k].deps = {}
         /\ d.body[k].kind = "ref" => /\ d.body[k] \in RefsIn(d)
                                      /\ rs[k].err = below[SubCall(x, d.body[k])].err
                                      /\ rs[k].deps = Edge(d.body[k])
  BY <1>3, ItemResults
<1>7. \A l \in RefsIn(d) : \E k \in DOMAIN d.body : l = d.body[k] /\ d.body[k].kind = "ref"
  BY DEF RefsIn, Range
<1> HIDE DEF y, Edge
<1>8. y.err = "none" => \A l \in RefsIn(d) : below[SubCall(x, l)].err = "none"
  BY <1>4, <1>5, <1>6, <1>7
<1>9. y.err # "none" => \E l \in RefsIn(d) : below[SubCall(x, l)].err = y.err
  BY <1>4, <1>5, <1>6
<1>10. y.deps = UNION {Edge(l) : l \in RefsIn(d)}
  BY <1>4, <1>5, <1>6, <1>7
<1> QED
  BY <1>5, <1>8, <1>9, <1>10 DEF y, Edge

LEMMA OrderKeeps ==
    ASSUME NEW T, NEW s \in Seq(T), NEW opts
    PROVE  /\ Order(opts, s) \in Seq(T)
           /\ Order(opts, s) = <<>> <=> s = <<>>
           /\ Range(Order(opts, s)) = Range(s)
<1>1. CASE "reversed" \in opts
  <2> DEFINE r == [i \in 1..Len(s) |-> s[(Len(s) - i) + 1]]
  <2>1. Order(opts, s) = r
    BY <1>1 DEF Order, Reverse
  <2>2. \A i \in 1..Len(s) : (Len(s) - i) + 1 \in 1..Len(s) /\ Len(s) - ((Len(s) - i) + 1) + 1 = i
    OBVIOUS
  <2>3. r \in Seq(T) /\ DOMAIN r = 1..Len(s) /\ Len(r) = Len(s)
    BY <2>2
  <2>4. \A i \in 1..Len(s) : r[i] = s[(Len(s) - i) + 1] /\ r[(Len(s) - i) + 1] = s[i]
    BY <2>2
  <2> HIDE DEF r
  <2>5. Range(r) = Range(s)
    <3>1. ASSUME NEW i \in 1..Len(s) PROVE r[i] \in Range(s)
      BY <2>2, <2>4 DEF Range
    <3>2. ASSUME NEW i \in 1..Len(s) PROVE s[i] \in Range(r)
      BY <2>2, <2>3, <2>4 DEF Range
    <3>3. DOMAIN s = 1..Len(s)
      OBVIOUS
    <3> QED
      BY <2>3, <3>1, <3>2, <3>3 DEF Range
  <2>6. r = <<>> <=> s = <<>>
    BY <2>3, EmptySeq
  <2> QED
    BY <2>1, <2>3, <2>5, <2>6
<1>2. CASE "reversed" \notin opts
  BY <1>2 DEF Order
<1> QED
  BY <1>1, <1>2

(* The references of a chunk. *)
RefLines(c) == UNION {RefsIn(d) : d \in Range(store.defs[c])}

(* What an expansion makes of what its references give. *)
Combines(below, x, y) ==
    /\ y \in Results
    /\ IF x.chunk \in Range(x.stack) THEN y.err = "RecursiveReference"
       ELSE IF store.defs[x.chunk] = <<>>
            THEN y.err = (IF strict THEN "UndefinedChunk" ELSE "none") /\ y.deps = {}
       ELSE /\ y.err = "none" =>
                  \A l \in RefLines(x.chunk) : below[SubCall(x, l)].err = "none"
            /\ y.err # "none" =>
                  \E l \in RefLines(x.chunk) : below[SubCall(x, l)].err = y.err
            /\ y.deps = EdgesOf(x.chunk)
                           \cup UNION {below[SubCall(x, l)].deps : l \in RefLines(x.chunk)}

LEMMA FailedResults ==
    /\ Nothing \in Results /\ Nothing.err = "none" /\ Nothing.deps = {}
    /\ \A e \in ExpandErrors : Failed(e) \in Results /\ Failed(e).err = e /\ Failed(e).deps = {}
BY DEF Nothing, Failed, Results, ExpandErrors

LEMMA ExpandedResults ==
    ASSUME DefsOK, NEW below \in [Calls -> Results], NEW x \in Calls
    PROVE  Combines(below, x, Expanded(below, x))
<1> DEFINE y == Expanded(below, x)
           defs == Order(x.opts, store.defs[x.chunk])
           rs == [i \in DOMAIN defs |-> Definition(below, x, defs[i])]
           D == Range(store.defs[x.chunk])
           Edge(l, d) == {<<x.chunk, l.name, d.file>>} \cup below[SubCall(x, l)].deps
<1>1. /\ defs \in Seq(D)
      /\ defs = <<>> <=> store.defs[x.chunk] = <<>>
      /\ Range(defs) = D
  <2>1. store.defs[x.chunk] \in Seq(D)
    BY DEF DefsOK, Calls
  <2> QED
    BY <2>1, OrderKeeps
<1>2. CASE x.chunk \in Range(x.stack)
  <2>1. y = Failed("RecursiveReference")
    BY <1>2 DEF Expanded, OnCycle
  <2> QED
    BY <1>2, <2>1, FailedResults DEF Combines, ExpandErrors
<1>3. CASE x.chunk \notin Range(x.stack) /\ store.defs[x.chunk] = <<>>
  <2>1. y = IF strict THEN Failed("UndefinedChunk") ELSE Nothing
    BY <1>1, <1>3 DEF Expanded, OnCycle
  <2> QED
    BY <1>3, <2>1, FailedResults DEF Combines, ExpandErrors
<1>4. CASE x.chunk \notin Range(x.stack) /\ store.defs[x.chunk] # <<>>
  <2>1. y = Joined(rs)
    BY <1>1, <1>4 DEF Expanded, OnCycle
  <2> HIDE DEF defs, y
  <2>2. ASSUME NEW d \in D
        PROVE  LET z == Definition(below, x, d)
               IN  /\ z \in Results
                   /\ z.err = "none" => \A l \in RefsIn(d) : below[SubCall(x, l)].err = "none"
                   /\ z.err # "none" => \E l \in RefsIn(d) : below[SubCall(x, l)].err = z.err
                   /\ z.deps = UNION {Edge(l, d) : l \in RefsIn(d)}
    BY DefinitionResults
  <2> HIDE DEF Edge
  <2>3. /\ \A i \in DOMAIN defs : defs[i] \in D /\ rs[i] = Definition(below, x, defs[i])
        /\ \A d \in D : \E i \in DOMAIN defs : d = defs[i]
    BY <1>1 DEF Range
  <2>4. rs \in Seq(Results) /\ DOMAIN rs = DOMAIN defs
    <3>1. DOMAIN defs = 1..Len(defs) /\ Len(defs) \in Nat
      BY <1>1
    <3>2. ASSUME NEW i \in DOMAIN defs PROVE Definition(below, x, defs[i]) \in Results
      BY <2>2, <2>3
    <3> QED
      BY <3>1, <3>2
  <2> HIDE DEF rs
  <2>5. /\ y \in Results
        /\ y.err = "none" => \A i \in DOMAIN defs : rs[i].err = "none"
        /\ y.err # "none" => \E i \in DOMAIN defs : rs[i].err = y.err
        /\ y.deps = UNION {rs[i].deps : i \in DOMAIN defs}
    BY <2>1, <2>4, JoinedResults
  <2> HIDE DEF D
  <2>6. y.err = "none" => \A l \in RefLines(x.chunk) : below[SubCall(x, l)].err = "none"
    BY <2>2, <2>3, <2>5 DEF RefLines, D
  <2>7. y.err # "none" => \E l \in RefLines(x.chunk) : below[SubCall(x, l)].err = y.err
    BY <2>2, <2>3, <2>5 DEF RefLines, D
  <2>8. y.deps = EdgesOf(x.chunk) \cup UNION {below[SubCall(x, l)].deps : l \in RefLines(x.chunk)}
    <3>1. y.deps = UNION {UNION {Edge(l, d) : l \in RefsIn(d)} : d \in D}
      BY <2>2, <2>3, <2>5
    <3>2. EdgesOf(x.chunk) = UNION {{<<x.chunk, l.name, d.file>> : l \in RefsIn(d)} : d \in D}
      BY DEF EdgesOf, RefsIn, D
    <3> QED
      BY <3>1, <3>2 DEF RefLines, Edge, D
  <2> QED
    BY <1>4, <2>5, <2>6, <2>7, <2>8 DEF Combines, y
<1> QED
  BY <1>2, <1>3, <1>4

(* The expansions with less and less room on the stack. *)
Levels(e) ==
    /\ e \in [Nat -> [Calls -> Results]]
    /\ \A x \in Calls : e[0][x] = Failed("RecursionLimit")
    /\ \A k \in Nat : \A x \in Calls : e[k + 1][x] = Expanded(e[k], x)

RootCall(c) == [chunk |-> c, opts |-> {}, stack |-> <<>>]

LEMMA ExpansionLevels ==
    ASSUME DefsOK, NEW c \in Names
    PROVE  RootCall(c) \in Calls /\ \E e : Levels(e) /\ Expansion(c) = e[MaxDepth + 1][RootCall(c)]
<1> DEFINE S == [Calls -> Results]
           a == [x \in Calls |-> Failed("RecursionLimit")]
           F == [below \in S |-> [x \in Calls |-> Expanded(below, x)]]
           Eq(h) == h = [left \in Nat |->
                           [x \in Calls |-> IF left = 0 THEN Failed("RecursionLimit")
                                            ELSE Expanded(h[left - 1], x)]]
           e == CHOOSE h : Eq(h)
<1>1. a \in S
  BY FailedResults DEF ExpandErrors
<1>2. F \in [S -> S]
  BY ExpandedResults DEF Combines
<1>3. PICK g : Iterates(g, S, a, F)
  <2> HIDE DEF S, F, a
  <2> QED
    BY <1>1, <1>2, IterationExists
<1>4. g \in [Nat -> S] /\ g[0] = a /\ \A k \in Nat : g[k + 1] = F[g[k]]
  BY <1>3 DEF Iterates
<1>5. Levels(g)
  <2>1. \A x \in Calls : g[0][x] = Failed("RecursionLimit")
    BY <1>4
  <2>2. ASSUME NEW k \in Nat, NEW x \in Calls PROVE g[k + 1][x] = Expanded(g[k], x)
    <3>1. g[k] \in S /\ g[k + 1] = F[g[k]]
      BY <1>4
    <3>2. F[g[k]] = [z \in Calls |-> Expanded(g[k], z)]
      BY <3>1
    <3> HIDE DEF F
    <3> QED
      BY <3>1, <3>2
  <2> QED
    BY <1>4, <2>1, <2>2 DEF Levels
<1>6. Eq(g)
  <2>1. ASSUME NEW k \in Nat
        PROVE  g[k] = [x \in Calls |-> IF k = 0 THEN Failed("RecursionLimit")
                                       ELSE Expanded(g[k - 1], x)]
    <3>1. CASE k = 0
      BY <1>4, <3>1
    <3>2. CASE k # 0
      <4>1. k - 1 \in Nat /\ (k - 1) + 1 = k
        BY <3>2
      <4>2. g[(k - 1) + 1] = F[g[k - 1]] /\ g[k - 1] \in S
        BY <1>4, <4>1
      <4>3. F[g[k - 1]] = [x \in Calls |-> Expanded(g[k - 1], x)]
        BY <4>2
      <4> HIDE DEF F
      <4> QED
        BY <3>2, <4>1, <4>2, <4>3
    <3> QED
      BY <3>1, <3>2
  <2>2. g = [k \in Nat |-> g[k]]
    BY <1>4
  <2> HIDE DEF F, a, S
  <2> QED
    BY <2>1, <2>2
<1>7. Eq(e)
  BY <1>6, Zenon
<1>8. \A k \in Nat : e[k] = [x \in Calls |-> IF k = 0 THEN Failed("RecursionLimit")
                                             ELSE Expanded(e[k - 1], x)]
  <2> HIDE DEF F, a, S
  <2> QED
    BY <1>7, Zenon
<1>9. Expansion(c) = e[MaxDepth + 1][RootCall(c)]
  BY DEF Expansion, RootCall
<1> HIDE DEF e, F, S
<1> DEFINE Same == {k \in Nat : e[k] = g[k]}
<1>10. Nat \subseteq Same
  <2>1. 0 \in Same
    <3>1. e[0] = a
      BY <1>8
    <3> QED
      BY <1>4, <3>1
  <2>2. ASSUME NEW k \in Nat, k \in Same PROVE k + 1 \in Same
    <3>1. k + 1 \in Nat /\ k + 1 # 0 /\ (k + 1) - 1 = k
      OBVIOUS
    <3>2. e[k + 1] = [x \in Calls |-> Expanded(e[(k + 1) - 1], x)]
      BY <1>8, <3>1
    <3>3. g[k + 1] = [x \in Calls |-> Expanded(g[(k + 1) - 1], x)]
      <4>1. g[k + 1] \in S /\ \A x \in Calls : g[k + 1][x] = Expanded(g[k], x)
        BY <1>4, <1>5, <3>1 DEF Levels
      <4> QED
        BY <3>1, <4>1 DEF S
    <3>4. e[k] = g[k]
      BY <2>2
    <3> QED
      BY <3>1, <3>2, <3>3, <3>4
  <2> HIDE DEF Same
  <2> QED
    BY <2>1, <2>2, NatSets
<1>11. e[MaxDepth + 1] = g[MaxDepth + 1]
  BY <1>10, ConstantsOK
<1>12. RootCall(c) \in Calls
  BY DEF RootCall, Calls, Options
<1> QED
  BY <1>5, <1>9, <1>11, <1>12
-----------------------------------------------------------------------------
(* The chunks that references lead to. *)

LEMMA RefNames ==
    ASSUME DefsOK, NEW c \in Names
    PROVE  /\ RefsOf(c) = {l.name : l \in RefLines(c)}
           /\ RefsOf(c) \subseteq Names
<1>1. RefsOf(c) = {l.name : l \in RefLines(c)}
  BY DEF RefsOf, RefLines, RefsIn
<1>2. ASSUME NEW l \in RefLines(c) PROVE l.name \in Names
  <2>1. PICK d \in Range(store.defs[c]) : l \in Range(d.body) /\ l.kind = "ref"
    BY DEF RefLines, RefsIn
  <2>2. PICK k \in DOMAIN d.body : l = d.body[k]
    BY <2>1 DEF Range
  <2>3. BodyOK(d.body)
    BY DEF DefsOK
  <2> QED
    BY <2>1, <2>2, <2>3 DEF BodyOK
<1> QED
  BY <1>1, <1>2

LEMMA SubCalls ==
    ASSUME DefsOK, NEW x \in Calls, NEW l \in RefLines(x.chunk)
    PROVE  /\ SubCall(x, l) \in Calls
           /\ SubCall(x, l).chunk = l.name
           /\ SubCall(x, l).stack = Append(x.stack, x.chunk)
<1>1. x.chunk \in Names /\ x.stack \in Seq(Names)
  BY DEF Calls
<1>2. PICK d \in Range(store.defs[x.chunk]) : l \in Range(d.body) /\ l.kind = "ref"
  BY DEF RefLines, RefsIn
<1>3. PICK k \in DOMAIN d.body : l = d.body[k]
  BY <1>2 DEF Range
<1>4. l.name \in Names /\ l.opts \in SUBSET Options
  BY <1>1, <1>2, <1>3 DEF DefsOK, BodyOK
<1>5. Append(x.stack, x.chunk) \in Seq(Names)
  BY <1>1, AppendProperties
<1> QED
  BY <1>4, <1>5 DEF SubCall, Calls

(* One step along the references of a set of chunks. *)
Grow(X) == X \cup UNION {RefsOf(x) : x \in X}

GrowsBy(v, c) ==
    /\ v \in [Nat -> SUBSET Names]
    /\ v[0] = {c}
    /\ \A k \in Nat : v[k + 1] = Grow(v[k])
    /\ Reached(c) = v[Cardinality(Names)]

LEMMA GrowType ==
    ASSUME DefsOK, NEW X \in SUBSET Names
    PROVE  Grow(X) \in SUBSET Names
BY RefNames DEF Grow

LEMMA NamesFinite ==
    IsFiniteSet(Names) /\ Cardinality(Names) \in Nat
BY ConstantsOK, FS_Union, FS_CardinalityType DEF Names

LEMMA ReachedGrows ==
    ASSUME DefsOK, NEW c \in Names
    PROVE  \E v : GrowsBy(v, c)
<1> DEFINE S == SUBSET Names
           F == [X \in S |-> Grow(X)]
           Eq(h) == h = [k \in Nat |->
                           IF k = 0 THEN {c}
                           ELSE h[k - 1] \cup UNION {RefsOf(x) : x \in h[k - 1]}]
           v == CHOOSE h : Eq(h)
<1>1. F \in [S -> S] /\ {c} \in S
  BY GrowType
<1>2. PICK g : Iterates(g, S, {c}, F)
  <2> HIDE DEF S, F
  <2> QED
    BY <1>1, IterationExists
<1>3. g \in [Nat -> S] /\ g[0] = {c} /\ \A k \in Nat : g[k + 1] = Grow(g[k])
  BY <1>2 DEF Iterates
<1>4. Eq(g)
  <2>1. ASSUME NEW k \in Nat
        PROVE  g[k] = IF k = 0 THEN {c}
                      ELSE g[k - 1] \cup UNION {RefsOf(x) : x \in g[k - 1]}
    <3>1. CASE k = 0
      BY <1>3, <3>1
    <3>2. CASE k # 0
      <4>1. k - 1 \in Nat /\ (k - 1) + 1 = k
        BY <3>2
      <4> QED
        BY <1>3, <3>2, <4>1 DEF Grow
    <3> QED
      BY <3>1, <3>2
  <2> QED
    BY <1>3, <2>1
<1>5. Eq(v)
  BY <1>4, Zenon
<1>6. Reached(c) = v[Cardinality(Names)]
  BY DEF Reached
<1> HIDE DEF v, F
<1>7. v[0] = {c} /\ \A k \in Nat : v[k + 1] = Grow(v[k])
  <2>1. ASSUME NEW k \in Nat PROVE v[k + 1] = Grow(v[k])
    <3>1. k + 1 \in Nat /\ k + 1 # 0 /\ (k + 1) - 1 = k
      OBVIOUS
    <3> QED
      BY <1>5, <3>1 DEF Grow
  <2> QED
    BY <1>5, <2>1
<1> DEFINE Typed == {k \in Nat : v[k] \in SUBSET Names}
<1>8. Nat \subseteq Typed
  <2>1. 0 \in Typed
    BY <1>7
  <2>2. ASSUME NEW k \in Nat, k \in Typed PROVE k + 1 \in Typed
    BY <1>7, <2>2, GrowType
  <2> HIDE DEF Typed
  <2> QED
    BY <2>1, <2>2, NatSets
<1>9. v = [k \in Nat |-> v[k]]
  BY <1>5
<1>10. v \in [Nat -> SUBSET Names]
  BY <1>8, <1>9
<1> QED
  BY <1>6, <1>7, <1>10 DEF GrowsBy

LEMMA ReachedLeast ==
    ASSUME DefsOK, NEW c \in Names, NEW X, c \in X, \A x \in X : RefsOf(x) \subseteq X
    PROVE  Reached(c) \subseteq X
<1>1. PICK v : GrowsBy(v, c)
  BY ReachedGrows
<1> DEFINE Within == {k \in Nat : v[k] \subseteq X}
<1>2. 0 \in Within
  BY <1>1 DEF GrowsBy
<1>3. ASSUME NEW k \in Nat, k \in Within PROVE k + 1 \in Within
  BY <1>1, <1>3 DEF GrowsBy, Grow
<1>4. Nat \subseteq Within
  <2> HIDE DEF Within
  <2> QED
    BY <1>2, <1>3, NatSets
<1> QED
  BY <1>1, <1>4, NamesFinite DEF GrowsBy

LEMMA ReachedClosed ==
    ASSUME DefsOK, NEW c \in Names
    PROVE  /\ Reached(c) \subseteq Names /\ c \in Reached(c)
           /\ \A x \in Reached(c) : RefsOf(x) \subseteq Reached(c)
<1> DEFINE F == [X \in SUBSET Names |-> Grow(X)]
           N == Cardinality(Names)
<1>1. PICK v : GrowsBy(v, c)
  BY ReachedGrows
<1>2. F \in [SUBSET Names -> SUBSET Names]
  BY GrowType
<1>3. v \in [Nat -> SUBSET Names] /\ N \in Nat /\ IsFiniteSet(Names)
  BY <1>1, NamesFinite DEF GrowsBy
<1>4. \A k \in Nat : v[k + 1] = F[v[k]] /\ v[k] \subseteq v[k + 1]
  BY <1>1, <1>3 DEF GrowsBy, Grow
<1>5. F[v[N]] = v[N]
  <2> HIDE DEF F
  <2> QED
    BY <1>2, <1>3, <1>4, GrowthEnds
<1>6. Reached(c) = v[N] /\ Grow(v[N]) = v[N] /\ v[N] \in SUBSET Names
  BY <1>1, <1>3, <1>5 DEF GrowsBy
<1> DEFINE With == {k \in Nat : c \in v[k]}
<1>7. Nat \subseteq With
  <2>1. 0 \in With
    BY <1>1 DEF GrowsBy
  <2>2. ASSUME NEW k \in Nat, k \in With PROVE k + 1 \in With
    <3>1. v[k] \subseteq v[k + 1]
      BY <1>4
    <3> HIDE DEF F
    <3> QED
      BY <2>2, <3>1
  <2> HIDE DEF With
  <2> QED
    BY <2>1, <2>2, NatSets
<1> HIDE DEF F, N
<1> QED
  BY <1>3, <1>6, <1>7 DEF Grow

LEMMA ReachedUnfolds ==
    ASSUME DefsOK, NEW c \in Names
    PROVE  Reached(c) = {c} \cup UNION {Reached(x) : x \in RefsOf(c)}
<1> DEFINE X == {c} \cup UNION {Reached(x) : x \in RefsOf(c)}
<1>1. RefsOf(c) \subseteq Names
  BY RefNames
<1>2. Reached(c) \subseteq X
  <2>1. ASSUME NEW x \in RefsOf(c)
        PROVE  x \in Reached(x) /\ \A y \in Reached(x) : RefsOf(y) \subseteq Reached(x)
    BY <1>1, ReachedClosed
  <2>2. \A y \in X : RefsOf(y) \subseteq X
    BY <2>1
  <2>3. c \in X
    OBVIOUS
  <2> HIDE DEF X
  <2> QED
    BY <2>2, <2>3, ReachedLeast
<1>3. ASSUME NEW x \in RefsOf(c) PROVE Reached(x) \subseteq Reached(c)
  <2>1. x \in Names /\ x \in Reached(c)
    BY <1>1, ReachedClosed
  <2>2. \A y \in Reached(c) : RefsOf(y) \subseteq Reached(c)
    BY ReachedClosed
  <2> QED
    BY <2>1, <2>2, ReachedLeast
<1>4. c \in Reached(c)
  BY ReachedClosed
<1> QED
  BY <1>2, <1>3, <1>4

(* An expansion that ends well has the edges of the chunks it reaches. *)
EdgesFrom(c) == UNION {EdgesOf(x) : x \in Reached(c)}

LEMMA LevelEdges ==
    ASSUME DefsOK, NEW e, Levels(e), NEW m \in Nat, NEW x \in Calls, e[m][x].err = "none"
    PROVE  e[m][x].deps = EdgesFrom(x.chunk)
<1> DEFINE Good == {k \in Nat : \A z \in Calls :
                        e[k][z].err = "none" => e[k][z].deps = EdgesFrom(z.chunk)}
<1>1. 0 \in Good
  <2>1. ASSUME NEW z \in Calls PROVE e[0][z].err # "none"
    BY FailedResults DEF Levels, ExpandErrors
  <2> QED
    BY <2>1
<1>2. ASSUME NEW k \in Nat, k \in Good PROVE k + 1 \in Good
  <2> SUFFICES ASSUME NEW z \in Calls, e[k + 1][z].err = "none"
               PROVE  e[k + 1][z].deps = EdgesFrom(z.chunk)
    OBVIOUS
  <2> DEFINE c == z.chunk
             y == e[k + 1][z]
             below == e[k]
  <2>1. Combines(below, z, y)
    BY ExpandedResults DEF Levels
  <2>2. c \in Names
    BY DEF Calls
  <2>3. Reached(c) = {c} \cup UNION {Reached(a) : a \in RefsOf(c)}
    BY <2>2, ReachedUnfolds
  <2>4. RefsOf(c) = {l.name : l \in RefLines(c)}
    BY <2>2, RefNames
  <2>5. EdgesFrom(c) = EdgesOf(c) \cup UNION {EdgesFrom(l.name) : l \in RefLines(c)}
    BY <2>3, <2>4 DEF EdgesFrom
  <2>6. \A l \in RefLines(c) : SubCall(z, l) \in Calls /\ SubCall(z, l).chunk = l.name
    BY SubCalls
  <2>7. c \notin Range(z.stack)
    BY <2>1 DEF Combines
  <2>8. CASE store.defs[c] = <<>>
    <3>1. y.deps = {}
      BY <2>1, <2>7, <2>8 DEF Combines
    <3>2. Range(store.defs[c]) = {}
      BY <2>8 DEF Range
    <3>3. EdgesOf(c) = {} /\ RefLines(c) = {}
      BY <3>2 DEF EdgesOf, RefLines
    <3> QED
      BY <2>5, <3>1, <3>3
  <2>9. CASE store.defs[c] # <<>>
    <3>1. \A l \in RefLines(c) : below[SubCall(z, l)].err = "none"
      BY <2>1, <2>7, <2>9 DEF Combines
    <3>2. y.deps = EdgesOf(c) \cup UNION {below[SubCall(z, l)].deps : l \in RefLines(c)}
      BY <2>1, <2>7, <2>9 DEF Combines
    <3>3. \A l \in RefLines(c) : below[SubCall(z, l)].deps = EdgesFrom(l.name)
      BY <1>2, <2>6, <3>1
    <3>4. UNION {below[SubCall(z, l)].deps : l \in RefLines(c)}
            = UNION {EdgesFrom(l.name) : l \in RefLines(c)}
      <4> HIDE DEF y, below, c
      <4> QED
        BY <3>3
    <3>5. y.deps = EdgesFrom(c)
      <4> HIDE DEF y, below, c
      <4> QED
        BY <2>5, <3>2, <3>4
    <3> QED
      BY <3>5
  <2> QED
    BY <2>8, <2>9
<1>3. Nat \subseteq Good
  <2> HIDE DEF Good
  <2> QED
    BY <1>1, <1>2, NatSets
<1> QED
  BY <1>3
-----------------------------------------------------------------------------
(* Walks along the references. *)

IsWalk(c, v) ==
    /\ v \in Seq(Names) /\ Len(v) >= 1
    /\ v[1] = c
    /\ \A i \in 1..(Len(v) - 1) : v[i + 1] \in RefsOf(v[i])

LEMMA WalkGrows ==
    ASSUME DefsOK, NEW c \in Names, NEW v, IsWalk(c, v), NEW x \in RefsOf(Last(v))
    PROVE  IsWalk(c, Append(v, x)) /\ Len(Append(v, x)) = Len(v) + 1
<1> DEFINE u == Append(v, x)
<1>1. v \in Seq(Names) /\ Len(v) \in Nat /\ Len(v) >= 1 /\ v[Len(v)] \in Names
  BY DEF IsWalk
<1>2. x \in Names
  BY <1>1, RefNames DEF Last
<1>3. u \in Seq(Names) /\ Len(u) = Len(v) + 1 /\ u[Len(v) + 1] = x
      /\ \A i \in 1..Len(v) : u[i] = v[i]
  BY <1>1, <1>2
<1> HIDE DEF u
<1>4. u[1] = c
  BY <1>1, <1>3 DEF IsWalk
<1>5. ASSUME NEW i \in 1..(Len(u) - 1) PROVE u[i + 1] \in RefsOf(u[i])
  <2>1. i \in 1..Len(v)
    BY <1>1, <1>3
  <2>2. CASE i = Len(v)
    BY <1>3, <2>1, <2>2 DEF Last
  <2>3. CASE i # Len(v)
    <3>1. i + 1 \in 1..Len(v) /\ i \in 1..(Len(v) - 1)
      BY <1>1, <2>1, <2>3
    <3> QED
      BY <1>3, <2>1, <3>1 DEF IsWalk
  <2> QED
    BY <2>2, <2>3
<1> QED
  BY <1>1, <1>3, <1>4, <1>5 DEF IsWalk, u

LEMMA WalkShrinks ==
    ASSUME NEW c \in Names, NEW u, IsWalk(c, u), Len(u) > 1
    PROVE  \E v : /\ IsWalk(c, v) /\ Len(v) = Len(u) - 1
                 /\ u[Len(u)] \in RefsOf(Last(v)) /\ u = Append(v, u[Len(u)])
<1> DEFINE m == Len(u) - 1
           v == [i \in 1..m |-> u[i]]
<1>1. u \in Seq(Names) /\ m \in Nat /\ m >= 1 /\ Len(u) = m + 1
  BY DEF IsWalk
<1>2. \A i \in 1..m : i \in 1..Len(u) /\ u[i] \in Names
  BY <1>1
<1> HIDE DEF m
<1>3. v \in Seq(Names) /\ Len(v) = m /\ \A i \in 1..m : v[i] = u[i]
  BY <1>1, <1>2
<1> HIDE DEF v
<1>4. IsWalk(c, v)
  <2>1. v[1] = c
    BY <1>1, <1>3 DEF IsWalk
  <2>2. ASSUME NEW i \in 1..(Len(v) - 1) PROVE v[i + 1] \in RefsOf(v[i])
    <3>1. i \in 1..(Len(u) - 1) /\ i \in 1..m /\ i + 1 \in 1..m
      BY <1>1, <1>3
    <3> QED
      BY <1>3, <3>1 DEF IsWalk
  <2> QED
    BY <1>1, <1>3, <2>1, <2>2 DEF IsWalk
<1>5. u[Len(u)] \in RefsOf(Last(v))
  <2>1. m \in 1..(Len(u) - 1) /\ m \in 1..m
    BY <1>1
  <2>2. u[m + 1] \in RefsOf(u[m])
    BY <2>1 DEF IsWalk
  <2> QED
    BY <1>1, <1>3, <2>1, <2>2 DEF Last
<1>6. u = Append(v, u[Len(u)])
  <2> DEFINE w == Append(v, u[Len(u)])
  <2>1. u[Len(u)] \in Names
    BY <1>1
  <2>2. w \in Seq(Names) /\ Len(w) = m + 1 /\ w[m + 1] = u[Len(u)]
        /\ \A i \in 1..m : w[i] = v[i]
    BY <1>1, <1>3, <2>1
  <2> HIDE DEF w
  <2>3. ASSUME NEW i \in 1..Len(u) PROVE u[i] = w[i]
    <3>1. i = m + 1 \/ i \in 1..m
      BY <1>1
    <3> QED
      BY <1>1, <1>3, <2>2, <3>1
  <2>4. u = w
    BY <1>1, <2>2, <2>3, SeqEqual
  <2> QED
    BY <2>4 DEF w
<1>7. Len(v) = Len(u) - 1
  BY <1>3 DEF m
<1> QED
  BY <1>4, <1>5, <1>6, <1>7

WalksOf(c, k) == {v \in Seq(Names) : IsWalk(c, v) /\ Len(v) = k + 1}

LEMMA WalksGrow ==
    ASSUME DefsOK, NEW c \in Names, NEW k \in Nat
    PROVE  WalksOf(c, k + 1) = UNION {{Append(v, x) : x \in RefsOf(Last(v))} : v \in WalksOf(c, k)}
<1> DEFINE R == UNION {{Append(v, x) : x \in RefsOf(Last(v))} : v \in WalksOf(c, k)}
<1>1. ASSUME NEW v \in WalksOf(c, k), NEW x \in RefsOf(Last(v))
      PROVE  Append(v, x) \in WalksOf(c, k + 1)
  <2>1. IsWalk(c, Append(v, x)) /\ Len(Append(v, x)) = (k + 1) + 1
    BY WalkGrows DEF WalksOf
  <2> QED
    BY <2>1 DEF WalksOf, IsWalk
<1>2. ASSUME NEW u \in WalksOf(c, k + 1) PROVE u \in R
  <2>1. IsWalk(c, u) /\ Len(u) = (k + 1) + 1 /\ Len(u) > 1
    BY DEF WalksOf
  <2>2. PICK v : /\ IsWalk(c, v) /\ Len(v) = Len(u) - 1
                 /\ u[Len(u)] \in RefsOf(Last(v)) /\ u = Append(v, u[Len(u)])
    BY <2>1, WalkShrinks
  <2>3. v \in WalksOf(c, k)
    BY <2>1, <2>2 DEF WalksOf, IsWalk
  <2> QED
    BY <2>2, <2>3
<1>3. ASSUME NEW u \in R PROVE u \in WalksOf(c, k + 1)
  <2>1. PICK v \in WalksOf(c, k) : u \in {Append(v, x) : x \in RefsOf(Last(v))}
    OBVIOUS
  <2>2. PICK x \in RefsOf(Last(v)) : u = Append(v, x)
    BY <2>1
  <2> QED
    BY <1>1, <2>2
<1> HIDE DEF R
<1>4. R = WalksOf(c, k + 1)
  BY <1>2, <1>3
<1> QED
  BY <1>4 DEF R

LEMMA WalksAreWalks ==
    ASSUME DefsOK, NEW c \in Names, NEW m \in Nat
    PROVE  Walks(c)[m] = WalksOf(c, m)
<1> DEFINE Step(V) == UNION {{Append(v, x) : x \in RefsOf(Last(v))} : v \in V}
           Eq(h) == h = [k \in Nat |-> IF k = 0 THEN {<<c>>}
                                       ELSE UNION {{Append(v, x) : x \in RefsOf(Last(v))} :
                                                   v \in h[k - 1]}]
           w == CHOOSE h : Eq(h)
           g == [k \in Nat |-> WalksOf(c, k)]
<1>1. WalksOf(c, 0) = {<<c>>}
  <2>1. <<c>> \in WalksOf(c, 0)
    BY DEF WalksOf, IsWalk
  <2>2. ASSUME NEW v \in WalksOf(c, 0) PROVE v = <<c>>
    BY SeqEqual DEF WalksOf, IsWalk
  <2> QED
    BY <2>1, <2>2
<1>2. Eq(g)
  <2>1. ASSUME NEW k \in Nat
        PROVE  g[k] = IF k = 0 THEN {<<c>>}
                      ELSE UNION {{Append(v, x) : x \in RefsOf(Last(v))} : v \in g[k - 1]}
    <3>1. CASE k = 0
      BY <1>1, <3>1
    <3>2. CASE k # 0
      <4>1. k - 1 \in Nat /\ (k - 1) + 1 = k
        BY <3>2
      <4>2. WalksOf(c, (k - 1) + 1)
              = UNION {{Append(v, x) : x \in RefsOf(Last(v))} : v \in WalksOf(c, k - 1)}
        BY <4>1, WalksGrow
      <4> QED
        BY <3>2, <4>1, <4>2
    <3> QED
      BY <3>1, <3>2
  <2>2. g = [k \in Nat |-> g[k]]
    OBVIOUS
  <2> HIDE DEF g
  <2> QED
    BY <2>1, <2>2
<1>3. Eq(w)
  BY <1>2, Zenon
<1>4. Walks(c) = w
  BY DEF Walks
<1>5. \A k \in Nat : w[k] = IF k = 0 THEN {<<c>>}
                            ELSE UNION {{Append(v, x) : x \in RefsOf(Last(v))} : v \in w[k - 1]}
  <2> HIDE DEF w
  <2> QED
    BY <1>3
<1> HIDE DEF w, g
<1> DEFINE Same == {k \in Nat : w[k] = WalksOf(c, k)}
<1>6. Nat \subseteq Same
  <2>1. 0 \in Same
    BY <1>1, <1>5
  <2>2. ASSUME NEW k \in Nat, k \in Same PROVE k + 1 \in Same
    <3>1. k + 1 \in Nat /\ k + 1 # 0 /\ (k + 1) - 1 = k
      OBVIOUS
    <3>2. w[k] = WalksOf(c, k)
      BY <2>2
    <3>3. WalksOf(c, k + 1)
            = UNION {{Append(v, x) : x \in RefsOf(Last(v))} : v \in WalksOf(c, k)}
      BY WalksGrow
    <3> QED
      BY <1>5, <3>1, <3>2, <3>3
  <2> HIDE DEF Same
  <2> QED
    BY <2>1, <2>2, NatSets
<1> QED
  BY <1>4, <1>6

LEMMA WalkCons ==
    ASSUME DefsOK, NEW c \in Names, NEW a \in RefsOf(c), NEW u, IsWalk(a, u)
    PROVE  LET v == <<c>> \o u
           IN  /\ IsWalk(c, v) /\ Len(v) = Len(u) + 1
               /\ \A i \in 1..Len(u) : v[i + 1] = u[i]
<1> DEFINE v == <<c>> \o u
<1>1. u \in Seq(Names) /\ Len(u) \in Nat /\ Len(u) >= 1 /\ u[1] = a
  BY DEF IsWalk
<1>2. /\ v \in Seq(Names) /\ Len(v) = Len(u) + 1 /\ v[1] = c
      /\ \A i \in 1..Len(u) : v[i + 1] = u[i]
  BY <1>1
<1> HIDE DEF v
<1>3. ASSUME NEW i \in 1..(Len(v) - 1) PROVE v[i + 1] \in RefsOf(v[i])
  <2>1. i \in 1..Len(u)
    BY <1>1, <1>2
  <2>2. CASE i = 1
    BY <1>1, <1>2, <2>1, <2>2
  <2>3. CASE i # 1
    <3>1. i - 1 \in 1..(Len(u) - 1) /\ i - 1 \in 1..Len(u) /\ (i - 1) + 1 = i
      BY <1>1, <2>1, <2>3
    <3>2. u[(i - 1) + 1] \in RefsOf(u[i - 1])
      BY <3>1 DEF IsWalk
    <3>3. v[(i - 1) + 1] = u[i - 1] /\ v[i + 1] = u[i]
      BY <1>2, <2>1, <3>1
    <3> QED
      BY <3>1, <3>2, <3>3
  <2> QED
    BY <2>2, <2>3
<1>4. IsWalk(c, v)
  BY <1>1, <1>2, <1>3 DEF IsWalk
<1> QED
  BY <1>2, <1>4 DEF v

LEMMA WalkTail ==
    ASSUME NEW c, NEW v, IsWalk(c, v), Len(v) > 1
    PROVE  /\ v[2] \in RefsOf(c)
           /\ \E u : /\ IsWalk(v[2], u) /\ Len(u) = Len(v) - 1
                     /\ \A i \in 1..Len(u) : u[i] = v[i + 1]
<1> DEFINE m == Len(v) - 1
           u == [i \in 1..m |-> v[i + 1]]
<1>1. v \in Seq(Names) /\ m \in Nat /\ m >= 1 /\ Len(v) = m + 1
  BY DEF IsWalk
<1>2. \A i \in 1..m : i + 1 \in 1..Len(v) /\ v[i + 1] \in Names
  BY <1>1
<1> HIDE DEF m
<1>3. u \in Seq(Names) /\ Len(u) = m /\ \A i \in 1..m : u[i] = v[i + 1]
  BY <1>1, <1>2
<1> HIDE DEF u
<1>4. IsWalk(v[2], u)
  <2>1. u[1] = v[2]
    BY <1>1, <1>3
  <2>2. ASSUME NEW i \in 1..(Len(u) - 1) PROVE u[i + 1] \in RefsOf(u[i])
    <3>1. i + 1 \in 1..(Len(v) - 1) /\ i \in 1..m /\ i + 1 \in 1..m
      BY <1>1, <1>3
    <3>2. v[(i + 1) + 1] \in RefsOf(v[i + 1])
      BY <3>1 DEF IsWalk
    <3> QED
      BY <1>3, <3>1, <3>2
  <2> QED
    BY <1>1, <1>3, <2>1, <2>2 DEF IsWalk
<1>5. v[2] \in RefsOf(c)
  <2>1. 1 \in 1..(Len(v) - 1) /\ 1 + 1 = 2
    BY <1>1
  <2>2. v[1 + 1] \in RefsOf(v[1]) /\ v[1] = c
    BY <2>1 DEF IsWalk
  <2> QED
    BY <2>1, <2>2
<1> QED
  BY <1>3, <1>4, <1>5 DEF m

(* The walks from a chunk whose expansion ends well: none is longer than   *)
(* there is room on the stack, meets the stack or itself, or ends where    *)
(* nothing is defined when strict asks for definitions.                    *)
Harmless(stack, v, k) ==
    /\ Len(v) <= k
    /\ \A i \in 1..Len(v) : v[i] \notin Range(stack)
    /\ \A i, j \in 1..Len(v) : v[i] = v[j] => i = j
    /\ strict => store.defs[v[Len(v)]] # <<>>

LEMMA RangeOfAppend ==
    ASSUME NEW T, NEW s \in Seq(T), NEW c \in T
    PROVE  Range(Append(s, c)) = Range(s) \cup {c}
<1> DEFINE u == Append(s, c)
<1>1. DOMAIN u = 1..(Len(s) + 1) /\ u[Len(s) + 1] = c /\ DOMAIN s = 1..Len(s)
      /\ Len(s) \in Nat /\ \A i \in 1..Len(s) : u[i] = s[i]
  OBVIOUS
<1> HIDE DEF u
<1>2. \A i \in DOMAIN u : i = Len(s) + 1 \/ i \in DOMAIN s
  BY <1>1
<1>3. \A i \in DOMAIN s : i \in DOMAIN u
  BY <1>1
<1>4. Len(s) + 1 \in DOMAIN u
  BY <1>1
<1> QED
  BY <1>1, <1>2, <1>3, <1>4 DEF Range, u

LEMMA LevelWalks ==
    ASSUME DefsOK, NEW e, Levels(e), NEW m \in Nat, NEW x \in Calls, e[m][x].err = "none",
           NEW t, IsWalk(x.chunk, t)
    PROVE  Harmless(x.stack, t, m)
<1> DEFINE Good == {k \in Nat : \A z \in Calls : e[k][z].err = "none" =>
                        \A v : IsWalk(z.chunk, v) => Harmless(z.stack, v, k)}
<1>1. 0 \in Good
  <2>1. ASSUME NEW z \in Calls PROVE e[0][z].err # "none"
    BY FailedResults DEF Levels, ExpandErrors
  <2> QED
    BY <2>1
<1>2. ASSUME NEW k \in Nat, k \in Good PROVE k + 1 \in Good
  <2> SUFFICES ASSUME NEW z \in Calls, e[k + 1][z].err = "none", NEW v, IsWalk(z.chunk, v)
               PROVE  Harmless(z.stack, v, k + 1)
    OBVIOUS
  <2> DEFINE c == z.chunk
             y == e[k + 1][z]
             below == e[k]
  <2>1. Combines(below, z, y)
    BY ExpandedResults DEF Levels
  <2>2. c \in Names /\ z.stack \in Seq(Names) /\ c \notin Range(z.stack)
    BY <2>1 DEF Calls, Combines
  <2>3. strict => store.defs[c] # <<>>
    BY <2>1, <2>2 DEF Combines
  <2>4. v \in Seq(Names) /\ Len(v) \in Nat /\ Len(v) >= 1 /\ v[1] = c
    BY DEF IsWalk
  <2>5. CASE Len(v) = 1
    BY <2>2, <2>3, <2>4, <2>5 DEF Harmless
  <2>6. CASE Len(v) > 1
    <3>1. v[2] \in RefsOf(c)
      BY <2>6, WalkTail
    <3>2. PICK u : /\ IsWalk(v[2], u) /\ Len(u) = Len(v) - 1
                   /\ \A i \in 1..Len(u) : u[i] = v[i + 1]
      BY <2>6, WalkTail
    <3>3. PICK l \in RefLines(c) : v[2] = l.name
      BY <2>2, <3>1, RefNames
    <3>4. store.defs[c] # <<>>
      BY <3>3 DEF RefLines, Range
    <3>5. below[SubCall(z, l)].err = "none"
      BY <2>1, <2>2, <3>4 DEF Combines
    <3>6. SubCall(z, l) \in Calls /\ SubCall(z, l).chunk = v[2]
          /\ SubCall(z, l).stack = Append(z.stack, c)
      BY <3>3, SubCalls
    <3>7. Harmless(Append(z.stack, c), u, k)
      BY <1>2, <3>2, <3>5, <3>6
    <3>8. Range(Append(z.stack, c)) = Range(z.stack) \cup {c}
      BY <2>2, RangeOfAppend
    <3> HIDE DEF c, y, below
    <3>9. ASSUME NEW i \in 1..Len(v)
          PROVE  i = 1 \/ (i - 1 \in 1..Len(u) /\ v[i] = u[i - 1] /\ v[i] \notin Range(z.stack) /\ v[i] # c)
      <4>1. CASE i # 1
        <5>1. i - 1 \in 1..Len(u) /\ (i - 1) + 1 = i
          BY <2>4, <3>2, <4>1
        <5>2. v[i] = u[i - 1]
          BY <3>2, <5>1
        <5> QED
          BY <3>7, <3>8, <5>1, <5>2 DEF Harmless
      <4> QED
        BY <4>1
    <3>10. Len(v) <= k + 1
      BY <2>4, <3>2, <3>7 DEF Harmless
    <3>11. \A i \in 1..Len(v) : v[i] \notin Range(z.stack)
      BY <2>2, <2>4, <3>9
    <3>12. ASSUME NEW i \in 1..Len(v), NEW j \in 1..Len(v), v[i] = v[j] PROVE i = j
      <4>1. CASE i = 1 \/ j = 1
        BY <2>4, <3>9, <3>12, <4>1
      <4>2. CASE i # 1 /\ j # 1
        <5>1. i - 1 \in 1..Len(u) /\ j - 1 \in 1..Len(u) /\ u[i - 1] = u[j - 1]
          BY <3>9, <3>12, <4>2
        <5>2. i - 1 = j - 1
          BY <3>7, <5>1 DEF Harmless
        <5> QED
          BY <5>2
      <4> QED
        BY <4>1, <4>2
    <3>13. strict => store.defs[v[Len(v)]] # <<>>
      <4>1. Len(u) \in 1..Len(u) /\ Len(u) + 1 = Len(v)
        BY <2>4, <2>6, <3>2
      <4>2. v[Len(v)] = u[Len(u)]
        BY <3>2, <4>1
      <4> QED
        BY <3>7, <4>2 DEF Harmless
    <3> QED
      BY <3>10, <3>11, <3>12, <3>13 DEF Harmless
  <2>7. Len(v) = 1 \/ Len(v) > 1
    <3>1. \A a \in Nat : a >= 1 => a = 1 \/ a > 1
      OBVIOUS
    <3>2. Len(v) \in Nat /\ Len(v) >= 1
      BY <2>4
    <3> HIDE DEF c, y, below, Good
    <3> QED
      BY <3>1, <3>2, Zenon
  <2> QED
    BY <2>5, <2>6, <2>7
<1>3. Nat \subseteq Good
  <2> HIDE DEF Good
  <2> QED
    BY <1>1, <1>2, NatSets
<1> QED
  BY <1>3

(* What is wrong with a walk from a chunk whose expansion fails.           *)
Blamed(why, stack, v, k) ==
    /\ why = "RecursionLimit" =>
          /\ Len(v) = k + 1
          /\ \A i \in 1..k : v[i] \notin Range(stack)
          /\ \A i, j \in 1..k : v[i] = v[j] => i = j
    /\ why # "RecursionLimit" => Len(v) <= k
    /\ why = "RecursiveReference" =>
          \/ \E i \in 1..Len(v) : v[i] \in Range(stack)
          \/ \E i, j \in 1..Len(v) : v[i] = v[j] /\ i # j
    /\ why = "UndefinedChunk" => strict /\ store.defs[v[Len(v)]] = <<>>

LEMMA ShortWalk ==
    ASSUME NEW c \in Names
    PROVE  IsWalk(c, <<c>>) /\ Len(<<c>>) = 1 /\ <<c>>[1] = c
BY DEF IsWalk

LEMMA LevelBlames ==
    ASSUME DefsOK, NEW e, Levels(e), NEW m \in Nat, NEW x \in Calls, e[m][x].err # "none"
    PROVE  \E v : IsWalk(x.chunk, v) /\ Blamed(e[m][x].err, x.stack, v, m)
<1> DEFINE Good == {k \in Nat : \A z \in Calls : e[k][z].err # "none" =>
                        \E v : IsWalk(z.chunk, v) /\ Blamed(e[k][z].err, z.stack, v, k)}
<1>1. 0 \in Good
  <2> SUFFICES ASSUME NEW z \in Calls
               PROVE  \E v : IsWalk(z.chunk, v) /\ Blamed(e[0][z].err, z.stack, v, 0)
    OBVIOUS
  <2>1. e[0][z].err = "RecursionLimit"
    BY FailedResults DEF Levels, ExpandErrors
  <2>2. IsWalk(z.chunk, <<z.chunk>>) /\ Len(<<z.chunk>>) = 1
    BY ShortWalk DEF Calls
  <2>3. Blamed("RecursionLimit", z.stack, <<z.chunk>>, 0)
    BY <2>2 DEF Blamed
  <2> QED
    BY <2>1, <2>2, <2>3
<1>2. ASSUME NEW k \in Nat, k \in Good PROVE k + 1 \in Good
  <2> SUFFICES ASSUME NEW z \in Calls, e[k + 1][z].err # "none"
               PROVE  \E v : IsWalk(z.chunk, v) /\ Blamed(e[k + 1][z].err, z.stack, v, k + 1)
    OBVIOUS
  <2> DEFINE c == z.chunk
             y == e[k + 1][z]
             below == e[k]
  <2>1. Combines(below, z, y)
    BY ExpandedResults DEF Levels
  <2>2. c \in Names /\ z.stack \in Seq(Names)
    BY DEF Calls
  <2>3. IsWalk(c, <<c>>) /\ Len(<<c>>) = 1 /\ <<c>>[1] = c
    BY <2>2, ShortWalk
  <2>4. CASE c \in Range(z.stack)
    <3>1. y.err = "RecursiveReference"
      BY <2>1, <2>4 DEF Combines
    <3>2. Blamed("RecursiveReference", z.stack, <<c>>, k + 1)
      BY <2>3, <2>4 DEF Blamed
    <3> QED
      BY <2>3, <3>1, <3>2
  <2>5. CASE c \notin Range(z.stack) /\ store.defs[c] = <<>>
    <3>1. y.err = "UndefinedChunk" /\ strict
      BY <2>1, <2>5 DEF Combines
    <3>2. Blamed("UndefinedChunk", z.stack, <<c>>, k + 1)
      BY <2>3, <2>5, <3>1 DEF Blamed
    <3> QED
      BY <2>3, <3>1, <3>2
  <2>6. CASE c \notin Range(z.stack) /\ store.defs[c] # <<>>
    <3>1. PICK l \in RefLines(c) : below[SubCall(z, l)].err = y.err
      BY <2>1, <2>6 DEF Combines
    <3>2. SubCall(z, l) \in Calls /\ SubCall(z, l).chunk = l.name
          /\ SubCall(z, l).stack = Append(z.stack, c)
      BY SubCalls
    <3>3. PICK u : IsWalk(l.name, u) /\ Blamed(y.err, Append(z.stack, c), u, k)
      BY <1>2, <3>1, <3>2
    <3>4. l.name \in RefsOf(c)
      BY <2>2, RefNames
    <3> DEFINE v == <<c>> \o u
    <3>5. IsWalk(c, v) /\ Len(v) = Len(u) + 1 /\ \A i \in 1..Len(u) : v[i + 1] = u[i]
      BY <2>2, <3>3, <3>4, WalkCons
    <3>6. Len(u) \in Nat /\ Len(u) >= 1 /\ v[1] = c
      BY <3>3, <3>5 DEF IsWalk
    <3>7. Range(Append(z.stack, c)) = Range(z.stack) \cup {c}
      BY <2>2, RangeOfAppend
    <3> DEFINE why == y.err
    <3>8. c \notin Range(z.stack) /\ Blamed(why, Append(z.stack, c), u, k)
      BY <2>6, <3>3
    <3> HIDE DEF v, c, why, y, below
    <3>9. ASSUME why = "RecursionLimit"
          PROVE  /\ Len(v) = (k + 1) + 1
                 /\ \A i \in 1..(k + 1) : v[i] \notin Range(z.stack)
                 /\ \A i, j \in 1..(k + 1) : v[i] = v[j] => i = j
      <4>1. /\ Len(u) = k + 1
            /\ \A i \in 1..k : u[i] \notin Range(z.stack) /\ u[i] # c
            /\ \A i, j \in 1..k : u[i] = u[j] => i = j
        BY <3>7, <3>8, <3>9 DEF Blamed
      <4>2. ASSUME NEW i \in 1..(k + 1)
            PROVE  i = 1 \/ (i - 1 \in 1..k /\ v[i] = u[i - 1])
        <5>1. CASE i # 1
          <6>1. i - 1 \in 1..k /\ i - 1 \in 1..Len(u) /\ (i - 1) + 1 = i
            BY <4>1, <5>1
          <6> QED
            BY <3>5, <6>1
        <5> QED
          BY <5>1
      <4>3. \A i \in 1..(k + 1) : v[i] \notin Range(z.stack)
        BY <3>6, <3>8, <4>1, <4>2
      <4>4. ASSUME NEW i \in 1..(k + 1), NEW j \in 1..(k + 1), v[i] = v[j] PROVE i = j
        <5>1. CASE i = 1 \/ j = 1
          BY <3>6, <4>1, <4>2, <4>4, <5>1
        <5>2. CASE i # 1 /\ j # 1
          <6>1. i - 1 \in 1..k /\ j - 1 \in 1..k /\ u[i - 1] = u[j - 1]
            BY <4>2, <4>4, <5>2
          <6>2. i - 1 = j - 1
            BY <4>1, <6>1
          <6> QED
            BY <6>2
        <5> QED
          BY <5>1, <5>2
      <4> QED
        BY <3>5, <4>1, <4>3, <4>4
    <3>10. ASSUME why # "RecursionLimit" PROVE Len(v) <= k + 1
      <4>1. Len(u) <= k
        BY <3>8, <3>10 DEF Blamed
      <4> QED
        BY <3>5, <3>6, <4>1
    <3>11. ASSUME why = "RecursiveReference"
           PROVE  \/ \E i \in 1..Len(v) : v[i] \in Range(z.stack)
                  \/ \E i, j \in 1..Len(v) : v[i] = v[j] /\ i # j
      <4>1. CASE \E i \in 1..Len(u) : u[i] \in Range(Append(z.stack, c))
        <5>1. PICK i \in 1..Len(u) : u[i] \in Range(z.stack) \/ u[i] = c
          BY <3>7, <4>1
        <5>2. i + 1 \in 1..Len(v) /\ 1 \in 1..Len(v) /\ i + 1 # 1 /\ v[i + 1] = u[i]
          BY <3>5, <3>6
        <5> QED
          BY <3>6, <5>1, <5>2
      <4>2. CASE \E i, j \in 1..Len(u) : u[i] = u[j] /\ i # j
        <5>1. PICK i \in 1..Len(u), j \in 1..Len(u) : u[i] = u[j] /\ i # j
          BY <4>2
        <5>2. i + 1 \in 1..Len(v) /\ j + 1 \in 1..Len(v) /\ i + 1 # j + 1
              /\ v[i + 1] = u[i] /\ v[j + 1] = u[j]
          BY <3>5, <3>6, <5>1
        <5> QED
          BY <5>1, <5>2
      <4> QED
        BY <3>8, <3>11, <4>1, <4>2 DEF Blamed
    <3>12. ASSUME why = "UndefinedChunk" PROVE strict /\ store.defs[v[Len(v)]] = <<>>
      <4>1. strict /\ store.defs[u[Len(u)]] = <<>>
        BY <3>8, <3>12 DEF Blamed
      <4>2. Len(u) \in 1..Len(u)
        BY <3>6
      <4>3. v[Len(v)] = u[Len(u)]
        BY <3>5, <4>2
      <4> QED
        BY <4>1, <4>3
    <3>13. Blamed(why, z.stack, v, k + 1)
      BY <3>9, <3>10, <3>11, <3>12 DEF Blamed
    <3> QED
      BY <3>5, <3>13 DEF why, y, c
  <2> QED
    BY <2>4, <2>5, <2>6
<1>3. Nat \subseteq Good
  <2> HIDE DEF Good
  <2> QED
    BY <1>1, <1>2, NatSets
<1> QED
  BY <1>3
-----------------------------------------------------------------------------
(* What the sources are. *)

Lines == UNION {Range(texts[f]) : f \in DOMAIN texts}

LEMMA Sources ==
    ASSUME IsProject(texts)
    PROVE  /\ Len(texts) \in Nat /\ DOMAIN texts = 1..Len(texts)
           /\ \A f \in 1..Len(texts) :
                 /\ Len(texts[f]) \in Nat /\ DOMAIN texts[f] = 1..Len(texts[f])
                 /\ \A i \in 1..Len(texts[f]) : IsLine(texts[f][i]) /\ texts[f][i] \in Lines
<1>1. texts \in Seq(Range(texts))
  BY DEF IsProject
<1>2. Len(texts) \in Nat /\ DOMAIN texts = 1..Len(texts)
  BY <1>1
<1>3. ASSUME NEW f \in DOMAIN texts
      PROVE  /\ Len(texts[f]) \in Nat /\ DOMAIN texts[f] = 1..Len(texts[f])
             /\ \A i \in 1..Len(texts[f]) : IsLine(texts[f][i]) /\ texts[f][i] \in Lines
  <2>1. texts[f] \in Seq(Range(texts[f])) /\ \A i \in DOMAIN texts[f] : IsLine(texts[f][i])
    BY DEF IsProject
  <2>2. Len(texts[f]) \in Nat /\ DOMAIN texts[f] = 1..Len(texts[f])
    BY <2>1
  <2>3. ASSUME NEW i \in DOMAIN texts[f] PROVE texts[f][i] \in Lines
    BY DEF Lines, Range
  <2> QED
    BY <2>1, <2>2, <2>3
<1> QED
  BY <1>2, <1>3

(* The state of ChunkStore::read while it reads a source. *)
BodyTexts == {l \in Lines : l.kind \notin {"open", "close"}}
Defs == [file : Nat, line : Nat, end : Nat, body : Seq(BodyTexts)]
Reader ==
    {s \in [defs : [Names -> Seq(Defs)], files : Seq(Files), errors : Nat,
            open : {<<>>} \cup (Names \X Nat)] :
        s.open # <<>> => s.open[2] \in DOMAIN s.defs[s.open[1]]}

LEMMA OpenDefIs ==
    ASSUME NEW s \in Reader, s.open # <<>>
    PROVE  /\ s.open[1] \in Names /\ s.open[2] \in DOMAIN s.defs[s.open[1]]
           /\ s.open = <<s.open[1], s.open[2]>>
           /\ OpenDef(s) \in Defs
<1>1. s.open \in Names \X Nat /\ s.open[2] \in DOMAIN s.defs[s.open[1]]
      /\ s.defs \in [Names -> Seq(Defs)]
  BY DEF Reader
<1> QED
  BY <1>1 DEF OpenDef

(* Changing the definition that is open changes nothing else. *)
LEMMA ChangeOpenIs ==
    ASSUME NEW s \in Reader, s.open # <<>>, NEW d \in Defs
    PROVE  LET t == ChangeOpen(s, d)
               c == s.open[1]
               k == s.open[2]
           IN  /\ t \in Reader
               /\ t.files = s.files /\ t.errors = s.errors /\ t.open = s.open
               /\ \A x \in Names : x # c => t.defs[x] = s.defs[x]
               /\ DOMAIN t.defs[c] = DOMAIN s.defs[c]
               /\ t.defs[c][k] = d
               /\ \A j \in DOMAIN s.defs[c] : j # k => t.defs[c][j] = s.defs[c][j]
<1> DEFINE c == s.open[1]
           k == s.open[2]
           ds == [s.defs[c] EXCEPT ![k] = d]
           t == ChangeOpen(s, d)
<1>1. c \in Names /\ k \in DOMAIN s.defs[c] /\ s.open \in Names \X Nat
      /\ s.defs \in [Names -> Seq(Defs)] /\ s.files \in Seq(Files) /\ s.errors \in Nat
  BY OpenDefIs DEF Reader
<1>2. t = [s EXCEPT !.defs = [s.defs EXCEPT ![c] = ds]]
  BY DEF ChangeOpen
<1>3. ds \in Seq(Defs) /\ DOMAIN ds = DOMAIN s.defs[c] /\ ds[k] = d
      /\ \A j \in DOMAIN s.defs[c] : j # k => ds[j] = s.defs[c][j]
  <2>1. s.defs[c] \in Seq(Defs)
    BY <1>1
  <2> QED
    BY <1>1, <2>1
<1> HIDE DEF t, ds
<1>4. /\ t.defs = [s.defs EXCEPT ![c] = ds] /\ t.files = s.files /\ t.errors = s.errors
      /\ t.open = s.open
      /\ t = [defs |-> t.defs, files |-> t.files, errors |-> t.errors, open |-> t.open]
  BY <1>2 DEF Reader
<1>5. t.defs \in [Names -> Seq(Defs)] /\ t.defs[c] = ds
      /\ \A x \in Names : x # c => t.defs[x] = s.defs[x]
  <2> HIDE DEF c
  <2> QED
    BY <1>1, <1>3, <1>4
<1>6. t \in Reader
  BY <1>1, <1>3, <1>4, <1>5 DEF Reader
<1> QED
  BY <1>3, <1>4, <1>5, <1>6 DEF t

Kept(s, l) == IF l.replace THEN <<>> ELSE s.defs[l.name]
NewDef(f, i) == [file |-> f, line |-> i, end |-> 0, body |-> <<>>]

(* The reader t in which a definition begins at line i of source f.        *)
HasBegun(t, s, f, i, l) ==
    /\ t \in Reader
    /\ Kept(s, l) \in Seq(Defs)
    /\ t.open = <<l.name, Len(Kept(s, l)) + 1>>
    /\ t.defs[l.name] = Append(Kept(s, l), NewDef(f, i))
    /\ \A x \in Names : x # l.name => t.defs[x] = s.defs[x]

LEMMA BeginIs ==
    ASSUME NEW s \in Reader, NEW f \in Nat, NEW i \in Nat, NEW l \in Lines, l.name \in Names
    PROVE  HasBegun(Begin(s, f, i, l), s, f, i, l)
<1> DEFINE t == Begin(s, f, i, l)
           kept == Kept(s, l)
           ds == Append(kept, NewDef(f, i))
           fs == IF l.name \in Files /\ ~Contains(s.files, l.name)
                 THEN Append(s.files, l.name) ELSE s.files
<1>1. s.defs \in [Names -> Seq(Defs)] /\ s.files \in Seq(Files) /\ s.errors \in Nat
  BY DEF Reader
<1>2. kept \in Seq(Defs) /\ NewDef(f, i) \in Defs
  <2>1. kept \in Seq(Defs)
    <3>1. <<>> \in Seq(Defs) /\ s.defs[l.name] \in Seq(Defs)
      BY <1>1
    <3>2. kept = <<>> \/ kept = s.defs[l.name]
      BY DEF Kept
    <3> QED
      BY <3>1, <3>2
  <2>2. NewDef(f, i) \in Defs
    <3>1. <<>> \in Seq(BodyTexts)
      OBVIOUS
    <3> QED
      BY <3>1 DEF NewDef, Defs
  <2> QED
    BY <2>1, <2>2
<1>3. ds \in Seq(Defs) /\ Len(ds) = Len(kept) + 1 /\ Len(kept) \in Nat
  BY <1>2
<1>4. fs \in Seq(Files)
  BY <1>1
<1>5. t = [s EXCEPT !.defs = [s.defs EXCEPT ![l.name] = ds],
                    !.open = <<l.name, Len(kept) + 1>>, !.files = fs]
  BY DEF Begin, Kept, NewDef
<1> HIDE DEF t, ds, fs, kept
<1>6. /\ t.defs = [s.defs EXCEPT ![l.name] = ds] /\ t.files = fs /\ t.errors = s.errors
      /\ t.open = <<l.name, Len(kept) + 1>>
      /\ t = [defs |-> t.defs, files |-> t.files, errors |-> t.errors, open |-> t.open]
  BY <1>5 DEF Reader
<1>7. t.defs \in [Names -> Seq(Defs)] /\ t.defs[l.name] = ds
      /\ \A x \in Names : x # l.name => t.defs[x] = s.defs[x]
  BY <1>1, <1>3, <1>6
<1>8. Len(kept) + 1 \in DOMAIN ds /\ Len(kept) + 1 \in Nat
  BY <1>3
<1>9. t.open \in Names \X Nat /\ t.open[1] = l.name /\ t.open[2] = Len(kept) + 1
  BY <1>6, <1>8
<1>10. t \in Reader
  BY <1>1, <1>4, <1>6, <1>7, <1>8, <1>9 DEF Reader
<1> QED
  BY <1>2, <1>6, <1>7, <1>10 DEF t, ds, kept, HasBegun

(* What a line does to the reader, by the kind of the line. *)
Ignored(s, l) ==
    \/ l.name \in Unsafe
    \/ l.name \in Files /\ s.defs[l.name] # <<>> /\ ~l.replace

LEMMA ReadLineCases ==
    ASSUME IsProject(texts), NEW f \in 1..Len(texts), NEW i \in 1..Len(texts[f]), NEW s \in Reader
    PROVE  LET l == texts[f][i]
               t == ReadLine(s, f, i)
               d == OpenDef(s)
           IN  /\ l.kind = "open" /\ Ignored(s, l) =>
                     t \in Reader /\ t.defs = s.defs /\ t.open = s.open
               /\ l.kind = "open" /\ ~Ignored(s, l) => l.name \in Names /\ t = Begin(s, f, i, l)
               /\ l.kind # "open" /\ s.open = <<>> => t = s
               /\ l.kind = "close" /\ s.open # <<>> =>
                     /\ [d EXCEPT !.end = i] \in Defs
                     /\ t \in Reader /\ t.open = <<>>
                     /\ t.defs = ChangeOpen(s, [d EXCEPT !.end = i]).defs
               /\ l.kind \notin {"open", "close"} /\ s.open # <<>> =>
                     /\ [d EXCEPT !.body = Append(@, l)] \in Defs
                     /\ t = ChangeOpen(s, [d EXCEPT !.body = Append(@, l)])
<1> DEFINE l == texts[f][i]
           t == ReadLine(s, f, i)
           d == OpenDef(s)
<1>1. IsLine(l) /\ l \in Lines /\ i \in Nat
  BY Sources
<1>2. l.kind = "open" => l.name \in Names \cup Unsafe /\ Names \cap Unsafe = {}
  BY <1>1, ConstantsOK DEF IsLine, Names
<1>3. ASSUME l.kind = "open", Ignored(s, l)
      PROVE  t \in Reader /\ t.defs = s.defs /\ t.open = s.open
  <2>1. t = Header(s, f, i, l)
    BY <1>3 DEF ReadLine
  <2>2. CASE l.name \in Unsafe
    <3>1. l.name \notin Files
      BY <2>2, ConstantsOK
    <3>2. t = s
      BY <2>1, <2>2, <3>1 DEF Header
    <3> HIDE DEF t
    <3> QED
      BY <3>2
  <2>3. CASE l.name \notin Unsafe
    <3>1. l.name \in Files /\ s.defs[l.name] # <<>> /\ ~l.replace
      BY <1>3, <2>3 DEF Ignored
    <3>2. t = [s EXCEPT !.errors = IF strict THEN s.errors + 1 ELSE s.errors]
      BY <2>1, <2>3, <3>1 DEF Header
    <3> HIDE DEF t
    <3>3. t.defs = s.defs /\ t.open = s.open /\ t.files = s.files
          /\ t = [defs |-> t.defs, files |-> t.files, errors |-> t.errors, open |-> t.open]
          /\ t.errors = IF strict THEN s.errors + 1 ELSE s.errors
      BY <3>2 DEF Reader
    <3>4. t.errors \in Nat
      BY <3>3 DEF Reader
    <3> QED
      BY <3>3, <3>4 DEF Reader
  <2> QED
    BY <2>2, <2>3
<1>4. ASSUME l.kind = "open", ~Ignored(s, l) PROVE l.name \in Names /\ t = Begin(s, f, i, l)
  <2>1. t = Header(s, f, i, l) /\ l.name \notin Unsafe
        /\ ~(l.name \in Files /\ s.defs[l.name] # <<>> /\ ~l.replace)
    BY <1>4 DEF ReadLine, Ignored
  <2>2. t = Begin(s, f, i, l)
    BY <2>1 DEF Header
  <2> QED
    BY <1>2, <1>4, <2>1, <2>2
<1>5. ASSUME l.kind # "open", s.open = <<>> PROVE t = s
  BY <1>5 DEF ReadLine
<1>6. ASSUME l.kind = "close", s.open # <<>>
      PROVE  /\ [d EXCEPT !.end = i] \in Defs
             /\ t \in Reader /\ t.open = <<>>
             /\ t.defs = ChangeOpen(s, [d EXCEPT !.end = i]).defs
  <2> DEFINE e == [d EXCEPT !.end = i]
             u == ChangeOpen(s, e)
  <2>1. d \in Defs
    BY <1>6, OpenDefIs
  <2>2. e \in Defs
    BY <1>1, <2>1 DEF Defs
  <2>3. t = [u EXCEPT !.open = <<>>]
    BY <1>6 DEF ReadLine
  <2> HIDE DEF e
  <2>4. u \in Reader
    BY <1>6, <2>2, ChangeOpenIs
  <2> HIDE DEF u, t, d
  <2>5. t \in Reader /\ t.open = <<>> /\ t.defs = u.defs
    BY <2>3, <2>4 DEF Reader
  <2> QED
    BY <2>2, <2>5 DEF e, u
<1>7. ASSUME l.kind \notin {"open", "close"}, s.open # <<>>
      PROVE  /\ [d EXCEPT !.body = Append(@, l)] \in Defs
             /\ t = ChangeOpen(s, [d EXCEPT !.body = Append(@, l)])
  <2>1. d \in Defs
    BY <1>7, OpenDefIs
  <2>2. t = ChangeOpen(s, [d EXCEPT !.body = Append(@, l)])
    BY <1>7 DEF ReadLine
  <2> HIDE DEF d, t, l
  <2>3. l \in BodyTexts
    BY <1>1, <1>7 DEF BodyTexts
  <2>5. Append(d.body, l) \in Seq(BodyTexts)
    BY <2>1, <2>3, AppendProperties DEF Defs
  <2>4. [d EXCEPT !.body = Append(@, l)] \in Defs
    BY <2>1, <2>5 DEF Defs
  <2> QED
    BY <2>2, <2>4 DEF d
<1> QED
  BY <1>3, <1>4, <1>5, <1>6, <1>7

LEMMA ReadLineType ==
    ASSUME IsProject(texts), NEW f \in 1..Len(texts), NEW i \in 1..Len(texts[f]), NEW s \in Reader
    PROVE  ReadLine(s, f, i) \in Reader
<1> DEFINE l == texts[f][i]
           t == ReadLine(s, f, i)
<1>1. f \in Nat /\ i \in Nat
  BY Sources
<1>2. CASE l.kind = "open" /\ Ignored(s, l)
  BY <1>2, ReadLineCases
<1>3. CASE l.kind = "open" /\ ~Ignored(s, l)
  <2>1. l.name \in Names /\ t = Begin(s, f, i, l)
    BY <1>3, ReadLineCases
  <2>2. l \in Lines
    BY Sources
  <2> QED
    BY <1>1, <2>1, <2>2, BeginIs DEF HasBegun
<1>4. CASE l.kind # "open" /\ s.open = <<>>
  BY <1>4, ReadLineCases
<1>5. CASE l.kind = "close" /\ s.open # <<>>
  BY <1>5, ReadLineCases
<1>6. CASE l.kind \notin {"open", "close"} /\ s.open # <<>>
  <2> DEFINE e == [OpenDef(s) EXCEPT !.body = Append(@, l)]
  <2>1. e \in Defs /\ t = ChangeOpen(s, e)
    BY <1>6, ReadLineCases
  <2> HIDE DEF e
  <2> QED
    BY <1>6, <2>1, ChangeOpenIs
<1> QED
  BY <1>2, <1>3, <1>4, <1>5, <1>6

(* Reading a source is reading its lines one after the other. *)
ReadsBy(g, f) ==
    /\ g \in [Nat -> Reader]
    /\ g[0] = [defs |-> store.defs, files |-> store.files, errors |-> store.errors, open |-> <<>>]
    /\ \A i \in 1..Len(texts[f]) : g[i] = ReadLine(g[i - 1], f, i)
    /\ ReadSource(f) = g[Len(texts[f])]

StoreType == [defs : [Names -> Seq(Defs)], files : Seq(Files), errors : Nat]

LEMMA SourceReads ==
    ASSUME IsProject(texts), NEW f \in 1..Len(texts), store \in StoreType
    PROVE  \E g : ReadsBy(g, f)
<1> DEFINE m == Len(texts[f])
           a == [defs |-> store.defs, files |-> store.files, errors |-> store.errors, open |-> <<>>]
           F == [k \in Nat |-> [s \in Reader |-> IF k + 1 \in 1..m THEN ReadLine(s, f, k + 1) ELSE s]]
           Eq(h) == h = [i \in 0..Len(texts[f]) |-> IF i = 0 THEN a ELSE ReadLine(h[i - 1], f, i)]
           v == CHOOSE h : Eq(h)
<1>1. m \in Nat
  BY Sources
<1>2. a \in Reader
  BY DEF Reader, StoreType
<1>3. F \in [Nat -> [Reader -> Reader]]
  BY ReadLineType
<1>4. PICK g : Unfolds(g, Reader, a, F)
  <2> HIDE DEF F, a
  <2> QED
    BY <1>2, <1>3, IndexedIteration
<1>5. g \in [Nat -> Reader] /\ g[0] = a
  BY <1>4 DEF Unfolds
<1>6. ASSUME NEW i \in 1..m PROVE g[i] = ReadLine(g[i - 1], f, i)
  <2>1. i - 1 \in Nat /\ (i - 1) + 1 = i
    BY <1>1
  <2>2. g[(i - 1) + 1] = F[i - 1][g[i - 1]] /\ g[i - 1] \in Reader
    BY <1>4, <2>1 DEF Unfolds
  <2>3. F[i - 1][g[i - 1]] = ReadLine(g[i - 1], f, i)
    BY <2>1, <2>2
  <2> HIDE DEF F
  <2> QED
    BY <2>1, <2>2, <2>3
<1> HIDE DEF F
<1> DEFINE w == [i \in 0..m |-> g[i]]
<1>7. Eq(w)
  <2>1. ASSUME NEW i \in 0..m PROVE w[i] = IF i = 0 THEN a ELSE ReadLine(w[i - 1], f, i)
    <3>1. CASE i = 0
      BY <1>5, <3>1
    <3>2. CASE i # 0
      <4>1. i \in 1..m /\ i - 1 \in 0..m
        BY <1>1, <3>2
      <4> QED
        BY <1>6, <3>2, <4>1
    <3> QED
      BY <3>1, <3>2
  <2>2. w = [i \in 0..m |-> w[i]]
    OBVIOUS
  <2> HIDE DEF w, a
  <2> QED
    BY <2>1, <2>2
<1>8. Eq(v)
  BY <1>7, Zenon
<1>9. \A i \in 0..m : v[i] = IF i = 0 THEN a ELSE ReadLine(v[i - 1], f, i)
  <2> HIDE DEF v, a
  <2> QED
    BY <1>8
<1>10. ReadSource(f) = v[m]
  BY DEF ReadSource
<1> HIDE DEF v, w, a, m
<1> DEFINE Same == {i \in Nat : i <= m => v[i] = g[i]}
<1>11. Nat \subseteq Same
  <2>1. 0 \in Same
    BY <1>1, <1>5, <1>9
  <2>2. ASSUME NEW i \in Nat, i \in Same PROVE i + 1 \in Same
    <3> SUFFICES ASSUME i + 1 <= m PROVE v[i + 1] = g[i + 1]
      OBVIOUS
    <3>1. i + 1 \in 1..m /\ i + 1 \in 0..m /\ i + 1 # 0 /\ (i + 1) - 1 = i
      BY <1>1
    <3>2. v[i] = g[i]
      BY <1>1, <2>2
    <3> QED
      BY <1>6, <1>9, <3>1, <3>2
  <2> HIDE DEF Same
  <2> QED
    BY <2>1, <2>2, NatSets
<1>12. v[m] = g[m]
  BY <1>1, <1>11
<1> QED
  BY <1>5, <1>6, <1>10, <1>12 DEF ReadsBy, m, a
(* The definitions in the store hold text and references. *)
LEMMA StoredDefs ==
    ASSUME IsProject(texts), store \in StoreType
    PROVE  DefsOK
<1> SUFFICES ASSUME NEW c \in Names
             PROVE  /\ store.defs[c] \in Seq(Range(store.defs[c]))
                    /\ \A d \in Range(store.defs[c]) : BodyOK(d.body)
  BY DEF DefsOK
<1> DEFINE ds == store.defs[c]
<1>1. ds \in Seq(Defs)
  BY DEF StoreType
<1> HIDE DEF ds
<1>2. Range(ds) \subseteq Defs
  BY <1>1 DEF Range
<1>3. ds \in Seq(Range(ds))
  BY <1>1 DEF Range
<1>4. ASSUME NEW l \in BodyTexts
      PROVE  /\ l.kind \in {"ref", "text"}
             /\ l.kind = "ref" => l.name \in Names /\ l.opts \in SUBSET Options
  <2>1. PICK f \in DOMAIN texts : l \in Range(texts[f])
    BY DEF BodyTexts, Lines
  <2>2. PICK i \in DOMAIN texts[f] : l = texts[f][i]
    BY <2>1 DEF Range
  <2>3. IsLine(l)
    BY <2>1, <2>2, Sources
  <2> QED
    BY <2>3 DEF IsLine, BodyTexts
<1>5. ASSUME NEW d \in Defs PROVE BodyOK(d.body)
  <2> DEFINE b == d.body
  <2>1. b \in Seq(BodyTexts)
    BY DEF Defs
  <2> HIDE DEF b
  <2>2. b \in Seq(Range(b)) /\ \A k \in DOMAIN b : b[k] \in BodyTexts
    BY <2>1 DEF Range
  <2> QED
    BY <1>4, <2>2 DEF BodyOK, b
<1> QED
  BY <1>2, <1>3, <1>5 DEF ds
-----------------------------------------------------------------------------
(* Where definitions begin and end. *)

LEMMA PlacesAre ==
    ASSUME IsProject(texts)
    PROVE  /\ \A p \in Places : /\ p = <<p[1], p[2]>>
                              /\ p[1] \in 1..Len(texts) /\ p[2] \in 1..Len(texts[p[1]])
                              /\ p[1] \in Nat /\ p[2] \in Nat
           /\ \A f \in 1..Len(texts) : \A i \in 1..Len(texts[f]) :
                 /\ <<f, i>> \in Places /\ LineAt(<<f, i>>) = texts[f][i]
                 /\ f \in Nat /\ i \in Nat /\ Len(texts[f]) \in Nat
<1>1. /\ Len(texts) \in Nat /\ DOMAIN texts = 1..Len(texts)
      /\ \A f \in 1..Len(texts) :
            Len(texts[f]) \in Nat /\ DOMAIN texts[f] = 1..Len(texts[f])
  BY Sources
<1>2. ASSUME NEW p \in Places
      PROVE  p = <<p[1], p[2]>> /\ p[1] \in 1..Len(texts) /\ p[2] \in 1..Len(texts[p[1]])
  <2>1. PICK f \in DOMAIN texts : p \in {f} \X DOMAIN texts[f]
    BY DEF Places
  <2> QED
    BY <1>1, <2>1
<1>3. ASSUME NEW f \in 1..Len(texts), NEW i \in 1..Len(texts[f]) PROVE <<f, i>> \in Places
  <2>1. <<f, i>> \in {f} \X DOMAIN texts[f]
    BY <1>1
  <2> QED
    BY <1>1, <2>1 DEF Places
<1>4. ASSUME NEW f \in 1..Len(texts), NEW i \in 1..Len(texts[f])
      PROVE  LineAt(<<f, i>>) = texts[f][i]
  BY DEF LineAt
<1>5. \A f \in 1..Len(texts) : f \in Nat /\ \A i \in 1..Len(texts[f]) : i \in Nat
  BY <1>1
<1>6. \A p \in Places : p[1] \in Nat /\ p[2] \in Nat
  BY <1>2, <1>5
<1> QED
  BY <1>1, <1>2, <1>3, <1>4, <1>5, <1>6

LEMMA BeginsAre ==
    ASSUME IsProject(texts), NEW c, NEW p \in Begins(c)
    PROVE  /\ p \in Headers(c) /\ p \in Places
           /\ p = <<p[1], p[2]>> /\ p[1] \in 1..Len(texts) /\ p[2] \in 1..Len(texts[p[1]])
           /\ p[1] \in Nat /\ p[2] \in Nat
           /\ texts[p[1]][p[2]].kind = "open" /\ texts[p[1]][p[2]].name = c
<1>1. p \in Headers(c)
  BY DEF Begins
<1>2. p \in Places /\ LineAt(p).kind = "open" /\ LineAt(p).name = c
  BY <1>1 DEF Headers
<1> QED
  BY <1>1, <1>2, PlacesAre DEF LineAt

(* A line that ends the definition that is open. *)
StopAt(f, j) ==
    \/ texts[f][j].kind = "close"
    \/ /\ texts[f][j].kind = "open"
       /\ texts[f][j].name \in Names
       /\ <<f, j>> \in Begins(texts[f][j].name)

LEMMA EndsIs ==
    ASSUME IsProject(texts), NEW f \in 1..Len(texts), NEW i \in 1..Len(texts[f])
    PROVE  LET e == Ends(<<f, i>>)
           IN  /\ e \in Nat /\ i < e /\ e <= Len(texts[f]) + 1
               /\ \A j \in 1..Len(texts[f]) : i < j /\ j < e => ~StopAt(f, j)
               /\ e <= Len(texts[f]) => e \in 1..Len(texts[f]) /\ StopAt(f, e)
<1> DEFINE m == Len(texts[f])
           stops == {j \in 1..m : i < j /\ StopAt(f, j)}
           e == Ends(<<f, i>>)
<1>1. m \in Nat /\ DOMAIN texts[f] = 1..m
  BY Sources
<1>2. e = IF stops = {} THEN m + 1 ELSE Min(stops)
  <2>1. stops = {j \in DOMAIN texts[f] :
                     /\ j > i
                     /\ \/ texts[f][j].kind = "close"
                        \/ /\ texts[f][j].kind = "open"
                           /\ texts[f][j].name \in Names
                           /\ <<f, j>> \in Begins(texts[f][j].name)}
    BY <1>1 DEF StopAt
  <2> HIDE DEF stops
  <2> QED
    BY <2>1 DEF Ends
<1> HIDE DEF e
<1>3. CASE stops = {}
  BY <1>1, <1>2, <1>3 DEF e
<1>4. CASE stops # {}
  <2>1. Min(stops) \in stops /\ \A j \in stops : Min(stops) <= j
    <3>1. stops \subseteq 1..m
      OBVIOUS
    <3> HIDE DEF stops, m
    <3> QED
      BY <1>1, <1>4, <3>1, MinAndMax
  <2>2. e \in stops /\ \A j \in stops : e <= j
    BY <1>2, <1>4, <2>1
  <2>3. e \in 1..m /\ i < e /\ StopAt(f, e)
    BY <2>2
  <2>4. \A j \in 1..m : i < j /\ j < e => ~StopAt(f, j)
    BY <1>1, <2>2, <2>3
  <2> HIDE DEF m
  <2> QED
    BY <1>1, <2>3, <2>4 DEF e, m
<1> QED
  BY <1>3, <1>4

(* What a line adds to the body of the definition that is open. *)
LEMMA BodyNext ==
    ASSUME IsProject(texts), NEW f \in 1..Len(texts), NEW i \in 1..Len(texts[f]),
           NEW p \in Nat, p < i
    PROVE  /\ BodyLines(f, i, i) = <<>>
           /\ texts[f][i].kind = "open" => BodyLines(f, p, i) = BodyLines(f, p, i - 1)
           /\ texts[f][i].kind # "open" =>
                 BodyLines(f, p, i) = Append(BodyLines(f, p, i - 1), texts[f][i])
<1> DEFINE Part(j) == IF texts[f][j].kind = "open" THEN <<>> ELSE <<texts[f][j]>>
           Parts(k) == [j \in 1..k |-> Part(p + j)]
           m == i - 1 - p
<1>1. /\ Len(texts[f]) \in Nat /\ i \in Nat /\ i <= Len(texts[f])
      /\ \A j \in 1..Len(texts[f]) : texts[f][j] \in Lines
  BY Sources
<1>2. m \in Nat /\ i - p = m + 1 /\ (i - 1) - p = m /\ p + (m + 1) = i
  BY <1>1
<1>3. \A j \in 1..Len(texts[f]) : Part(j) \in Seq(Lines)
  <2>1. ASSUME NEW j \in 1..Len(texts[f]) PROVE Part(j) \in Seq(Lines)
    <3>1. texts[f][j] \in Lines
      BY <1>1
    <3>2. <<texts[f][j]>> \in Seq(Lines) /\ <<>> \in Seq(Lines)
      BY <3>1
    <3> QED
      BY <3>2
  <2> QED
    BY <2>1
<1>4. BodyLines(f, p, i) = FlattenSeq(Parts(m + 1)) /\ BodyLines(f, p, i - 1) = FlattenSeq(Parts(m))
  BY <1>2 DEF BodyLines
<1>5. BodyLines(f, i, i) = <<>>
  <2> DEFINE s == [j \in 1..(i - i) |-> Part(i + j)]
  <2>1. i - i = 0
    BY <1>1
  <2>2. s = <<>>
    BY <2>1
  <2>3. BodyLines(f, i, i) = FlattenSeq(s)
    BY DEF BodyLines
  <2> HIDE DEF s
  <2>4. FlattenSeq(<<>>) = <<>>
    <3>1. <<>> \in Seq(Seq(Lines)) /\ Len(<<>>) = 0
      OBVIOUS
    <3>2. PICK g : FlattensBy(g, <<>>, Lines)
      BY <3>1, FlattenSteps
    <3> QED
      BY <3>1, <3>2 DEF FlattensBy
  <2> QED
    BY <2>2, <2>3, <2>4
<1>6. \A j \in 1..(m + 1) : p + j \in 1..Len(texts[f])
  BY <1>1, <1>2
<1> HIDE DEF m, Part
<1>7. Parts(m) \in Seq(Seq(Lines)) /\ Part(i) \in Seq(Lines)
  <2>1. \A j \in 1..m : Part(p + j) \in Seq(Lines)
    BY <1>2, <1>3, <1>6
  <2> QED
    BY <1>2, <1>3, <2>1
<1>8. Parts(m + 1) = Append(Parts(m), Part(i))
  <2> DEFINE u == Append(Parts(m), Part(i))
  <2>1. u = [j \in 1..(m + 1) |-> IF j \in 1..m THEN Part(p + j) ELSE Part(i)]
    BY <1>2, <1>7
  <2>2. ASSUME NEW j \in 1..(m + 1)
        PROVE  (IF j \in 1..m THEN Part(p + j) ELSE Part(i)) = Part(p + j)
    <3>1. j \in 1..m \/ j = m + 1
      BY <1>2
    <3> QED
      BY <1>2, <3>1
  <2> HIDE DEF u
  <2> QED
    BY <2>1, <2>2 DEF u
<1>9. FlattenSeq(Parts(m + 1)) = FlattenSeq(Parts(m)) \o Part(i) /\ FlattenSeq(Parts(m)) \in Seq(Lines)
  <2> HIDE DEF Parts
  <2> QED
    BY <1>7, <1>8, FlattenAppend, FlattenType
<1>10. ASSUME texts[f][i].kind = "open" PROVE BodyLines(f, p, i) = BodyLines(f, p, i - 1)
  <2>1. Part(i) = <<>>
    BY <1>10 DEF Part
  <2> HIDE DEF Parts
  <2> QED
    BY <1>4, <1>9, <2>1
<1>11. ASSUME texts[f][i].kind # "open"
       PROVE  BodyLines(f, p, i) = Append(BodyLines(f, p, i - 1), texts[f][i])
  <2>1. Part(i) = <<texts[f][i]>> /\ texts[f][i] \in Lines
    BY <1>1, <1>11 DEF Part
  <2> HIDE DEF Parts
  <2> DEFINE b == FlattenSeq(Parts(m))
             l == texts[f][i]
  <2>2. b \in Seq(Lines) /\ l \in Lines /\ BodyLines(f, p, i) = b \o <<l>>
        /\ BodyLines(f, p, i - 1) = b
    BY <1>4, <1>9, <2>1
  <2> HIDE DEF b, l
  <2>3. b \o <<l>> = Append(b, l)
    BY <2>2
  <2> QED
    BY <2>2, <2>3 DEF l
<1> QED
  BY <1>5, <1>10, <1>11

(* What has been read at line i of source f, and what it leaves open. *)
Seen(p, f, i) == p[1] < f \/ (p[1] = f /\ p[2] <= i)
IsOpen(p, f, i) == p[1] = f /\ p[2] <= i /\ i < Ends(p)

DefinitionUpTo(p, f, i) ==
    IF IsOpen(p, f, i)
    THEN [file |-> f, line |-> p[2], end |-> 0, body |-> BodyLines(f, p[2], i)]
    ELSE DefinitionAt(p)

LEMMA UpToNext ==
    ASSUME IsProject(texts), NEW f \in 1..Len(texts), NEW i \in 1..Len(texts[f]),
           NEW c, NEW p \in Begins(c), Seen(p, f, i - 1)
    PROVE  LET d == DefinitionUpTo(p, f, i - 1)
               e == DefinitionUpTo(p, f, i)
               l == texts[f][i]
           IN  /\ ~IsOpen(p, f, i - 1) => ~IsOpen(p, f, i) /\ e = d
               /\ IsOpen(p, f, i - 1) /\ StopAt(f, i) =>
                     ~IsOpen(p, f, i) /\ e = IF l.kind = "close" THEN [d EXCEPT !.end = i] ELSE d
               /\ IsOpen(p, f, i - 1) /\ ~StopAt(f, i) =>
                     IsOpen(p, f, i) /\ e = IF l.kind = "open" THEN d
                                            ELSE [d EXCEPT !.body = Append(@, l)]
<1> DEFINE l == texts[f][i]
           q == Ends(p)
<1>1. /\ p = <<p[1], p[2]>> /\ p[1] \in 1..Len(texts) /\ p[2] \in 1..Len(texts[p[1]])
      /\ p[1] \in Nat /\ p[2] \in Nat /\ i \in Nat /\ f \in Nat /\ Len(texts[f]) \in Nat
      /\ DOMAIN texts[f] = 1..Len(texts[f])
  BY BeginsAre, Sources
<1>2. /\ q \in Nat
      /\ \A j \in 1..Len(texts[p[1]]) : p[2] < j /\ j < q => ~StopAt(p[1], j)
      /\ q <= Len(texts[p[1]]) => StopAt(p[1], q)
  BY <1>1, EndsIs
<1> HIDE DEF q
<1>3. ASSUME ~IsOpen(p, f, i - 1) PROVE ~IsOpen(p, f, i)
  BY <1>1, <1>2, <1>3 DEF IsOpen, Seen, q
<1>4. ASSUME IsOpen(p, f, i - 1), StopAt(f, i)
      PROVE  /\ q = i /\ ~IsOpen(p, f, i)
             /\ DefinitionAt(p) = [file |-> f, line |-> p[2],
                                   end |-> IF l.kind = "close" THEN i ELSE 0,
                                   body |-> BodyLines(f, p[2], i - 1)]
  <2>1. p[1] = f /\ p[2] <= i - 1 /\ i - 1 < q
    BY <1>4 DEF IsOpen, q
  <2>2. q = i
    BY <1>1, <1>2, <1>4, <2>1
  <2> QED
    BY <1>1, <2>1, <2>2 DEF IsOpen, DefinitionAt, q
<1>5. ASSUME IsOpen(p, f, i - 1), ~StopAt(f, i) PROVE IsOpen(p, f, i)
  <2>1. p[1] = f /\ p[2] <= i - 1 /\ i - 1 < q
    BY <1>5 DEF IsOpen, q
  <2>2. q # i
    BY <1>1, <1>2, <1>5, <2>1
  <2> QED
    BY <1>1, <1>2, <2>1, <2>2 DEF IsOpen, q
<1> DEFINE d == DefinitionUpTo(p, f, i - 1)
           e == DefinitionUpTo(p, f, i)
<1>6. ASSUME IsOpen(p, f, i - 1)
      PROVE  d = [file |-> f, line |-> p[2], end |-> 0, body |-> BodyLines(f, p[2], i - 1)]
             /\ p[2] < i
  BY <1>1, <1>6 DEF DefinitionUpTo, IsOpen
<1>7. ASSUME IsOpen(p, f, i - 1), StopAt(f, i)
      PROVE  e = IF l.kind = "close" THEN [d EXCEPT !.end = i] ELSE d
  <2>1. e = DefinitionAt(p)
    BY <1>4, <1>7 DEF DefinitionUpTo
  <2> HIDE DEF d, e
  <2> QED
    BY <1>4, <1>6, <1>7, <2>1
<1>8. ASSUME IsOpen(p, f, i - 1), ~StopAt(f, i)
      PROVE  e = IF l.kind = "open" THEN d ELSE [d EXCEPT !.body = Append(@, l)]
  <2>1. e = [file |-> f, line |-> p[2], end |-> 0, body |-> BodyLines(f, p[2], i)]
    BY <1>5, <1>8 DEF DefinitionUpTo
  <2>2. /\ l.kind = "open" => BodyLines(f, p[2], i) = BodyLines(f, p[2], i - 1)
        /\ l.kind # "open" => BodyLines(f, p[2], i) = Append(BodyLines(f, p[2], i - 1), l)
    BY <1>1, <1>6, <1>8, BodyNext
  <2>3. d = [file |-> f, line |-> p[2], end |-> 0, body |-> BodyLines(f, p[2], i - 1)]
    BY <1>6, <1>8
  <2> HIDE DEF d, e, l
  <2>4. CASE l.kind = "open"
    BY <2>1, <2>2, <2>3, <2>4
  <2>5. CASE l.kind # "open"
    <3>1. BodyLines(f, p[2], i) = Append(d.body, l)
      BY <2>2, <2>3, <2>5
    <3>2. [d EXCEPT !.body = Append(@, l)] = [d EXCEPT !.body = BodyLines(f, p[2], i)]
      BY <3>1
    <3> QED
      BY <2>1, <2>3, <2>5, <3>2
  <2> QED
    BY <2>4, <2>5
<1>9. ASSUME ~IsOpen(p, f, i - 1) PROVE e = d
  BY <1>3, <1>9 DEF DefinitionUpTo
<1> HIDE DEF d, e, l
<1> QED
  BY <1>3, <1>4, <1>5, <1>7, <1>8, <1>9 DEF d, e, l

(* At most one definition is open. *)
LEMMA OneOpen ==
    ASSUME IsProject(texts), NEW f, NEW i \in Nat,
           NEW b \in Names, NEW p \in Begins(b), IsOpen(p, f, i),
           NEW c \in Names, NEW q \in Begins(c), IsOpen(q, f, i)
    PROVE  p = q /\ b = c
<1>1. /\ p = <<f, p[2]>> /\ q = <<f, q[2]>> /\ f \in 1..Len(texts)
      /\ p[2] \in 1..Len(texts[f]) /\ q[2] \in 1..Len(texts[f]) /\ p[2] \in Nat /\ q[2] \in Nat
      /\ texts[f][p[2]].kind = "open" /\ texts[f][p[2]].name = b
      /\ texts[f][q[2]].kind = "open" /\ texts[f][q[2]].name = c
  BY BeginsAre DEF IsOpen
<1>2. StopAt(f, p[2]) /\ StopAt(f, q[2])
  BY <1>1 DEF StopAt
<1>3. ASSUME p[2] < q[2] PROVE FALSE
  <2>1. q[2] < Ends(p) /\ Ends(p) \in Nat
    <3>1. Ends(p) \in Nat
      BY <1>1, EndsIs
    <3> QED
      BY <1>1, <3>1 DEF IsOpen
  <2> QED
    BY <1>1, <1>2, <1>3, <2>1, EndsIs
<1>4. ASSUME q[2] < p[2] PROVE FALSE
  <2>1. p[2] < Ends(q) /\ Ends(q) \in Nat
    <3>1. Ends(q) \in Nat
      BY <1>1, EndsIs
    <3> QED
      BY <1>1, <3>1 DEF IsOpen
  <2> QED
    BY <1>1, <1>2, <1>4, <2>1, EndsIs
<1>5. p[2] = q[2]
  BY <1>1, <1>3, <1>4
<1> QED
  BY <1>1, <1>5

CurrentUpTo(c, f, i) ==
    {p \in Begins(c) :
        Seen(p, f, i) /\ \A q \in Begins(c) : Seen(q, f, i) /\ LineAt(q).replace => ~Before(p, q)}
HeaderSeen(c, f, i) == \E p \in Headers(c) : Seen(p, f, i)

LEMMA SeenNext ==
    ASSUME IsProject(texts), NEW f \in 1..Len(texts), NEW i \in 1..Len(texts[f]), NEW p \in Places
    PROVE  /\ Seen(p, f, i) <=> Seen(p, f, i - 1) \/ p = <<f, i>>
           /\ Seen(p, f, i - 1) <=> Before(p, <<f, i>>)
           /\ Seen(p, f, i - 1) => p # <<f, i>> /\ ~Before(<<f, i>>, p)
<1>1. p = <<p[1], p[2]>> /\ p[1] \in Nat /\ p[2] \in Nat /\ f \in Nat /\ i \in Nat
  BY PlacesAre
<1> QED
  BY <1>1 DEF Seen, Before

LEMMA HeaderAt ==
    ASSUME IsProject(texts), NEW f \in 1..Len(texts), NEW i \in 1..Len(texts[f]), NEW c \in Names
    PROVE  LET l == texts[f][i]
           IN  /\ <<f, i>> \in Headers(c) <=> l.kind = "open" /\ l.name = c
               /\ HeaderSeen(c, f, i) <=> HeaderSeen(c, f, i - 1) \/ (l.kind = "open" /\ l.name = c)
               /\ <<f, i>> \in Begins(c) <=> /\ l.kind = "open" /\ l.name = c
                                              /\ \/ c \in Plain \/ l.replace
                                                 \/ ~HeaderSeen(c, f, i - 1)
<1> DEFINE l == texts[f][i]
           p == <<f, i>>
<1>1. p \in Places /\ LineAt(p) = l
  BY PlacesAre
<1> HIDE DEF l, p
<1>2. p \in Headers(c) <=> l.kind = "open" /\ l.name = c
  BY <1>1 DEF Headers
<1>3. \A q \in Headers(c) : /\ Seen(q, f, i) <=> Seen(q, f, i - 1) \/ q = p
                            /\ Seen(q, f, i - 1) <=> Before(q, p)
  BY SeenNext DEF Headers, p
<1>4. HeaderSeen(c, f, i) <=> HeaderSeen(c, f, i - 1) \/ p \in Headers(c)
  <2>1. p \in Headers(c) => Seen(p, f, i)
    BY <1>3
  <2> QED
    BY <1>3, <2>1 DEF HeaderSeen
<1>5. p \in Begins(c) <=> /\ p \in Headers(c)
                          /\ \/ c \in Plain \/ l.replace
                             \/ ~HeaderSeen(c, f, i - 1)
  BY <1>1, <1>3 DEF Begins, HeaderSeen
<1> QED
  BY <1>2, <1>4, <1>5 DEF l, p

LEMMA CurrentNext ==
    ASSUME IsProject(texts), NEW f \in 1..Len(texts), NEW i \in 1..Len(texts[f]), NEW c \in Names
    PROVE  /\ <<f, i>> \notin Begins(c) => CurrentUpTo(c, f, i) = CurrentUpTo(c, f, i - 1)
           /\ <<f, i>> \in Begins(c) /\ texts[f][i].replace => CurrentUpTo(c, f, i) = {<<f, i>>}
           /\ <<f, i>> \in Begins(c) /\ ~texts[f][i].replace =>
                 CurrentUpTo(c, f, i) = CurrentUpTo(c, f, i - 1) \cup {<<f, i>>}
<1> DEFINE p == <<f, i>>
<1>1. p \in Places /\ LineAt(p) = texts[f][i]
  BY PlacesAre
<1>2. \A q \in Begins(c) : /\ Seen(q, f, i) <=> Seen(q, f, i - 1) \/ q = p
                           /\ Seen(q, f, i - 1) <=> Before(q, p)
                           /\ Seen(q, f, i - 1) => q # p /\ ~Before(p, q)
  BY BeginsAre, SeenNext
<1>3. ~Before(p, p)
  <2>1. f \in Nat /\ i \in Nat
    BY Sources
  <2> QED
    BY <2>1 DEF Before
<1> HIDE DEF p
<1>4. ASSUME p \notin Begins(c) PROVE CurrentUpTo(c, f, i) = CurrentUpTo(c, f, i - 1)
  <2>1. \A q \in Begins(c) : Seen(q, f, i) <=> Seen(q, f, i - 1)
    BY <1>2, <1>4
  <2> QED
    BY <2>1 DEF CurrentUpTo
<1>5. ASSUME p \in Begins(c), texts[f][i].replace PROVE CurrentUpTo(c, f, i) = {p}
  <2>1. p \in CurrentUpTo(c, f, i)
    BY <1>2, <1>3, <1>5 DEF CurrentUpTo
  <2>2. ASSUME NEW q \in CurrentUpTo(c, f, i) PROVE q = p
    BY <1>1, <1>2, <1>5 DEF CurrentUpTo
  <2> QED
    BY <2>1, <2>2
<1>6. ASSUME p \in Begins(c), ~texts[f][i].replace
      PROVE  CurrentUpTo(c, f, i) = CurrentUpTo(c, f, i - 1) \cup {p}
  <2>1. p \in CurrentUpTo(c, f, i)
    BY <1>2, <1>3, <1>5, <1>6 DEF CurrentUpTo
  <2>2. ASSUME NEW q \in CurrentUpTo(c, f, i), q # p PROVE q \in CurrentUpTo(c, f, i - 1)
    BY <1>2, <2>2 DEF CurrentUpTo
  <2>3. ASSUME NEW q \in CurrentUpTo(c, f, i - 1) PROVE q \in CurrentUpTo(c, f, i)
    BY <1>1, <1>2, <1>6 DEF CurrentUpTo
  <2> QED
    BY <2>1, <2>2, <2>3
<1> QED
  BY <1>4, <1>5, <1>6 DEF p

(* The definitions ds of chunk c after line i of source f. *)
ChunkUpTo(ds, c, f, i) ==
    /\ {Place(ds[k]) : k \in DOMAIN ds} = CurrentUpTo(c, f, i)
    /\ \A k \in DOMAIN ds :
          /\ ds[k] = DefinitionUpTo(Place(ds[k]), f, i)
          /\ \A j \in DOMAIN ds : k < j => Before(Place(ds[k]), Place(ds[j]))
    /\ ds = <<>> <=> ~HeaderSeen(c, f, i)

ReaderUpTo(s, f, i) ==
    /\ \A c \in Names : ChunkUpTo(s.defs[c], c, f, i)
    /\ s.open = <<>> => \A c \in Names : \A p \in Begins(c) : ~IsOpen(p, f, i)
    /\ s.open # <<>> => IsOpen(Place(OpenDef(s)), f, i)

(* A line that begins no definition of a chunk only continues what there   *)
(* is of it.                                                               *)
LEMMA ChunkKeeps ==
    ASSUME IsProject(texts), NEW f \in 1..Len(texts), NEW i \in 1..Len(texts[f]), NEW c \in Names,
           NEW ds, ChunkUpTo(ds, c, f, i - 1), <<f, i>> \notin Begins(c),
           texts[f][i].kind = "open" /\ texts[f][i].name = c => ds # <<>>,
           NEW es, DOMAIN es = DOMAIN ds, es = <<>> <=> ds = <<>>,
           \A k \in DOMAIN ds : /\ Place(es[k]) = Place(ds[k])
                                /\ es[k] = DefinitionUpTo(Place(ds[k]), f, i)
    PROVE  ChunkUpTo(es, c, f, i)
<1>1. CurrentUpTo(c, f, i) = CurrentUpTo(c, f, i - 1)
  BY CurrentNext
<1>2. {Place(es[k]) : k \in DOMAIN es} = {Place(ds[k]) : k \in DOMAIN ds}
  OBVIOUS
<1>3. HeaderSeen(c, f, i) <=> HeaderSeen(c, f, i - 1)
  BY HeaderAt DEF ChunkUpTo
<1> QED
  BY <1>1, <1>2, <1>3 DEF ChunkUpTo

LEMMA DefsPlaced ==
    ASSUME NEW ds, NEW c, NEW f, NEW i, ChunkUpTo(ds, c, f, i), NEW k \in DOMAIN ds
    PROVE  /\ Place(ds[k]) \in CurrentUpTo(c, f, i) /\ Place(ds[k]) \in Begins(c)
           /\ Seen(Place(ds[k]), f, i)
           /\ ds[k] = DefinitionUpTo(Place(ds[k]), f, i)
<1>1. Place(ds[k]) \in CurrentUpTo(c, f, i)
  BY DEF ChunkUpTo
<1> QED
  BY <1>1 DEF ChunkUpTo, CurrentUpTo

(* A line that begins a definition ends the one that was open.             *)
LEMMA ChunkBegins ==
    ASSUME IsProject(texts), NEW f \in 1..Len(texts), NEW i \in 1..Len(texts[f]), NEW c \in Names,
           NEW ds \in Seq(Defs), ChunkUpTo(ds, c, f, i - 1), <<f, i>> \in Begins(c)
    PROVE  ChunkUpTo(Append(IF texts[f][i].replace THEN <<>> ELSE ds, NewDef(f, i)), c, f, i)
<1> DEFINE kept == IF texts[f][i].replace THEN <<>> ELSE ds
           new == NewDef(f, i)
           es == Append(kept, new)
           m == Len(kept)
<1>1. f \in Nat /\ i \in Nat /\ 0 < i /\ <<f, i>> \in Places
  BY Sources, PlacesAre
<1>2. texts[f][i].kind = "open" /\ texts[f][i].name = c /\ StopAt(f, i)
  <2>1. texts[f][i].kind = "open" /\ texts[f][i].name = c
    BY HeaderAt
  <2> QED
    BY <2>1 DEF StopAt
<1>3. Place(new) = <<f, i>> /\ new = DefinitionUpTo(<<f, i>>, f, i)
  <2>1. IsOpen(<<f, i>>, f, i)
    BY <1>1, EndsIs DEF IsOpen
  <2>2. BodyLines(f, i, i) = <<>>
    BY <1>1, BodyNext
  <2> QED
    BY <2>1, <2>2 DEF DefinitionUpTo, NewDef, Place
<1>4. kept \in Seq(Defs) /\ m \in Nat /\ DOMAIN kept = 1..m
      /\ \A k \in 1..m : k \in DOMAIN ds /\ kept[k] = ds[k]
  <2>1. CASE texts[f][i].replace
    BY <2>1
  <2>2. CASE ~texts[f][i].replace
    BY <2>2
  <2> QED
    BY <2>1, <2>2
<1> HIDE DEF new
<1>5. DOMAIN es = 1..(m + 1) /\ es[m + 1] = new /\ \A k \in 1..m : es[k] = kept[k]
  <2> HIDE DEF kept
  <2> QED
    BY <1>4
<1>6. {Place(kept[k]) : k \in 1..m} \cup {<<f, i>>} = CurrentUpTo(c, f, i)
  <2>1. CASE texts[f][i].replace
    <3>1. CurrentUpTo(c, f, i) = {<<f, i>>}
      BY <2>1, CurrentNext
    <3>2. m = 0
      BY <2>1
    <3> QED
      BY <3>1, <3>2
  <2>2. CASE ~texts[f][i].replace
    <3>1. CurrentUpTo(c, f, i) = CurrentUpTo(c, f, i - 1) \cup {<<f, i>>}
      BY <2>2, CurrentNext
    <3>2. {Place(kept[k]) : k \in 1..m} = CurrentUpTo(c, f, i - 1)
      BY <2>2 DEF ChunkUpTo
    <3> QED
      BY <3>1, <3>2
  <2> QED
    BY <2>1, <2>2
<1> HIDE DEF es, kept, m
<1>7. ASSUME NEW k \in 1..m
      PROVE  /\ es[k] = DefinitionUpTo(Place(es[k]), f, i)
             /\ Before(Place(es[k]), <<f, i>>)
             /\ \A j \in 1..m : k < j => Before(Place(es[k]), Place(es[j]))
  <2>1. k \in DOMAIN ds /\ es[k] = ds[k] /\ \A j \in 1..m : j \in DOMAIN ds /\ es[j] = ds[j]
    BY <1>4, <1>5
  <2> DEFINE p == Place(ds[k])
  <2>2. p \in Begins(c) /\ Seen(p, f, i - 1) /\ ds[k] = DefinitionUpTo(p, f, i - 1) /\ p \in Places
    BY <2>1, DefsPlaced, BeginsAre
  <2> HIDE DEF p
  <2>3. DefinitionUpTo(p, f, i) = DefinitionUpTo(p, f, i - 1)
    BY <1>2, <2>2, UpToNext
  <2>4. Before(p, <<f, i>>)
    BY <2>2, SeenNext
  <2>5. \A j \in DOMAIN ds : k < j => Before(Place(ds[k]), Place(ds[j]))
    BY <2>1 DEF ChunkUpTo
  <2> QED
    BY <2>1, <2>2, <2>3, <2>4, <2>5 DEF p
<1>8. \A k \in 1..(m + 1) : k \in 1..m \/ k = m + 1
  BY <1>4
<1>9. {Place(es[k]) : k \in DOMAIN es} = CurrentUpTo(c, f, i)
  <2>1. \A k \in 1..m : k \in 1..(m + 1)
    BY <1>4
  <2>2. m + 1 \in 1..(m + 1)
    BY <1>4
  <2>3. {Place(es[k]) : k \in DOMAIN es} = {Place(kept[k]) : k \in 1..m} \cup {<<f, i>>}
    BY <1>3, <1>5, <1>8, <2>1, <2>2
  <2> QED
    BY <1>6, <2>3
<1>10. ASSUME NEW k \in DOMAIN es
       PROVE  /\ es[k] = DefinitionUpTo(Place(es[k]), f, i)
              /\ \A j \in DOMAIN es : k < j => Before(Place(es[k]), Place(es[j]))
  <2>1. CASE k \in 1..m
    BY <1>3, <1>5, <1>7, <1>8, <2>1
  <2>2. CASE k = m + 1
    <3>1. \A j \in DOMAIN es : ~(k < j)
      BY <1>4, <1>5, <2>2
    <3> QED
      BY <1>3, <1>5, <2>2, <3>1
  <2> QED
    BY <1>5, <1>8, <2>1, <2>2
<1>11. es # <<>> /\ HeaderSeen(c, f, i)
  <2>1. m + 1 \in DOMAIN es
    BY <1>4, <1>5
  <2>2. DOMAIN <<>> = {}
    OBVIOUS
  <2>3. HeaderSeen(c, f, i)
    BY <1>2, HeaderAt
  <2> QED
    BY <2>1, <2>2, <2>3
<1>12. ChunkUpTo(es, c, f, i)
  BY <1>9, <1>10, <1>11 DEF ChunkUpTo
<1> QED
  BY <1>12 DEF es, kept, new

(* A line that neither closes nor begins a definition, or one outside any. *)
LEMMA NothingStops ==
    ASSUME IsProject(texts), NEW f \in 1..Len(texts), NEW i \in 1..Len(texts[f]), NEW s \in Reader,
           ReaderUpTo(s, f, i - 1)
    PROVE  LET l == texts[f][i]
           IN  /\ l.kind = "open" /\ Ignored(s, l) =>
                     ~StopAt(f, i) /\ (l.name \in Names => s.defs[l.name] # <<>>)
                     /\ \A c \in Names : <<f, i>> \notin Begins(c)
               /\ l.kind = "open" /\ ~Ignored(s, l) =>
                     /\ l.name \in Names /\ <<f, i>> \in Begins(l.name)
                     /\ \A c \in Names : c # l.name => <<f, i>> \notin Begins(c)
               /\ l.kind # "open" => \A c \in Names : <<f, i>> \notin Begins(c)
               /\ l.kind \notin {"open", "close"} => ~StopAt(f, i)
<1> DEFINE l == texts[f][i]
           p == <<f, i>>
<1>1. IsLine(l)
  BY Sources
<1>2. l.kind = "open" => l.name \in Names \cup Unsafe /\ Names \cap Unsafe = {}
  BY <1>1, ConstantsOK DEF IsLine, Names
<1>3. Names = Plain \cup Files /\ Plain \cap Files = {}
  BY ConstantsOK DEF Names
<1>4. \A c \in Names : /\ s.defs[c] = <<>> <=> ~HeaderSeen(c, f, i - 1)
                       /\ p \in Begins(c) <=> /\ l.kind = "open" /\ l.name = c
                                              /\ \/ c \in Plain \/ l.replace
                                                 \/ ~HeaderSeen(c, f, i - 1)
  BY HeaderAt DEF ReaderUpTo, ChunkUpTo
<1>5. StopAt(f, i) <=> \/ l.kind = "close"
                       \/ l.kind = "open" /\ l.name \in Names /\ p \in Begins(l.name)
  BY DEF StopAt
<1> HIDE DEF l, p
<1>6. ASSUME l.kind = "open", Ignored(s, l)
      PROVE  ~StopAt(f, i) /\ (l.name \in Names => s.defs[l.name] # <<>>)
             /\ \A c \in Names : p \notin Begins(c)
  <2>1. l.kind # "close"
    BY <1>6
  <2>2. CASE l.name \in Unsafe
    BY <1>2, <1>4, <1>5, <1>6, <2>1, <2>2
  <2>3. CASE l.name \in Files /\ s.defs[l.name] # <<>> /\ ~l.replace
    BY <1>3, <1>4, <1>5, <2>1, <2>3
  <2> QED
    BY <1>6, <2>2, <2>3 DEF Ignored
<1>7. ASSUME l.kind = "open", ~Ignored(s, l)
      PROVE  /\ l.name \in Names /\ p \in Begins(l.name)
             /\ \A c \in Names : c # l.name => p \notin Begins(c)
  BY <1>2, <1>3, <1>4, <1>7 DEF Ignored
<1> QED
  BY <1>4, <1>5, <1>6, <1>7 DEF l, p

(* The open definition is the only one that a line may change. *)
LEMMA OpenIs ==
    ASSUME IsProject(texts), NEW f, NEW i \in Nat, NEW s \in Reader,
           ReaderUpTo(s, f, i), s.open # <<>>
    PROVE  LET p == Place(OpenDef(s))
           IN  /\ p \in Begins(s.open[1]) /\ Seen(p, f, i) /\ IsOpen(p, f, i)
               /\ OpenDef(s) = DefinitionUpTo(p, f, i)
               /\ \A b \in Names : \A j \in DOMAIN s.defs[b] :
                     ~(b = s.open[1] /\ j = s.open[2]) => ~IsOpen(Place(s.defs[b][j]), f, i)
<1> DEFINE c == s.open[1]
           k == s.open[2]
           p == Place(OpenDef(s))
<1>1. c \in Names /\ k \in DOMAIN s.defs[c] /\ OpenDef(s) = s.defs[c][k]
  BY OpenDefIs DEF OpenDef
<1>2. ChunkUpTo(s.defs[c], c, f, i) /\ IsOpen(p, f, i)
  BY <1>1 DEF ReaderUpTo
<1>3. p \in Begins(c) /\ Seen(p, f, i) /\ OpenDef(s) = DefinitionUpTo(p, f, i)
  BY <1>1, <1>2, DefsPlaced
<1>4. \A b \in Names : s.defs[b] \in Seq(Defs) /\ ChunkUpTo(s.defs[b], b, f, i)
  BY DEF Reader, ReaderUpTo
<1> HIDE DEF p, c, k
<1>5. ~Before(p, p)
  <2>1. p[1] \in Nat /\ p[2] \in Nat
    BY <1>3, BeginsAre
  <2> QED
    BY <2>1 DEF Before
<1>6. ASSUME NEW b \in Names, NEW j \in DOMAIN s.defs[b], ~(b = c /\ j = k),
             IsOpen(Place(s.defs[b][j]), f, i)
      PROVE  FALSE
  <2> DEFINE q == Place(s.defs[b][j])
  <2>1. q \in Begins(b)
    BY <1>4, DefsPlaced
  <2> HIDE DEF q
  <2>2. p = q /\ b = c
    BY <1>1, <1>2, <1>3, <1>6, <2>1, OneOpen DEF q
  <2>3. j # k /\ j \in DOMAIN s.defs[c] /\ Place(s.defs[c][j]) = p /\ Place(s.defs[c][k]) = p
    BY <1>1, <1>6, <2>2 DEF p, q
  <2>4. j \in Nat /\ k \in Nat
    <3>1. s.defs[c] \in Seq(Defs)
      BY <1>1, <1>4
    <3>2. DOMAIN s.defs[c] \subseteq Nat
      BY <3>1
    <3> QED
      BY <1>1, <2>3, <3>2
  <2>5. j < k \/ k < j
    BY <2>3, <2>4
  <2>6. Before(p, p)
    BY <1>1, <1>2, <2>3, <2>5 DEF ChunkUpTo
  <2> QED
    BY <1>5, <2>6
<1> QED
  BY <1>2, <1>3, <1>6 DEF p, c, k

LEMMA OpenBefore ==
    ASSUME IsProject(texts), NEW f \in 1..Len(texts), NEW i \in 1..Len(texts[f]),
           NEW c, NEW p \in Begins(c), IsOpen(p, f, i), p # <<f, i>>
    PROVE  Seen(p, f, i - 1) /\ IsOpen(p, f, i - 1)
<1>1. p = <<p[1], p[2]>> /\ p[1] \in Nat /\ p[2] \in Nat /\ i \in Nat /\ p[1] = f
      /\ p[1] \in 1..Len(texts) /\ p[2] \in 1..Len(texts[p[1]])
  BY BeginsAre, Sources DEF IsOpen
<1>2. Ends(p) \in Nat
  BY <1>1, EndsIs
<1>3. p[2] # i
  BY <1>1
<1> QED
  BY <1>1, <1>2, <1>3 DEF IsOpen, Seen

LEMMA ChunksChange ==
    ASSUME IsProject(texts), NEW f \in 1..Len(texts), NEW i \in 1..Len(texts[f]), NEW s \in Reader,
           ReaderUpTo(s, f, i - 1), s.open # <<>>, texts[f][i].kind # "open",
           NEW d \in Defs, Place(d) = Place(OpenDef(s)),
           d = DefinitionUpTo(Place(OpenDef(s)), f, i),
           NEW c \in Names
    PROVE  ChunkUpTo(ChangeOpen(s, d).defs[c], c, f, i)
<1> DEFINE t == ChangeOpen(s, d)
           b == s.open[1]
           k == s.open[2]
<1>1. i - 1 \in Nat
  BY Sources
<1>2. b \in Names /\ k \in DOMAIN s.defs[b] /\ OpenDef(s) = s.defs[b][k]
  BY OpenDefIs DEF OpenDef
<1>3. /\ \A x \in Names : x # b => t.defs[x] = s.defs[x]
      /\ DOMAIN t.defs[b] = DOMAIN s.defs[b] /\ t.defs[b][k] = d
      /\ \A j \in DOMAIN s.defs[b] : j # k => t.defs[b][j] = s.defs[b][j]
      /\ t \in Reader
  BY ChangeOpenIs
<1>4. \A x \in Names : \A j \in DOMAIN s.defs[x] :
          ~(x = b /\ j = k) => ~IsOpen(Place(s.defs[x][j]), f, i - 1)
  BY <1>1, OpenIs
<1> HIDE DEF t, b, k
<1> DEFINE ds == s.defs[c]
           es == t.defs[c]
<1>5. ChunkUpTo(ds, c, f, i - 1) /\ <<f, i>> \notin Begins(c)
  BY NothingStops DEF ReaderUpTo
<1>6. DOMAIN es = DOMAIN ds /\ ds \in Seq(Defs) /\ es \in Seq(Defs)
  <2>1. ds \in Seq(Defs) /\ es \in Seq(Defs)
    BY <1>3 DEF Reader
  <2> QED
    BY <1>3, <2>1
<1>7. es = <<>> <=> ds = <<>>
  <2> HIDE DEF es, ds
  <2>1. Len(es) = Len(ds)
    BY <1>6
  <2> QED
    BY <1>6, <2>1
<1>8. ASSUME NEW j \in DOMAIN ds
      PROVE  Place(es[j]) = Place(ds[j]) /\ es[j] = DefinitionUpTo(Place(ds[j]), f, i)
  <2>1. CASE c = b /\ j = k
    BY <1>2, <1>3, <2>1
  <2>2. CASE ~(c = b /\ j = k)
    <3>1. es[j] = ds[j]
      BY <1>3, <2>2
    <3>2. Place(ds[j]) \in Begins(c) /\ Seen(Place(ds[j]), f, i - 1)
          /\ ds[j] = DefinitionUpTo(Place(ds[j]), f, i - 1)
      BY <1>5, DefsPlaced
    <3>3. ~IsOpen(Place(ds[j]), f, i - 1)
      BY <1>4, <2>2
    <3> HIDE DEF ds, es
    <3>4. DefinitionUpTo(Place(ds[j]), f, i) = DefinitionUpTo(Place(ds[j]), f, i - 1)
      BY <3>2, <3>3, UpToNext
    <3> QED
      BY <3>1, <3>2, <3>4
  <2> QED
    BY <2>1, <2>2
<1> HIDE DEF ds, es
<1>9. ChunkUpTo(es, c, f, i)
  BY <1>5, <1>6, <1>7, <1>8, ChunkKeeps
<1> QED
  BY <1>9 DEF es, t

LEMMA ReaderNext ==
    ASSUME IsProject(texts), NEW f \in 1..Len(texts), NEW i \in 1..Len(texts[f]), NEW s \in Reader,
           ReaderUpTo(s, f, i - 1)
    PROVE  ReaderUpTo(ReadLine(s, f, i), f, i)
<1> DEFINE l == texts[f][i]
           t == ReadLine(s, f, i)
           d == OpenDef(s)
           p == Place(d)
<1>1. i - 1 \in Nat /\ i \in Nat /\ f \in Nat
  BY Sources
<1>2. \A c \in Names : ChunkUpTo(s.defs[c], c, f, i - 1)
  BY DEF ReaderUpTo
<1>3. \A c \in Names : \A j \in DOMAIN s.defs[c] :
          LET q == Place(s.defs[c][j])
          IN  q \in Begins(c) /\ Seen(q, f, i - 1) /\ s.defs[c][j] = DefinitionUpTo(q, f, i - 1)
  BY <1>2, DefsPlaced
<1>4. ASSUME s.open # <<>>
      PROVE  /\ p \in Begins(s.open[1]) /\ Seen(p, f, i - 1) /\ IsOpen(p, f, i - 1)
             /\ d = DefinitionUpTo(p, f, i - 1) /\ d \in Defs /\ s.open[1] \in Names
  BY <1>1, <1>4, OpenIs, OpenDefIs
<1>5. ASSUME s.open = <<>>, NEW c \in Names, NEW q \in Begins(c), <<f, i>> \notin Begins(c)
      PROVE  ~IsOpen(q, f, i)
  <2>1. ~IsOpen(q, f, i - 1)
    BY <1>5 DEF ReaderUpTo
  <2> QED
    BY <1>5, <2>1, OpenBefore
<1>6. CASE l.kind = "open" /\ Ignored(s, l)
  <2>1. t.defs = s.defs /\ t.open = s.open /\ OpenDef(t) = d
    BY <1>6, ReadLineCases DEF OpenDef
  <2>2. ~StopAt(f, i) /\ (l.name \in Names => s.defs[l.name] # <<>>)
        /\ \A c \in Names : <<f, i>> \notin Begins(c)
    BY <1>6, NothingStops
  <2> HIDE DEF t, d
  <2>3. ASSUME NEW c \in Names PROVE ChunkUpTo(t.defs[c], c, f, i)
    <3> DEFINE ds == s.defs[c]
    <3>1. \A k \in DOMAIN ds : ds[k] = DefinitionUpTo(Place(ds[k]), f, i)
      <4> SUFFICES ASSUME NEW k \in DOMAIN ds PROVE ds[k] = DefinitionUpTo(Place(ds[k]), f, i)
        OBVIOUS
      <4> DEFINE q == Place(ds[k])
      <4>1. q \in Begins(c) /\ Seen(q, f, i - 1) /\ ds[k] = DefinitionUpTo(q, f, i - 1)
        BY <1>3
      <4> HIDE DEF ds, q
      <4>2. DefinitionUpTo(q, f, i) = DefinitionUpTo(q, f, i - 1)
        BY <1>6, <2>2, <4>1, UpToNext
      <4> QED
        BY <4>1, <4>2 DEF q
    <3>2. ChunkUpTo(ds, c, f, i - 1) /\ (l.kind = "open" /\ l.name = c => ds # <<>>)
      BY <1>2, <2>2
    <3> HIDE DEF ds
    <3>3. ChunkUpTo(ds, c, f, i)
      BY <2>2, <3>1, <3>2, ChunkKeeps
    <3> QED
      BY <2>1, <3>3 DEF ds
  <2>4. ASSUME t.open # <<>> PROVE IsOpen(Place(OpenDef(t)), f, i)
    BY <1>4, <2>1, <2>2, <2>4, UpToNext
  <2>5. ASSUME t.open = <<>> PROVE \A c \in Names : \A q \in Begins(c) : ~IsOpen(q, f, i)
    BY <1>5, <2>1, <2>2, <2>5
  <2> QED
    BY <2>3, <2>4, <2>5 DEF ReaderUpTo, t
<1>7. CASE l.kind = "open" /\ ~Ignored(s, l)
  <2> DEFINE kept == Kept(s, l)
  <2>1. l.name \in Names /\ <<f, i>> \in Begins(l.name)
        /\ \A c \in Names : c # l.name => <<f, i>> \notin Begins(c)
    BY <1>7, NothingStops
  <2>2. t = Begin(s, f, i, l)
    BY <1>7, ReadLineCases
  <2>3. /\ t \in Reader /\ kept \in Seq(Defs) /\ t.open = <<l.name, Len(kept) + 1>>
        /\ t.defs[l.name] = Append(kept, NewDef(f, i))
        /\ \A x \in Names : x # l.name => t.defs[x] = s.defs[x]
    <3>0. l \in Lines
      BY Sources
    <3> HIDE DEF t, l, kept
    <3>1. HasBegun(t, s, f, i, l)
      BY <1>1, <2>1, <2>2, <3>0, BeginIs
    <3> QED
      BY <3>1 DEF HasBegun, kept
  <2>4. StopAt(f, i)
    BY <1>7, <2>1 DEF StopAt
  <2>5. s.defs[l.name] \in Seq(Defs)
    BY <2>1 DEF Reader
  <2>6. ChunkUpTo(t.defs[l.name], l.name, f, i)
    BY <1>2, <2>1, <2>3, <2>5, ChunkBegins DEF Kept
  <2> HIDE DEF t, d, kept
  <2>7. ASSUME NEW c \in Names, c # l.name PROVE ChunkUpTo(t.defs[c], c, f, i)
    <3> DEFINE ds == s.defs[c]
    <3>1. \A k \in DOMAIN ds : ds[k] = DefinitionUpTo(Place(ds[k]), f, i)
      <4> SUFFICES ASSUME NEW k \in DOMAIN ds PROVE ds[k] = DefinitionUpTo(Place(ds[k]), f, i)
        OBVIOUS
      <4> DEFINE q == Place(ds[k])
      <4>1. q \in Begins(c) /\ Seen(q, f, i - 1) /\ ds[k] = DefinitionUpTo(q, f, i - 1)
        BY <1>3
      <4> HIDE DEF ds, q
      <4>2. DefinitionUpTo(q, f, i) = DefinitionUpTo(q, f, i - 1)
        BY <1>7, <2>4, <4>1, UpToNext
      <4> QED
        BY <4>1, <4>2 DEF q
    <3>2. ChunkUpTo(ds, c, f, i - 1)
      BY <1>2
    <3> HIDE DEF ds
    <3>3. ChunkUpTo(ds, c, f, i)
      BY <2>1, <2>7, <3>1, <3>2, ChunkKeeps
    <3> QED
      BY <2>3, <2>7, <3>3 DEF ds
  <2>8. t.open # <<>> /\ Place(OpenDef(t)) = <<f, i>>
    <3>1. t.open[1] = l.name /\ t.open[2] = Len(kept) + 1
      BY <2>3
    <3>2. t.defs[l.name][Len(kept) + 1] = NewDef(f, i)
      BY <2>3
    <3>3. OpenDef(t) = NewDef(f, i)
      BY <3>1, <3>2 DEF OpenDef
    <3> QED
      BY <2>3, <3>3 DEF NewDef, Place
  <2>9. IsOpen(<<f, i>>, f, i)
    BY <1>1, EndsIs DEF IsOpen
  <2> QED
    BY <2>6, <2>7, <2>8, <2>9 DEF ReaderUpTo, t
<1>8. CASE l.kind # "open" /\ s.open = <<>>
  <2>1. t = s
    BY <1>8, ReadLineCases
  <2>2. \A c \in Names : <<f, i>> \notin Begins(c)
    BY <1>8, NothingStops
  <2> HIDE DEF t, d
  <2>3. ASSUME NEW c \in Names PROVE ChunkUpTo(s.defs[c], c, f, i)
    <3> DEFINE ds == s.defs[c]
    <3>1. \A k \in DOMAIN ds : ds[k] = DefinitionUpTo(Place(ds[k]), f, i)
      <4> SUFFICES ASSUME NEW k \in DOMAIN ds PROVE ds[k] = DefinitionUpTo(Place(ds[k]), f, i)
        OBVIOUS
      <4> DEFINE q == Place(ds[k])
      <4>1. q \in Begins(c) /\ Seen(q, f, i - 1) /\ ds[k] = DefinitionUpTo(q, f, i - 1)
        BY <1>3
      <4> HIDE DEF ds, q
      <4>2. ~IsOpen(q, f, i - 1)
        BY <1>8, <4>1 DEF ReaderUpTo
      <4>3. DefinitionUpTo(q, f, i) = DefinitionUpTo(q, f, i - 1)
        BY <4>1, <4>2, UpToNext
      <4> QED
        BY <4>1, <4>3 DEF q
    <3>2. ChunkUpTo(ds, c, f, i - 1)
      BY <1>2
    <3> HIDE DEF ds
    <3>3. ChunkUpTo(ds, c, f, i)
      BY <1>8, <2>2, <3>1, <3>2, ChunkKeeps
    <3> QED
      BY <3>3 DEF ds
  <2>4. \A c \in Names : \A q \in Begins(c) : ~IsOpen(q, f, i)
    BY <1>5, <1>8, <2>2
  <2> QED
    BY <1>8, <2>1, <2>3, <2>4 DEF ReaderUpTo, t
<1>9. CASE l.kind = "close" /\ s.open # <<>>
  <2> DEFINE e == [d EXCEPT !.end = i]
  <2>1. e \in Defs /\ t.open = <<>> /\ t.defs = ChangeOpen(s, e).defs
    BY <1>9, ReadLineCases
  <2>2. StopAt(f, i)
    BY <1>9 DEF StopAt
  <2>3. \A c \in Names : <<f, i>> \notin Begins(c)
    BY <1>9, NothingStops
  <2>4. e = DefinitionUpTo(p, f, i) /\ ~IsOpen(p, f, i) /\ Place(e) = p
    <3> HIDE DEF p, d
    <3>1. ~IsOpen(p, f, i) /\ e = DefinitionUpTo(p, f, i)
      BY <1>4, <1>9, <2>2, UpToNext
    <3>2. Place(e) = Place(d)
      BY <1>4, <1>9 DEF Defs, Place
    <3> QED
      BY <3>1, <3>2 DEF p
  <2> HIDE DEF e, t
  <2>5. ASSUME NEW c \in Names PROVE ChunkUpTo(t.defs[c], c, f, i)
    BY <1>9, <2>1, <2>4, ChunksChange
  <2>6. ASSUME NEW c \in Names, NEW q \in Begins(c), IsOpen(q, f, i) PROVE FALSE
    <3>1. Seen(q, f, i - 1) /\ IsOpen(q, f, i - 1)
      BY <2>3, <2>6, OpenBefore
    <3> QED
      BY <2>2, <2>6, <3>1, UpToNext
  <2> QED
    BY <2>1, <2>5, <2>6 DEF ReaderUpTo, t
<1>10. CASE l.kind \notin {"open", "close"} /\ s.open # <<>>
  <2> DEFINE e == [d EXCEPT !.body = Append(@, l)]
  <2>1. e \in Defs /\ t = ChangeOpen(s, e)
    BY <1>10, ReadLineCases
  <2>2. ~StopAt(f, i)
    BY <1>10, NothingStops
  <2>3. e = DefinitionUpTo(p, f, i) /\ IsOpen(p, f, i) /\ Place(e) = p
    <3> HIDE DEF p, d
    <3>1. IsOpen(p, f, i) /\ e = DefinitionUpTo(p, f, i)
      BY <1>4, <1>10, <2>2, UpToNext
    <3>2. Place(e) = Place(d)
      BY <1>4, <1>10 DEF Defs, Place
    <3> QED
      BY <3>1, <3>2 DEF p
  <2> HIDE DEF e, t
  <2>4. ASSUME NEW c \in Names PROVE ChunkUpTo(t.defs[c], c, f, i)
    BY <1>10, <2>1, <2>3, ChunksChange
  <2>5. t.open = s.open /\ t.defs[s.open[1]][s.open[2]] = e
    BY <1>10, <2>1, ChangeOpenIs
  <2>6. OpenDef(t) = e
    BY <2>5 DEF OpenDef
  <2> QED
    BY <1>10, <2>3, <2>4, <2>5, <2>6 DEF ReaderUpTo, t
<1> QED
  BY <1>6, <1>7, <1>8, <1>9, <1>10

(* Between two sources nothing is open: what was open has no end.          *)
LEMMA SourceEnds ==
    ASSUME IsProject(texts), NEW f \in 1..Len(texts), NEW c \in Names, NEW ds,
           ChunkUpTo(ds, c, f, Len(texts[f]))
    PROVE  ChunkUpTo(ds, c, f + 1, 0)
<1> DEFINE m == Len(texts[f])
<1>1. m \in Nat /\ f \in Nat /\ DOMAIN texts[f] = 1..m
  BY Sources
<1>2. \A p \in Places : Seen(p, f, m) <=> Seen(p, f + 1, 0)
  <2> SUFFICES ASSUME NEW p \in Places PROVE Seen(p, f, m) <=> Seen(p, f + 1, 0)
    OBVIOUS
  <2>1. p[1] \in Nat /\ p[2] \in Nat /\ p[2] >= 1 /\ (p[1] = f => p[2] <= m)
    BY <1>1, PlacesAre
  <2> HIDE DEF m
  <2> QED
    BY <1>1, <2>1 DEF Seen
<1>3. \A p \in Begins(c) : Seen(p, f, m) <=> Seen(p, f + 1, 0)
  BY <1>2, BeginsAre
<1>4. CurrentUpTo(c, f, m) = CurrentUpTo(c, f + 1, 0)
  BY <1>3 DEF CurrentUpTo
<1>5. HeaderSeen(c, f, m) <=> HeaderSeen(c, f + 1, 0)
  BY <1>2 DEF HeaderSeen, Headers
<1>6. ASSUME NEW p \in Begins(c) PROVE DefinitionUpTo(p, f, m) = DefinitionUpTo(p, f + 1, 0)
  <2>1. /\ p = <<p[1], p[2]>> /\ p[1] \in 1..Len(texts) /\ p[2] \in 1..Len(texts[p[1]])
        /\ p[1] \in Nat /\ p[2] \in Nat
    BY BeginsAre
  <2>2. Ends(p) \in Nat /\ Ends(p) <= Len(texts[p[1]]) + 1
    BY <2>1, EndsIs
  <2>3. ~IsOpen(p, f + 1, 0)
    BY <2>1, Sources DEF IsOpen
  <2>4. CASE IsOpen(p, f, m)
    <3>1. p[1] = f /\ Ends(p) = m + 1 /\ Ends(p) - 1 = m
      BY <1>1, <2>2, <2>4 DEF IsOpen
    <3>2. Ends(p) \notin DOMAIN texts[f]
      BY <1>1, <3>1
    <3>3. DefinitionAt(p) = [file |-> f, line |-> p[2], end |-> 0, body |-> BodyLines(f, p[2], m)]
      BY <3>1, <3>2 DEF DefinitionAt
    <3> QED
      BY <2>3, <2>4, <3>3 DEF DefinitionUpTo
  <2>5. CASE ~IsOpen(p, f, m)
    BY <2>3, <2>5 DEF DefinitionUpTo
  <2> QED
    BY <2>4, <2>5
<1>7. \A k \in DOMAIN ds : Place(ds[k]) \in Begins(c)
  BY DefsPlaced
<1> QED
  BY <1>4, <1>5, <1>6, <1>7 DEF ChunkUpTo

(* Reading one more source. *)
LEMMA SourceUpTo ==
    ASSUME IsProject(texts), NEW f \in 1..Len(texts), store \in StoreType,
           \A c \in Names : ChunkUpTo(store.defs[c], c, f, 0),
           NEW b \in Names
    PROVE  ChunkUpTo(ReadSource(f).defs[b], b, f + 1, 0)
<1> DEFINE m == Len(texts[f])
<1>1. m \in Nat
  BY Sources
<1>2. PICK g : ReadsBy(g, f)
  BY SourceReads
<1> DEFINE Good == {i \in Nat : i <= m => ReaderUpTo(g[i], f, i)}
<1>3. 0 \in Good
  <2>1. g[0].defs = store.defs /\ g[0].open = <<>>
    BY <1>2 DEF ReadsBy
  <2>2. ASSUME NEW c \in Names, NEW p \in Begins(c) PROVE ~IsOpen(p, f, 0)
    <3>1. p[2] \in 1..Len(texts[p[1]]) /\ p[2] \in Nat
      BY BeginsAre
    <3> QED
      BY <3>1 DEF IsOpen
  <2> QED
    BY <2>1, <2>2 DEF ReaderUpTo
<1>4. ASSUME NEW i \in Nat, i \in Good PROVE i + 1 \in Good
  <2> SUFFICES ASSUME i + 1 <= m PROVE ReaderUpTo(g[i + 1], f, i + 1)
    OBVIOUS
  <2> DEFINE j == i + 1
  <2>1. j \in 1..m /\ j - 1 = i /\ ReaderUpTo(g[i], f, i)
    BY <1>1, <1>4
  <2> HIDE DEF j
  <2>2. g[j] = ReadLine(g[i], f, j) /\ g[i] \in Reader
    BY <1>2, <2>1 DEF ReadsBy
  <2>3. ReaderUpTo(g[i], f, j - 1)
    BY <2>1
  <2>4. ReaderUpTo(ReadLine(g[i], f, j), f, j)
    BY <2>1, <2>2, <2>3, ReaderNext
  <2> QED
    BY <2>2, <2>4 DEF j
<1>5. m \in Good
  <2> HIDE DEF Good
  <2> QED
    BY <1>1, <1>3, <1>4, NatSets
<1>6. ReaderUpTo(g[m], f, m) /\ ReadSource(f) = g[m]
  BY <1>1, <1>2, <1>5 DEF ReadsBy
<1>7. ChunkUpTo(ReadSource(f).defs[b], b, f, Len(texts[f]))
  BY <1>6 DEF ReaderUpTo
<1> QED
  BY <1>7, SourceEnds

(* Before the first source and after the last one. *)
LEMMA NothingRead ==
    ASSUME IsProject(texts), NEW c \in Names
    PROVE  ChunkUpTo(<<>>, c, 1, 0)
<1>1. ASSUME NEW p \in Places PROVE ~Seen(p, 1, 0)
  <2>1. p[1] \in 1..Len(texts) /\ p[2] \in 1..Len(texts[p[1]]) /\ p[1] \in Nat /\ p[2] \in Nat
    BY PlacesAre
  <2> QED
    BY <2>1 DEF Seen
<1>2. ~HeaderSeen(c, 1, 0)
  BY <1>1 DEF HeaderSeen, Headers
<1>3. CurrentUpTo(c, 1, 0) = {}
  BY <1>1, BeginsAre DEF CurrentUpTo
<1>4. DOMAIN <<>> = {}
  OBVIOUS
<1> QED
  BY <1>2, <1>3, <1>4 DEF ChunkUpTo

LEMMA AllRead ==
    ASSUME IsProject(texts), NEW c \in Names, NEW ds, ChunkUpTo(ds, c, Len(texts) + 1, 0)
    PROVE  /\ {Place(ds[k]) : k \in DOMAIN ds} = Current(c)
           /\ \A k \in DOMAIN ds :
                 /\ ds[k] = DefinitionAt(Place(ds[k]))
                 /\ \A j \in DOMAIN ds : k < j => Before(Place(ds[k]), Place(ds[j]))
<1> DEFINE m == Len(texts) + 1
<1>1. ASSUME NEW p \in Begins(c) PROVE Seen(p, m, 0) /\ ~IsOpen(p, m, 0)
  <2>1. p[1] \in 1..Len(texts) /\ Len(texts) \in Nat
    BY BeginsAre, Sources
  <2> QED
    BY <2>1 DEF Seen, IsOpen
<1> HIDE DEF m
<1>2. CurrentUpTo(c, m, 0) = Current(c)
  BY <1>1 DEF CurrentUpTo, Current
<1>3. ASSUME NEW p \in Begins(c) PROVE DefinitionUpTo(p, m, 0) = DefinitionAt(p)
  BY <1>1 DEF DefinitionUpTo
<1>4. \A k \in DOMAIN ds : Place(ds[k]) \in Begins(c)
  BY DefsPlaced
<1> QED
  BY <1>2, <1>3, <1>4 DEF ChunkUpTo, m
-----------------------------------------------------------------------------
(* Textual substitution.  A function on sequences that takes sequences     *)
(* joined together to their images joined together is known from its       *)
(* images of single elements.                                              *)

Joins(h, A, B) ==
    /\ h \in [Seq(A) -> Seq(B)]
    /\ h[<<>>] = <<>>
    /\ \A s \in Seq(A), t \in Seq(A) : h[s \o t] = h[s] \o h[t]

LEMMA FlattenConcat ==
    ASSUME NEW T, NEW a \in Seq(Seq(T)), NEW b \in Seq(Seq(T))
    PROVE  FlattenSeq(a \o b) = FlattenSeq(a) \o FlattenSeq(b)
<1> DEFINE u == a \o b
<1>1. u \in Seq(Seq(T)) /\ Len(u) = Len(a) + Len(b) /\ Len(a) \in Nat /\ Len(b) \in Nat
  BY ConcatProperties, LenProperties
<1>2. /\ \A i \in 1..Len(a) : u[i] = a[i]
      /\ \A i \in 1..Len(b) : u[Len(a) + i] = b[i]
  OBVIOUS
<1> HIDE DEF u
<1>3. PICK g : FlattensBy(g, a, T)
  BY FlattenSteps
<1>4. PICK h : FlattensBy(h, b, T)
  BY FlattenSteps
<1>5. PICK k : FlattensBy(k, u, T)
  BY <1>1, FlattenSteps
<1> DEFINE InFirst == {i \in Nat : i <= Len(a) => k[i] = g[i]}
<1>6. Nat \subseteq InFirst
  <2>1. 0 \in InFirst
    BY <1>3, <1>5 DEF FlattensBy
  <2>2. ASSUME NEW i \in Nat, i \in InFirst PROVE i + 1 \in InFirst
    <3> SUFFICES ASSUME i + 1 <= Len(a) PROVE k[i + 1] = g[i + 1]
      OBVIOUS
    <3>1. i + 1 \in 1..Len(a) /\ i + 1 \in 1..Len(u) /\ (i + 1) - 1 = i
      BY <1>1
    <3>2. k[i] = g[i]
      BY <2>2
    <3> QED
      BY <1>2, <1>3, <1>5, <3>1, <3>2 DEF FlattensBy
  <2> HIDE DEF InFirst
  <2> QED
    BY <2>1, <2>2, NatSets
<1>10. k[Len(a)] = g[Len(a)]
  BY <1>1, <1>6
<1> HIDE DEF InFirst
<1>11. PICK m \in Nat : m = Len(a)
  BY <1>1
<1>7. k[m] = g[m] /\ g[m] \in Seq(T)
  BY <1>3, <1>10, <1>11 DEF FlattensBy
<1>12. PICK c : c = [i \in Nat |-> g[m] \o h[i]]
  OBVIOUS
<1>13. \A i \in Nat : c[i] = g[m] \o h[i]
  BY <1>12
<1> DEFINE InSecond == {i \in Nat : i <= Len(b) => k[m + i] = c[i]}
<1>8. Nat \subseteq InSecond
  <2>1. 0 \in InSecond
    <3>1. h[0] = <<>> /\ m + 0 = m
      BY <1>4 DEF FlattensBy
    <3>2. g[m] \o <<>> = g[m]
      BY <1>7, ConcatEmptySeq
    <3> QED
      BY <1>7, <1>13, <3>1, <3>2
  <2>2. ASSUME NEW i \in Nat, i \in InSecond PROVE i + 1 \in InSecond
    <3> SUFFICES ASSUME i + 1 <= Len(b) PROVE k[m + (i + 1)] = c[i + 1]
      OBVIOUS
    <3>1. /\ i + 1 \in 1..Len(b) /\ (i + 1) - 1 = i
          /\ m + (i + 1) \in 1..Len(u) /\ (m + (i + 1)) - 1 = m + i
      BY <1>1, <1>11
    <3>2. k[m + i] = c[i]
      BY <1>1, <2>2
    <3>3. k[m + (i + 1)] = k[m + i] \o u[m + (i + 1)]
      BY <1>5, <3>1 DEF FlattensBy
    <3>4. u[m + (i + 1)] = b[i + 1] /\ b[i + 1] \in Seq(T)
      BY <1>2, <1>11, <3>1
    <3>5. h[i + 1] = h[i] \o b[i + 1] /\ h[i] \in Seq(T)
      BY <1>4, <3>1 DEF FlattensBy
    <3>6. \A x \in Seq(T), y \in Seq(T), z \in Seq(T) : (x \o y) \o z = x \o (y \o z)
      BY ConcatAssociative
    <3>7. (g[m] \o h[i]) \o b[i + 1] = g[m] \o (h[i] \o b[i + 1])
      BY <1>7, <3>4, <3>5, <3>6, Zenon
    <3>9. i \in Nat /\ i + 1 \in Nat
      OBVIOUS
    <3>8. c[i] = g[m] \o h[i] /\ c[i + 1] = g[m] \o h[i + 1]
      BY <1>13, <3>9, Zenon
    <3> QED
      BY <3>2, <3>3, <3>4, <3>5, <3>7, <3>8, Zenon
  <2> HIDE DEF InSecond
  <2> QED
    BY <2>1, <2>2, NatSets
<1>9. k[m + Len(b)] = c[Len(b)]
  BY <1>1, <1>8
<1>14. FlattenSeq(u) = k[Len(u)] /\ FlattenSeq(a) = g[m] /\ FlattenSeq(b) = h[Len(b)]
       /\ Len(u) = m + Len(b)
  BY <1>1, <1>3, <1>4, <1>5, <1>11 DEF FlattensBy
<1> QED
  BY <1>1, <1>9, <1>13, <1>14 DEF u

LEMMA JoinsFlatten ==
    ASSUME NEW A, NEW B, NEW h, Joins(h, A, B), NEW q \in Seq(Seq(A))
    PROVE  /\ [i \in 1..Len(q) |-> h[q[i]]] \in Seq(Seq(B))
           /\ h[FlattenSeq(q)] = FlattenSeq([i \in 1..Len(q) |-> h[q[i]]])
<1> DEFINE r == [i \in 1..Len(q) |-> h[q[i]]]
<1>1. \A i \in 1..Len(q) : q[i] \in Seq(A) /\ h[q[i]] \in Seq(B)
  BY DEF Joins
<1>2. r \in Seq(Seq(B)) /\ Len(r) = Len(q) /\ \A i \in 1..Len(q) : r[i] = h[q[i]]
  BY <1>1
<1> HIDE DEF r
<1>3. PICK g : FlattensBy(g, q, A)
  BY FlattenSteps
<1>4. PICK k : FlattensBy(k, r, B)
  BY <1>2, FlattenSteps
<1> DEFINE Same == {i \in Nat : i <= Len(q) => h[g[i]] = k[i]}
<1>5. Nat \subseteq Same
  <2>1. 0 \in Same
    BY <1>3, <1>4 DEF FlattensBy, Joins
  <2>2. ASSUME NEW i \in Nat, i \in Same PROVE i + 1 \in Same
    <3> SUFFICES ASSUME i + 1 <= Len(q) PROVE h[g[i + 1]] = k[i + 1]
      OBVIOUS
    <3>1. i + 1 \in 1..Len(q) /\ (i + 1) - 1 = i
      OBVIOUS
    <3>2. h[g[i]] = k[i]
      BY <2>2
    <3>3. g[i + 1] = g[i] \o q[i + 1] /\ g[i] \in Seq(A)
      BY <1>3, <3>1 DEF FlattensBy
    <3>4. k[i + 1] = k[i] \o r[i + 1]
      BY <1>2, <1>4, <3>1 DEF FlattensBy
    <3>5. h[g[i] \o q[i + 1]] = h[g[i]] \o h[q[i + 1]]
      BY <1>1, <3>1, <3>3 DEF Joins
    <3> QED
      BY <1>2, <3>1, <3>2, <3>3, <3>4, <3>5
  <2> HIDE DEF Same
  <2> QED
    BY <2>1, <2>2, NatSets
<1>6. h[g[Len(q)]] = k[Len(q)]
  BY <1>5, LenProperties
<1> QED
  BY <1>2, <1>3, <1>4, <1>6 DEF FlattensBy, r

LEMMA JoinsSingles ==
    ASSUME NEW A, NEW B, NEW h, Joins(h, A, B), NEW s \in Seq(A)
    PROVE  h[s] = FlattenSeq([i \in 1..Len(s) |-> h[<<s[i]>>]])
<1> DEFINE q == [i \in 1..Len(s) |-> <<s[i]>>]
<1>1. q \in Seq(Seq(A)) /\ Len(q) = Len(s) /\ \A i \in 1..Len(s) : q[i] = <<s[i]>>
  OBVIOUS
<1>2. FlattenSeq(q) = s
  BY FlattenSingles
<1> HIDE DEF q
<1>3. h[s] = FlattenSeq([i \in 1..Len(q) |-> h[q[i]]])
  BY <1>1, <1>2, JoinsFlatten
<1>4. [i \in 1..Len(q) |-> h[q[i]]] = [i \in 1..Len(s) |-> h[<<s[i]>>]]
  BY <1>1
<1> QED
  BY <1>3, <1>4

LEMMA JoinsEqual ==
    ASSUME NEW A, NEW B, NEW h, NEW k, Joins(h, A, B), Joins(k, A, B),
           NEW s \in Seq(A), \A i \in 1..Len(s) : h[<<s[i]>>] = k[<<s[i]>>]
    PROVE  h[s] = k[s]
<1>1. [i \in 1..Len(s) |-> h[<<s[i]>>]] = [i \in 1..Len(s) |-> k[<<s[i]>>]]
  OBVIOUS
<1>2. h[s] = FlattenSeq([i \in 1..Len(s) |-> h[<<s[i]>>]])
  BY JoinsSingles
<1>3. k[s] = FlattenSeq([i \in 1..Len(s) |-> k[<<s[i]>>]])
  BY JoinsSingles
<1> QED
  BY <1>1, <1>2, <1>3

LEMMA JoinsCompose ==
    ASSUME NEW A, NEW B, NEW C, NEW h, NEW k, Joins(h, A, B), Joins(k, B, C)
    PROVE  Joins([s \in Seq(A) |-> k[h[s]]], A, C)
<1> DEFINE c == [s \in Seq(A) |-> k[h[s]]]
<1>1. \A s \in Seq(A) : h[s] \in Seq(B) /\ k[h[s]] \in Seq(C) /\ c[s] = k[h[s]]
  BY DEF Joins
<1>2. c \in [Seq(A) -> Seq(C)]
  BY <1>1
<1> HIDE DEF c
<1>3. c[<<>>] = <<>>
  <2>1. <<>> \in Seq(A)
    OBVIOUS
  <2> QED
    BY <1>1, <2>1 DEF Joins
<1>4. ASSUME NEW s \in Seq(A), NEW t \in Seq(A) PROVE c[s \o t] = c[s] \o c[t]
  <2>1. s \o t \in Seq(A)
    BY ConcatProperties
  <2>2. h[s \o t] = h[s] \o h[t]
    BY DEF Joins
  <2>3. k[h[s] \o h[t]] = k[h[s]] \o k[h[t]]
    BY <1>1 DEF Joins
  <2> QED
    BY <1>1, <2>1, <2>2, <2>3
<1>5. Joins(c, A, C)
  BY <1>2, <1>3, <1>4 DEF Joins
<1> QED
  BY <1>5 DEF c

(* What gathers a sequence for each element is such a function. *)
Gathers(h, F, A, B) ==
    /\ F \in [A -> Seq(B)]
    /\ h = [s \in Seq(A) |-> FlattenSeq([i \in 1..Len(s) |-> F[s[i]]])]

LEMMA GatherJoins ==
    ASSUME NEW A, NEW B, NEW F, NEW h, Gathers(h, F, A, B)
    PROVE  Joins(h, A, B) /\ \A a \in A : h[<<a>>] = F[a]
<1>0. F \in [A -> Seq(B)] /\ h = [s \in Seq(A) |-> FlattenSeq([i \in 1..Len(s) |-> F[s[i]]])]
  BY DEF Gathers
<1> DEFINE Images(s) == [i \in 1..Len(s) |-> F[s[i]]]
<1>1. ASSUME NEW s \in Seq(A)
      PROVE  Images(s) \in Seq(Seq(B)) /\ FlattenSeq(Images(s)) \in Seq(B)
  <2>1. \A i \in 1..Len(s) : F[s[i]] \in Seq(B)
    BY <1>0
  <2>2. Images(s) \in Seq(Seq(B))
    BY <2>1
  <2> HIDE DEF Images
  <2> QED
    BY <2>2, FlattenType
<1>2. ASSUME NEW s \in Seq(A), NEW t \in Seq(A)
      PROVE  Images(s \o t) = Images(s) \o Images(t)
  <2> DEFINE u == s \o t
             a == Images(s)
             b == Images(t)
             w == Images(u)
  <2>1. u \in Seq(A) /\ Len(u) = Len(s) + Len(t) /\ Len(s) \in Nat /\ Len(t) \in Nat
        /\ \A i \in 1..Len(u) : u[i] = IF i <= Len(s) THEN s[i] ELSE t[i - Len(s)]
    BY ConcatProperties, LenProperties
  <2> HIDE DEF u
  <2>2. a \in Seq(Seq(B)) /\ b \in Seq(Seq(B)) /\ w \in Seq(Seq(B))
    <3> HIDE DEF Images
    <3> QED
      BY <1>1, <2>1
  <2>3. /\ Len(a) = Len(s) /\ \A i \in 1..Len(s) : a[i] = F[s[i]]
        /\ Len(b) = Len(t) /\ \A i \in 1..Len(t) : b[i] = F[t[i]]
        /\ Len(w) = Len(u) /\ \A i \in 1..Len(u) : w[i] = F[u[i]]
    BY <2>1
  <2> HIDE DEF a, b, w
  <2>7. PICK v : v = a \o b
    OBVIOUS
  <2>4. /\ v \in Seq(Seq(B)) /\ Len(v) = Len(a) + Len(b)
        /\ \A i \in 1..(Len(a) + Len(b)) : v[i] = IF i <= Len(a) THEN a[i] ELSE b[i - Len(a)]
    BY <2>2, <2>7, ConcatProperties
  <2>5. ASSUME NEW i \in 1..Len(w) PROVE w[i] = v[i]
    <3>1. CASE i <= Len(s)
      <4>1. i \in 1..Len(s) /\ i \in 1..Len(u) /\ i \in 1..(Len(a) + Len(b)) /\ i <= Len(a)
        BY <2>1, <2>3, <3>1
      <4>2. w[i] = F[s[i]]
        BY <2>1, <2>3, <3>1, <4>1
      <4>3. v[i] = a[i]
        BY <2>4, <4>1
      <4> QED
        BY <2>3, <4>1, <4>2, <4>3
    <3>2. CASE i > Len(s)
      <4>1. i - Len(s) \in 1..Len(t) /\ i \in 1..Len(u) /\ i \in 1..(Len(a) + Len(b))
            /\ ~(i <= Len(s)) /\ Len(a) = Len(s)
        BY <2>1, <2>3, <3>2
      <4>2. w[i] = F[t[i - Len(s)]]
        BY <2>1, <2>3, <4>1
      <4>3. v[i] = b[i - Len(s)]
        BY <2>4, <4>1
      <4> QED
        BY <2>3, <4>1, <4>2, <4>3
    <3>3. i \in Nat /\ Len(s) \in Nat
      BY <2>1, <2>3
    <3> QED
      BY <3>1, <3>2, <3>3
  <2>6. w = v
    <3>1. Len(w) = Len(v)
      BY <2>1, <2>3, <2>4
    <3> QED
      BY <2>2, <2>4, <2>5, <3>1, SeqEqual
  <2> QED
    BY <2>6, <2>7 DEF a, b, w, u
<1>3. \A s \in Seq(A) : h[s] = FlattenSeq(Images(s))
  BY <1>0
<1>4. h \in [Seq(A) -> Seq(B)]
  BY <1>0, <1>1
<1>5. h[<<>>] = <<>>
  <2>1. <<>> \in Seq(A)
    OBVIOUS
  <2>2. Images(<<>>) = <<>>
    OBVIOUS
  <2>3. FlattenSeq(<<>>) = <<>>
    BY DEF FlattenSeq
  <2> HIDE DEF Images
  <2> QED
    BY <1>3, <2>1, <2>2, <2>3
<1>6. ASSUME NEW s \in Seq(A), NEW t \in Seq(A) PROVE h[s \o t] = h[s] \o h[t]
  <2>1. s \o t \in Seq(A)
    BY ConcatProperties
  <2> HIDE DEF Images
  <2>2. FlattenSeq(Images(s) \o Images(t)) = FlattenSeq(Images(s)) \o FlattenSeq(Images(t))
    BY <1>1, FlattenConcat
  <2> QED
    BY <1>2, <1>3, <2>1, <2>2
<1>7. ASSUME NEW a \in A PROVE h[<<a>>] = F[a]
  <2> DEFINE b == F[a]
  <2>1. <<a>> \in Seq(A) /\ Images(<<a>>) = <<b>>
    OBVIOUS
  <2>2. b \in Seq(B) /\ <<>> \in Seq(Seq(B)) /\ Append(<<>>, b) = <<b>>
    BY <1>0
  <2>3. FlattenSeq(<<>>) = <<>>
    BY DEF FlattenSeq
  <2> HIDE DEF Images, b
  <2>4. FlattenSeq(Append(<<>>, b)) = FlattenSeq(<<>>) \o b
    BY <2>2, FlattenAppend
  <2>5. <<>> \o b = b
    BY <2>2, ConcatEmptySeq
  <2>6. h[<<a>>] = b
    BY <1>3, <2>1, <2>2, <2>3, <2>4, <2>5
  <2> QED
    BY <2>6 DEF b
<1> QED
  BY <1>4, <1>5, <1>6, <1>7 DEF Joins

LEMMA JoinsNothing ==
    ASSUME NEW A, NEW B, NEW h, Joins(h, A, B), NEW s \in Seq(A),
           \A i \in 1..Len(s) : h[<<s[i]>>] = <<>>
    PROVE  h[s] = <<>>
<1> DEFINE q == [i \in 1..Len(s) |-> <<>>]
<1>1. q \in Seq(Seq(B)) /\ Len(q) = Len(s) /\ \A i \in 1..Len(s) : q[i] = <<>>
  <2>1. <<>> \in Seq(B)
    OBVIOUS
  <2> QED
    BY <2>1
<1>2. h[s] = FlattenSeq(q)
  <2>1. [i \in 1..Len(s) |-> h[<<s[i]>>]] = q
    OBVIOUS
  <2> HIDE DEF q
  <2> QED
    BY <2>1, JoinsSingles
<1> HIDE DEF q
<1>3. PICK g : FlattensBy(g, q, B)
  BY <1>1, FlattenSteps
<1> DEFINE Empty == {i \in Nat : i <= Len(s) => g[i] = <<>>}
<1>4. Nat \subseteq Empty
  <2>1. 0 \in Empty
    BY <1>3 DEF FlattensBy
  <2>2. ASSUME NEW i \in Nat, i \in Empty PROVE i + 1 \in Empty
    <3> SUFFICES ASSUME i + 1 <= Len(s) PROVE g[i + 1] = <<>>
      OBVIOUS
    <3>1. i + 1 \in 1..Len(q) /\ (i + 1) - 1 = i
      BY <1>1
    <3>2. g[i] = <<>> /\ q[i + 1] = <<>>
      BY <1>1, <2>2, <3>1
    <3>3. g[i + 1] = g[i] \o q[i + 1]
      BY <1>3, <3>1 DEF FlattensBy
    <3> QED
      BY <3>2, <3>3, ConcatEmptySeq
  <2> HIDE DEF Empty
  <2> QED
    BY <2>1, <2>2, NatSets
<1> QED
  BY <1>1, <1>2, <1>3, <1>4, LenProperties DEF FlattensBy

(* The lines that substitution handles: those of the definitions and the   *)
(* references it starts from.                                              *)
StoredLines == UNION {UNION {Range(d.body) : d \in Range(store.defs[c])} : c \in Names}
SubLines == StoredLines \cup {RootRef(c) : c \in Names}
TextLines == {l \in SubLines : l.kind = "text"}

LEMMA SubLinesAre ==
    ASSUME DefsOK, NEW l \in SubLines
    PROVE  /\ l.kind \in {"ref", "text"}
           /\ l.kind = "ref" => l.name \in Names /\ l.opts \in SUBSET Options
<1>1. CASE l \in StoredLines
  <2>1. PICK c \in Names : \E d \in Range(store.defs[c]) : l \in Range(d.body)
    BY <1>1 DEF StoredLines
  <2>2. PICK d \in Range(store.defs[c]) : l \in Range(d.body)
    BY <2>1
  <2>3. PICK k \in DOMAIN d.body : l = d.body[k]
    BY <2>2 DEF Range
  <2> QED
    BY <2>1, <2>2, <2>3 DEF DefsOK, BodyOK
<1>2. CASE \E c \in Names : l = RootRef(c)
  BY <1>2 DEF RootRef, Options
<1> QED
  BY <1>1, <1>2 DEF SubLines

LEMMA BodiesType ==
    ASSUME DefsOK, NEW c \in Names, NEW d \in Range(store.defs[c])
    PROVE  d.body \in Seq(SubLines)
<1>1. d.body \in Seq(Range(d.body))
  BY DEF DefsOK, BodyOK
<1>2. Range(d.body) \subseteq SubLines
  BY DEF SubLines, StoredLines
<1>3. \A s, S, T : s \in Seq(S) /\ S \subseteq T => s \in Seq(T)
  OBVIOUS
<1> QED
  BY <1>1, <1>2, <1>3, Zenon

(* What a reference is replaced by. *)
Bodies(l) == [i \in DOMAIN Order(l.opts, store.defs[l.name]) |->
                 Order(l.opts, store.defs[l.name])[i].body]

LEMMA BodiesAre ==
    ASSUME DefsOK, NEW l \in SubLines, l.kind = "ref"
    PROVE  /\ BodiesOf(l) = FlattenSeq(Bodies(l))
           /\ Bodies(l) \in Seq(Seq(SubLines))
           /\ BodiesOf(l) \in Seq(SubLines)
<1> DEFINE D == Range(store.defs[l.name])
           defs == Order(l.opts, store.defs[l.name])
<1>1. l.name \in Names
  BY SubLinesAre
<1>2. defs \in Seq(D)
  <2>1. store.defs[l.name] \in Seq(D)
    BY <1>1 DEF DefsOK
  <2> QED
    BY <2>1, OrderKeeps
<1>3. ASSUME NEW d \in D PROVE d.body \in Seq(SubLines)
  BY <1>1, BodiesType
<1>4. BodiesOf(l) = FlattenSeq(Bodies(l))
  BY DEF BodiesOf, Bodies, Order
<1>5. Bodies(l) = [i \in DOMAIN defs |-> defs[i].body]
  BY DEF Bodies
<1> HIDE DEF defs, D
<1>6. Bodies(l) \in Seq(Seq(SubLines))
  BY <1>2, <1>3, <1>5
<1> QED
  BY <1>4, <1>6, FlattenType

(* Substitution and the lines that are not blank, as functions. *)
Substitute == [s \in Seq(SubLines) |-> Substitution(s)]

LEMMA SubstituteJoins ==
    ASSUME DefsOK
    PROVE  /\ Joins(Substitute, SubLines, SubLines)
           /\ \A l \in SubLines : Substitute[<<l>>] = IF l.kind = "ref" THEN BodiesOf(l) ELSE <<l>>
<1> DEFINE F == [l \in SubLines |-> IF l.kind = "ref" THEN BodiesOf(l) ELSE <<l>>]
           h == [s \in Seq(SubLines) |-> FlattenSeq([i \in 1..Len(s) |-> F[s[i]]])]
<1>1. F \in [SubLines -> Seq(SubLines)]
  <2>1. ASSUME NEW l \in SubLines
        PROVE  (IF l.kind = "ref" THEN BodiesOf(l) ELSE <<l>>) \in Seq(SubLines)
    <3>1. l.kind = "ref" => BodiesOf(l) \in Seq(SubLines)
      BY BodiesAre
    <3>2. <<l>> \in Seq(SubLines)
      OBVIOUS
    <3> QED
      BY <3>1, <3>2
  <2> QED
    BY <2>1
<1>2. ASSUME NEW s \in Seq(SubLines) PROVE Substitution(s) = FlattenSeq([i \in 1..Len(s) |-> F[s[i]]])
  <2>1. DOMAIN s = 1..Len(s) /\ \A i \in 1..Len(s) : s[i] \in SubLines
    OBVIOUS
  <2>2. [i \in DOMAIN s |-> IF s[i].kind = "ref" THEN BodiesOf(s[i]) ELSE <<s[i]>>]
          = [i \in 1..Len(s) |-> F[s[i]]]
    BY <2>1
  <2> QED
    BY <2>2 DEF Substitution
<1>3. \A l \in SubLines : F[l] = IF l.kind = "ref" THEN BodiesOf(l) ELSE <<l>>
  OBVIOUS
<1> HIDE DEF F
<1>4. Substitute = h
  BY <1>2 DEF Substitute
<1> HIDE DEF h
<1>5. Joins(h, SubLines, SubLines) /\ \A l \in SubLines : h[<<l>>] = F[l]
  <2>1. Gathers(h, F, SubLines, SubLines)
    BY <1>1 DEF h, Gathers
  <2> QED
    BY <2>1, GatherJoins
<1> QED
  BY <1>3, <1>4, <1>5

Shown == [s \in Seq(TextLines) |-> Visible(s)]

LEMMA ShownJoins ==
    /\ Joins(Shown, TextLines, TextLines)
    /\ \A l \in TextLines : Shown[<<l>>] = IF l.blank THEN <<>> ELSE <<l>>
<1> DEFINE F == [l \in TextLines |-> IF l.blank THEN <<>> ELSE <<l>>]
<1>1. F \in [TextLines -> Seq(TextLines)]
  <2>1. ASSUME NEW l \in TextLines PROVE (IF l.blank THEN <<>> ELSE <<l>>) \in Seq(TextLines)
    <3>1. <<>> \in Seq(TextLines) /\ <<l>> \in Seq(TextLines)
      OBVIOUS
    <3> QED
      BY <3>1
  <2> QED
    BY <2>1
<1>2. ASSUME NEW s \in Seq(TextLines) PROVE Visible(s) = FlattenSeq([i \in 1..Len(s) |-> F[s[i]]])
  <2>1. DOMAIN s = 1..Len(s) /\ \A i \in 1..Len(s) : s[i] \in TextLines
    OBVIOUS
  <2>2. [i \in DOMAIN s |-> IF s[i].blank THEN <<>> ELSE <<s[i]>>] = [i \in 1..Len(s) |-> F[s[i]]]
    BY <2>1
  <2> QED
    BY <2>2 DEF Visible
<1>3. \A l \in TextLines : F[l] = IF l.blank THEN <<>> ELSE <<l>>
  OBVIOUS
<1> HIDE DEF F
<1>4. Gathers(Shown, F, TextLines, TextLines)
  BY <1>1, <1>2 DEF Shown, Gathers
<1>5. Joins(Shown, TextLines, TextLines) /\ \A l \in TextLines : Shown[<<l>>] = F[l]
  BY <1>4, GatherJoins
<1> QED
  BY <1>3, <1>5

(* The visible texts of expanded lines. *)
TextsOf(x) == [i \in DOMAIN x |-> x[i].text]
ShownOf == [x \in Seq(OutLines) |-> Visible(TextsOf(x))]

LEMMA OutLinesAre ==
    ASSUME DefsOK, NEW x \in OutLines
    PROVE  x.text \in TextLines
<1>1. PICK c \in Names : \E d \in Range(store.defs[c]) : x \in OutLinesOf(c, d)
  BY DEF OutLines
<1>2. PICK d \in Range(store.defs[c]) : x \in OutLinesOf(c, d)
  BY <1>1
<1>3. PICK k \in DOMAIN d.body : x = OutLine(c, d, k) /\ d.body[k].kind # "ref"
  BY <1>2 DEF OutLinesOf
<1>4. d.body[k] \in SubLines
  <2>1. d.body[k] \in Range(d.body)
    BY DEF Range
  <2> QED
    BY <2>1 DEF SubLines, StoredLines
<1>5. x.text = d.body[k]
  BY <1>3 DEF OutLine
<1> QED
  BY <1>3, <1>4, <1>5, SubLinesAre DEF TextLines

LEMMA ShownOfJoins ==
    ASSUME DefsOK
    PROVE  /\ Joins(ShownOf, OutLines, TextLines)
           /\ \A x \in OutLines : ShownOf[<<x>>] = IF Blank(x) THEN <<>> ELSE <<x.text>>
<1> DEFINE F == [x \in OutLines |-> IF Blank(x) THEN <<>> ELSE <<x.text>>]
<1>1. F \in [OutLines -> Seq(TextLines)]
  <2>1. ASSUME NEW x \in OutLines
        PROVE  (IF Blank(x) THEN <<>> ELSE <<x.text>>) \in Seq(TextLines)
    <3>1. <<>> \in Seq(TextLines) /\ <<x.text>> \in Seq(TextLines)
      BY OutLinesAre
    <3> QED
      BY <3>1
  <2> QED
    BY <2>1
<1>2. ASSUME NEW s \in Seq(OutLines)
      PROVE  Visible(TextsOf(s)) = FlattenSeq([i \in 1..Len(s) |-> F[s[i]]])
  <2>1. DOMAIN s = 1..Len(s) /\ \A i \in 1..Len(s) : s[i] \in OutLines
    OBVIOUS
  <2>2. DOMAIN TextsOf(s) = 1..Len(s) /\ \A i \in 1..Len(s) : TextsOf(s)[i] = s[i].text
    BY <2>1 DEF TextsOf
  <2>3. [i \in DOMAIN TextsOf(s) |-> IF TextsOf(s)[i].blank THEN <<>> ELSE <<TextsOf(s)[i]>>]
          = [i \in 1..Len(s) |-> F[s[i]]]
    BY <2>1, <2>2 DEF Blank
  <2> QED
    BY <2>3 DEF Visible
<1>3. \A x \in OutLines : F[x] = IF Blank(x) THEN <<>> ELSE <<x.text>>
  OBVIOUS
<1> HIDE DEF F
<1>4. Gathers(ShownOf, F, OutLines, TextLines)
  BY <1>1, <1>2 DEF ShownOf, Gathers
<1>5. Joins(ShownOf, OutLines, TextLines) /\ \A x \in OutLines : ShownOf[<<x>>] = F[x]
  BY <1>4, GatherJoins
<1> QED
  BY <1>3, <1>5

(* Spacing options drop nothing but blank lines. *)
LEMMA SpacedShows ==
    ASSUME DefsOK, NEW opts, NEW x \in Seq(OutLines)
    PROVE  ShownOf[Spaced(opts, x)] = ShownOf[x]
<1> DEFINE v == ShownOf
<1>0. Joins(v, OutLines, TextLines)
      /\ \A z \in OutLines : v[<<z>>] = IF Blank(z) THEN <<>> ELSE <<z.text>>
  BY ShownOfJoins
<1> HIDE DEF v
<1>1. CASE "tight" \in opts
  <2> DEFINE F == [z \in OutLines |-> IF Blank(z) THEN <<>> ELSE <<z>>]
             h == [s \in Seq(OutLines) |-> FlattenSeq([i \in 1..Len(s) |-> F[s[i]]])]
  <2>1. F \in [OutLines -> Seq(OutLines)]
    <3>1. ASSUME NEW z \in OutLines PROVE (IF Blank(z) THEN <<>> ELSE <<z>>) \in Seq(OutLines)
      <4>1. <<>> \in Seq(OutLines) /\ <<z>> \in Seq(OutLines)
        OBVIOUS
      <4> QED
        BY <4>1
    <3> QED
      BY <3>1
  <2>2. \A z \in OutLines : F[z] = IF Blank(z) THEN <<>> ELSE <<z>>
    OBVIOUS
  <2>3. [i \in DOMAIN x |-> IF Blank(x[i]) THEN <<>> ELSE <<x[i]>>] = [i \in 1..Len(x) |-> F[x[i]]]
    OBVIOUS
  <2> HIDE DEF F
  <2>4. Spaced(opts, x) = h[x]
    BY <1>1, <2>3 DEF Spaced
  <2>5. PICK g : g = h
    OBVIOUS
  <2> HIDE DEF h
  <2>6. Joins(g, OutLines, OutLines) /\ \A z \in OutLines : g[<<z>>] = F[z]
    <3>1. Gathers(g, F, OutLines, OutLines)
      BY <2>1, <2>5 DEF h, Gathers
    <3> QED
      BY <3>1, GatherJoins
  <2>7. PICK c : c = [s \in Seq(OutLines) |-> v[g[s]]]
    OBVIOUS
  <2>8. Joins(c, OutLines, TextLines)
    BY <1>0, <2>6, <2>7, JoinsCompose
  <2>9. ASSUME NEW i \in 1..Len(x) PROVE c[<<x[i]>>] = v[<<x[i]>>]
    <3>1. x[i] \in OutLines /\ <<x[i]>> \in Seq(OutLines)
      OBVIOUS
    <3>2. c[<<x[i]>>] = v[F[x[i]]]
      BY <2>6, <2>7, <3>1
    <3>3. CASE Blank(x[i])
      <4>1. F[x[i]] = <<>> /\ v[<<x[i]>>] = <<>>
        BY <1>0, <2>2, <3>1, <3>3
      <4> QED
        BY <1>0, <3>2, <4>1 DEF Joins
    <3>4. CASE ~Blank(x[i])
      BY <2>2, <3>1, <3>2, <3>4
    <3> QED
      BY <3>3, <3>4
  <2>10. c[x] = v[x]
    BY <1>0, <2>8, <2>9, JoinsEqual
  <2> QED
    BY <2>4, <2>5, <2>7, <2>10 DEF v
<1>2. CASE "tight" \notin opts /\ "compact" \in opts
  <2> DEFINE K == {i \in DOMAIN x : ~Blank(x[i])}
  <2>1. Spaced(opts, x) = IF K = {} THEN <<>> ELSE SubSeq(x, Min(K), Max(K))
    BY <1>2 DEF Spaced, Trimmed
  <2>2. K \subseteq 1..Len(x) /\ Len(x) \in Nat
    OBVIOUS
  <2>3. ASSUME NEW i \in 1..Len(x), i \notin K PROVE v[<<x[i]>>] = <<>>
    <3>1. Blank(x[i]) /\ x[i] \in OutLines
      BY <2>3
    <3> QED
      BY <1>0, <3>1
  <2> HIDE DEF K
  <2>4. CASE K = {}
    <3>1. v[x] = <<>>
      BY <1>0, <2>3, <2>4, JoinsNothing
    <3> QED
      BY <1>0, <2>1, <2>4, <3>1 DEF Joins, v
  <2>5. CASE K # {}
    <3>1. PICK a : a = Min(K)
      OBVIOUS
    <3>2. PICK b : b = Max(K)
      OBVIOUS
    <3>3. /\ a \in 1..Len(x) /\ b \in 1..Len(x) /\ a <= b
          /\ \A i \in K : a <= i /\ i <= b
      BY <2>2, <2>5, <3>1, <3>2, MinAndMax
    <3>4. PICK pre : pre = SubSeq(x, 1, a - 1)
      OBVIOUS
    <3>5. PICK mid : mid = SubSeq(x, a, b)
      OBVIOUS
    <3>6. PICK post : post = SubSeq(x, b + 1, Len(x))
      OBVIOUS
    <3>7. /\ pre \in Seq(OutLines) /\ Len(pre) = a - 1 /\ \A i \in 1..(a - 1) : pre[i] = x[i]
      BY <2>2, <3>3, <3>4
    <3>8. /\ mid \in Seq(OutLines) /\ Len(mid) = (b - a) + 1
          /\ \A i \in 1..((b - a) + 1) : mid[i] = x[(a - 1) + i]
      BY <2>2, <3>3, <3>5
    <3>9. /\ post \in Seq(OutLines) /\ Len(post) = Len(x) - b
          /\ \A i \in 1..(Len(x) - b) : post[i] = x[b + i]
      BY <2>2, <3>3, <3>6
    <3>10. PICK u : u = pre \o mid
      OBVIOUS
    <3>11. u \in Seq(OutLines) /\ Len(u) = b /\ \A i \in 1..b : u[i] = x[i]
      <4>1. u \in Seq(OutLines) /\ Len(u) = Len(pre) + Len(mid)
            /\ \A i \in 1..(Len(pre) + Len(mid)) :
                  u[i] = IF i <= Len(pre) THEN pre[i] ELSE mid[i - Len(pre)]
        BY <3>7, <3>8, <3>10, ConcatProperties
      <4> QED
        BY <3>3, <3>7, <3>8, <4>1
    <3>12. PICK w : w = u \o post
      OBVIOUS
    <3>13. w = x
      <4>1. w \in Seq(OutLines) /\ Len(w) = Len(u) + Len(post)
            /\ \A i \in 1..(Len(u) + Len(post)) :
                  w[i] = IF i <= Len(u) THEN u[i] ELSE post[i - Len(u)]
        BY <3>9, <3>11, <3>12, ConcatProperties
      <4>2. Len(w) = Len(x)
        BY <2>2, <3>3, <3>9, <3>11, <4>1
      <4>3. \A i \in 1..Len(w) : w[i] = x[i]
        BY <2>2, <3>3, <3>9, <3>11, <4>1, <4>2
      <4> QED
        BY <4>1, <4>2, <4>3, SeqEqual
    <3>14. v[pre] = <<>>
      <4>1. \A i \in 1..Len(pre) : v[<<pre[i]>>] = <<>>
        BY <2>2, <2>3, <3>3, <3>7
      <4> QED
        BY <1>0, <3>7, <4>1, JoinsNothing
    <3>15. v[post] = <<>>
      <4>1. \A i \in 1..Len(post) : v[<<post[i]>>] = <<>>
        <5>1. ASSUME NEW i \in 1..Len(post) PROVE b + i \in 1..Len(x) /\ b + i \notin K /\ post[i] = x[b + i]
          BY <2>2, <3>3, <3>9
        <5> QED
          BY <2>3, <5>1
      <4> QED
        BY <1>0, <3>9, <4>1, JoinsNothing
    <3>16. v[u] = v[pre] \o v[mid] /\ v[w] = v[u] \o v[post] /\ v[mid] \in Seq(TextLines)
      BY <1>0, <3>7, <3>8, <3>9, <3>10, <3>11, <3>12 DEF Joins
    <3>17. v[x] = v[mid]
      BY <3>13, <3>14, <3>15, <3>16, ConcatEmptySeq
    <3>18. Spaced(opts, x) = mid
      BY <2>1, <2>5, <3>1, <3>2, <3>5
    <3> QED
      BY <3>17, <3>18 DEF v
  <2> QED
    BY <2>4, <2>5
<1>3. CASE "tight" \notin opts /\ "compact" \notin opts
  BY <1>3 DEF Spaced
<1> QED
  BY <1>1, <1>2, <1>3

(* Substitution over and over. *)
Powers(p) ==
    /\ p \in [Nat -> [Seq(SubLines) -> Seq(SubLines)]]
    /\ \A s \in Seq(SubLines) : p[0][s] = s
    /\ \A k \in Nat, s \in Seq(SubLines) : p[k + 1][s] = Substitute[p[k][s]]

LEMMA PowersExist == DefsOK => \E p : Powers(p)
<1> SUFFICES ASSUME DefsOK PROVE \E p : Powers(p)
  OBVIOUS
<1> DEFINE S == [Seq(SubLines) -> Seq(SubLines)]
           a == [s \in Seq(SubLines) |-> s]
           F == [h \in S |-> [s \in Seq(SubLines) |-> Substitute[h[s]]]]
<1>1. \A s \in Seq(SubLines) : Substitute[s] \in Seq(SubLines)
  BY SubstituteJoins DEF Joins
<1>2. a \in S /\ F \in [S -> S]
  BY <1>1
<1>3. PICK p : Iterates(p, S, a, F)
  <2> HIDE DEF S, F, a
  <2> QED
    BY <1>2, IterationExists
<1>4. p \in [Nat -> S] /\ p[0] = a /\ \A k \in Nat : p[k + 1] = F[p[k]]
  BY <1>3 DEF Iterates
<1>5. ASSUME NEW k \in Nat, NEW s \in Seq(SubLines) PROVE p[k + 1][s] = Substitute[p[k][s]]
  <2>1. p[k] \in S /\ p[k + 1] = F[p[k]]
    BY <1>4
  <2>2. F[p[k]] = [t \in Seq(SubLines) |-> Substitute[p[k][t]]]
    BY <2>1
  <2> HIDE DEF F
  <2> QED
    BY <2>1, <2>2
<1>6. \A s \in Seq(SubLines) : p[0][s] = s
  BY <1>4
<1>7. p \in [Nat -> [Seq(SubLines) -> Seq(SubLines)]]
  BY <1>4
<1>8. Powers(p)
  BY <1>5, <1>6, <1>7 DEF Powers
<1> QED
  BY <1>8

LEMMA PowerJoins ==
    ASSUME DefsOK, NEW p, Powers(p), NEW k \in Nat
    PROVE  Joins(p[k], SubLines, SubLines)
<1> DEFINE Good == {i \in Nat : Joins(p[i], SubLines, SubLines)}
<1>1. 0 \in Good
  <2>1. p[0] \in [Seq(SubLines) -> Seq(SubLines)] /\ \A s \in Seq(SubLines) : p[0][s] = s
    BY DEF Powers
  <2>2. \A s \in Seq(SubLines), t \in Seq(SubLines) : s \o t \in Seq(SubLines)
    BY ConcatProperties
  <2>3. <<>> \in Seq(SubLines)
    OBVIOUS
  <2> QED
    BY <2>1, <2>2, <2>3 DEF Joins
<1>2. ASSUME NEW i \in Nat, i \in Good PROVE i + 1 \in Good
  <2>1. PICK c : c = [s \in Seq(SubLines) |-> Substitute[p[i][s]]]
    OBVIOUS
  <2>2. Joins(c, SubLines, SubLines)
    BY <1>2, <2>1, SubstituteJoins, JoinsCompose
  <2>3. c = p[i + 1]
    <3>1. p[i + 1] \in [Seq(SubLines) -> Seq(SubLines)]
          /\ \A s \in Seq(SubLines) : p[i + 1][s] = Substitute[p[i][s]]
      BY DEF Powers
    <3> QED
      BY <2>1, <3>1
  <2> QED
    BY <2>2, <2>3
<1> HIDE DEF Good
<1>3. Nat \subseteq Good
  BY <1>1, <1>2, NatSets
<1> QED
  BY <1>3 DEF Good

(* The first of several substitutions may as well be made on its own. *)
LEMMA PowerCommutes ==
    ASSUME DefsOK, NEW p, Powers(p), NEW k \in Nat, NEW s \in Seq(SubLines)
    PROVE  p[k + 1][s] = p[k][Substitute[s]]
<1> DEFINE Good == {i \in Nat : p[i + 1][s] = p[i][Substitute[s]]}
<1>1. \A t \in Seq(SubLines) : Substitute[t] \in Seq(SubLines)
  BY SubstituteJoins DEF Joins
<1>2. /\ \A t \in Seq(SubLines) : p[0][t] = t
      /\ \A i \in Nat, t \in Seq(SubLines) : /\ p[i + 1][t] = Substitute[p[i][t]]
                                           /\ p[i][t] \in Seq(SubLines)
  BY DEF Powers
<1>3. 0 \in Good
  <2>1. p[0 + 1][s] = Substitute[p[0][s]] /\ p[0][s] = s /\ p[0][Substitute[s]] = Substitute[s]
    BY <1>1, <1>2
  <2> QED
    BY <2>1
<1>4. ASSUME NEW i \in Nat, i \in Good PROVE i + 1 \in Good
  <2>1. p[i + 1][s] = p[i][Substitute[s]]
    BY <1>4
  <2>2. PICK j \in Nat : j = i + 1
    OBVIOUS
  <2>3. p[j + 1][s] = Substitute[p[j][s]]
    BY <1>2
  <2>4. p[i + 1][Substitute[s]] = Substitute[p[i][Substitute[s]]]
    BY <1>1, <1>2
  <2>5. p[j + 1][s] = p[j][Substitute[s]]
    BY <2>1, <2>2, <2>3, <2>4
  <2> QED
    BY <2>2, <2>5
<1> HIDE DEF Good
<1>5. Nat \subseteq Good
  BY <1>3, <1>4, NatSets
<1> QED
  BY <1>5 DEF Good

LEMMA PowerOfText ==
    ASSUME DefsOK, NEW p, Powers(p), NEW k \in Nat, NEW l \in TextLines
    PROVE  p[k][<<l>>] = <<l>>
<1> DEFINE Good == {i \in Nat : p[i][<<l>>] = <<l>>}
<1>1. l \in SubLines /\ <<l>> \in Seq(SubLines) /\ l.kind = "text"
  BY DEF TextLines
<1>2. 0 \in Good
  BY <1>1 DEF Powers
<1>3. ASSUME NEW i \in Nat, i \in Good PROVE i + 1 \in Good
  <2>1. p[i + 1][<<l>>] = Substitute[p[i][<<l>>]] /\ p[i][<<l>>] = <<l>>
    BY <1>1, <1>3 DEF Powers
  <2>2. Substitute[<<l>>] = <<l>>
    BY <1>1, SubstituteJoins
  <2> QED
    BY <2>1, <2>2
<1> HIDE DEF Good
<1>4. Nat \subseteq Good
  BY <1>2, <1>3, NatSets
<1> QED
  BY <1>4 DEF Good

(* What has the text of substituted lines: h, the substitution, against    *)
(* lines that were expanded.                                               *)
SameText(t, lines) == t \in Seq(TextLines) /\ Shown[t] = ShownOf[lines]

(* The expansions below agree with the substitution h. *)
Agrees(below, h) ==
    \A x \in Calls, l \in SubLines :
        below[x].err = "none" /\ l.kind = "ref" /\ l.name = x.chunk /\ l.opts = x.opts =>
            SameText(h[<<l>>], below[x].lines)

(* Parts with the same text, joined together. *)
SameTexts(f, parts, ls) ==
    Len(ls) = Len(parts) /\ \A i \in 1..Len(parts) : SameText(f[parts[i]], ls[i])

LEMMA SameTextJoined ==
    ASSUME DefsOK, NEW parts \in Seq(Seq(SubLines)), NEW f, Joins(f, SubLines, SubLines),
           NEW ls \in Seq(Seq(OutLines)), SameTexts(f, parts, ls)
    PROVE  SameText(f[FlattenSeq(parts)], FlattenSeq(ls))
<1>1. PICK t : t = [i \in 1..Len(parts) |-> f[parts[i]]]
  OBVIOUS
<1>2. t \in Seq(Seq(TextLines)) /\ Len(t) = Len(parts) /\ \A i \in 1..Len(parts) : Shown[t[i]] = ShownOf[ls[i]]
  <2>1. \A i \in 1..Len(parts) : f[parts[i]] \in Seq(TextLines) /\ Shown[f[parts[i]]] = ShownOf[ls[i]]
    BY DEF SameText, SameTexts
  <2> QED
    BY <1>1, <2>1
<1>3. f[FlattenSeq(parts)] = FlattenSeq(t)
  <2>1. f[FlattenSeq(parts)] = FlattenSeq([i \in 1..Len(parts) |-> f[parts[i]]])
    BY JoinsFlatten
  <2> QED
    BY <1>1, <2>1
<1>4. FlattenSeq(t) \in Seq(TextLines)
  BY <1>2, FlattenType
<1>5. Shown[FlattenSeq(t)] = FlattenSeq([i \in 1..Len(t) |-> Shown[t[i]]])
  BY <1>2, ShownJoins, JoinsFlatten
<1>6. ShownOf[FlattenSeq(ls)] = FlattenSeq([i \in 1..Len(ls) |-> ShownOf[ls[i]]])
  BY ShownOfJoins, JoinsFlatten
<1>7. [i \in 1..Len(t) |-> Shown[t[i]]] = [i \in 1..Len(ls) |-> ShownOf[ls[i]]]
  BY <1>2 DEF SameTexts
<1>8. Shown[FlattenSeq(t)] = ShownOf[FlattenSeq(ls)]
  BY <1>5, <1>6, <1>7
<1> QED
  BY <1>3, <1>4, <1>8 DEF SameText

(* What is joined without a failure. *)
LEMMA JoinedLines ==
    ASSUME NEW rs \in Seq(Results), Joined(rs).err = "none"
    PROVE  /\ \A i \in 1..Len(rs) : rs[i].err = "none"
           /\ [i \in 1..Len(rs) |-> rs[i].lines] \in Seq(Seq(OutLines))
           /\ Joined(rs).lines = FlattenSeq([i \in 1..Len(rs) |-> rs[i].lines])
<1>1. DOMAIN rs = 1..Len(rs) /\ \A i \in 1..Len(rs) : rs[i].lines \in Seq(OutLines)
  <2>1. DOMAIN rs = 1..Len(rs) /\ \A i \in 1..Len(rs) : rs[i] \in Results
    OBVIOUS
  <2> QED
    BY <2>1 DEF Results
<1>2. [i \in 1..Len(rs) |-> rs[i].lines] \in Seq(Seq(OutLines))
  BY <1>1
<1>3. \A i \in 1..Len(rs) : rs[i].err = "none"
  BY <1>1, JoinedResults
<1>4. Joined(rs).lines = FlattenSeq([i \in DOMAIN rs |-> rs[i].lines])
  BY DEF Joined
<1>5. [i \in DOMAIN rs |-> rs[i].lines] = [i \in 1..Len(rs) |-> rs[i].lines]
  BY <1>1
<1> QED
  BY <1>2, <1>3, <1>4, <1>5

LEMMA ItemText ==
    ASSUME DefsOK, NEW below \in [Calls -> Results], NEW x \in Calls,
           NEW d \in Range(store.defs[x.chunk]), NEW k \in DOMAIN d.body,
           NEW h, Agrees(below, h), \A t \in TextLines : h[<<t>>] = <<t>>,
           Item(below, x, d, k).err = "none"
    PROVE  SameText(h[<<d.body[k]>>], Item(below, x, d, k).lines)
<1> DEFINE l == d.body[k]
<1>1. l \in SubLines /\ x.chunk \in Names
  <2>1. x.chunk \in Names /\ d.body[k] \in Range(d.body)
    BY DEF Calls, Range
  <2> QED
    BY <2>1 DEF SubLines, StoredLines
<1>2. CASE l.kind = "ref"
  <2>1. PICK z : z = SubCall(x, l)
    OBVIOUS
  <2>2. z \in Calls /\ z.chunk = l.name /\ z.opts = l.opts
    BY <1>2, <2>1, ItemResults DEF SubCall
  <2>3. below[z] \in Results /\ below[z].lines \in Seq(OutLines)
    BY <2>2 DEF Results
  <2>4. Item(below, x, d, k).err = below[z].err
        /\ Item(below, x, d, k).lines = Spaced(l.opts, below[z].lines)
    BY <1>2, <2>1 DEF Item, SubCall
  <2> HIDE DEF l
  <2>5. SameText(h[<<l>>], below[z].lines)
    BY <1>1, <1>2, <2>2, <2>4 DEF Agrees
  <2>6. ShownOf[Spaced(l.opts, below[z].lines)] = ShownOf[below[z].lines]
    BY <2>3, SpacedShows
  <2>7. SameText(h[<<l>>], Spaced(l.opts, below[z].lines))
    BY <2>5, <2>6 DEF SameText
  <2> QED
    BY <2>4, <2>7 DEF l
<1>3. CASE l.kind # "ref"
  <2>1. PICK y : y = OutLine(x.chunk, d, k)
    OBVIOUS
  <2>2. y \in OutLines
    <3>1. y \in OutLinesOf(x.chunk, d)
      BY <1>3, <2>1 DEF OutLinesOf
    <3> QED
      BY <1>1, <3>1 DEF OutLines
  <2>3. y.text = l
    BY <2>1 DEF OutLine
  <2>4. Item(below, x, d, k).lines = <<y>>
    BY <1>3, <2>1 DEF Item, Nothing
  <2>5. l \in TextLines
    BY <2>2, <2>3, OutLinesAre
  <2> HIDE DEF l
  <2>6. h[<<l>>] = <<l>> /\ <<l>> \in Seq(TextLines)
    BY <2>5
  <2>7. Shown[<<l>>] = IF l.blank THEN <<>> ELSE <<l>>
    BY <2>5, ShownJoins
  <2>8. ShownOf[<<y>>] = IF l.blank THEN <<>> ELSE <<l>>
    BY <2>2, <2>3, ShownOfJoins DEF Blank
  <2>9. SameText(h[<<l>>], <<y>>)
    BY <2>6, <2>7, <2>8 DEF SameText
  <2> QED
    BY <2>4, <2>9 DEF l
<1> QED
  BY <1>2, <1>3

LEMMA DefinitionText ==
    ASSUME DefsOK, NEW below \in [Calls -> Results], NEW x \in Calls,
           NEW d \in Range(store.defs[x.chunk]),
           NEW h, Joins(h, SubLines, SubLines), Agrees(below, h),
           \A t \in TextLines : h[<<t>>] = <<t>>,
           Definition(below, x, d).err = "none"
    PROVE  SameText(h[d.body], Definition(below, x, d).lines)
<1>1. PICK rs : rs = [k \in DOMAIN d.body |-> Item(below, x, d, k)]
  OBVIOUS
<1>2. d.body \in Seq(SubLines) /\ DOMAIN d.body = 1..Len(d.body)
  <2>1. d.body \in Seq(SubLines)
    BY BodiesType DEF Calls
  <2> QED
    BY <2>1
<1>3. ASSUME NEW k \in DOMAIN d.body PROVE Item(below, x, d, k) \in Results
  BY ItemResults
<1>4. rs \in Seq(Results) /\ Len(rs) = Len(d.body)
      /\ \A k \in 1..Len(d.body) : rs[k] = Item(below, x, d, k)
  BY <1>1, <1>2, <1>3
<1>5. Definition(below, x, d) = [Joined(rs) EXCEPT !.lines = Spaced(x.opts, @)]
  BY <1>1 DEF Definition
<1>6. Joined(rs) \in Results
  BY <1>4, JoinedResults
<1>7. PICK j : j = Joined(rs)
  OBVIOUS
<1>8. j.lines \in Seq(OutLines) /\ j.err = "none"
      /\ Definition(below, x, d).lines = Spaced(x.opts, j.lines)
  BY <1>5, <1>6, <1>7 DEF Results
<1>9. PICK ls : ls = [i \in 1..Len(rs) |-> rs[i].lines]
  OBVIOUS
<1>10. /\ \A i \in 1..Len(rs) : rs[i].err = "none"
       /\ ls \in Seq(Seq(OutLines)) /\ j.lines = FlattenSeq(ls)
  BY <1>4, <1>7, <1>8, <1>9, JoinedLines
<1>11. PICK q : q = [i \in 1..Len(d.body) |-> <<d.body[i]>>]
  OBVIOUS
<1>12. q \in Seq(Seq(SubLines)) /\ Len(q) = Len(d.body) /\ FlattenSeq(q) = d.body
       /\ \A i \in 1..Len(q) : q[i] = <<d.body[i]>>
  <2>1. \A i \in 1..Len(d.body) : <<d.body[i]>> \in Seq(SubLines)
    BY <1>2
  <2>2. q \in Seq(Seq(SubLines)) /\ Len(q) = Len(d.body)
    BY <1>2, <1>11, <2>1
  <2>3. FlattenSeq(q) = d.body
    BY <1>2, <1>11, FlattenSingles
  <2> QED
    BY <1>11, <2>2, <2>3
<1>13. ASSUME NEW i \in 1..Len(q) PROVE SameText(h[q[i]], ls[i])
  <2>1. i \in DOMAIN d.body /\ i \in 1..Len(rs) /\ q[i] = <<d.body[i]>>
        /\ ls[i] = Item(below, x, d, i).lines /\ Item(below, x, d, i).err = "none"
    BY <1>2, <1>4, <1>9, <1>10, <1>12
  <2>2. SameText(h[<<d.body[i]>>], Item(below, x, d, i).lines)
    BY <2>1, ItemText
  <2> QED
    BY <2>1, <2>2
<1>14. Len(ls) = Len(q)
  BY <1>4, <1>9, <1>10, <1>12
<1>17. SameTexts(h, q, ls)
  BY <1>13, <1>14 DEF SameTexts
<1>15. SameText(h[d.body], j.lines)
  BY <1>10, <1>12, <1>17, SameTextJoined
<1>16. ShownOf[Spaced(x.opts, j.lines)] = ShownOf[j.lines]
  BY <1>8, SpacedShows
<1> QED
  BY <1>8, <1>15, <1>16 DEF SameText

LEMMA ExpandedText ==
    ASSUME DefsOK, NEW below \in [Calls -> Results], NEW x \in Calls,
           NEW h, Joins(h, SubLines, SubLines), Agrees(below, h),
           \A t \in TextLines : h[<<t>>] = <<t>>,
           NEW l \in SubLines, l.kind = "ref", l.name = x.chunk, l.opts = x.opts,
           Expanded(below, x).err = "none"
    PROVE  SameText(h[BodiesOf(l)], Expanded(below, x).lines)
<1> DEFINE D == Range(store.defs[x.chunk])
<1>1. PICK defs : defs = Order(x.opts, store.defs[x.chunk])
  OBVIOUS
<1>2. /\ defs \in Seq(D) /\ DOMAIN defs = 1..Len(defs)
      /\ \A i \in 1..Len(defs) : defs[i] \in D
  <2>1. store.defs[x.chunk] \in Seq(D)
    BY DEF DefsOK, Calls
  <2>2. defs \in Seq(D)
    BY <1>1, <2>1, OrderKeeps
  <2> QED
    BY <2>2
<1>3. PICK q : q = Bodies(l)
  OBVIOUS
<1>4. /\ q \in Seq(Seq(SubLines)) /\ BodiesOf(l) = FlattenSeq(q)
      /\ Len(q) = Len(defs) /\ \A i \in 1..Len(q) : q[i] = defs[i].body
  <2>1. q \in Seq(Seq(SubLines)) /\ BodiesOf(l) = FlattenSeq(q)
    BY <1>3, BodiesAre
  <2>2. q = [i \in DOMAIN defs |-> defs[i].body]
    BY <1>1, <1>3 DEF Bodies
  <2> QED
    BY <1>2, <2>1, <2>2
<1>5. ~OnCycle(x.stack, x.chunk)
  BY FailedResults DEF Expanded, ExpandErrors
<1>6. CASE defs = <<>>
  <2>1. Expanded(below, x) = IF strict THEN Failed("UndefinedChunk") ELSE Nothing
    BY <1>1, <1>5, <1>6 DEF Expanded
  <2>2. Expanded(below, x) = Nothing
    BY <2>1, FailedResults DEF ExpandErrors
  <2>3. Nothing.lines = <<>>
    BY DEF Nothing
  <2>4. q = <<>>
    BY <1>4, <1>6
  <2>5. FlattenSeq(q) = <<>>
    BY <2>4 DEF FlattenSeq
  <2>6. h[<<>>] = <<>> /\ ShownOf[<<>>] = <<>> /\ Shown[<<>>] = <<>>
    BY ShownJoins, ShownOfJoins DEF Joins
  <2>7. <<>> \in Seq(TextLines)
    OBVIOUS
  <2> QED
    BY <1>4, <2>2, <2>3, <2>5, <2>6, <2>7 DEF SameText
<1>7. CASE defs # <<>>
  <2>1. PICK rs : rs = [i \in DOMAIN defs |-> Definition(below, x, defs[i])]
    OBVIOUS
  <2>2. Expanded(below, x) = Joined(rs)
    BY <1>1, <1>5, <1>7, <2>1 DEF Expanded
  <2>3. ASSUME NEW i \in DOMAIN defs PROVE Definition(below, x, defs[i]) \in Results
    BY <1>2, DefinitionResults
  <2>4. rs \in Seq(Results) /\ Len(rs) = Len(defs)
        /\ \A i \in 1..Len(defs) : rs[i] = Definition(below, x, defs[i])
    BY <1>2, <2>1, <2>3
  <2>5. PICK ls : ls = [i \in 1..Len(rs) |-> rs[i].lines]
    OBVIOUS
  <2>6. Joined(rs).err = "none"
    BY <2>2
  <2>7. /\ \A i \in 1..Len(rs) : rs[i].err = "none"
        /\ ls \in Seq(Seq(OutLines)) /\ Joined(rs).lines = FlattenSeq(ls)
    BY <2>4, <2>5, <2>6, JoinedLines
  <2>8. ASSUME NEW i \in 1..Len(q) PROVE SameText(h[q[i]], ls[i])
    <3>1. PICK d : d = defs[i]
      OBVIOUS
    <3>2. /\ d \in D /\ Definition(below, x, d).err = "none"
          /\ q[i] = d.body /\ ls[i] = Definition(below, x, d).lines
      BY <1>2, <1>4, <2>4, <2>5, <2>7, <3>1
    <3>3. SameText(h[d.body], Definition(below, x, d).lines)
      BY <3>2, DefinitionText
    <3> QED
      BY <3>2, <3>3
  <2>9. Len(ls) = Len(q)
    BY <1>4, <2>4, <2>5, <2>7
  <2>11. SameTexts(h, q, ls)
    BY <2>8, <2>9 DEF SameTexts
  <2>10. SameText(h[FlattenSeq(q)], FlattenSeq(ls))
    BY <1>4, <2>7, <2>11, SameTextJoined
  <2> QED
    BY <1>4, <2>2, <2>7, <2>10
<1> QED
  BY <1>6, <1>7

(* An expansion that ends well has the text that as many substitutions as  *)
(* it may use levels make of the reference it is for.                      *)
LEMMA LevelTexts ==
    ASSUME DefsOK, NEW e, Levels(e), NEW p, Powers(p), NEW m \in Nat
    PROVE  Agrees(e[m], p[m])
<1> DEFINE Good == {k \in Nat : Agrees(e[k], p[k])}
<1>1. 0 \in Good
  <2>1. ASSUME NEW z \in Calls PROVE e[0][z].err # "none"
    BY FailedResults DEF Levels, ExpandErrors
  <2> QED
    BY <2>1 DEF Agrees
<1>2. ASSUME NEW k \in Nat, k \in Good PROVE k + 1 \in Good
  <2> SUFFICES Agrees(e[k + 1], p[k + 1])
    OBVIOUS
  <2> SUFFICES ASSUME NEW x \in Calls, NEW l \in SubLines, e[k + 1][x].err = "none",
                      l.kind = "ref", l.name = x.chunk, l.opts = x.opts
               PROVE  SameText(p[k + 1][<<l>>], e[k + 1][x].lines)
    BY DEF Agrees
  <2>1. PICK below : below = e[k]
    OBVIOUS
  <2>2. PICK h : h = p[k]
    OBVIOUS
  <2>3. below \in [Calls -> Results] /\ e[k + 1][x] = Expanded(below, x)
    BY <2>1 DEF Levels
  <2>4. Joins(h, SubLines, SubLines) /\ \A t \in TextLines : h[<<t>>] = <<t>>
    BY <2>2, PowerJoins, PowerOfText
  <2>5. Agrees(below, h)
    BY <1>2, <2>1, <2>2
  <2>6. SameText(h[BodiesOf(l)], Expanded(below, x).lines)
    BY <2>3, <2>4, <2>5, ExpandedText
  <2>7. <<l>> \in Seq(SubLines) /\ Substitute[<<l>>] = BodiesOf(l)
    BY SubstituteJoins
  <2>8. p[k + 1][<<l>>] = p[k][Substitute[<<l>>]]
    BY <2>7, PowerCommutes
  <2> QED
    BY <2>2, <2>3, <2>6, <2>7, <2>8
<1> HIDE DEF Good
<1>3. Nat \subseteq Good
  BY <1>1, <1>2, NatSets
<1> QED
  BY <1>3 DEF Good

(* The substitutions made of the reference to a chunk. *)
Substitutes(g, c) ==
    /\ g = [k \in Nat |-> g[k]]
    /\ g[0] = <<RootRef(c)>>
    /\ \A k \in Nat : g[k + 1] = Substitution(g[k])

(* The text of the substituted lines t, and that of an output. *)
TextOf(t, lines) ==
    /\ t \in Seq(Range(t)) /\ \A l \in Range(t) : l.kind = "text"
    /\ Visible([k \in DOMAIN lines |-> lines[k].text]) = Visible(t)

LEMMA ExpansionText ==
    ASSUME DefsOK, NEW c \in Names, Expansion(c).err = "none"
    PROVE  \E g : Substitutes(g, c) /\ TextOf(g[MaxDepth + 1], Expansion(c).lines)
<1> DEFINE x == RootCall(c)
           l == RootRef(c)
<1>1. PICK e : Levels(e) /\ Expansion(c) = e[MaxDepth + 1][x]
  BY ExpansionLevels
<1>2. x \in Calls /\ x.chunk = c /\ x.opts = {} /\ MaxDepth + 1 \in Nat
  BY ExpansionLevels, ConstantsOK DEF RootCall
<1>3. l \in SubLines /\ l.kind = "ref" /\ l.name = c /\ l.opts = {} /\ <<l>> \in Seq(SubLines)
  <2>1. l \in SubLines
    BY DEF SubLines
  <2>2. l.kind = "ref" /\ l.name = c /\ l.opts = {}
    BY DEF RootRef
  <2> QED
    BY <2>1, <2>2
<1> HIDE DEF x, l
<1>4. PICK p : Powers(p)
  BY PowersExist
<1>5. PICK m \in Nat : m = MaxDepth + 1
  BY <1>2
<1>6. Agrees(e[m], p[m])
  BY <1>1, <1>4, LevelTexts
<1>7. SameText(p[m][<<l>>], Expansion(c).lines)
  BY <1>1, <1>2, <1>3, <1>5, <1>6 DEF Agrees
<1>8. PICK g : g = [k \in Nat |-> p[k][<<l>>]]
  OBVIOUS
<1>9. Substitutes(g, c)
  <2>1. g[0] = <<l>>
    BY <1>3, <1>4, <1>8 DEF Powers
  <2>2. ASSUME NEW k \in Nat PROVE g[k + 1] = Substitution(g[k])
    <3>1. p[k + 1][<<l>>] = Substitute[p[k][<<l>>]] /\ p[k][<<l>>] \in Seq(SubLines)
      BY <1>3, <1>4 DEF Powers
    <3>2. g[k] = p[k][<<l>>] /\ g[k + 1] = p[k + 1][<<l>>]
      BY <1>8
    <3> QED
      BY <3>1, <3>2 DEF Substitute
  <2>3. g = [k \in Nat |-> g[k]]
    BY <1>8
  <2> QED
    BY <2>1, <2>2, <2>3 DEF Substitutes, l
<1>10. PICK t : t = g[m]
  OBVIOUS
<1>11. Expansion(c).lines \in Seq(OutLines)
  <2>1. Expansion(c) \in Results
    BY <1>1, <1>2 DEF Levels
  <2> QED
    BY <2>1 DEF Results
<1>12. t \in Seq(TextLines) /\ Shown[t] = ShownOf[Expansion(c).lines]
  BY <1>7, <1>8, <1>10 DEF SameText
<1>13. Visible(TextsOf(Expansion(c).lines)) = Visible(t)
  BY <1>11, <1>12 DEF Shown, ShownOf
<1>14. t \in Seq(Range(t)) /\ \A y \in Range(t) : y.kind = "text"
  <2>1. DOMAIN t = 1..Len(t) /\ \A i \in 1..Len(t) : t[i] \in TextLines
    BY <1>12
  <2> QED
    BY <1>12, <2>1 DEF Range, TextLines
<1>15. TextOf(t, Expansion(c).lines)
  BY <1>13, <1>14 DEF TextOf, TextsOf
<1> QED
  BY <1>5, <1>9, <1>10, <1>15

(* What recursion defines is the only such sequence of substitutions. *)
LEMMA SubstitutedIs ==
    ASSUME NEW c, NEW g, Substitutes(g, c)
    PROVE  Substituted(c) = g[MaxDepth + 1]
<1> DEFINE Eq(f) == f = [k \in Nat |-> IF k = 0 THEN <<RootRef(c)>> ELSE Substitution(f[k - 1])]
           t == CHOOSE f : Eq(f)
<1>1. Eq(g)
  <2>1. ASSUME NEW k \in Nat
        PROVE  g[k] = IF k = 0 THEN <<RootRef(c)>> ELSE Substitution(g[k - 1])
    <3>1. CASE k = 0
      BY <3>1 DEF Substitutes
    <3>2. CASE k # 0
      <4>1. k - 1 \in Nat /\ (k - 1) + 1 = k
        BY <3>2
      <4>2. g[(k - 1) + 1] = Substitution(g[k - 1])
        BY <4>1 DEF Substitutes
      <4> QED
        BY <3>2, <4>1, <4>2
    <3> QED
      BY <3>1, <3>2
  <2>2. g = [k \in Nat |-> g[k]]
    BY DEF Substitutes
  <2> QED
    BY <2>1, <2>2
<1>2. Eq(t)
  BY <1>1, Zenon
<1>3. \A k \in Nat : t[k] = IF k = 0 THEN <<RootRef(c)>> ELSE Substitution(t[k - 1])
  BY <1>2, Zenon
<1>4. Substituted(c) = t[MaxDepth + 1]
  BY DEF Substituted
<1> HIDE DEF t
<1> DEFINE Same == {k \in Nat : t[k] = g[k]}
<1>5. 0 \in Same
  BY <1>3 DEF Substitutes
<1>6. ASSUME NEW k \in Nat, k \in Same PROVE k + 1 \in Same
  <2>1. k + 1 \in Nat /\ k + 1 # 0 /\ (k + 1) - 1 = k
    OBVIOUS
  <2>2. t[k + 1] = Substitution(t[(k + 1) - 1])
    BY <1>3, <2>1
  <2>3. g[k + 1] = Substitution(g[k])
    BY DEF Substitutes
  <2> QED
    BY <1>6, <2>1, <2>2, <2>3
<1> HIDE DEF Same
<1>7. Nat \subseteq Same
  BY <1>5, <1>6, NatSets
<1> QED
  BY <1>4, <1>7, ConstantsOK DEF Same
-----------------------------------------------------------------------------
(* The pass.  What is known of an output, and of a failure, is stated with *)
(* closed sets and walks, which a step that keeps the store keeps as they  *)
(* are.                                                                    *)

IsClosed(c, X) == c \in X /\ \A x \in X : RefsOf(x) \subseteq X
IsLeastClosed(c, R) ==
    /\ R \subseteq Names /\ IsClosed(c, R)
    /\ \A X \in SUBSET Names : IsClosed(c, X) => R \subseteq X

IsWritten(r) ==
    /\ r.name \in Names
    /\ r.lines \in Seq(OutLines)
    /\ \A R : IsLeastClosed(r.name, R) => r.deps = UNION {EdgesOf(c) : c \in R}
    /\ \A v : IsWalk(r.name, v) => Harmless(<<>>, v, MaxDepth + 1)
    /\ \E g : Substitutes(g, r.name) /\ TextOf(g[MaxDepth + 1], r.lines)

HasReason ==
    err \in ExpandErrors \ {"none"} =>
        /\ n + 1 \in DOMAIN store.files
        /\ \E v : IsWalk(store.files[n + 1], v) /\ Blamed(err, <<>>, v, MaxDepth + 1)

(* What else a pass may fail with: when it has read the sources, or when it *)
(* writes an output (Incremental).                                         *)
OtherErrors == {"FileChunkRedefinition", "FormatterError", "ModifiedExternally"}

TypeI ==
    /\ IsProject(texts)
    /\ strict \in BOOLEAN
    /\ pc \in {"read", "expand", "done", "failed"}
    /\ store \in StoreType
    /\ n \in Nat
    /\ err \in ExpandErrors \cup OtherErrors
    /\ err # "none" => pc = "failed"
    /\ pc = "read" => n <= Len(texts) /\ out = <<>>

PassInv ==
    /\ TypeI
    /\ out \in Seq(Range(out)) /\ \A r \in Range(out) : IsWritten(r)
    /\ HasReason

LEMMA ReachedIsLeast ==
    ASSUME DefsOK, NEW c \in Names
    PROVE  IsLeastClosed(c, Reached(c)) /\ \A R : IsLeastClosed(c, R) => R = Reached(c)
<1>1. IsLeastClosed(c, Reached(c))
  <2>1. Reached(c) \subseteq Names /\ IsClosed(c, Reached(c))
    BY ReachedClosed DEF IsClosed
  <2>2. ASSUME NEW X \in SUBSET Names, IsClosed(c, X) PROVE Reached(c) \subseteq X
    BY <2>2, ReachedLeast DEF IsClosed
  <2> QED
    BY <2>1, <2>2 DEF IsLeastClosed
<1>2. ASSUME NEW R, IsLeastClosed(c, R) PROVE R = Reached(c)
  BY <1>1, <1>2 DEF IsLeastClosed
<1> QED
  BY <1>1, <1>2

LEMMA SubstitutesStays ==
    ASSUME store' = store, NEW g, NEW c, Substitutes(g, c)
    PROVE  Substitutes(g, c)'
<1>1. ASSUME NEW l PROVE BodiesOf(l)' = BodiesOf(l)
  <2> DEFINE defs == store.defs[l.name]
             order == IF "reversed" \in l.opts THEN Reverse(defs) ELSE defs
             q == [i \in DOMAIN order |-> order[i].body]
  <2>1. defs' = defs
    OBVIOUS
  <2>2. Reverse(defs)' = Reverse(defs)
    BY <2>1 DEF Reverse
  <2>3. order' = order
    BY <2>1, <2>2
  <2>4. q' = q
    <3> HIDE DEF order
    <3> QED
      BY <2>3
  <2>5. BodiesOf(l) = FlattenSeq(q) /\ BodiesOf(l)' = FlattenSeq(q')
    BY DEF BodiesOf
  <2> HIDE DEF q
  <2> QED
    BY <2>4, <2>5
<1>2. ASSUME NEW s PROVE Substitution(s)' = Substitution(s)
  <2> DEFINE q == [i \in DOMAIN s |-> IF s[i].kind = "ref" THEN BodiesOf(s[i]) ELSE <<s[i]>>]
  <2>1. q' = q
    BY <1>1
  <2>2. Substitution(s) = FlattenSeq(q) /\ Substitution(s)' = FlattenSeq(q')
    BY DEF Substitution
  <2> HIDE DEF q
  <2> QED
    BY <2>1, <2>2
<1> QED
  BY <1>2 DEF Substitutes, RootRef

(* A step that keeps the store and strict keeps what is known. *)
LEMMA WrittenStays ==
    ASSUME UNCHANGED <<store, strict>>, NEW r, IsWritten(r)
    PROVE  IsWritten(r)'
<1>1. store' = store /\ strict' = strict
  OBVIOUS
<1>2. \A c : RefsOf(c)' = RefsOf(c) /\ EdgesOf(c)' = EdgesOf(c)
  BY <1>1 DEF RefsOf, EdgesOf
<1>3. OutLines' = OutLines
  BY <1>1 DEF OutLines, OutLinesOf, OutLine
<1>4. \A c, v : IsWalk(c, v)' = IsWalk(c, v)
  BY <1>1 DEF IsWalk, RefsOf
<1>5. \A v : Harmless(<<>>, v, MaxDepth + 1)' = Harmless(<<>>, v, MaxDepth + 1)
  BY <1>1 DEF Harmless
<1>6. \A R : IsLeastClosed(r.name, R)' = IsLeastClosed(r.name, R)
  BY <1>2 DEF IsLeastClosed, IsClosed
<1>7. PICK g : Substitutes(g, r.name) /\ TextOf(g[MaxDepth + 1], r.lines)
  BY DEF IsWritten
<1>8. Substitutes(g, r.name)' /\ TextOf(g[MaxDepth + 1], r.lines)'
  BY <1>1, <1>7, SubstitutesStays
<1> QED
  BY <1>2, <1>3, <1>4, <1>5, <1>6, <1>8 DEF IsWritten

LEMMA ExpansionWritten ==
    ASSUME DefsOK, NEW c \in Names, Expansion(c).err = "none"
    PROVE  IsWritten([name |-> c, lines |-> Expansion(c).lines, deps |-> Expansion(c).deps])
<1> DEFINE x == RootCall(c)
           r == [name |-> c, lines |-> Expansion(c).lines, deps |-> Expansion(c).deps]
<1>1. PICK e : Levels(e) /\ Expansion(c) = e[MaxDepth + 1][x]
  BY ExpansionLevels
<1>2. x \in Calls /\ x.chunk = c /\ x.stack = <<>> /\ MaxDepth + 1 \in Nat
  BY ExpansionLevels, ConstantsOK DEF RootCall
<1>3. Expansion(c) \in Results
  BY <1>1, <1>2 DEF Levels
<1>4. ASSUME NEW R, IsLeastClosed(c, R)
      PROVE  Expansion(c).deps = UNION {EdgesOf(z) : z \in R}
  <2>1. Expansion(c).deps = EdgesFrom(c)
    BY <1>1, <1>2, LevelEdges
  <2> QED
    BY <1>4, <2>1, ReachedIsLeast DEF EdgesFrom
<1>5. ASSUME NEW v, IsWalk(c, v) PROVE Harmless(<<>>, v, MaxDepth + 1)
  BY <1>1, <1>2, <1>5, LevelWalks
<1>6. Expansion(c).lines \in Seq(OutLines)
  BY <1>3 DEF Results
<1>7. \E g : Substitutes(g, c) /\ TextOf(g[MaxDepth + 1], Expansion(c).lines)
  BY ExpansionText
<1> QED
  BY <1>4, <1>5, <1>6, <1>7 DEF IsWritten

LEMMA ExpansionBlamed ==
    ASSUME DefsOK, NEW c \in Names, Expansion(c).err # "none"
    PROVE  /\ Expansion(c).err \in ExpandErrors
           /\ \E v : IsWalk(c, v) /\ Blamed(Expansion(c).err, <<>>, v, MaxDepth + 1)
<1> DEFINE x == RootCall(c)
<1>1. PICK e : Levels(e) /\ Expansion(c) = e[MaxDepth + 1][x]
  BY ExpansionLevels
<1>2. x \in Calls /\ x.chunk = c /\ x.stack = <<>> /\ MaxDepth + 1 \in Nat
  BY ExpansionLevels, ConstantsOK DEF RootCall
<1>3. Expansion(c) \in Results
  BY <1>1, <1>2 DEF Levels
<1>4. Expansion(c).err \in ExpandErrors
  BY <1>3 DEF Results
<1> QED
  BY <1>1, <1>2, <1>4, LevelBlames

LEMMA ReadType ==
    ASSUME TypeI, Read
    PROVE  TypeI'
<1> DEFINE s == ReadSource(n + 1)
<1>1. n + 1 \in 1..Len(texts) /\ n' = n + 1 /\ Len(texts) \in Nat
  BY Sources DEF TypeI, Read
<1>2. s \in Reader
  <2>1. PICK g : ReadsBy(g, n + 1)
    BY <1>1, SourceReads DEF TypeI
  <2> QED
    BY <1>1, <2>1, Sources DEF ReadsBy, TypeI
<1> HIDE DEF s
<1>3. store' = [defs |-> s.defs, files |-> s.files, errors |-> s.errors]
  BY DEF Read, s
<1>4. Lines' = Lines
  BY DEF Read, Lines
<1>5. store' \in StoreType
  BY <1>2, <1>3 DEF StoreType, Reader
<1>6. StoreType' = StoreType
  BY <1>4 DEF StoreType, Defs, BodyTexts
<1> QED
  BY <1>1, <1>5, <1>6 DEF TypeI, Read

LEMMA RecordedFiles ==
    ASSUME TypeI, NEW i \in DOMAIN store.files
    PROVE  store.files[i] \in Names
BY DEF TypeI, StoreType, Names

(* A pass about to begin. *)
AtStart ==
    /\ IsProject(texts) /\ strict \in BOOLEAN
    /\ pc = "read" /\ store = EmptyStore /\ n = 0 /\ out = <<>> /\ err = "none"

LEMMA InitStarts == Init => AtStart
BY ConstantsOK DEF Init, AtStart

LEMMA StartPassInv == AtStart => PassInv
<1> SUFFICES ASSUME AtStart PROVE PassInv
  OBVIOUS
<1>1. store = EmptyStore
  BY DEF AtStart
<1>2. EmptyStore \in StoreType
  <2>1. <<>> \in Seq(Defs) /\ <<>> \in Seq(Files)
    OBVIOUS
  <2> QED
    BY <2>1 DEF EmptyStore, StoreType
<1>3. TypeI
  BY <1>1, <1>2, Sources DEF TypeI, AtStart, ExpandErrors
<1> QED
  BY <1>3 DEF PassInv, AtStart, HasReason, Range

LEMMA PassNext == PassInv /\ [Next]_vars => PassInv'
<1> SUFFICES ASSUME PassInv, [Next]_vars PROVE PassInv'
  OBVIOUS
<1> USE DEF PassInv
<1>0. DefsOK
  BY StoredDefs DEF TypeI
<1>1. CASE Read
  <2>1. TypeI'
    BY <1>1, ReadType
  <2>2. out' = <<>> /\ err' = err /\ err = "none"
    BY <1>1 DEF Read, TypeI
  <2> QED
    BY <2>1, <2>2 DEF HasReason, Range
<1>2. CASE UNCHANGED <<texts, strict, store>> /\ ~Read
  <2>1. StoreType' = StoreType /\ texts' = texts /\ strict' = strict /\ store' = store
    BY <1>2 DEF StoreType, Defs, BodyTexts, Lines
  <2>2. \A r : IsWritten(r) => IsWritten(r)'
    BY <1>2, WrittenStays
  <2>3. CASE StartWriting
    <3>1. TypeI'
      BY <2>1, <2>3 DEF StartWriting, TypeI, ExpandErrors, OtherErrors
    <3>2. out' = out
      BY <2>3 DEF StartWriting
    <3>3. HasReason'
      BY <2>3 DEF StartWriting, HasReason, TypeI, ExpandErrors, OtherErrors
    <3> QED
      BY <2>2, <3>1, <3>2, <3>3
  <2>4. CASE ExpandFile
    <3> DEFINE f == store.files[n + 1]
               r == [name |-> f, lines |-> Expansion(f).lines, deps |-> Expansion(f).deps]
    <3>1. n + 1 \in DOMAIN store.files /\ n \in Nat /\ pc = "expand" /\ err = "none"
      BY <2>4 DEF ExpandFile, TypeI, StoreType
    <3>2. f \in Names
      BY <3>1, RecordedFiles
    <3>3. CASE Expansion(f).err = "none"
      <4>1. PICK q : q = r
        OBVIOUS
      <4>2. out' = Append(out, q) /\ n' = n + 1 /\ pc' = pc /\ err' = err
        BY <2>4, <3>3, <4>1 DEF ExpandFile
      <4>3. IsWritten(q)
        BY <3>2, <3>3, <4>1, <1>0, ExpansionWritten
      <4>4. IsWritten(q)'
        BY <2>2, <4>3
      <4>5. out \in Seq(Range(out) \cup {q}) /\ q \in Range(out) \cup {q}
        OBVIOUS
      <4>6. Append(out, q) \in Seq(Range(out) \cup {q})
            /\ Range(Append(out, q)) = Range(out) \cup {q}
        BY <4>5, RangeOfAppend
      <4>7. Range(out') = Range(out) \cup {q} /\ out' \in Seq(Range(out'))
        BY <4>2, <4>6
      <4>8. TypeI' /\ HasReason'
        BY <2>1, <3>1, <4>2 DEF TypeI, HasReason
      <4> HIDE DEF r
      <4>9. \A z \in Range(out') : IsWritten(z)'
        BY <2>2, <4>4, <4>7
      <4> QED
        BY <4>7, <4>8, <4>9
    <3>4. CASE Expansion(f).err # "none"
      <4>1. out' = out /\ n' = n /\ pc' = "failed" /\ err' = Expansion(f).err
        BY <2>4, <3>4 DEF ExpandFile
      <4>2. PICK v : IsWalk(f, v) /\ Blamed(err', <<>>, v, MaxDepth + 1)
        BY <1>0, <3>2, <3>4, <4>1, ExpansionBlamed
      <4>3. err' \in ExpandErrors
        BY <1>0, <3>2, <3>4, <4>1, ExpansionBlamed
      <4>4. IsWalk(store.files[n + 1], v)' /\ Blamed(err, <<>>, v, MaxDepth + 1)'
        BY <2>1, <4>1, <4>2 DEF IsWalk, RefsOf, Blamed
      <4>5. HasReason'
        BY <2>1, <3>1, <4>1, <4>4 DEF HasReason
      <4>6. TypeI'
        BY <2>1, <3>1, <4>1, <4>3 DEF TypeI
      <4> QED
        BY <2>2, <4>1, <4>5, <4>6
    <3> QED
      BY <3>3, <3>4
  <2>5. CASE Finish \/ UNCHANGED vars
    <3>1. out' = out /\ n' = n /\ err' = err
      BY <2>5 DEF Finish, vars
    <3>2. TypeI'
      BY <2>1, <2>5 DEF Finish, vars, TypeI
    <3>3. HasReason'
      <4> SUFFICES ASSUME err \in ExpandErrors \ {"none"}
                   PROVE  /\ n + 1 \in DOMAIN store.files
                          /\ \E v : IsWalk(store.files[n + 1], v)'
                                    /\ Blamed(err, <<>>, v, MaxDepth + 1)'
        BY <2>1, <3>1 DEF HasReason
      <4>1. n + 1 \in DOMAIN store.files
        BY DEF HasReason
      <4>2. PICK v : IsWalk(store.files[n + 1], v) /\ Blamed(err, <<>>, v, MaxDepth + 1)
        BY DEF HasReason
      <4>3. IsWalk(store.files[n + 1], v)' /\ Blamed(err, <<>>, v, MaxDepth + 1)'
        BY <2>1, <3>1, <4>2 DEF IsWalk, RefsOf, Blamed
      <4> QED
        BY <4>1, <4>3
    <3> QED
      BY <2>2, <3>1, <3>2, <3>3
  <2> QED
    BY <1>2, <2>3, <2>4, <2>5 DEF Next
<1> QED
  BY <1>1, <1>2 DEF Next, vars, StartWriting, ExpandFile, Finish

(* Every reachable state is typed, and what the pass has written or failed *)
(* with has its reason in the definitions.                                 *)
THEOREM PassInvHolds == Spec => []PassInv
BY InitStarts, StartPassInv, PassNext, PTL DEF Spec

LEMMA PassDeps == PassInv => DepsExact
<1> SUFFICES ASSUME PassInv, NEW i \in DOMAIN out
             PROVE  out[i].deps = UNION {EdgesOf(c) : c \in Reached(out[i].name)}
  BY DEF DepsExact
<1>1. DefsOK
  BY StoredDefs DEF PassInv, TypeI
<1>2. IsWritten(out[i])
  BY DEF PassInv, Range
<1>3. IsLeastClosed(out[i].name, Reached(out[i].name))
  BY <1>1, <1>2, ReachedIsLeast DEF IsWritten
<1> QED
  BY <1>2, <1>3 DEF IsWritten

(* The edges recorded for an output are exactly the references in the      *)
(* chunks it reaches, whatever the chunks, the cycles among chunks it does *)
(* not reach, and the options of the references.                           *)
THEOREM DepsExactHolds == Spec => []DepsExact
BY PassInvHolds, PassDeps, PTL

LEMMA PassText == PassInv => ExpansionIsSubstitution
<1> SUFFICES ASSUME PassInv, NEW i \in DOMAIN out
             PROVE  /\ \A l \in Range(Substituted(out[i].name)) : l.kind = "text"
                    /\ Visible([k \in DOMAIN out[i].lines |-> out[i].lines[k].text])
                          = Visible(Substituted(out[i].name))
  BY DEF ExpansionIsSubstitution
<1>1. IsWritten(out[i])
  BY DEF PassInv, Range
<1>2. PICK g : Substitutes(g, out[i].name) /\ TextOf(g[MaxDepth + 1], out[i].lines)
  BY <1>1 DEF IsWritten
<1>3. Substituted(out[i].name) = g[MaxDepth + 1]
  BY <1>2, SubstitutedIs
<1> QED
  BY <1>2, <1>3 DEF TextOf

(* An output is what textual substitution makes of its chunk: the lines of *)
(* the definitions its references lead to, in their order and as often as  *)
(* they are used, with nothing but blank lines left out.                   *)
THEOREM ExpansionIsSubstitutionHolds == Spec => []ExpansionIsSubstitution
BY PassInvHolds, PassText, PTL

LEMMA WalksFrom ==
    ASSUME DefsOK, NEW c \in Names, NEW v
    PROVE  /\ \A k \in 0..(MaxDepth + 1) : v \in Walks(c)[k] => IsWalk(c, v)
           /\ IsWalk(c, v) /\ Len(v) <= MaxDepth + 2 =>
                 \E k \in 0..(MaxDepth + 1) : v \in Walks(c)[k]
<1>1. MaxDepth \in Nat
  BY ConstantsOK
<1>2. ASSUME NEW k \in 0..(MaxDepth + 1), v \in Walks(c)[k] PROVE IsWalk(c, v)
  <2>1. k \in Nat
    BY <1>1
  <2> QED
    BY <1>2, <2>1, WalksAreWalks DEF WalksOf
<1>3. ASSUME IsWalk(c, v), Len(v) <= MaxDepth + 2
      PROVE  \E k \in 0..(MaxDepth + 1) : v \in Walks(c)[k]
  <2> DEFINE k == Len(v) - 1
  <2>1. v \in Seq(Names) /\ Len(v) \in Nat /\ Len(v) >= 1
    BY <1>3 DEF IsWalk
  <2>2. k \in 0..(MaxDepth + 1) /\ k \in Nat /\ Len(v) = k + 1
    BY <1>1, <1>3, <2>1
  <2> HIDE DEF k
  <2>3. v \in WalksOf(c, k)
    BY <1>3, <2>1, <2>2 DEF WalksOf
  <2> QED
    BY <2>2, <2>3, WalksAreWalks
<1> QED
  BY <1>2, <1>3

LEMMA PassFailures == PassInv => FailsExactly
<1> SUFFICES ASSUME PassInv PROVE FailsExactly
  OBVIOUS
<1> DEFINE walks(c) == UNION {Walks(c)[k] : k \in 0..(MaxDepth + 1)}
           at == store.files[n + 1]
<1>1. DefsOK
  BY StoredDefs DEF PassInv, TypeI
<1>2. MaxDepth \in Nat
  BY ConstantsOK
<1>3. ASSUME NEW i \in DOMAIN out, NEW v \in walks(out[i].name)
      PROVE  Len(v) <= MaxDepth + 1 /\ IsInjective(v) /\ (strict => ~Undefined(v))
  <2>1. IsWritten(out[i]) /\ out[i].name \in Names
    BY DEF PassInv, Range, IsWritten
  <2>2. IsWalk(out[i].name, v)
    BY <1>1, <1>3, <2>1, WalksFrom
  <2>3. Harmless(<<>>, v, MaxDepth + 1)
    BY <2>1, <2>2 DEF IsWritten
  <2>4. DOMAIN v = 1..Len(v)
    BY <2>2 DEF IsWalk
  <2> QED
    BY <2>3, <2>4 DEF Harmless, IsInjective, Undefined, Last
<1>4. ASSUME err \in ExpandErrors \ {"none"}
      PROVE  \E v \in walks(at) :
                 /\ err = "RecursionLimit" => Len(v) = MaxDepth + 2 /\ IsInjective(Front(v))
                 /\ err = "RecursiveReference" => ~IsInjective(v)
                 /\ err = "UndefinedChunk" => strict /\ Undefined(v)
  <2>1. n + 1 \in DOMAIN store.files
    BY <1>4 DEF PassInv, HasReason
  <2>2. at \in Names
    BY <2>1, RecordedFiles DEF PassInv
  <2>3. PICK v : IsWalk(at, v) /\ Blamed(err, <<>>, v, MaxDepth + 1)
    BY <1>4 DEF PassInv, HasReason
  <2>4. v \in Seq(Names) /\ Len(v) \in Nat /\ Len(v) >= 1 /\ DOMAIN v = 1..Len(v)
    BY <2>3 DEF IsWalk
  <2>5. Len(v) <= MaxDepth + 2
    <3>1. Len(v) = (MaxDepth + 1) + 1 \/ Len(v) <= MaxDepth + 1
      BY <2>3, Zenon DEF Blamed
    <3>2. \A a, m \in Nat : a = (m + 1) + 1 \/ a <= m + 1 => a <= m + 2
      OBVIOUS
    <3>3. Len(v) \in Nat
      BY <2>4
    <3> QED
      BY <1>2, <3>1, <3>2, <3>3
  <2>6. v \in walks(at)
    BY <1>1, <2>2, <2>3, <2>5, WalksFrom
  <2>7. ASSUME err = "RecursionLimit"
        PROVE  Len(v) = MaxDepth + 2 /\ IsInjective(Front(v))
    <3>1. Len(v) = MaxDepth + 2 /\ \A i, j \in 1..(MaxDepth + 1) : v[i] = v[j] => i = j
      BY <1>2, <2>3, <2>7 DEF Blamed
    <3>2. DOMAIN Front(v) = 1..(MaxDepth + 1) /\ \A i \in 1..(MaxDepth + 1) : Front(v)[i] = v[i]
      BY <1>2, <2>4, <3>1 DEF Front
    <3> QED
      BY <3>1, <3>2 DEF IsInjective
  <2>8. ASSUME err = "RecursiveReference" PROVE ~IsInjective(v)
    <3>1. \A i \in 1..Len(v) : v[i] \notin Range(<<>>)
      BY DEF Range
    <3> QED
      BY <2>3, <2>4, <2>8, <3>1 DEF Blamed, IsInjective
  <2>9. ASSUME err = "UndefinedChunk" PROVE strict /\ Undefined(v)
    BY <2>3, <2>9 DEF Blamed, Undefined, Last
  <2> QED
    BY <2>6, <2>7, <2>8, <2>9
<1> HIDE DEF walks, at
<1>5. /\ err = "RecursionLimit" =>
            \E v \in walks(at) : Len(v) = MaxDepth + 2 /\ IsInjective(Front(v))
      /\ err = "RecursiveReference" => \E v \in walks(at) : ~IsInjective(v)
      /\ err = "UndefinedChunk" => strict /\ \E v \in walks(at) : Undefined(v)
  BY <1>4 DEF ExpandErrors
<1> QED
  BY <1>3, <1>5 DEF FailsExactly, walks, at

(* An expansion fails for a reason that is there, and one that ends well   *)
(* has none, for every depth limit and every graph of chunks.              *)
THEOREM FailsExactlyHolds == Spec => []FailsExactly
BY PassInvHolds, PassFailures, PTL

(* The definitions of every chunk are those of the sources read so far. *)
StoreUpTo(f) == \A c \in Names : ChunkUpTo(store.defs[c], c, f, 0)

ReadInv ==
    /\ pc = "read" => StoreUpTo(n + 1)
    /\ pc # "read" => StoreUpTo(Len(texts) + 1)

(* What the sources ask for stays while they do. *)
LEMMA TextsStay ==
    ASSUME texts' = texts, NEW f, NEW i, NEW c, NEW ds
    PROVE  ChunkUpTo(ds, c, f, i)' <=> ChunkUpTo(ds, c, f, i)
<1>1. \A x : Headers(x)' = Headers(x) /\ Begins(x)' = Begins(x)
  BY DEF Begins, Headers, Places, LineAt
<1>2. ASSUME NEW g, NEW a, NEW b PROVE BodyLines(g, a, b)' = BodyLines(g, a, b)
  <2> DEFINE s == [j \in 1..(b - a) |->
                     IF texts[g][a + j].kind = "open" THEN <<>> ELSE <<texts[g][a + j]>>]
  <2>1. s' = s
    OBVIOUS
  <2>2. BodyLines(g, a, b) = FlattenSeq(s) /\ BodyLines(g, a, b)' = FlattenSeq(s')
    BY DEF BodyLines
  <2> HIDE DEF s
  <2> QED
    BY <2>1, <2>2
<1>3. ASSUME NEW p PROVE Ends(p)' = Ends(p)
  <2> DEFINE stops == {j \in DOMAIN texts[p[1]] :
                         /\ j > p[2]
                         /\ \/ texts[p[1]][j].kind = "close"
                            \/ /\ texts[p[1]][j].kind = "open"
                               /\ texts[p[1]][j].name \in Names
                               /\ <<p[1], j>> \in Begins(texts[p[1]][j].name)}
  <2>1. stops' = stops
    BY <1>1
  <2>2. Ends(p) = IF stops = {} THEN Len(texts[p[1]]) + 1 ELSE Min(stops)
    BY DEF Ends
  <2>3. Ends(p)' = IF stops' = {} THEN Len(texts'[p[1]]) + 1 ELSE Min(stops')
    BY DEF Ends
  <2> HIDE DEF stops
  <2> QED
    BY <2>1, <2>2, <2>3
<1>4. ASSUME NEW p PROVE DefinitionAt(p)' = DefinitionAt(p)
  BY <1>2, <1>3 DEF DefinitionAt
<1>5. ASSUME NEW p PROVE DefinitionUpTo(p, f, i)' = DefinitionUpTo(p, f, i)
  BY <1>2, <1>3, <1>4 DEF DefinitionUpTo, IsOpen
<1>6. CurrentUpTo(c, f, i)' = CurrentUpTo(c, f, i)
  BY <1>1 DEF CurrentUpTo, LineAt
<1>7. HeaderSeen(c, f, i)' <=> HeaderSeen(c, f, i)
  BY <1>1 DEF HeaderSeen
<1> QED
  BY <1>5, <1>6, <1>7 DEF ChunkUpTo

LEMMA StartReadInv == AtStart => ReadInv
<1> SUFFICES ASSUME AtStart PROVE ReadInv
  OBVIOUS
<1>1. IsProject(texts) /\ pc = "read" /\ n + 1 = 1 /\ \A c \in Names : store.defs[c] = <<>>
  BY DEF AtStart, EmptyStore
<1>2. \A c \in Names : ChunkUpTo(store.defs[c], c, 1, 0)
  BY <1>1, NothingRead
<1> QED
  BY <1>1, <1>2 DEF ReadInv, StoreUpTo

LEMMA ReadInvNext == TypeI /\ ReadInv /\ [Next]_vars => ReadInv'
<1> SUFFICES ASSUME TypeI, ReadInv, [Next]_vars PROVE ReadInv'
  OBVIOUS
<1>1. texts' = texts
  BY DEF Next, Read, StartWriting, ExpandFile, Finish, vars
<1>2. CASE Read
  <2> DEFINE f == n + 1
             s == ReadSource(f)
  <2>1. f \in 1..Len(texts) /\ n' = f /\ pc = "read" /\ pc' = "read"
    BY <1>2, Sources DEF TypeI, Read
  <2>2. \A c \in Names : ChunkUpTo(s.defs[c], c, f + 1, 0)
    <3>1. \A c \in Names : ChunkUpTo(store.defs[c], c, f, 0)
      BY <2>1 DEF ReadInv, StoreUpTo
    <3> HIDE DEF f
    <3> QED
      BY <2>1, <3>1, SourceUpTo DEF TypeI
  <2>3. store'.defs = s.defs
    BY <1>2 DEF Read
  <2>4. ASSUME NEW c \in Names PROVE ChunkUpTo(store.defs[c], c, n + 1, 0)'
    <3> DEFINE ds == s.defs[c]
               k == f + 1
    <3>1. PICK es : es = s.defs[c]
      OBVIOUS
    <3>2. PICK j : j = f + 1
      OBVIOUS
    <3>3. ChunkUpTo(es, c, j, 0)
      BY <2>2, <3>1, <3>2
    <3>4. ChunkUpTo(es, c, j, 0)'
      BY <1>1, <3>3, TextsStay
    <3>5. store'.defs[c] = es /\ n' + 1 = j
      BY <2>1, <2>3, <3>1, <3>2
    <3> QED
      BY <3>4, <3>5
  <2> QED
    BY <2>1, <2>4 DEF ReadInv, StoreUpTo
<1>3. CASE store' = store /\ ~Read
  <2>1. CASE pc = "read" /\ pc' = "read"
    <3>1. n' = n
      BY <1>3, <2>1 DEF Next, StartWriting, ExpandFile, Finish, vars
    <3>2. ASSUME NEW c \in Names PROVE ChunkUpTo(store.defs[c], c, n + 1, 0)'
      <4>1. PICK es : es = store.defs[c]
        OBVIOUS
      <4>2. PICK j : j = n + 1
        OBVIOUS
      <4>3. ChunkUpTo(es, c, j, 0)
        BY <2>1, <4>1, <4>2 DEF ReadInv, StoreUpTo
      <4>4. ChunkUpTo(es, c, j, 0)'
        BY <1>1, <4>3, TextsStay
      <4> QED
        BY <1>3, <3>1, <4>1, <4>2, <4>4
    <3> QED
      BY <2>1, <3>2 DEF ReadInv, StoreUpTo
  <2>2. CASE pc' # "read"
    <3>1. StoreUpTo(Len(texts) + 1)
      <4>1. pc = "read" => n = Len(texts)
        BY <1>3, <2>2 DEF Next, StartWriting, ExpandFile, Finish, vars
      <4> QED
        BY <4>1 DEF ReadInv
    <3>2. ASSUME NEW c \in Names PROVE ChunkUpTo(store.defs[c], c, Len(texts) + 1, 0)'
      <4>1. PICK es : es = store.defs[c]
        OBVIOUS
      <4>2. PICK j : j = Len(texts) + 1
        OBVIOUS
      <4>3. ChunkUpTo(es, c, j, 0)
        BY <3>1, <4>1, <4>2 DEF StoreUpTo
      <4>4. ChunkUpTo(es, c, j, 0)'
        BY <1>1, <4>3, TextsStay
      <4> QED
        BY <1>1, <1>3, <4>1, <4>2, <4>4
    <3> QED
      BY <2>2, <3>2 DEF ReadInv, StoreUpTo
  <2>3. pc' = "read" => pc = "read"
    BY <1>3 DEF Next, StartWriting, ExpandFile, Finish, vars
  <2> QED
    BY <2>1, <2>2, <2>3
<1> QED
  BY <1>2, <1>3 DEF Next, StartWriting, ExpandFile, Finish, vars

LEMMA ReadInvMatches == TypeI /\ ReadInv => DefinitionsMatchText
<1> SUFFICES ASSUME TypeI, ReadInv, pc # "read", NEW c \in Names
             PROVE  LET defs == store.defs[c]
                    IN  /\ {Place(defs[i]) : i \in DOMAIN defs} = Current(c)
                        /\ \A i \in DOMAIN defs :
                              /\ defs[i] = DefinitionAt(Place(defs[i]))
                              /\ \A j \in DOMAIN defs : i < j => Before(Place(defs[i]), Place(defs[j]))
  BY DEF DefinitionsMatchText
<1>1. IsProject(texts) /\ ChunkUpTo(store.defs[c], c, Len(texts) + 1, 0)
  BY DEF TypeI, ReadInv, StoreUpTo
<1> QED
  BY <1>1, AllRead

(* Whatever the sources: the definitions that the reader has collected are *)
(* those that the headers ask for, with their lines and their ends.        *)
THEOREM DefinitionsMatchTextHolds == Spec => []DefinitionsMatchText
<1>1. PassInv => TypeI
  BY DEF PassInv
<1> QED
  BY <1>1, PassInvHolds, InitStarts, StartReadInv, ReadInvNext, ReadInvMatches, PTL DEF Spec

(* The body of a definition no header was ignored in is a piece of its     *)
(* source.                                                                 *)
LEMMA ContiguousBody ==
    ASSUME IsProject(texts), NEW c \in Names, NEW p \in Begins(c),
           \A j \in (p[2] + 1)..(Ends(p) - 1) : texts[p[1]][j].kind # "open",
           NEW k \in DOMAIN DefinitionAt(p).body
    PROVE  /\ k \in Nat /\ p[2] < p[2] + k /\ p[2] + k < Ends(p)
           /\ DefinitionAt(p).body[k] = texts[p[1]][p[2] + k]
<1> DEFINE f == p[1]
           a == p[2]
           m == Ends(p) - 1 - a
           t == [j \in 1..m |-> texts[f][a + j]]
<1>1. /\ p = <<f, a>> /\ f \in 1..Len(texts) /\ a \in 1..Len(texts[f])
      /\ f \in Nat /\ a \in Nat /\ Len(texts[f]) \in Nat
      /\ \A j \in 1..Len(texts[f]) : texts[f][j] \in Lines
  BY BeginsAre, Sources
<1>2. Ends(p) \in Nat /\ a < Ends(p) /\ Ends(p) <= Len(texts[f]) + 1
  BY <1>1, EndsIs
<1>3. m \in Nat /\ (Ends(p) - 1) - a = m
  BY <1>1, <1>2
<1>4. ASSUME NEW j \in 1..m
      PROVE  /\ a + j \in 1..Len(texts[f]) /\ texts[f][a + j].kind # "open"
             /\ a < a + j /\ a + j < Ends(p)
  <2>1. a + j \in (a + 1)..(Ends(p) - 1)
    BY <1>1, <1>2
  <2> QED
    BY <1>1, <1>2, <2>1
<1> HIDE DEF m
<1>5. DefinitionAt(p).body =
        FlattenSeq([j \in 1..m |-> IF texts[f][a + j].kind = "open" THEN <<>> ELSE <<texts[f][a + j]>>])
  BY <1>3 DEF DefinitionAt, BodyLines
<1>6. t \in Seq(Lines) /\ Len(t) = m /\ \A j \in 1..m : t[j] = texts[f][a + j]
  BY <1>1, <1>3, <1>4
<1>7. [j \in 1..m |-> IF texts[f][a + j].kind = "open" THEN <<>> ELSE <<texts[f][a + j]>>]
        = [j \in 1..Len(t) |-> <<t[j]>>]
  BY <1>4, <1>6
<1> HIDE DEF t
<1>8. DefinitionAt(p).body = t
  BY <1>5, <1>6, <1>7, FlattenSingles
<1>9. DOMAIN t = 1..m
  BY <1>6
<1>10. k \in 1..m
  BY <1>8, <1>9
<1> QED
  BY <1>3, <1>4, <1>6, <1>8, <1>10

LEMMA LinesMapped == PassInv /\ ReadInv => MapPointsAtText
<1> SUFFICES ASSUME PassInv, ReadInv, Contiguous,
                    NEW i \in DOMAIN out, NEW x \in Range(out[i].lines)
             PROVE  /\ texts[x.file][x.line] = x.text
                    /\ \E p \in Current(x.chunk) :
                          p[1] = x.file /\ p[2] < x.line /\ x.line < Ends(p)
  BY DEF MapPointsAtText
<1>1. TypeI /\ IsProject(texts)
  BY DEF PassInv, TypeI
<1>2. pc # "read"
  <2>1. out # <<>>
    OBVIOUS
  <2> QED
    BY <1>1, <2>1 DEF TypeI
<1>3. out[i].lines \in Seq(OutLines)
  BY DEF PassInv, IsWritten, Range
<1>4. x \in OutLines
  BY <1>3 DEF Range
<1>5. PICK c \in Names : \E d \in Range(store.defs[c]) : x \in OutLinesOf(c, d)
  BY <1>4 DEF OutLines
<1>12. PICK d \in Range(store.defs[c]) : x \in OutLinesOf(c, d)
  BY <1>5
<1>6. PICK k \in DOMAIN d.body : x = OutLine(c, d, k)
  BY <1>12 DEF OutLinesOf
<1>7. PICK j \in DOMAIN store.defs[c] : d = store.defs[c][j]
  BY DEF Range
<1> DEFINE p == Place(d)
<1>8. p \in Current(c) /\ d = DefinitionAt(p)
  BY <1>1, <1>2, <1>7, ReadInvMatches DEF DefinitionsMatchText
<1>9. p \in Begins(c) /\ p \in Places
  BY <1>1, <1>8, BeginsAre DEF Current
<1>10. x.text = d.body[k] /\ x.chunk = c /\ x.file = p[1] /\ x.line = p[2] + k
  BY <1>6 DEF OutLine, Place
<1> HIDE DEF p
<1>11. k \in Nat /\ p[2] < p[2] + k /\ p[2] + k < Ends(p) /\ d.body[k] = texts[p[1]][p[2] + k]
  <2>1. \A q \in (p[2] + 1)..(Ends(p) - 1) : texts[p[1]][q].kind # "open"
    BY <1>9 DEF Contiguous
  <2>2. k \in DOMAIN DefinitionAt(p).body
    BY <1>8
  <2> QED
    BY <1>1, <1>8, <1>9, <2>1, <2>2, ContiguousBody
<1> QED
  BY <1>8, <1>10, <1>11

(* Every line of an output is the source line that noweb_map records for   *)
(* it, inside a current definition of the chunk it names, through every    *)
(* depth of references and every spacing option.                           *)
THEOREM MapPointsAtTextHolds == Spec => []MapPointsAtText
<1>1. PassInv => TypeI
  BY DEF PassInv
<1> QED
  BY <1>1, PassInvHolds, InitStarts, StartReadInv, ReadInvNext, LinesMapped, PTL DEF Spec
=============================================================================
