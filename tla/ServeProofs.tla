----------------------------- MODULE ServeProofs -----------------------------
(***************************************************************************)
(* While the browser edits chunks of one source only, a save leaves        *)
(* sources that expand; a save from the browser changes the chunk it names *)
(* and nothing else, and a note none but those that it has headers of: for *)
(* any sources, panels, typed bodies and notes, and ages of line ranges.   *)
(***************************************************************************)
EXTENDS Serve, SequenceTheorems, IterationProofs

-----------------------------------------------------------------------------
(* Lines that open, close and refer to nothing. *)

IsEndOf(t, i, e) ==
    /\ e \in (i + 1)..Len(t) /\ Ends(t, e)
    /\ \A m \in (i + 1)..Len(t) : Ends(t, m) => e <= m

LEMMA EndOfIs ==
    ASSUME NEW t, NEW i
    PROVE  \A e : e \in EndOf(t, i) <=> IsEndOf(t, i, e)
BY DEF EndOf, IsEndOf

IsRef(t, i, j, e) ==
    /\ Opens(t, i) /\ t[j].k = "ref" /\ Inside(t, i, j)
    /\ e = <<t[i].n, t[j].n>>

LEMMA RefsAre ==
    ASSUME NEW t \in Seq(Line)
    PROVE  \A e : e \in Refs(t) <=> \E i, j \in 1..Len(t) : IsRef(t, i, j, e)
BY DEF Refs, IsRef

(* Where line i of t is once a line was put before line k. *)
Shift(k, i) == IF i < k THEN i ELSE i + 1

LEMMA ShiftOrder ==
    ASSUME NEW k \in Nat, NEW i \in Nat, NEW j \in Nat
    PROVE  /\ Shift(k, i) \in Nat
           /\ Shift(k, i) < Shift(k, j) <=> i < j
           /\ Shift(k, i) <= Shift(k, j) <=> i <= j
           /\ Shift(k, i) # k
BY DEF Shift

(* u is t with an inert line at k. *)
Inserted(t, u, k) ==
    /\ Len(u) = Len(t) + 1
    /\ \A i \in 1..Len(t) : u[Shift(k, i)] = t[i]
    /\ u[k].k \notin {"open", "close", "ref"}

LEMMA ShiftOnto ==
    ASSUME NEW n \in Nat, NEW k \in 1..(n + 1)
    PROVE  /\ \A i \in 1..n : Shift(k, i) \in 1..(n + 1)
           /\ \A m \in 1..(n + 1) : m = k \/ \E i \in 1..n : m = Shift(k, i)
<1>1. \A i \in 1..n : Shift(k, i) \in 1..(n + 1)
  BY DEF Shift
<1>2. ASSUME NEW m \in 1..(n + 1), m < k PROVE m \in 1..n /\ m = Shift(k, m)
  BY <1>2 DEF Shift
<1>3. ASSUME NEW m \in 1..(n + 1), m > k PROVE m - 1 \in 1..n /\ m = Shift(k, m - 1)
  BY <1>3 DEF Shift
<1> QED
  BY <1>1, <1>2, <1>3

LEMMA EndsShift ==
    ASSUME NEW t \in Seq(Line), NEW u \in Seq(Line), NEW k \in 1..(Len(t) + 1),
           Inserted(t, u, k), NEW i \in 1..Len(t)
    PROVE  /\ \A e : IsEndOf(t, i, e) => IsEndOf(u, Shift(k, i), Shift(k, e))
           /\ \A d : IsEndOf(u, Shift(k, i), d) => \E e : IsEndOf(t, i, e) /\ d = Shift(k, e)
<1> DEFINE s(m) == Shift(k, m)
<1>0. Len(t) \in Nat /\ Len(u) = Len(t) + 1
  BY DEF Inserted
<1>1. /\ \A m \in 1..Len(t) : s(m) \in 1..Len(u) /\ (Ends(u, s(m)) <=> Ends(t, m))
      /\ ~Ends(u, k)
      /\ \A d \in 1..Len(u) : d = k \/ \E m \in 1..Len(t) : d = s(m)
  <2>1. k \in 1..Len(u)
    BY <1>0
  <2>2. \A m \in 1..Len(t) : s(m) \in 1..Len(u) /\ u[s(m)] = t[m]
    BY <1>0, ShiftOnto DEF Inserted
  <2>3. \A d \in 1..Len(u) : d = k \/ \E m \in 1..Len(t) : d = s(m)
    BY <1>0, ShiftOnto
  <2>4. ~Ends(u, k)
    BY DEF Inserted, Ends
  <2> HIDE DEF s
  <2> QED
    BY <2>2, <2>3, <2>4 DEF Ends
<1>2. \A m, n \in 1..Len(t) : (s(m) < s(n) <=> m < n) /\ (s(m) <= s(n) <=> m <= n)
  BY ShiftOrder
<1>3. ASSUME NEW m \in 1..Len(t)
      PROVE  s(m) \in (s(i) + 1)..Len(u) <=> m \in (i + 1)..Len(t)
  <2>1. s(m) \in Nat /\ s(i) \in Nat /\ s(m) <= Len(u) /\ (s(i) < s(m) <=> i < m)
    BY <1>0, <1>1, <1>2
  <2> HIDE DEF s
  <2> QED
    BY <1>0, <2>1
<1>4. (s(i) + 1)..Len(u) \subseteq 1..Len(u) /\ (i + 1)..Len(t) \subseteq 1..Len(t)
  BY <1>0, <1>1
<1> HIDE DEF s
<1>5. ASSUME NEW e, IsEndOf(t, i, e) PROVE IsEndOf(u, s(i), s(e))
  <2>1. e \in 1..Len(t) /\ e \in (i + 1)..Len(t) /\ Ends(t, e)
    BY <1>4, <1>5 DEF IsEndOf
  <2>2. ASSUME NEW d \in (s(i) + 1)..Len(u), Ends(u, d) PROVE s(e) <= d
    <3>1. PICK m \in 1..Len(t) : d = s(m)
      BY <1>1, <1>4, <2>2
    <3> QED
      BY <1>1, <1>2, <1>3, <1>5, <2>1, <2>2, <3>1 DEF IsEndOf
  <2> QED
    BY <1>1, <1>3, <2>1, <2>2 DEF IsEndOf
<1>6. ASSUME NEW d, IsEndOf(u, s(i), d) PROVE \E e : IsEndOf(t, i, e) /\ d = s(e)
  <2>1. PICK e \in 1..Len(t) : d = s(e)
    BY <1>1, <1>4, <1>6 DEF IsEndOf
  <2>2. ASSUME NEW m \in (i + 1)..Len(t), Ends(t, m) PROVE e <= m
    BY <1>1, <1>2, <1>3, <1>4, <1>6, <2>1, <2>2 DEF IsEndOf
  <2> QED
    BY <1>1, <1>3, <1>6, <2>1, <2>2 DEF IsEndOf
<1> QED
  BY <1>5, <1>6 DEF s

(* An inert line changes no reference. *)
LEMMA InertLine ==
    ASSUME NEW t \in Seq(Line), NEW u \in Seq(Line), NEW k \in 1..(Len(t) + 1),
           Inserted(t, u, k)
    PROVE  Refs(u) = Refs(t)
<1> DEFINE s(m) == Shift(k, m)
<1>0. Len(t) \in Nat /\ Len(u) = Len(t) + 1
  BY DEF Inserted
<1>1. /\ \A m \in 1..Len(t) : s(m) \in 1..Len(u) /\ u[s(m)] = t[m]
      /\ \A d \in 1..Len(u) : d = k \/ \E m \in 1..Len(t) : d = s(m)
  BY <1>0, ShiftOnto DEF Inserted
<1>2. ASSUME NEW m \in Nat, NEW n \in Nat PROVE s(m) < s(n) <=> m < n
  <2>1. k \in Nat
    BY <1>0
  <2> QED
    BY <2>1 DEF Shift
<1>3. ASSUME NEW i \in 1..Len(t), NEW j \in 1..Len(t)
      PROVE  Inside(t, i, j) <=> Inside(u, s(i), s(j))
  <2>1. \A e : IsEndOf(t, i, e) => e \in Nat
    BY <1>0 DEF IsEndOf
  <2>2. /\ \A e : IsEndOf(t, i, e) => IsEndOf(u, s(i), s(e))
        /\ \A d : IsEndOf(u, s(i), d) => \E e : IsEndOf(t, i, e) /\ d = s(e)
    BY EndsShift
  <2>3. Inside(t, i, j) <=> i < j /\ \A e : IsEndOf(t, i, e) => j < e
    BY EndOfIs DEF Inside
  <2>4. Inside(u, s(i), s(j)) <=> s(i) < s(j) /\ \A e : IsEndOf(u, s(i), e) => s(j) < e
    BY EndOfIs DEF Inside
  <2>5. s(i) < s(j) <=> i < j
    BY <1>2
  <2>6. ASSUME i < j, NEW e, IsEndOf(t, i, e) PROVE s(j) < s(e) <=> j < e
    BY <1>2, <2>1, <2>6
  <2> HIDE DEF s
  <2> QED
    BY <2>2, <2>3, <2>4, <2>5, <2>6
<1> HIDE DEF s
<1>4. \A i, j \in 1..Len(t) : \A e : IsRef(t, i, j, e) <=> IsRef(u, s(i), s(j), e)
  BY <1>1, <1>3 DEF IsRef, Opens
<1>5. ASSUME NEW i \in 1..Len(u), NEW j \in 1..Len(u), NEW e, IsRef(u, i, j, e)
      PROVE  \E a, b \in 1..Len(t) : i = s(a) /\ j = s(b)
  BY <1>1, <1>5 DEF IsRef, Opens, Inserted
<1>6. \A e : e \in Refs(t) <=> e \in Refs(u)
  <2>1. \A e : e \in Refs(t) => e \in Refs(u)
    BY <1>1, <1>4, RefsAre
  <2>2. \A e : e \in Refs(u) => e \in Refs(t)
    BY <1>4, <1>5, RefsAre
  <2> QED
    BY <2>1, <2>2
<1> QED
  BY <1>6
-----------------------------------------------------------------------------
(* What expands still does with fewer references. *)

LEMMA FewerReferences ==
    ASSUME NEW E, NEW D \in SUBSET E, ExpandsAlong(E)
    PROVE  ExpandsAlong(D)
<1>1. PICK reached \in SUBSET ({Root} \cup {e[2] : e \in E}) :
        /\ Root \in reached
        /\ \A e \in E : e[1] \in reached => e[2] \in reached
        /\ \A S \in SUBSET reached \ {{}} :
              \E c \in S : \A d \in S : <<c, d>> \notin E
  BY DEF ExpandsAlong
<1> DEFINE fewer == reached \cap ({Root} \cup {e[2] : e \in D})
<1>2. fewer \in SUBSET ({Root} \cup {e[2] : e \in D}) /\ Root \in fewer
  BY <1>1
<1>3. \A e \in D : e[1] \in fewer => e[2] \in fewer
  BY <1>1
<1>4. \A S \in SUBSET fewer \ {{}} : \E c \in S : \A d \in S : <<c, d>> \notin D
  BY <1>1
<1> HIDE DEF fewer
<1> QED
  BY <1>2, <1>3, <1>4 DEF ExpandsAlong

Along(ts) == UNION {Refs(ts[f]) : f \in Files}

LEMMA ExpandsIs ==
    ASSUME NEW ts, DOMAIN ts = Files
    PROVE  Expands(ts) <=> ExpandsAlong(Along(ts))
BY DEF Expands, Along

(* A text without more references in it breaks nothing. *)
LEMMA ReplacedText ==
    ASSUME NEW ts, DOMAIN ts = Files, NEW f \in Files, NEW t, Refs(t) \subseteq Refs(ts[f]),
           Expands(ts)
    PROVE  Expands([ts EXCEPT ![f] = t])
<1> DEFINE us == [ts EXCEPT ![f] = t]
<1>1. DOMAIN us = Files /\ \A g \in Files : Refs(us[g]) \subseteq Refs(ts[g])
  OBVIOUS
<1> HIDE DEF us
<1>2. Along(us) \subseteq Along(ts)
  BY <1>1 DEF Along
<1>3. ExpandsAlong(Along(ts))
  BY ExpandsIs
<1>4. ExpandsAlong(Along(us))
  BY <1>2, <1>3, FewerReferences
<1> QED
  BY <1>1, <1>4, ExpandsIs DEF us

(* A beginning of a text refers to nothing that the text does not refer to. *)
LEMMA BeginningRefs ==
    ASSUME NEW t \in Seq(Line), NEW u \in Beginnings(t)
    PROVE  u \in Seq(Line) /\ Refs(u) \subseteq Refs(t)
<1>1. PICK n \in 0..Len(t) : u = SubSeq(t, 1, n)
  BY DEF Beginnings
<1>2. u \in Seq(Line) /\ Len(u) = n /\ n <= Len(t) /\ \A m \in 1..n : u[m] = t[m]
  BY <1>1
<1>3. ASSUME NEW i \in 1..Len(u), NEW j \in 1..Len(u), NEW e, IsRef(u, i, j, e)
      PROVE  IsRef(t, i, j, e)
  <2>1. ASSUME NEW x, IsEndOf(t, i, x) PROVE j < x
    <3>1. x \in (i + 1)..Len(t) /\ Ends(t, x)
      BY <2>1 DEF IsEndOf
    <3>2. CASE x <= n
      <4>1. x \in (i + 1)..Len(u) /\ Ends(u, x)
        BY <1>2, <3>1, <3>2 DEF Ends
      <4>2. ASSUME NEW m \in (i + 1)..Len(u), Ends(u, m) PROVE x <= m
        BY <1>2, <2>1, <4>2 DEF IsEndOf, Ends
      <4>3. IsEndOf(u, i, x)
        BY <4>1, <4>2 DEF IsEndOf
      <4> QED
        BY <1>3, <4>3, EndOfIs DEF IsRef, Inside
    <3>3. CASE x > n
      BY <1>2, <3>1, <3>3
    <3> QED
      BY <1>2, <3>1, <3>2, <3>3
  <2>2. Inside(t, i, j)
    BY <1>3, <2>1, EndOfIs DEF IsRef, Inside
  <2> QED
    BY <1>2, <1>3, <2>2 DEF IsRef, Opens
<1>4. ASSUME NEW e \in Refs(u) PROVE e \in Refs(t)
  <2>1. PICK i, j \in 1..Len(u) : IsRef(u, i, j, e)
    BY <1>2, RefsAre
  <2>2. IsRef(t, i, j, e) /\ i \in 1..Len(t) /\ j \in 1..Len(t)
    BY <1>2, <1>3, <2>1
  <2> QED
    BY <2>2, RefsAre
<1> QED
  BY <1>2, <1>4
-----------------------------------------------------------------------------
(* What is written.                                                        *)

(* w is v behind s. *)
Joins(s, v, w) ==
    /\ w \in Seq(Line) /\ Len(w) = Len(s) + Len(v)
    /\ \A m \in 1..Len(s) : w[m] = s[m]
    /\ \A m \in 1..Len(v) : w[Len(s) + m] = v[m]

LEMMA Joined ==
    ASSUME NEW s \in Seq(Line), NEW v \in Seq(Line)
    PROVE  Joins(s, v, s \o v)
<1>1. Len(s) \in Nat /\ Len(v) \in Nat
  OBVIOUS
<1>2. s \o v \in Seq(Line) /\ Len(s \o v) = Len(s) + Len(v)
  BY ConcatProperties
<1>3. ASSUME NEW m \in 1..Len(s) PROVE (s \o v)[m] = s[m]
  BY <1>1, ConcatProperties
<1>4. ASSUME NEW m \in 1..Len(v) PROVE (s \o v)[Len(s) + m] = v[m]
  <2>1. /\ Len(s) + m \in 1..(Len(s) + Len(v)) /\ ~(Len(s) + m <= Len(s))
        /\ (Len(s) + m) - Len(s) = m
    BY <1>1
  <2> QED
    BY <2>1, ConcatProperties
<1> QED
  BY <1>2, <1>3, <1>4 DEF Joins

LEMMA ApplyIsText ==
    ASSUME NEW t \in Seq(Line), NEW r, r.from \in Nat, r.to \in Nat, 1 <= r.from,
           r.from < r.to, r.to <= Len(t), NEW new \in Seq(Line)
    PROVE  Apply(t, r, new) \in Seq(Line)
<1>1. SubSeq(t, 1, r.from) \in Seq(Line) /\ SubSeq(t, r.to, Len(t)) \in Seq(Line)
  OBVIOUS
<1> QED
  BY <1>1 DEF Apply

(* c begins with the first a lines of t; n lines follow, none of which     *)
(* opens chunk d.                                                          *)
Leads(c, t, a, n, d) ==
    /\ c \in Seq(Line) /\ a \in Nat /\ n \in Nat /\ Len(c) = a + n
    /\ \A m \in 1..a : c[m] = t[m]
    /\ \A m \in (a + 1)..(a + n) : ~(c[m].k = "open" /\ c[m].n = d)

LEMMA LeadsOn ==
    ASSUME NEW t \in Seq(Line), NEW c, NEW a, NEW n, NEW d, Leads(c, t, a, n, d),
           NEW w \in Seq(Line), \A m \in 1..Len(w) : ~(w[m].k = "open" /\ w[m].n = d)
    PROVE  Leads(c \o w, t, a, n + Len(w), d)
<1> DEFINE e == c \o w
<1>1. /\ c \in Seq(Line) /\ a \in Nat /\ n \in Nat /\ Len(c) = a + n /\ Len(w) \in Nat
      /\ \A m \in 1..a : c[m] = t[m]
      /\ \A m \in (a + 1)..(a + n) : ~(c[m].k = "open" /\ c[m].n = d)
  BY DEF Leads
<1>2. Joins(c, w, e)
  BY <1>1, Joined
<1> HIDE DEF e
<1>3. /\ e \in Seq(Line) /\ Len(e) = a + (n + Len(w))
      /\ \A m \in 1..(a + n) : e[m] = c[m]
      /\ \A m \in 1..Len(w) : e[(a + n) + m] = w[m]
  BY <1>1, <1>2 DEF Joins
<1>4. ASSUME NEW m \in (a + 1)..(a + (n + Len(w))) PROVE ~(e[m].k = "open" /\ e[m].n = d)
  <2>1. CASE m <= a + n
    BY <1>1, <1>3, <2>1
  <2>2. CASE m > a + n
    <3>1. m - (a + n) \in 1..Len(w) /\ (a + n) + (m - (a + n)) = m
      BY <1>1, <2>2
    <3>2. e[m] = w[m - (a + n)]
      BY <1>3, <3>1
    <3> QED
      BY <3>1, <3>2
  <2> QED
    BY <1>1, <2>1, <2>2
<1>5. \A m \in 1..a : e[m] = t[m]
  BY <1>1, <1>3
<1>6. n + Len(w) \in Nat
  BY <1>1
<1> QED
  BY <1>1, <1>3, <1>4, <1>5, <1>6 DEF Leads, e

(* u is t with y lines put behind line a. *)
Put(t, u, a, y) ==
    /\ t \in Seq(Line) /\ u \in Seq(Line) /\ a \in Nat /\ y \in Nat
    /\ a <= Len(t) /\ Len(u) = Len(t) + y
    /\ \A i \in 1..a : u[i] = t[i]
    /\ \A i \in (a + 1)..Len(t) : u[i + y] = t[i]

OpensNone(u, a, y, d) == \A m \in (a + 1)..(a + y) : ~(u[m].k = "open" /\ u[m].n = d)

LEMMA LeadsPut ==
    ASSUME NEW t \in Seq(Line), NEW c, NEW a, NEW n, NEW d, Leads(c, t, a, n, d), a <= Len(t)
    PROVE  /\ Put(t, c \o SubSeq(t, a + 1, Len(t)), a, n)
           /\ OpensNone(c \o SubSeq(t, a + 1, Len(t)), a, n, d)
<1> DEFINE z == SubSeq(t, a + 1, Len(t))
           u == c \o z
<1>1. /\ c \in Seq(Line) /\ a \in Nat /\ n \in Nat /\ Len(c) = a + n /\ Len(t) \in Nat
      /\ \A m \in 1..a : c[m] = t[m]
      /\ \A m \in (a + 1)..(a + n) : ~(c[m].k = "open" /\ c[m].n = d)
  BY DEF Leads
<1>2. z \in Seq(Line) /\ Len(z) = Len(t) - a /\ \A m \in 1..(Len(t) - a) : z[m] = t[a + m]
  BY <1>1
<1> HIDE DEF z
<1>3. Joins(c, z, u)
  BY <1>1, <1>2, Joined
<1> HIDE DEF u
<1>4. /\ u \in Seq(Line) /\ Len(u) = Len(t) + n
      /\ \A m \in 1..(a + n) : u[m] = c[m]
      /\ \A m \in 1..Len(z) : u[(a + n) + m] = z[m]
  BY <1>1, <1>2, <1>3 DEF Joins
<1>5. ASSUME NEW i \in (a + 1)..Len(t) PROVE u[i + n] = t[i]
  <2>1. i - a \in 1..(Len(t) - a) /\ (a + n) + (i - a) = i + n /\ a + (i - a) = i
    BY <1>1
  <2> QED
    BY <1>2, <1>4, <2>1
<1>6. \A m \in 1..(a + n) : u[m] = c[m]
  BY <1>4
<1>7. OpensNone(u, a, n, d)
  BY <1>1, <1>6 DEF OpensNone
<1>8. \A i \in 1..a : u[i] = t[i]
  BY <1>1, <1>6
<1> QED
  BY <1>1, <1>4, <1>5, <1>7, <1>8 DEF Put, u, z

(* A note goes behind the close marker of its range or the fence there.    *)
LEMMA NotePut ==
    ASSUME NEW t \in Seq(Line), NEW r, r.to \in 1..Len(t), NEW note \in Seq(Line), NEW d,
           \A m \in 1..Len(note) : ~(note[m].k = "open" /\ note[m].n = d)
    PROVE  \E y \in Nat : /\ Put(t, WithNote(t, r, note), NotePlace(t, r), y)
                          /\ OpensNone(WithNote(t, r, note), NotePlace(t, r), y, d)
<1> DEFINE a == NotePlace(t, r)
           c0 == SubSeq(t, 1, a)
           c1 == c0 \o <<Frame>>
           c2 == c1 \o note
           c3 == c2 \o <<Frame>>
<1>1. a \in 1..Len(t)
  BY DEF NotePlace
<1>2. WithNote(t, r, note) = c3 \o SubSeq(t, a + 1, Len(t))
  BY DEF WithNote
<1>3. /\ <<Frame>> \in Seq(Line) /\ Len(<<Frame>>) = 1
      /\ \A m \in 1..Len(<<Frame>>) : ~(<<Frame>>[m].k = "open" /\ <<Frame>>[m].n = d)
  BY ConstantsOK
<1> HIDE DEF a
<1>4. Leads(c0, t, a, 0, d)
  BY <1>1 DEF Leads
<1> HIDE DEF c0
<1>5. Leads(c1, t, a, 0 + Len(<<Frame>>), d)
  BY <1>3, <1>4, LeadsOn
<1> HIDE DEF c1
<1>6. Leads(c2, t, a, (0 + Len(<<Frame>>)) + Len(note), d)
  BY <1>5, LeadsOn
<1> HIDE DEF c2
<1>7. Leads(c3, t, a, ((0 + Len(<<Frame>>)) + Len(note)) + Len(<<Frame>>), d)
  BY <1>3, <1>6, LeadsOn
<1> HIDE DEF c3
<1> DEFINE y == ((0 + Len(<<Frame>>)) + Len(note)) + Len(<<Frame>>)
<1>8. y \in Nat /\ Leads(c3, t, a, y, d)
  BY <1>3, <1>7
<1> HIDE DEF y
<1>9. /\ Put(t, c3 \o SubSeq(t, a + 1, Len(t)), a, y)
      /\ OpensNone(c3 \o SubSeq(t, a + 1, Len(t)), a, y, d)
  BY <1>1, <1>8, LeadsPut
<1> QED
  BY <1>2, <1>8, <1>9 DEF a

LEMMA NoteIsText ==
    ASSUME NEW t \in Seq(Line), NEW r, r.to \in 1..Len(t), NEW note \in Seq(Line)
    PROVE  WithNote(t, r, note) \in Seq(Line)
<1>1. /\ SubSeq(t, 1, NotePlace(t, r)) \in Seq(Line)
      /\ SubSeq(t, NotePlace(t, r) + 1, Len(t)) \in Seq(Line)
  BY DEF NotePlace
<1>2. <<Frame>> \in Seq(Line)
  BY ConstantsOK
<1> QED
  BY <1>1, <1>2 DEF WithNote

LEMMA ProseInserted ==
    ASSUME NEW t \in Seq(Line)
    PROVE  /\ <<Prose>> \o t \in Seq(Line) /\ Inserted(t, <<Prose>> \o t, 1)
           /\ t # <<>> /\ Head(t) = Prose => Tail(t) \in Seq(Line) /\ Inserted(Tail(t), t, 1)
<1>1. Prose \in Line /\ Prose.k = "text"
  BY ConstantsOK
<1>2. <<Prose>> \o t \in Seq(Line) /\ Inserted(t, <<Prose>> \o t, 1)
  <2> DEFINE u == <<Prose>> \o t
  <2>1. u \in Seq(Line) /\ Len(u) = Len(t) + 1 /\ u[1] = Prose
        /\ \A i \in 1..Len(t) : u[i + 1] = t[i]
    BY <1>1
  <2> HIDE DEF u
  <2>2. Inserted(t, u, 1)
    BY <1>1, <2>1 DEF Inserted, Shift
  <2> QED
    BY <2>1, <2>2 DEF u
<1>3. ASSUME t # <<>>, Head(t) = Prose
      PROVE  Tail(t) \in Seq(Line) /\ Inserted(Tail(t), t, 1)
  <2> DEFINE u == Tail(t)
  <2>1. u \in Seq(Line) /\ Len(t) = Len(u) + 1 /\ t[1] = Prose
        /\ \A i \in 1..Len(u) : t[i + 1] = u[i]
    BY <1>3
  <2> HIDE DEF u
  <2>2. Inserted(u, t, 1)
    BY <1>1, <2>1 DEF Inserted, Shift
  <2> QED
    BY <2>1, <2>2 DEF u
<1> QED
  BY <1>2, <1>3

-----------------------------------------------------------------------------
(* The server. *)

PanelFields == DOMAIN Blank

(* A panel whose thread has a range from weaveback.db, has read a text, is *)
(* about to write.                                                         *)
HasRange(r) == r.pc \in {"load", "compare", "note", "oracle", "truncate", "write"}
HasBase(r) == r.pc \in {"oracle", "truncate", "write"}
Writing(r) == r.pc \in {"truncate", "write"}

File(p) == Target[p].file

(* Edited, of a state r of a panel. *)
EditOf(r) ==
    IF r.kind = "note" THEN WithNote(r.base, r.range, r.new) ELSE Apply(r.base, r.range, r.new)

PanelTyped(r) ==
    /\ DOMAIN r = PanelFields
    /\ HasRange(r) => /\ r.range.from \in Nat /\ r.range.to \in Nat
                      /\ 1 <= r.range.from /\ r.range.from < r.range.to
    /\ HasBase(r) => /\ r.base \in Seq(Line) /\ r.new \in Seq(Line)
                     /\ r.range.to <= Len(r.base)

Typed ==
    /\ texts \in [Files -> Seq(Line)]
    /\ known \in [Files -> Seq(Line)]
    /\ DOMAIN panel = Panels
    /\ \A p \in Panels : PanelTyped(panel[p])

LEMMA BlankFields ==
    /\ PanelFields = {"pc", "orig", "range", "kind", "base", "new"}
    /\ DOMAIN Blank = PanelFields /\ Blank.pc = "closed"
BY DEF PanelFields, Blank

LEMMA FileIsFile == \A p \in Panels : File(p) \in Files
BY ConstantsOK DEF File

LEMMA EditOfPanel == \A p : Edited(p) = EditOf(panel[p])
BY DEF Edited, EditOf

LEMMA EditedIsText ==
    ASSUME NEW r, PanelTyped(r), HasBase(r)
    PROVE  EditOf(r) \in Seq(Line)
<1>1. /\ r.base \in Seq(Line) /\ r.new \in Seq(Line)
      /\ r.range.from \in Nat /\ r.range.to \in Nat /\ 1 <= r.range.from
      /\ r.range.from < r.range.to /\ r.range.to <= Len(r.base)
  BY DEF PanelTyped, HasRange, HasBase
<1>2. r.range.to \in 1..Len(r.base)
  BY <1>1
<1>3. WithNote(r.base, r.range, r.new) \in Seq(Line)
  BY <1>1, <1>2, NoteIsText
<1>4. Apply(r.base, r.range, r.new) \in Seq(Line)
  BY <1>1, ApplyIsText
<1> QED
  BY <1>3, <1>4 DEF EditOf
-----------------------------------------------------------------------------
(* The steps. *)

LEMMA RowsAreRanges ==
    ASSUME Typed, NEW p \in Panels, NEW r \in Rows(p)
    PROVE  r.from \in Nat /\ r.to \in Nat /\ 1 <= r.from /\ r.from < r.to
<1> DEFINE t == known[File(p)]
<1>1. t \in Seq(Line)
  BY FileIsFile DEF Typed
<1>2. PICK i \in DOMAIN t : \E j \in EndOf(t, i) : r = [from |-> i, to |-> j]
  BY DEF Rows, Ranges, File
<1>3. PICK j \in EndOf(t, i) : r = [from |-> i, to |-> j]
  BY <1>2
<1>4. i \in Nat /\ 1 <= i /\ j \in (i + 1)..Len(t)
  BY <1>1, <1>3, EndOfIs DEF IsEndOf
<1> QED
  BY <1>3, <1>4

LEMMA TypedNow ==
    ASSUME Typed, NEW p \in Panels
    PROVE  PanelTyped(panel[p]) /\ Text(p) \in Seq(Line) /\ DOMAIN panel[p] = PanelFields
BY FileIsFile DEF Typed, PanelTyped, Text, File

(* What a thread does to its panel, which becomes r, while no source       *)
(* changes: it comes to an end, takes a range, compares, passes the check, *)
(* or reads for a note.                                                    *)
Rests(r) == r.pc \in {"open", "closed"}

LooksUp(r) == r.pc \in {"load", "compare", "note"}

Compares(p, r) ==
    /\ panel[p].pc = "compare" /\ r.pc = "oracle"
    /\ r.kind = "save" /\ r.base = Text(p)
    /\ Extract(r.base, r.range) = r.orig

Alike(o, r) ==
    /\ r.kind = o.kind /\ r.base = o.base /\ r.new = o.new
    /\ r.range = o.range /\ r.orig = o.orig

Passes(p, r) ==
    /\ panel[p].pc = "oracle" /\ r.pc = "truncate"
    /\ Alike(panel[p], r) /\ Oracle(p)

ReadsForNote(p, r) ==
    /\ panel[p].pc = "note" /\ r.pc = "truncate"
    /\ r.kind = "note" /\ r.base = Text(p)

PanelStep(p, r) ==
    /\ panel' = [panel EXCEPT ![p] = r] /\ PanelTyped(r)
    /\ panel[p].pc # "write" /\ UNCHANGED <<texts, known>>
    /\ Rests(r) \/ LooksUp(r) \/ Compares(p, r) \/ Passes(p, r) \/ ReadsForNote(p, r)

(* It empties the source or writes the text t, all that it has to write or *)
(* the beginning of it.                                                    *)
DiskStep(p, t, r) ==
    /\ texts' = [texts EXCEPT ![File(p)] = t] /\ t \in Seq(Line)
    /\ panel' = [panel EXCEPT ![p] = r] /\ PanelTyped(r)
    /\ UNCHANGED known
    /\ \/ panel[p].pc = "truncate" /\ r.pc = "write" /\ t = <<>> /\ Alike(panel[p], r)
       \/ panel[p].pc = "write" /\ r.pc = "open" /\ t \in Beginnings(EditOf(panel[p]))

(* The user puts a line on top, or takes it away. *)
UserStep(f, t) ==
    /\ texts' = [texts EXCEPT ![f] = t] /\ t \in Seq(Line)
    /\ Inserted(texts[f], t, 1) \/ Inserted(t, texts[f], 1)
    /\ UNCHANGED <<panel, known>>

(* The user tangles, or what happens concerns no source and no panel. *)
OtherStep == UNCHANGED <<texts, panel>> /\ known' \in {known, texts}

LEMMA RestStep ==
    ASSUME Typed, NEW p \in Panels, NEW r, DOMAIN r = PanelFields,
           Rests(r), panel' = [panel EXCEPT ![p] = r], panel[p].pc # "write",
           UNCHANGED <<texts, known>>
    PROVE  PanelStep(p, r)
BY DEF PanelTyped, HasRange, HasBase, PanelStep, Rests

LEMMA LookUpStep ==
    ASSUME Typed, NEW p \in Panels, NEW from, from # "write", NEW to \in {"load", "compare", "note"},
           LookUp(p, from, to)
    PROVE  \E r : PanelStep(p, r)
<1>1. PICK g \in Rows(p) : panel' = [panel EXCEPT ![p].pc = to, ![p].range = g]
  BY DEF LookUp
<1> DEFINE r == [panel[p] EXCEPT !.pc = to, !.range = g]
<1>2. panel' = [panel EXCEPT ![p] = r]
  BY <1>1 DEF Typed
<1>3. r.pc = to /\ r.range = g /\ DOMAIN r = PanelFields
  BY TypedNow, BlankFields
<1> HIDE DEF r
<1>4. PanelTyped(r)
  BY <1>3, RowsAreRanges DEF PanelTyped, HasBase
<1>5. LooksUp(r) /\ panel[p].pc # "write" /\ UNCHANGED <<texts, known>>
  BY <1>3 DEF LooksUp, LookUp, sources
<1> QED
  BY <1>2, <1>4, <1>5 DEF PanelStep

LEMMA ReaderMoves ==
    ASSUME Typed, NEW p \in Panels, ReadsDisk(p) \/ OpenFails(p)
    PROVE  \E r : PanelStep(p, r)
<1>0. DOMAIN panel[p] = PanelFields /\ PanelTyped(panel[p]) /\ Text(p) \in Seq(Line)
  BY TypedNow
<1>1. CASE LoadFails(p) \/ SaveRefused(p) \/ SaveFailsCheck(p) \/ NotePanics(p) \/ OpenFails(p)
  <2>1. panel[p].pc # "write" /\ \E pc \in {"open", "closed"} : Answer(p, pc)
    BY <1>1 DEF LoadFails, SaveRefused, SaveFailsCheck, NotePanics, OpenFails
  <2>5. PICK pc \in {"open", "closed"} : Answer(p, pc)
    BY <2>1
  <2> DEFINE r == [Blank EXCEPT !.pc = pc, !.orig = panel[p].orig]
  <2>2. r.pc = pc /\ DOMAIN r = PanelFields /\ panel' = [panel EXCEPT ![p] = r]
    BY <2>5, BlankFields DEF Answer
  <2>3. UNCHANGED <<texts, known>>
    BY <1>1 DEF LoadFails, SaveRefused, SaveFailsCheck, NotePanics, OpenFails, sources
  <2> HIDE DEF r
  <2>4. Rests(r)
    BY <2>2 DEF Rests
  <2> QED
    BY <2>1, <2>2, <2>3, <2>4, RestStep
<1>2. CASE Load(p)
  <2> DEFINE r == [Blank EXCEPT !.pc = "open", !.orig = Extract(Text(p), panel[p].range)]
  <2>1. r.pc = "open" /\ DOMAIN r = PanelFields /\ panel' = [panel EXCEPT ![p] = r]
        /\ panel[p].pc # "write" /\ UNCHANGED <<texts, known>>
    BY <1>2, BlankFields DEF Load, sources
  <2> HIDE DEF r
  <2> QED
    BY <2>1, RestStep DEF Rests
<1>3. CASE SaveCompares(p)
  <2>1. PICK body \in NewBodies :
          panel' = [panel EXCEPT ![p].pc = "oracle", ![p].kind = "save",
                                 ![p].base = Text(p), ![p].new = body]
    BY <1>3 DEF SaveCompares
  <2> DEFINE r == [panel[p] EXCEPT !.pc = "oracle", !.kind = "save", !.base = Text(p), !.new = body]
  <2>2. panel' = [panel EXCEPT ![p] = r]
    BY <2>1 DEF Typed
  <2>3. /\ r.pc = "oracle" /\ r.kind = "save" /\ r.base = Text(p) /\ r.new = body
        /\ r.range = panel[p].range /\ r.orig = panel[p].orig /\ DOMAIN r = PanelFields
    BY <1>0, BlankFields
  <2>4. /\ panel[p].pc = "compare" /\ panel[p].range.to <= Len(Text(p))
        /\ Extract(Text(p), panel[p].range) = panel[p].orig
        /\ UNCHANGED <<texts, known>>
    BY <1>3 DEF SaveCompares, SameBody, InBounds, sources
  <2> HIDE DEF r
  <2>5. PanelTyped(r)
    BY <1>0, <2>1, <2>3, <2>4, ConstantsOK DEF PanelTyped, HasRange, HasBase
  <2>6. Compares(p, r)
    BY <2>3, <2>4 DEF Compares
  <2> QED
    BY <2>2, <2>4, <2>5, <2>6 DEF PanelStep
<1>4. CASE SavePassesCheck(p)
  <2> DEFINE r == [panel[p] EXCEPT !.pc = "truncate"]
  <2>1. panel' = [panel EXCEPT ![p] = r]
    BY <1>4 DEF SavePassesCheck, Move, Typed
  <2>2. r.pc = "truncate" /\ Alike(panel[p], r) /\ DOMAIN r = PanelFields
    BY <1>0, BlankFields DEF Alike
  <2>3. panel[p].pc = "oracle" /\ Oracle(p) /\ UNCHANGED <<texts, known>>
    BY <1>4 DEF SavePassesCheck, sources
  <2> HIDE DEF r
  <2>4. PanelTyped(r)
    BY <1>0, <2>2, <2>3 DEF PanelTyped, HasRange, HasBase, Alike
  <2>5. Passes(p, r)
    BY <2>2, <2>3 DEF Passes
  <2> QED
    BY <2>1, <2>3, <2>4, <2>5 DEF PanelStep
<1>5. CASE NoteReads(p)
  <2>1. PICK note \in Notes :
          panel' = [panel EXCEPT ![p].pc = "truncate", ![p].kind = "note",
                                 ![p].base = Text(p), ![p].new = note]
    BY <1>5 DEF NoteReads
  <2> DEFINE r == [panel[p] EXCEPT !.pc = "truncate", !.kind = "note", !.base = Text(p), !.new = note]
  <2>2. panel' = [panel EXCEPT ![p] = r]
    BY <2>1 DEF Typed
  <2>3. /\ r.pc = "truncate" /\ r.kind = "note" /\ r.base = Text(p) /\ r.new = note
        /\ r.range = panel[p].range /\ DOMAIN r = PanelFields
    BY <1>0, BlankFields
  <2>4. panel[p].pc = "note" /\ panel[p].range.to <= Len(Text(p))
        /\ UNCHANGED <<texts, known>>
    BY <1>5 DEF NoteReads, sources
  <2> HIDE DEF r
  <2>5. PanelTyped(r)
    BY <1>0, <2>1, <2>3, <2>4, ConstantsOK DEF PanelTyped, HasRange, HasBase
  <2>6. ReadsForNote(p, r)
    BY <2>3, <2>4 DEF ReadsForNote
  <2> QED
    BY <2>2, <2>4, <2>5, <2>6 DEF PanelStep
<1> QED
  BY <1>1, <1>2, <1>3, <1>4, <1>5 DEF ReadsDisk

LEMMA DiskMoves ==
    ASSUME Typed, NEW p \in Panels, WritesDisk(p)
    PROVE  \E t, r : DiskStep(p, t, r)
<1>0. DOMAIN panel[p] = PanelFields /\ PanelTyped(panel[p])
  BY TypedNow
<1>1. CASE Truncate(p)
  <2> DEFINE r == [panel[p] EXCEPT !.pc = "write"]
  <2>1. panel' = [panel EXCEPT ![p] = r] /\ panel[p].pc = "truncate"
        /\ texts' = [texts EXCEPT ![File(p)] = <<>>] /\ UNCHANGED known
    BY <1>1 DEF Truncate, Move, Typed, File
  <2>2. r.pc = "write" /\ Alike(panel[p], r) /\ DOMAIN r = PanelFields
    BY <1>0, BlankFields DEF Alike
  <2> HIDE DEF r
  <2>3. PanelTyped(r)
    BY <1>0, <2>1, <2>2 DEF PanelTyped, HasRange, HasBase, Alike
  <2>4. <<>> \in Seq(Line)
    OBVIOUS
  <2>5. DiskStep(p, <<>>, r)
    BY <2>1, <2>2, <2>3, <2>4 DEF DiskStep
  <2> QED
    BY <2>5
<1>2. CASE Write(p)
  <2> DEFINE t == EditOf(panel[p])
  <2>1. panel[p].pc = "write" /\ UNCHANGED known /\ texts' = [texts EXCEPT ![File(p)] = t]
    BY <1>2, EditOfPanel DEF Write, File
  <2>2. t \in Seq(Line)
    BY <1>0, <2>1, EditedIsText DEF HasBase
  <2>3. t \in Beginnings(t)
    <3>1. Len(t) \in 0..Len(t) /\ SubSeq(t, 1, Len(t)) = t
      BY <2>2
    <3> HIDE DEF t
    <3> QED
      BY <3>1 DEF Beginnings
  <2> HIDE DEF t
  <2> DEFINE r == [Blank EXCEPT !.pc = "open",
                          !.orig = IF panel[p].kind = "save" THEN panel[p].new ELSE panel[p].orig]
  <2>4. panel' = [panel EXCEPT ![p] = r] /\ r.pc = "open" /\ DOMAIN r = PanelFields
    BY <1>2, BlankFields DEF Write
  <2> HIDE DEF r
  <2>5. PanelTyped(r)
    BY <2>4 DEF PanelTyped, HasRange, HasBase
  <2>6. DiskStep(p, t, r)
    BY <2>1, <2>2, <2>3, <2>4, <2>5 DEF DiskStep, t
  <2> QED
    BY <2>6
<1>3. CASE WriteFails(p)
  <2>1. PICK t \in Beginnings(Edited(p)) : texts' = [texts EXCEPT ![File(p)] = t]
    BY <1>3 DEF WriteFails, File
  <2>2. panel[p].pc = "write" /\ UNCHANGED known /\ Answer(p, "open")
    BY <1>3 DEF WriteFails
  <2>3. EditOf(panel[p]) \in Seq(Line) /\ t \in Beginnings(EditOf(panel[p]))
    BY <1>0, <2>1, <2>2, EditedIsText, EditOfPanel DEF HasBase
  <2>4. t \in Seq(Line)
    BY <2>3, BeginningRefs
  <2> DEFINE r == [Blank EXCEPT !.pc = "open", !.orig = panel[p].orig]
  <2>5. panel' = [panel EXCEPT ![p] = r] /\ r.pc = "open" /\ DOMAIN r = PanelFields
    BY <2>2, BlankFields DEF Answer
  <2> HIDE DEF r
  <2>6. PanelTyped(r)
    BY <2>5 DEF PanelTyped, HasRange, HasBase
  <2>7. DiskStep(p, t, r)
    BY <2>1, <2>2, <2>3, <2>4, <2>5, <2>6 DEF DiskStep
  <2> QED
    BY <2>7
<1> QED
  BY <1>1, <1>2, <1>3 DEF WritesDisk

LEMMA UserMoves ==
    ASSUME Typed, NEW f \in Files, UserEdits(f)
    PROVE  \E t : UserStep(f, t)
<1>1. texts[f] \in Seq(Line)
  BY DEF Typed
<1>2. CASE texts[f] # <<>> /\ Head(texts[f]) = Prose
  <2>1. texts' = [texts EXCEPT ![f] = Tail(texts[f])] /\ UNCHANGED <<known, panel>>
    BY <1>2 DEF UserEdits
  <2>2. UserStep(f, Tail(texts[f]))
    BY <1>1, <1>2, <2>1, ProseInserted DEF UserStep
  <2> QED
    BY <2>2
<1>3. CASE ~(texts[f] # <<>> /\ Head(texts[f]) = Prose)
  <2>1. texts' = [texts EXCEPT ![f] = <<Prose>> \o texts[f]] /\ UNCHANGED <<known, panel>>
    BY <1>3 DEF UserEdits
  <2>2. UserStep(f, <<Prose>> \o texts[f])
    BY <1>1, <2>1, ProseInserted DEF UserStep
  <2> QED
    BY <2>2
<1> QED
  BY <1>2, <1>3

Step ==
    \/ OtherStep
    \/ \E p \in Panels : \/ \E r : PanelStep(p, r)
                         \/ \E t, r : DiskStep(p, t, r)
    \/ \E f \in Files : \E t : UserStep(f, t)

LEMMA Steps ==
    ASSUME Typed, [Next]_serveVars
    PROVE  Typed' /\ Step
<1>1. Step
  <2>1. CASE UNCHANGED vars
    BY <2>1 DEF vars, OtherStep, Step
  <2>2. CASE UserTangles
    BY <2>2 DEF UserTangles, OtherStep, Step
  <2>3. ASSUME NEW p \in Panels, Handler(p) PROVE Step
    BY <2>3, ReaderMoves, DiskMoves DEF Handler, Step
  <2>4. ASSUME NEW p \in Panels, OpenPanel(p) \/ SaveLooksUp(p) \/ NoteLooksUp(p) PROVE Step
    BY <2>4, LookUpStep DEF OpenPanel, SaveLooksUp, NoteLooksUp, Step
  <2>5. ASSUME NEW p \in Panels, ClosePanel(p) PROVE Step
    <3>1. panel' = [panel EXCEPT ![p] = Blank] /\ panel[p].pc # "write"
          /\ UNCHANGED <<texts, known>>
      BY <2>5 DEF ClosePanel, sources
    <3>2. PanelStep(p, Blank)
      BY <3>1, BlankFields, RestStep DEF Rests
    <3> QED
      BY <3>2 DEF Step
  <2>6. ASSUME NEW f \in Files, UserEdits(f) PROVE Step
    BY <2>6, UserMoves DEF Step
  <2> QED
    BY <2>1, <2>2, <2>3, <2>4, <2>5, <2>6 DEF Next, serveVars
<1>2. ASSUME OtherStep PROVE Typed'
  BY <1>2 DEF OtherStep, Typed
<1>3. ASSUME NEW p \in Panels, NEW r, PanelStep(p, r) PROVE Typed'
  BY <1>3 DEF PanelStep, Typed
<1>4. ASSUME NEW p \in Panels, NEW t, NEW r, DiskStep(p, t, r) PROVE Typed'
  BY <1>4, FileIsFile DEF DiskStep, Typed
<1>5. ASSUME NEW f \in Files, NEW t, UserStep(f, t) PROVE Typed'
  BY <1>5 DEF UserStep, Typed
<1> QED
  BY <1>1, <1>2, <1>3, <1>4, <1>5 DEF Step
-----------------------------------------------------------------------------
(* What a save leaves expands.                                             *)

(* What a save is about to write expands with the other sources as they    *)
(* are.                                                                    *)
PanelSound(r, p) ==
    Writing(r) /\ r.kind = "save" => Expands([texts EXCEPT ![File(p)] = EditOf(r)])

SrcInv == Typed /\ \A p \in Panels : PanelSound(panel[p], p)

OneSource == \A p, q \in Panels : File(p) = File(q)

LEMMA PanelKeeps ==
    ASSUME SrcInv, NEW p \in Panels, NEW r, PanelStep(p, r), Typed'
    PROVE  SrcInv'
<1>1. PanelSound(r, p)
  <2>1. CASE Rests(r) \/ LooksUp(r) \/ Compares(p, r) \/ ReadsForNote(p, r)
    BY <2>1 DEF Rests, LooksUp, Compares, ReadsForNote, PanelSound, Writing
  <2>2. CASE Passes(p, r)
    <3>1. EditOf(r) = Edited(p)
      BY <2>2 DEF EditOf, Edited, Passes, Alike
    <3> QED
      BY <2>2, <3>1 DEF PanelSound, Oracle, File, Passes
  <2> QED
    BY <2>1, <2>2 DEF PanelStep
<1>2. \A q \in Panels : PanelSound(panel[q], q)'
  BY <1>1 DEF PanelStep, SrcInv, Typed, PanelSound
<1> QED
  BY <1>2 DEF SrcInv, PanelStep

(* All panels edit one source, so a write takes nothing from the others.   *)
LEMMA DiskKeeps ==
    ASSUME OneSource, SrcInv, NEW p \in Panels, NEW t, NEW r, DiskStep(p, t, r), Typed'
    PROVE  SrcInv'
<1>1. Writing(r) => Writing(panel[p]) /\ r.kind = panel[p].kind /\ EditOf(r) = EditOf(panel[p])
  BY DEF DiskStep, Writing, Alike, EditOf
<1>2. ASSUME NEW q \in Panels, Writing(panel'[q]), panel'[q].kind = "save"
      PROVE  Expands([texts' EXCEPT ![File(q)] = EditOf(panel'[q])])
  <2>1. Writing(panel[q]) /\ panel[q].kind = "save" /\ EditOf(panel'[q]) = EditOf(panel[q])
    BY <1>1, <1>2 DEF SrcInv, Typed, DiskStep
  <2>2. File(q) = File(p)
    BY DEF OneSource
  <2>3. [texts' EXCEPT ![File(q)] = EditOf(panel[q])]
          = [texts EXCEPT ![File(q)] = EditOf(panel[q])]
    BY <2>2, FileIsFile DEF SrcInv, Typed, DiskStep
  <2> QED
    BY <2>1, <2>3 DEF SrcInv, PanelSound
<1>3. \A q \in Panels : File(q)' = File(q)
  BY DEF File
<1> QED
  BY <1>2, <1>3 DEF SrcInv, PanelSound

LEMMA UserKeeps ==
    ASSUME SrcInv, NEW f \in Files, NEW t, UserStep(f, t), Typed'
    PROVE  SrcInv'
<1>1. texts[f] \in Seq(Line) /\ t \in Seq(Line)
  BY DEF SrcInv, Typed, UserStep
<1>2. Refs(t) = Refs(texts[f])
  <2>1. \A u \in Seq(Line) : 1 \in 1..(Len(u) + 1)
    OBVIOUS
  <2> QED
    BY <1>1, <2>1, InertLine DEF UserStep
<1>3. texts' = [texts EXCEPT ![f] = t] /\ UNCHANGED panel
  BY DEF UserStep
<1>5. ASSUME NEW q \in Panels, Writing(panel[q]), panel[q].kind = "save"
      PROVE  Expands([texts' EXCEPT ![File(q)] = EditOf(panel[q])])
  <2> DEFINE e == EditOf(panel[q])
  <2> DEFINE ts == [texts EXCEPT ![File(q)] = e]
  <2>1. Expands(ts)
    BY <1>5 DEF SrcInv, PanelSound
  <2> HIDE DEF e
  <2>2. CASE f = File(q)
    <3>1. [texts' EXCEPT ![File(q)] = e] = ts
      BY <1>3, <2>2 DEF SrcInv, Typed
    <3> QED
      BY <2>1, <3>1 DEF e
  <2>3. CASE f # File(q)
    <3>1. [texts' EXCEPT ![File(q)] = e] = [ts EXCEPT ![f] = t]
      BY <1>3, <2>3 DEF SrcInv, Typed
    <3>2. DOMAIN ts = Files /\ ts[f] = texts[f]
      BY <2>3 DEF SrcInv, Typed
    <3> HIDE DEF ts
    <3>3. Expands([ts EXCEPT ![f] = t])
      BY <1>2, <2>1, <3>2, ReplacedText
    <3> QED
      BY <3>1, <3>3 DEF e
  <2> QED
    BY <2>2, <2>3
<1>6. \A q \in Panels : File(q)' = File(q)
  BY DEF File
<1> QED
  BY <1>3, <1>5, <1>6 DEF SrcInv, PanelSound

LEMMA ServeNext ==
    ASSUME OneSource, SrcInv, [Next]_serveVars
    PROVE  SrcInv'
<1>1. Typed' /\ Step
  BY Steps DEF SrcInv
<1>2. ASSUME OtherStep PROVE SrcInv'
  <2>1. \A q \in Panels : File(q)' = File(q)
    BY DEF File
  <2> QED
    BY <1>1, <1>2, <2>1 DEF SrcInv, PanelSound, OtherStep
<1> QED
  BY <1>1, <1>2, PanelKeeps, DiskKeeps, UserKeeps DEF Step

LEMMA ServeStart == ASSUME ServeInit PROVE Typed /\ \A p \in Panels : panel[p].pc = "closed"
<1>1. texts \in Inputs /\ known = texts /\ panel = [p \in Panels |-> Blank]
  BY DEF ServeInit, Init
<1> QED
  BY <1>1, ConstantsOK, BlankFields DEF Typed, PanelTyped, HasRange, HasBase

(* A save writes what expands, or the beginning of it. *)
LEMMA SaveExpands ==
    ASSUME SrcInv, Step, NEW p \in Panels, SaveOver(p)
    PROVE  Expands(texts')
<1>1. panel[p].pc = "write" /\ panel[p].kind = "save" /\ panel'[p].pc = "open"
  BY DEF SaveOver
<1>2. PICK t, r : DiskStep(p, t, r)
  <2>1. ~OtherStep /\ ~\E f \in Files : \E t : UserStep(f, t)
    BY <1>1 DEF OtherStep, UserStep
  <2>2. ASSUME NEW q \in Panels, (\E r : PanelStep(q, r)) \/ (\E t, r : DiskStep(q, t, r))
        PROVE  q = p
    BY <1>1, <2>2 DEF PanelStep, DiskStep, SrcInv, Typed
  <2>3. ~\E r : PanelStep(p, r)
    BY <1>1 DEF PanelStep
  <2> QED
    BY <2>1, <2>2, <2>3 DEF Step
<1> DEFINE e == EditOf(panel[p])
           ts == [texts EXCEPT ![File(p)] = e]
<1>3. t \in Beginnings(e) /\ texts' = [texts EXCEPT ![File(p)] = t]
  BY <1>1, <1>2 DEF DiskStep
<1>4. e \in Seq(Line)
  BY <1>1, EditedIsText DEF HasBase, SrcInv, Typed
<1>5. Expands(ts)
  BY <1>1 DEF SrcInv, PanelSound, Writing
<1> HIDE DEF e
<1>6. Refs(t) \subseteq Refs(e)
  BY <1>3, <1>4, BeginningRefs
<1>7. DOMAIN ts = Files /\ ts[File(p)] = e /\ texts' = [ts EXCEPT ![File(p)] = t]
  BY <1>3, FileIsFile DEF SrcInv, Typed
<1> HIDE DEF ts
<1>8. Expands([ts EXCEPT ![File(p)] = t])
  BY <1>5, <1>6, <1>7, FileIsFile, ReplacedText
<1> QED
  BY <1>7, <1>8

(* Where all panels edit chunks of one source, a save leaves sources that  *)
(* expand, written in full or in part: its tangle check is still good when *)
(* it reaches the disk, after any number of other saves, of notes that     *)
(* break the source and of edits by the user, with ranges of any age, and  *)
(* with a source that is empty for a moment while it is written.           *)
THEOREM SavedSourcesExpand ==
    ASSUME OneSource
    PROVE  Spec => SavesExpand
<1>1. ServeInit => SrcInv
  BY ServeStart DEF SrcInv, PanelSound, Writing
<1>2. SrcInv /\ [Next]_serveVars => SrcInv'
  BY ServeNext
<1>3. SrcInv /\ [Next]_serveVars => [\A p \in Panels : SaveOver(p) => Expands(texts')]_serveVars
  BY Steps, SaveExpands DEF SrcInv
<1> QED
  BY <1>1, <1>2, <1>3, PTL DEF Spec, SavesExpand

-----------------------------------------------------------------------------
(* Chunks, where lines are put behind one of them.                         *)

(* Chunk c is opened by line i of t and closed by line j. *)
IsRange(t, c, i, j) ==
    /\ i \in 1..Len(t) /\ Opens(t, i) /\ t[i].n = c
    /\ IsEndOf(t, i, j) /\ t[j].k = "close"

BodyOf(t, i, j) == SubSeq(t, i + 1, j - 1)

LEMMA RangesAre ==
    ASSUME NEW t \in Seq(Line), NEW c
    PROVE  \A r : r \in Ranges(t, c) <=>
                    \E i, j \in Nat : r = [from |-> i, to |-> j] /\ IsRange(t, c, i, j)
<1>1. ASSUME NEW r, r \in Ranges(t, c)
      PROVE  \E i, j \in Nat : r = [from |-> i, to |-> j] /\ IsRange(t, c, i, j)
  <2>1. PICK i \in DOMAIN t : /\ Opens(t, i) /\ t[i].n = c
                              /\ \E j \in EndOf(t, i) : t[j].k = "close" /\ r = [from |-> i, to |-> j]
    BY <1>1 DEF Ranges
  <2>2. PICK j \in EndOf(t, i) : t[j].k = "close" /\ r = [from |-> i, to |-> j]
    BY <2>1
  <2>3. i \in 1..Len(t) /\ IsEndOf(t, i, j) /\ i \in Nat /\ j \in Nat
    BY EndOfIs DEF IsEndOf
  <2> QED
    BY <2>1, <2>2, <2>3 DEF IsRange
<1>2. ASSUME NEW i \in Nat, NEW j \in Nat, IsRange(t, c, i, j)
      PROVE  [from |-> i, to |-> j] \in Ranges(t, c)
  <2>1. j \in EndOf(t, i) /\ i \in DOMAIN t
    BY <1>2, EndOfIs DEF IsRange
  <2> QED
    BY <1>2, <2>1 DEF Ranges, IsRange
<1> QED
  BY <1>1, <1>2

LEMMA BodiesAre ==
    ASSUME NEW t \in Seq(Line), NEW c
    PROVE  \A b : b \in Bodies(t, c) <=>
                    \E i, j \in Nat : IsRange(t, c, i, j) /\ b = BodyOf(t, i, j)
<1>1. ASSUME NEW r \in Ranges(t, c)
      PROVE  \E i, j \in Nat : IsRange(t, c, i, j) /\ Extract(t, r) = BodyOf(t, i, j)
  BY RangesAre DEF Extract, BodyOf
<1>2. ASSUME NEW i \in Nat, NEW j \in Nat, IsRange(t, c, i, j)
      PROVE  BodyOf(t, i, j) \in Bodies(t, c)
  <2> DEFINE r == [from |-> i, to |-> j]
  <2>1. r \in Ranges(t, c) /\ Extract(t, r) = BodyOf(t, i, j)
    BY <1>2, RangesAre DEF Extract, BodyOf
  <2> QED
    BY <2>1 DEF Bodies
<1> QED
  BY <1>1, <1>2 DEF Bodies

LEMMA OneEnd ==
    ASSUME NEW t \in Seq(Line), NEW i \in Nat, NEW e, NEW d, IsEndOf(t, i, e), IsEndOf(t, i, d)
    PROVE  e = d
BY DEF IsEndOf

LEMMA EndBefore ==
    ASSUME NEW t, NEW u, NEW a, NEW y, Put(t, u, a, y),
           NEW i \in 1..a, NEW e \in 1..a, IsEndOf(t, i, e)
    PROVE  IsEndOf(u, i, e)
<1>1. /\ a \in Nat /\ y \in Nat /\ a <= Len(t) /\ Len(u) = Len(t) + y /\ Len(t) \in Nat
      /\ \A m \in 1..a : u[m] = t[m]
  BY DEF Put
<1>2. e \in (i + 1)..Len(u) /\ Ends(u, e)
  BY <1>1 DEF IsEndOf, Ends
<1>3. ASSUME NEW m \in (i + 1)..Len(u), Ends(u, m) PROVE e <= m
  <2>1. CASE m <= a
    <3>1. m \in (i + 1)..Len(t) /\ Ends(t, m)
      BY <1>1, <1>3, <2>1 DEF Ends
    <3> QED
      BY <3>1 DEF IsEndOf
  <2>2. CASE m > a
    BY <1>1, <2>2
  <2> QED
    BY <1>1, <2>1, <2>2
<1> QED
  BY <1>2, <1>3 DEF IsEndOf

LEMMA EndBehind ==
    ASSUME NEW t, NEW u, NEW a, NEW y, Put(t, u, a, y),
           NEW i \in (a + 1)..Len(t), NEW e \in (a + 1)..Len(t)
    PROVE  IsEndOf(t, i, e) <=> IsEndOf(u, i + y, e + y)
<1>1. /\ a \in Nat /\ y \in Nat /\ Len(u) = Len(t) + y /\ Len(t) \in Nat
      /\ \A m \in (a + 1)..Len(t) : u[m + y] = t[m]
  BY DEF Put
<1>2. \A m \in (a + 1)..Len(t) : Ends(u, m + y) <=> Ends(t, m)
  BY <1>1 DEF Ends
<1>3. ASSUME IsEndOf(t, i, e) PROVE IsEndOf(u, i + y, e + y)
  <2>1. e + y \in ((i + y) + 1)..Len(u) /\ Ends(u, e + y)
    BY <1>1, <1>2, <1>3 DEF IsEndOf
  <2>2. ASSUME NEW m \in ((i + y) + 1)..Len(u), Ends(u, m) PROVE e + y <= m
    <3> DEFINE n == m - y
    <3>1. n \in (i + 1)..Len(t) /\ n \in (a + 1)..Len(t) /\ n + y = m
      BY <1>1
    <3> HIDE DEF n
    <3>2. Ends(t, n)
      BY <1>2, <2>2, <3>1
    <3>3. e <= n
      BY <1>3, <3>1, <3>2 DEF IsEndOf
    <3> QED
      BY <1>1, <3>1, <3>3
  <2> QED
    BY <2>1, <2>2 DEF IsEndOf
<1>4. ASSUME IsEndOf(u, i + y, e + y) PROVE IsEndOf(t, i, e)
  <2>1. e \in (i + 1)..Len(t) /\ Ends(t, e)
    BY <1>1, <1>2, <1>4 DEF IsEndOf
  <2>2. ASSUME NEW m \in (i + 1)..Len(t), Ends(t, m) PROVE e <= m
    <3>1. m \in (a + 1)..Len(t) /\ m + y \in ((i + y) + 1)..Len(u)
      BY <1>1
    <3>2. Ends(u, m + y)
      BY <1>2, <2>2, <3>1
    <3>3. e + y <= m + y
      BY <1>4, <3>1, <3>2 DEF IsEndOf
    <3> QED
      BY <1>1, <3>1, <3>3
  <2> QED
    BY <2>1, <2>2 DEF IsEndOf
<1> QED
  BY <1>3, <1>4

(* No chunk that is opened up to line a goes beyond it. *)
Settled(t, a) == \A i \in 1..a : Opens(t, i) => \E e \in 1..a : IsEndOf(t, i, e)

LEMMA RangesPut ==
    ASSUME NEW t, NEW u, NEW a, NEW y, Put(t, u, a, y), Settled(t, a),
           NEW d, NEW i, NEW j, IsRange(t, d, i, j)
    PROVE  \/ j <= a /\ IsRange(u, d, i, j)
           \/ i > a /\ IsRange(u, d, i + y, j + y)
<1>1. /\ t \in Seq(Line) /\ u \in Seq(Line) /\ a \in Nat /\ y \in Nat /\ a <= Len(t)
      /\ Len(u) = Len(t) + y /\ Len(t) \in Nat
      /\ \A m \in 1..a : u[m] = t[m]
      /\ \A m \in (a + 1)..Len(t) : u[m + y] = t[m]
  BY DEF Put
<1>2. /\ i \in 1..Len(t) /\ Opens(t, i) /\ t[i].n = d /\ IsEndOf(t, i, j) /\ t[j].k = "close"
      /\ j \in (i + 1)..Len(t)
  BY DEF IsRange, IsEndOf
<1>3. CASE i <= a
  <2>1. i \in 1..a
    BY <1>1, <1>2, <1>3
  <2>2. PICK e \in 1..a : IsEndOf(t, i, e)
    BY <1>2, <2>1 DEF Settled
  <2>3. j = e
    BY <1>1, <1>2, <2>1, <2>2, OneEnd
  <2>4. IsEndOf(u, i, j)
    BY <2>1, <2>2, <2>3, EndBefore
  <2>5. u[i] = t[i] /\ u[j] = t[j] /\ i \in 1..Len(u) /\ j <= a
    BY <1>1, <2>1, <2>3
  <2> QED
    BY <1>2, <2>4, <2>5 DEF IsRange, Opens
<1>4. CASE i > a
  <2>1. i \in (a + 1)..Len(t) /\ j \in (a + 1)..Len(t)
    BY <1>1, <1>2, <1>4
  <2>2. IsEndOf(u, i + y, j + y)
    BY <1>2, <2>1, EndBehind
  <2>3. u[i + y] = t[i] /\ u[j + y] = t[j] /\ i + y \in 1..Len(u)
    BY <1>1, <2>1
  <2> QED
    BY <1>2, <1>4, <2>2, <2>3 DEF IsRange, Opens
<1> QED
  BY <1>1, <1>2, <1>3, <1>4

LEMMA RangesTaken ==
    ASSUME NEW t, NEW u, NEW a, NEW y, Put(t, u, a, y), Settled(t, a),
           NEW d, OpensNone(u, a, y, d), NEW k, NEW l, IsRange(u, d, k, l)
    PROVE  \E i, j \in Nat : /\ IsRange(t, d, i, j)
                             /\ (j <= a /\ k = i /\ l = j) \/ (i > a /\ k = i + y /\ l = j + y)
<1>1. /\ t \in Seq(Line) /\ u \in Seq(Line) /\ a \in Nat /\ y \in Nat /\ a <= Len(t)
      /\ Len(u) = Len(t) + y /\ Len(t) \in Nat
      /\ \A m \in 1..a : u[m] = t[m]
      /\ \A m \in (a + 1)..Len(t) : u[m + y] = t[m]
  BY DEF Put
<1>2. /\ k \in 1..Len(u) /\ u[k].k = "open" /\ u[k].n = d /\ IsEndOf(u, k, l)
      /\ u[l].k = "close" /\ l \in (k + 1)..Len(u)
  BY DEF IsRange, IsEndOf, Opens
<1>3. CASE k <= a
  <2>1. k \in 1..a /\ Opens(t, k) /\ t[k].n = d
    BY <1>1, <1>2, <1>3 DEF Opens
  <2>2. PICK e \in 1..a : IsEndOf(t, k, e)
    BY <2>1 DEF Settled
  <2>3. l = e
    <3>1. IsEndOf(u, k, e)
      BY <2>1, <2>2, EndBefore
    <3> QED
      BY <1>1, <1>2, <3>1, OneEnd
  <2>4. IsRange(t, d, k, l) /\ l <= a /\ k \in Nat /\ l \in Nat
    BY <1>1, <1>2, <2>1, <2>2, <2>3 DEF IsRange
  <2> QED
    BY <2>4
<1>4. CASE k > a
  <2>1. k \notin (a + 1)..(a + y)
    BY <1>2 DEF OpensNone
  <2> DEFINE i == k - y
             j == l - y
  <2>2. i \in (a + 1)..Len(t) /\ j \in (a + 1)..Len(t) /\ k = i + y /\ l = j + y
    BY <1>1, <1>2, <1>4, <2>1
  <2> HIDE DEF i, j
  <2>3. IsEndOf(t, i, j)
    BY <1>2, <2>2, EndBehind
  <2>4. IsRange(t, d, i, j) /\ i > a /\ i \in Nat /\ j \in Nat
    BY <1>1, <1>2, <2>2, <2>3 DEF IsRange, Opens
  <2> QED
    BY <2>2, <2>4
<1> QED
  BY <1>1, <1>2, <1>3, <1>4

(* The lines between i and j of t are those between k and l of u. *)
SameLines(t, i, j, u, k, l) ==
    /\ i \in Nat /\ j \in Nat /\ k \in Nat /\ l \in Nat
    /\ i < j /\ j <= Len(t) /\ k < l /\ l <= Len(u) /\ j - i = l - k
    /\ \A m \in 1..((j - i) - 1) : t[i + m] = u[k + m]

LEMMA SameBodies ==
    ASSUME NEW t \in Seq(Line), NEW u \in Seq(Line), NEW i, NEW j, NEW k, NEW l,
           SameLines(t, i, j, u, k, l)
    PROVE  BodyOf(t, i, j) = BodyOf(u, k, l)
<1> USE DEF SameLines
<1> DEFINE n == (j - i) - 1
<1>1. /\ SubSeq(t, i + 1, j - 1) \in Seq(Line) /\ Len(SubSeq(t, i + 1, j - 1)) = n
      /\ \A m \in 1..n : SubSeq(t, i + 1, j - 1)[m] = t[i + m]
  OBVIOUS
<1>2. /\ SubSeq(u, k + 1, l - 1) \in Seq(Line) /\ Len(SubSeq(u, k + 1, l - 1)) = n
      /\ \A m \in 1..n : SubSeq(u, k + 1, l - 1)[m] = u[k + m]
  OBVIOUS
<1> DEFINE v == SubSeq(t, i + 1, j - 1)
           w == SubSeq(u, k + 1, l - 1)
<1>3. v \in Seq(Line) /\ w \in Seq(Line) /\ Len(v) = Len(w) /\ \A m \in 1..Len(v) : v[m] = w[m]
  BY <1>1, <1>2
<1> HIDE DEF v, w
<1>4. v = w
  BY <1>3, SeqEqual
<1> QED
  BY <1>4 DEF v, w, BodyOf

LEMMA BodyStays ==
    ASSUME NEW t, NEW u, NEW a, NEW y, Put(t, u, a, y),
           NEW i \in Nat, NEW j \in Nat, 1 <= i, i < j, j <= Len(t)
    PROVE  /\ j <= a => BodyOf(u, i, j) = BodyOf(t, i, j)
           /\ i > a => BodyOf(u, i + y, j + y) = BodyOf(t, i, j)
<1>1. /\ t \in Seq(Line) /\ u \in Seq(Line) /\ a \in Nat /\ y \in Nat /\ a <= Len(t)
      /\ Len(u) = Len(t) + y /\ Len(t) \in Nat
      /\ \A m \in 1..a : u[m] = t[m]
      /\ \A m \in (a + 1)..Len(t) : u[m + y] = t[m]
  BY DEF Put
<1>2. ASSUME j <= a PROVE BodyOf(u, i, j) = BodyOf(t, i, j)
  <2>1. ASSUME NEW m \in 1..((j - i) - 1) PROVE t[i + m] = u[i + m]
    BY <1>1, <1>2
  <2>2. SameLines(t, i, j, u, i, j)
    BY <1>1, <1>2, <2>1 DEF SameLines
  <2> QED
    BY <1>1, <2>2, SameBodies
<1>3. ASSUME i > a PROVE BodyOf(u, i + y, j + y) = BodyOf(t, i, j)
  <2>1. ASSUME NEW m \in 1..((j - i) - 1) PROVE t[i + m] = u[(i + y) + m]
    <3>1. i + m \in (a + 1)..Len(t) /\ (i + m) + y = (i + y) + m
      BY <1>1, <1>3
    <3> QED
      BY <1>1, <3>1
  <2>2. /\ i + y \in Nat /\ j + y \in Nat /\ i + y < j + y /\ j + y <= Len(u)
        /\ j - i = (j + y) - (i + y)
    BY <1>1
  <2>3. SameLines(t, i, j, u, i + y, j + y)
    BY <2>1, <2>2 DEF SameLines
  <2> QED
    BY <1>1, <2>3, SameBodies
<1> QED
  BY <1>2, <1>3

(* Lines put where no chunk is open change no chunk that they do not open. *)
LEMMA BodiesStay ==
    ASSUME NEW t, NEW u, NEW a, NEW y, Put(t, u, a, y), Settled(t, a),
           NEW d, OpensNone(u, a, y, d)
    PROVE  Bodies(u, d) = Bodies(t, d)
<1>1. t \in Seq(Line) /\ u \in Seq(Line) /\ y \in Nat /\ Len(t) \in Nat
  BY DEF Put
<1>2. \A i, j : IsRange(t, d, i, j) => i \in Nat /\ j \in Nat /\ 1 <= i /\ i < j /\ j <= Len(t)
  BY <1>1 DEF IsRange, IsEndOf
<1>3. ASSUME NEW b \in Bodies(t, d) PROVE b \in Bodies(u, d)
  <2>1. PICK i, j \in Nat : IsRange(t, d, i, j) /\ b = BodyOf(t, i, j)
    BY <1>1, BodiesAre
  <2>2. 1 <= i /\ i < j /\ j <= Len(t)
    BY <1>2, <2>1
  <2>3. \/ j <= a /\ IsRange(u, d, i, j)
        \/ i > a /\ IsRange(u, d, i + y, j + y)
    BY <2>1, RangesPut
  <2>4. CASE j <= a /\ IsRange(u, d, i, j)
    <3>1. BodyOf(u, i, j) = b
      BY <2>1, <2>2, <2>4, BodyStays
    <3> QED
      BY <1>1, <2>4, <3>1, BodiesAre
  <2>5. CASE i > a /\ IsRange(u, d, i + y, j + y)
    <3>1. BodyOf(u, i + y, j + y) = b /\ i + y \in Nat /\ j + y \in Nat
      BY <1>1, <2>1, <2>2, <2>5, BodyStays
    <3> QED
      BY <1>1, <2>5, <3>1, BodiesAre
  <2> QED
    BY <2>3, <2>4, <2>5
<1>4. ASSUME NEW b \in Bodies(u, d) PROVE b \in Bodies(t, d)
  <2>1. PICK k, l \in Nat : IsRange(u, d, k, l) /\ b = BodyOf(u, k, l)
    BY <1>1, BodiesAre
  <2>2. PICK i, j \in Nat :
          /\ IsRange(t, d, i, j)
          /\ (j <= a /\ k = i /\ l = j) \/ (i > a /\ k = i + y /\ l = j + y)
    BY <2>1, RangesTaken
  <2>3. 1 <= i /\ i < j /\ j <= Len(t)
    BY <1>2, <2>2
  <2>4. b = BodyOf(t, i, j)
    BY <2>1, <2>2, <2>3, BodyStays
  <2> QED
    BY <1>1, <2>2, <2>4, BodiesAre
<1> QED
  BY <1>3, <1>4

(* Behind the close marker of a chunk, and behind the fence there, none is *)
(* open.                                                                   *)
LEMMA SettledThere ==
    ASSUME NEW t \in Seq(Line), NEW c, NEW r, NEW i \in Nat, NEW j \in Nat,
           IsRange(t, c, i, j), r.to = j
    PROVE  Settled(t, NotePlace(t, r))
<1> DEFINE a == NotePlace(t, r)
<1>1. j \in 1..Len(t) /\ Len(t) \in Nat /\ Ends(t, j) /\ t[j].k = "close"
  BY DEF IsRange, IsEndOf
<1>2. a \in Nat /\ a <= Len(t) /\ (a = j \/ (a = j + 1 /\ t[a].k = "fence"))
  BY <1>1 DEF NotePlace
<1> HIDE DEF a
<1>3. ASSUME NEW k \in 1..a, Opens(t, k) PROVE \E e \in 1..a : IsEndOf(t, k, e)
  <2>1. k < j
    <3>1. k # j /\ k # j + 1
      BY <1>1, <1>2, <1>3 DEF Opens
    <3> QED
      BY <1>1, <1>2, <3>1
  <2> DEFINE S == {m \in (k + 1)..j : Ends(t, m)}
  <2>2. S \subseteq Nat /\ j \in S
    BY <1>1, <2>1
  <2>3. PICK e \in S : \A m \in S : e <= m
    <3> HIDE DEF S
    <3> QED
      BY <2>2, LeastNatural
  <2>4. e \in (k + 1)..Len(t) /\ Ends(t, e) /\ e <= j /\ e \in 1..a
    BY <1>1, <1>2, <2>1
  <2>5. ASSUME NEW m \in (k + 1)..Len(t), Ends(t, m) PROVE e <= m
    <3>1. CASE m <= j
      BY <1>1, <2>1, <2>3, <2>5, <3>1
    <3>2. CASE m > j
      BY <1>1, <2>4, <3>2
    <3> QED
      BY <1>1, <3>1, <3>2
  <2> QED
    BY <2>4, <2>5 DEF IsEndOf
<1> QED
  BY <1>3 DEF Settled, a

(* Where the compared body stands in one place, that is the chunk. *)
LEMMA OnePlace ==
    ASSUME NEW t \in Seq(Line), NEW body, Once(t, body),
           NEW i \in Nat, NEW j \in Nat, i < j, j <= Len(t), BodyOf(t, i, j) = body,
           NEW k \in Nat, NEW l \in Nat, k < l, l <= Len(t), BodyOf(t, k, l) = body
    PROVE  i = k /\ j = l
<1> DEFINE P == {m \in 1..(Len(t) - Len(body) + 1) : SubSeq(t, m, m + Len(body) - 1) = body}
<1>1. Len(body) = (j - i) - 1 /\ Len(body) = (l - k) - 1
  <2>1. ASSUME NEW a \in Nat, NEW b \in Nat, a < b, b <= Len(t)
        PROVE  Len(SubSeq(t, a + 1, b - 1)) = (b - a) - 1
    BY <2>1
  <2> QED
    BY <2>1 DEF BodyOf
<1>2. i + 1 \in P /\ k + 1 \in P
  BY <1>1 DEF BodyOf
<1>3. IsFiniteSet(P) /\ Cardinality(P) = 1
  <2>1. IsFiniteSet(1..(Len(t) - Len(body) + 1))
    BY <1>1, FS_Interval
  <2> QED
    BY <2>1, FS_Subset DEF Once
<1>4. PICK m : P = {m}
  BY <1>3, FS_Singleton
<1> HIDE DEF P
<1> QED
  BY <1>1, <1>2, <1>4
-----------------------------------------------------------------------------
(* A save that passed the comparison has the body that was compared in the *)
(* text that it read.                                                      *)

EditFine(r) == HasBase(r) /\ r.kind = "save" => Extract(r.base, r.range) = r.orig

EditInv == Typed /\ \A p \in Panels : EditFine(panel[p])

LEMMA EditNext == ASSUME EditInv, [Next]_serveVars PROVE EditInv'
<1>1. Typed' /\ Step
  BY Steps DEF EditInv
<1>2. ASSUME OtherStep \/ \E f \in Files : \E t : UserStep(f, t) PROVE EditInv'
  BY <1>1, <1>2 DEF EditInv, OtherStep, UserStep
<1>3. ASSUME NEW p \in Panels, NEW r, PanelStep(p, r) PROVE EditInv'
  <2>1. EditFine(r)
    <3>1. CASE Rests(r) \/ LooksUp(r) \/ Compares(p, r) \/ ReadsForNote(p, r)
      BY <3>1 DEF Rests, LooksUp, Compares, ReadsForNote, EditFine, HasBase
    <3>2. CASE Passes(p, r)
      BY <3>2 DEF Passes, Alike, EditFine, HasBase, EditInv
    <3> QED
      BY <1>3, <3>1, <3>2 DEF PanelStep
  <2> QED
    BY <1>1, <1>3, <2>1 DEF EditInv, Typed, PanelStep
<1>4. ASSUME NEW p \in Panels, NEW t, NEW r, DiskStep(p, t, r) PROVE EditInv'
  <2>1. EditFine(r)
    BY <1>4 DEF DiskStep, Alike, EditFine, HasBase, EditInv
  <2> QED
    BY <1>1, <1>4, <2>1 DEF EditInv, Typed, DiskStep
<1> QED
  BY <1>1, <1>2, <1>3, <1>4 DEF Step
-----------------------------------------------------------------------------
(* What is about to be written.                                            *)

(* p saves over a text in which its chunk has the body the panel shows. *)
SaveAimed(p) ==
    /\ panel[p].kind = "save"
    /\ panel[p].orig \in Bodies(Text(p), Target[p].chunk)
    /\ Once(Text(p), panel[p].orig)

SaveLands(p) ==
    \E r \in Ranges(Text(p), Target[p].chunk) : Edited(p) = Apply(Text(p), r, panel[p].new)

NoteAimed(p) == panel[p].kind = "note" /\ panel[p].range \in Ranges(Text(p), Target[p].chunk)

NoteLands(p) ==
    \A d \in Named(Text(p)) \ Named(panel[p].new) : Bodies(Edited(p), d) = Bodies(Text(p), d)

LEMMA AimedSaves ==
    ASSUME EditInv, NEW p \in Panels, AboutToWrite(p), SaveAimed(p)
    PROVE  SaveLands(p)
<1> DEFINE t == Text(p)
           c == Target[p].chunk
           g == panel[p].range
           new == panel[p].new
           orig == panel[p].orig
<1>1. t \in Seq(Line) /\ PanelTyped(panel[p]) /\ EditFine(panel[p])
  BY TypedNow DEF EditInv
<1>2. HasBase(panel[p]) /\ HasRange(panel[p]) /\ panel[p].kind = "save" /\ panel[p].base = t
  BY DEF SaveAimed, AboutToWrite, HasBase, HasRange
<1>3. /\ g.from \in Nat /\ g.to \in Nat /\ g.from < g.to /\ g.to <= Len(t)
      /\ BodyOf(t, g.from, g.to) = orig
  BY <1>1, <1>2 DEF PanelTyped, EditFine, Extract, BodyOf
<1>4. Once(t, orig) /\ orig \in Bodies(t, c)
  BY DEF SaveAimed
<1>5. Edited(p) = Apply(t, g, new)
  BY <1>2 DEF Edited
<1> HIDE DEF t, c, g, new, orig
<1>6. PICK i, j \in Nat : IsRange(t, c, i, j) /\ orig = BodyOf(t, i, j)
  BY <1>1, <1>4, BodiesAre
<1>7. i < j /\ j <= Len(t)
  BY <1>1, <1>6 DEF IsRange, IsEndOf
<1>8. g.from = i /\ g.to = j
  BY <1>1, <1>3, <1>4, <1>6, <1>7, OnePlace
<1> DEFINE r == [from |-> i, to |-> j]
<1>9. r \in Ranges(t, c) /\ r.from = i /\ r.to = j
  BY <1>1, <1>6, RangesAre
<1> HIDE DEF r
<1>10. Apply(t, r, new) = Apply(t, g, new)
  BY <1>8, <1>9 DEF Apply
<1> QED
  BY <1>5, <1>9, <1>10 DEF SaveLands, t, c, new

LEMMA AimedNotes ==
    ASSUME EditInv, NEW p \in Panels, AboutToWrite(p), NoteAimed(p)
    PROVE  NoteLands(p)
<1> DEFINE t == Text(p)
           c == Target[p].chunk
           g == panel[p].range
           note == panel[p].new
<1>1. t \in Seq(Line) /\ PanelTyped(panel[p]) /\ HasBase(panel[p]) /\ panel[p].base = t
  BY TypedNow DEF EditInv, AboutToWrite, HasBase
<1>2. g \in Ranges(t, c) /\ Edited(p) = WithNote(t, g, note) /\ note \in Seq(Line)
  BY <1>1 DEF NoteAimed, Edited, PanelTyped
<1> HIDE DEF t, c, g, note
<1>3. PICK i, j \in Nat : g = [from |-> i, to |-> j] /\ IsRange(t, c, i, j)
  BY <1>1, <1>2, RangesAre
<1>4. g.to = j /\ j \in 1..Len(t)
  BY <1>1, <1>3 DEF IsRange, IsEndOf
<1>5. Settled(t, NotePlace(t, g))
  BY <1>1, <1>3, <1>4, SettledThere
<1>6. ASSUME NEW d, d \notin Named(note) PROVE Bodies(WithNote(t, g, note), d) = Bodies(t, d)
  <2>1. \A m \in 1..Len(note) : ~(note[m].k = "open" /\ note[m].n = d)
    BY <1>2, <1>6 DEF Named, Range
  <2>2. PICK y \in Nat : /\ Put(t, WithNote(t, g, note), NotePlace(t, g), y)
                         /\ OpensNone(WithNote(t, g, note), NotePlace(t, g), y, d)
    BY <1>1, <1>2, <1>4, <2>1, NotePut
  <2> QED
    BY <1>5, <2>2, BodiesStay
<1> QED
  BY <1>2, <1>6 DEF NoteLands, t, note

(* An edit from the browser stays where it belongs, whatever is typed: the *)
(* body that was compared before a save and the lines that are replaced    *)
(* fit together whatever the age of the range, and a note goes where no    *)
(* chunk is open; for any sources, number of panels, saves, notes, edits   *)
(* by the user, and writes that fail half-way.                             *)
THEOREM EditsStay == Spec => EditsStayInTheirChunk
<1> DEFINE Stays(p) ==
               LET c == Target[p].chunk IN
               /\ /\ panel[p].kind = "save"
                  /\ panel[p].orig \in Bodies(Text(p), c) /\ Once(Text(p), panel[p].orig)
                  => \E r \in Ranges(Text(p), c) : Edited(p) = Apply(Text(p), r, panel[p].new)
               /\ panel[p].kind = "note" /\ panel[p].range \in Ranges(Text(p), c) =>
                     \A d \in Named(Text(p)) \ Named(panel[p].new) :
                         Bodies(Edited(p), d) = Bodies(Text(p), d)
<1>1. ServeInit => EditInv
  BY ServeStart DEF EditInv, EditFine, HasBase
<1>2. EditInv /\ [Next]_serveVars => EditInv'
  BY EditNext
<1>3. ASSUME EditInv, NEW p \in Panels, AboutToWrite(p) PROVE Stays(p)
  <2>1. SaveAimed(p) => SaveLands(p)
    BY <1>3, AimedSaves
  <2>2. NoteAimed(p) => NoteLands(p)
    BY <1>3, AimedNotes
  <2> QED
    BY <2>1, <2>2 DEF SaveAimed, SaveLands, NoteAimed, NoteLands
<1>4. EditInv /\ [Next]_serveVars => [\A p \in Panels : AboutToWrite(p) => Stays(p)]_serveVars
  BY <1>3
<1>5. EditsStayInTheirChunk <=> [][\A p \in Panels : AboutToWrite(p) => Stays(p)]_serveVars
  BY DEF EditsStayInTheirChunk
<1> HIDE DEF Stays
<1> QED
  BY <1>1, <1>2, <1>4, <1>5, PTL DEF Spec
=============================================================================
