-------------------------- MODULE IncrementalProofs --------------------------
(***************************************************************************)
(* The proofs about passes one after the other: what NowebProofs shows of  *)
(* one pass holds of every pass, whatever the user makes of the sources    *)
(* between them and wherever a pass was refused. With it, what the passes  *)
(* leave behind: the maps of formatted files, the reports of coverage, the *)
(* verdict of the linter on the sources that were read, and the files that *)
(* a pass takes for unchanged.                                             *)
(***************************************************************************)
EXTENDS Incremental, NowebProofs

(* The invariant of the passes. *)
HistoryInv ==
    /\ texts \in Projects
    /\ PassInv
    /\ ReadInv

(* The next pass begins as the first one did. *)
LEMMA ReviseStarts ==
    ASSUME texts \in Projects, TypeI, Revise
    PROVE  texts' \in Projects /\ AtStart'
<1>1. texts' \in Projects
  BY ProjectsOK DEF Revise
<1>2. store' = EmptyStore'
  BY DEF Revise, EmptyStore
<1> QED
  BY <1>1, <1>2, ProjectsOK DEF Revise, AtStart, TypeI

(* A pass that is refused keeps what it has written, and fails for a       *)
(* reason that is not in the definitions.                                  *)
LEMMA RefuseKeeps ==
    ASSUME PassInv, ReadInv, Refuse
    PROVE  PassInv' /\ ReadInv'
<1>1. /\ texts' = texts /\ strict' = strict /\ store' = store /\ n' = n /\ out' = out
      /\ pc = "expand" /\ pc' = "failed"
  BY DEF Refuse
<1>2. err' \in {"FormatterError", "ModifiedExternally"}
  BY DEF Refuse, WriteError
<1>3. StoreType' = StoreType
  BY <1>1 DEF StoreType, Defs, BodyTexts, Lines
<1>4. TypeI'
  BY <1>1, <1>2, <1>3 DEF PassInv, TypeI, OtherErrors
<1>5. \A r : IsWritten(r) => IsWritten(r)'
  BY <1>1, WrittenStays
<1>6. HasReason'
  BY <1>2 DEF HasReason, ExpandErrors
<1>7. ASSUME NEW c \in Names PROVE ChunkUpTo(store.defs[c], c, Len(texts) + 1, 0)'
  <2>1. PICK es : es = store.defs[c]
    OBVIOUS
  <2>2. PICK j : j = Len(texts) + 1
    OBVIOUS
  <2>3. ChunkUpTo(es, c, j, 0)
    BY <1>1, <2>1, <2>2 DEF ReadInv, StoreUpTo
  <2>4. ChunkUpTo(es, c, j, 0)'
    BY <1>1, <2>3, TextsStay
  <2> QED
    BY <1>1, <2>1, <2>2, <2>4
<1> QED
  BY <1>1, <1>4, <1>5, <1>6, <1>7 DEF PassInv, ReadInv, StoreUpTo

(* Every other step is one of Noweb, or changes nothing there. *)
LEMMA StepsOfNoweb ==
    ASSUME [IncNext]_incVars
    PROVE  Revise \/ Refuse \/ ([Next]_vars /\ UNCHANGED texts)
BY DEF IncNext, incVars, Reading, StartPass, WriteOutput, FinishPass, Cover, Next, vars,
       Read, StartWriting, ExpandFile, Finish

LEMMA HistoryStarts == IncInit => HistoryInv
<1>1. IncInit => Init /\ texts \in Projects
  BY ProjectsOK DEF IncInit, Init
<1> QED
  BY <1>1, InitStarts, StartPassInv, StartReadInv DEF HistoryInv

LEMMA HistoryNext == HistoryInv /\ [IncNext]_incVars => HistoryInv'
<1>1. AtStart' => PassInv' /\ ReadInv'
  BY StartPassInv, StartReadInv, PTL
<1> SUFFICES ASSUME HistoryInv, [IncNext]_incVars PROVE HistoryInv'
  OBVIOUS
<1>2. texts \in Projects /\ TypeI /\ PassInv /\ ReadInv
  BY DEF HistoryInv, PassInv
<1>3. CASE Revise
  BY <1>1, <1>2, <1>3, ReviseStarts DEF HistoryInv
<1>4. CASE Refuse
  <2>1. texts' = texts
    BY <1>4 DEF Refuse
  <2> QED
    BY <1>2, <1>4, <2>1, RefuseKeeps DEF HistoryInv
<1>5. CASE [Next]_vars /\ UNCHANGED texts
  <2>1. PassInv'
    BY <1>2, <1>5, PassNext
  <2>2. ReadInv'
    BY <1>2, <1>5, ReadInvNext
  <2>3. texts' \in Projects
    BY <1>2, <1>5
  <2> QED
    BY <2>1, <2>2, <2>3 DEF HistoryInv
<1> QED
  BY <1>3, <1>4, <1>5, StepsOfNoweb

(* Every state of every history is typed, its outputs are written from the *)
(* definitions, and the definitions from the sources as they are now.      *)
THEOREM HistoryInvHolds == IncSpec => []HistoryInv
BY HistoryStarts, HistoryNext, PTL DEF IncSpec

(* The definitions are those of the sources as the user has left them, in  *)
(* every pass.                                                             *)
THEOREM EachPassReadsItsText == IncSpec => []DefinitionsMatchText
<1>1. HistoryInv => DefinitionsMatchText
  BY ReadInvMatches DEF HistoryInv, PassInv
<1> QED
  BY <1>1, HistoryInvHolds, PTL

(* The map of an output leads to the sources as they are now, in every     *)
(* pass, those refused or failed half way included.                        *)
THEOREM EachPassMapsItsText == IncSpec => []MapPointsAtText
<1>1. HistoryInv => MapPointsAtText
  BY LinesMapped DEF HistoryInv
<1> QED
  BY <1>1, HistoryInvHolds, PTL

(* The edges that a pass records, which the next one skips by, are those   *)
(* of the definitions it has read.                                         *)
THEOREM EachPassRecordsItsEdges == IncSpec => []DepsExact
<1>1. HistoryInv => DepsExact
  BY PassDeps DEF HistoryInv
<1> QED
  BY <1>1, HistoryInvHolds, PTL

(* An expansion fails for a reason in the definitions of its own pass, and *)
(* a refusal to write is never taken for such a failure.                   *)
THEOREM EachPassFailsExactly == IncSpec => []FailsExactly
<1>1. HistoryInv => FailsExactly
  BY PassFailures DEF HistoryInv
<1> QED
  BY <1>1, HistoryInvHolds, PTL

(* Every output of every pass is textual substitution in its sources. *)
THEOREM EachPassSubstitutes == IncSpec => []ExpansionIsSubstitution
<1>1. HistoryInv => ExpansionIsSubstitution
  BY PassText DEF HistoryInv
<1> QED
  BY <1>1, HistoryInvHolds, PTL
-----------------------------------------------------------------------------
(* remap_noweb_entries *)

(* What matching lines is: pairs of equal lines, none of them in two pairs. *)
IsMatching(s, pre, post, p, q) ==
    /\ s \subseteq (1..p) \X (1..q)
    /\ \A x \in s : pre[x[1]] = post[x[2]]
    /\ \A x, y \in s : x[1] = y[1] \/ x[2] = y[2] => x = y

LEMMA MatchingGrows ==
    ASSUME NEW pre, NEW post, NEW i \in Nat \ {0}, NEW j \in Nat \ {0}, pre[i] = post[j],
           NEW s, IsMatching(s, pre, post, i - 1, j - 1)
    PROVE  IsMatching(s \cup {<<i, j>>}, pre, post, i, j)
<1> DEFINE z == <<i, j>>
           t == s \cup {z}
<1>1. z \in (1..i) \X (1..j) /\ z[1] = i /\ z[2] = j
  OBVIOUS
<1>2. ASSUME NEW x \in s
      PROVE  x \in (1..i) \X (1..j) /\ x[1] # i /\ x[2] # j
  <2>1. x \in (1..(i - 1)) \X (1..(j - 1))
    BY DEF IsMatching
  <2>2. x = <<x[1], x[2]>> /\ x[1] \in 1..(i - 1) /\ x[2] \in 1..(j - 1)
    BY <2>1
  <2>3. x[1] \in 1..i /\ x[2] \in 1..j /\ x[1] # i /\ x[2] # j
    BY <2>2
  <2> QED
    BY <2>2, <2>3
<1> HIDE DEF z
<1>3. t \subseteq (1..i) \X (1..j)
  BY <1>1, <1>2
<1>4. \A x \in t : pre[x[1]] = post[x[2]]
  BY <1>1 DEF IsMatching
<1>5. ASSUME NEW x \in t, NEW y \in t, x[1] = y[1] \/ x[2] = y[2] PROVE x = y
  <2>1. CASE x \in s /\ y \in s
    BY <1>5, <2>1 DEF IsMatching
  <2>2. CASE x = z \/ y = z
    BY <1>1, <1>2, <1>5, <2>2
  <2> QED
    BY <2>1, <2>2
<1> QED
  BY <1>3, <1>4, <1>5 DEF IsMatching, z

LEMMA MatchingWithin ==
    ASSUME NEW pre, NEW post, NEW i \in Nat, NEW j \in Nat, NEW p \in Nat, NEW q \in Nat,
           i <= p, j <= q, NEW s, IsMatching(s, pre, post, i, j)
    PROVE  IsMatching(s, pre, post, p, q)
<1>1. (1..i) \X (1..j) \subseteq (1..p) \X (1..q)
  OBVIOUS
<1> QED
  BY <1>1 DEF IsMatching

(* A row of the ways to match, each of them a matching. *)
RowOK(row, pre, post, i, q) ==
    \A j \in 0..q : \A s \in row[j] : IsMatching(s, pre, post, i, j)

LEMMA MatchRowIs ==
    ASSUME NEW pre, NEW post, Len(post) \in Nat, NEW i \in Nat \ {0}, NEW above,
           NEW P, above \in [0..Len(post) -> SUBSET SUBSET P],
           \A j \in 1..Len(post) : <<i, j>> \in P,
           RowOK(above, pre, post, i - 1, Len(post))
    PROVE  /\ MatchRow(pre, post, i, above) \in [0..Len(post) -> SUBSET SUBSET P]
           /\ RowOK(MatchRow(pre, post, i, above), pre, post, i, Len(post))
<1> DEFINE q == Len(post)
           Y == SUBSET SUBSET P
           Step(j, x) == IF pre[i] = post[j] THEN {s \cup {<<i, j>>} : s \in above[j - 1]}
                         ELSE Largest(above[j] \cup x)
           H == [j \in 1..q |-> [x \in Y |-> Step(j, x)]]
           Eq(h) == h = [j \in 0..Len(post) |->
                           IF j = 0 THEN {{}}
                           ELSE IF pre[i] = post[j] THEN {s \cup {<<i, j>>} : s \in above[j - 1]}
                           ELSE Largest(above[j] \cup h[j - 1])]
           v == CHOOSE h : Eq(h)
<1>1. \A s : Largest(s) \subseteq s
  BY DEF Largest
<1>2. ASSUME NEW j \in 1..q, NEW x \in Y PROVE Step(j, x) \in Y
  <2>1. j \in 0..q /\ j - 1 \in 0..q
    OBVIOUS
  <2>2. above[j] \in Y /\ above[j - 1] \in Y
    BY <2>1
  <2>3. {s \cup {<<i, j>>} : s \in above[j - 1]} \in Y
    BY <2>2
  <2>4. Largest(above[j] \cup x) \in Y
    <3>1. above[j] \cup x \in Y
      BY <2>2
    <3> QED
      BY <1>1, <3>1
  <2> QED
    BY <2>3, <2>4
<1>3. H \in [1..q -> [Y -> Y]] /\ {{}} \in Y /\ q \in Nat
  BY <1>2
<1>4. PICK w : Follows(w, q, Y, {{}}, H)
  <2> HIDE DEF H, q, Y
  <2> QED
    BY <1>3, BoundedIteration
<1>5. w \in [0..q -> Y] /\ w[0] = {{}} /\ \A j \in 1..q : w[j] = Step(j, w[j - 1])
  <2>1. w \in [0..q -> Y] /\ w[0] = {{}} /\ \A j \in 1..q : w[j] = H[j][w[j - 1]]
    BY <1>4 DEF Follows
  <2>2. ASSUME NEW j \in 1..q PROVE w[j] = Step(j, w[j - 1])
    <3>1. j - 1 \in 0..q
      OBVIOUS
    <3>2. w[j - 1] \in Y
      BY <2>1, <3>1
    <3> HIDE DEF Y, Step
    <3> QED
      BY <2>1, <3>2
  <2> QED
    BY <2>1, <2>2
<1>6. Eq(w)
  <2>1. ASSUME NEW j \in 0..q PROVE w[j] = IF j = 0 THEN {{}} ELSE Step(j, w[j - 1])
    <3>1. j # 0 => j \in 1..q
      OBVIOUS
    <3> HIDE DEF Step
    <3> QED
      BY <1>5, <3>1
  <2>2. w = [j \in 0..q |-> IF j = 0 THEN {{}} ELSE Step(j, w[j - 1])]
    <3> HIDE DEF Step, Y
    <3> QED
      BY <1>5, <2>1
  <2> QED
    BY <2>2
<1>7. Eq(v)
  BY <1>6, Zenon
<1>8. MatchRow(pre, post, i, above) = v
  BY DEF MatchRow
<1> HIDE DEF v
<1>9. v = [j \in 0..q |-> IF j = 0 THEN {{}} ELSE Step(j, v[j - 1])]
  BY <1>7
<1>10. v[0] = {{}} /\ \A j \in 1..q : v[j] = Step(j, v[j - 1])
  <2>1. \A j \in 0..q : v[j] = IF j = 0 THEN {{}} ELSE Step(j, v[j - 1])
    <3> HIDE DEF Step
    <3> QED
      BY <1>9
  <2> HIDE DEF Step
  <2> QED
    BY <1>3, <2>1
<1> DEFINE Good == {j \in 0..q : v[j] \in Y /\ \A s \in v[j] : IsMatching(s, pre, post, i, j)}
<1>11. \A j \in 0..q : j \in Good
  <2>1. 0 \in Good
    <3>1. IsMatching({}, pre, post, i, 0)
      BY DEF IsMatching
    <3> QED
      BY <1>3, <1>10, <3>1
  <2>2. ASSUME NEW j \in 1..q, j - 1 \in Good PROVE j \in Good
    <3>1. j \in 0..q /\ j - 1 \in 0..q /\ j \in Nat \ {0} /\ j - 1 \in Nat /\ i - 1 \in Nat
      BY <1>3
    <3>2. v[j - 1] \in Y /\ \A s \in v[j - 1] : IsMatching(s, pre, post, i, j - 1)
      BY <2>2
    <3>3. v[j] = Step(j, v[j - 1]) /\ v[j] \in Y
      <4> HIDE DEF Step, Y, Good
      <4> QED
        BY <1>2, <1>10, <3>2
    <3>4. ASSUME NEW s \in v[j] PROVE IsMatching(s, pre, post, i, j)
      <4>1. CASE pre[i] = post[j]
        <5>1. PICK t \in above[j - 1] : s = t \cup {<<i, j>>}
          BY <3>3, <3>4, <4>1
        <5>2. IsMatching(t, pre, post, i - 1, j - 1)
          BY <3>1, <5>1 DEF RowOK
        <5> QED
          BY <3>1, <4>1, <5>1, <5>2, MatchingGrows
      <4>2. CASE pre[i] # post[j]
        <5>1. s \in above[j] \/ s \in v[j - 1]
          BY <1>1, <3>3, <3>4, <4>2
        <5>2. CASE s \in above[j]
          <6>1. IsMatching(s, pre, post, i - 1, j)
            BY <3>1, <5>2 DEF RowOK
          <6>2. i - 1 <= i /\ j <= j
            BY <3>1
          <6> QED
            BY <3>1, <6>1, <6>2, MatchingWithin
        <5>3. CASE s \in v[j - 1]
          <6>1. IsMatching(s, pre, post, i, j - 1)
            BY <3>2, <5>3
          <6>2. i <= i /\ j - 1 <= j
            BY <3>1
          <6> QED
            BY <3>1, <6>1, <6>2, MatchingWithin
        <5> QED
          BY <5>1, <5>2, <5>3
      <4> QED
        BY <4>1, <4>2
    <3> HIDE DEF Y, Step
    <3> QED
      BY <3>1, <3>3, <3>4
  <2> HIDE DEF Good
  <2> QED
    BY <1>3, <2>1, <2>2, BoundedInduction
<1>12. v \in [0..q -> Y]
  <2>1. \A j \in 0..q : v[j] \in Y
    BY <1>11
  <2> HIDE DEF Step, Y, Good
  <2> QED
    BY <1>9, <2>1
<1> QED
  BY <1>8, <1>11, <1>12 DEF RowOK

LEMMA MatchingsMatch ==
    ASSUME NEW pre, NEW post, Len(pre) \in Nat, Len(post) \in Nat, NEW s \in Matchings(pre, post)
    PROVE  IsMatching(s, pre, post, Len(pre), Len(post))
<1> DEFINE p == Len(pre)
           q == Len(post)
           P == (1..p) \X (1..q)
           Row == [0..q -> SUBSET SUBSET P]
           first == [j \in 0..q |-> {{}}]
           D == {r \in Row : \E i \in 0..p : RowOK(r, pre, post, i, q)}
           Eq(h) == h = [i \in 0..Len(pre) |->
                           IF i = 0 THEN [j \in 0..Len(post) |-> {{}}]
                           ELSE MatchRow(pre, post, i, h[i - 1])]
           v == CHOOSE h : Eq(h)
           Next1(i, r) == IF RowOK(r, pre, post, i - 1, q) THEN MatchRow(pre, post, i, r) ELSE first
           H == [i \in 1..p |-> [r \in Row |-> Next1(i, r)]]
<1>1. first \in Row /\ \A i \in Nat : RowOK(first, pre, post, i, q)
  <2>1. \A i, j : IsMatching({}, pre, post, i, j)
    BY DEF IsMatching
  <2> QED
    BY <2>1 DEF RowOK
<1>2. ASSUME NEW i \in 1..p, NEW r \in Row, RowOK(r, pre, post, i - 1, q)
      PROVE  MatchRow(pre, post, i, r) \in Row /\ RowOK(MatchRow(pre, post, i, r), pre, post, i, q)
  <2>1. i \in Nat \ {0} /\ \A j \in 1..q : <<i, j>> \in P
    OBVIOUS
  <2> HIDE DEF P
  <2> QED
    BY <1>2, <2>1, MatchRowIs
<1>3. H \in [1..p -> [Row -> Row]] /\ p \in Nat
  <2>1. \A i \in 1..p, r \in Row : Next1(i, r) \in Row
    <3> HIDE DEF Row, first
    <3> QED
      BY <1>1, <1>2
  <2> HIDE DEF Next1, Row
  <2> QED
    BY <2>1
<1>4. PICK w : Follows(w, p, Row, first, H)
  <2> HIDE DEF H, Row, first, p
  <2> QED
    BY <1>1, <1>3, BoundedIteration
<1>5. w \in [0..p -> Row] /\ w[0] = first /\ \A i \in 1..p : w[i] = Next1(i, w[i - 1])
  <2>1. w \in [0..p -> Row] /\ w[0] = first /\ \A i \in 1..p : w[i] = H[i][w[i - 1]]
    BY <1>4 DEF Follows
  <2>2. ASSUME NEW i \in 1..p PROVE w[i] = Next1(i, w[i - 1])
    <3>1. i - 1 \in 0..p
      OBVIOUS
    <3>2. w[i - 1] \in Row
      BY <2>1, <3>1
    <3> HIDE DEF Row, Next1
    <3> QED
      BY <2>1, <3>2
  <2> QED
    BY <2>1, <2>2
<1> DEFINE Good == {i \in 0..p : RowOK(w[i], pre, post, i, q)}
<1>6. \A i \in 0..p : i \in Good
  <2>1. 0 \in Good
    <3> HIDE DEF first
    <3> QED
      BY <1>1, <1>3, <1>5
  <2>2. ASSUME NEW i \in 1..p, i - 1 \in Good PROVE i \in Good
    <3>1. i \in 0..p /\ i - 1 \in 0..p
      OBVIOUS
    <3>2. RowOK(w[i - 1], pre, post, i - 1, q) /\ w[i - 1] \in Row
      BY <1>5, <2>2, <3>1
    <3>3. w[i] = MatchRow(pre, post, i, w[i - 1])
      <4> HIDE DEF first, Row
      <4> QED
        BY <1>5, <3>2
    <3> HIDE DEF Row
    <3> QED
      BY <1>2, <3>1, <3>2, <3>3
  <2> HIDE DEF Good
  <2> QED
    BY <1>3, <2>1, <2>2, BoundedInduction
<1>7. \A i \in 1..p : w[i] = MatchRow(pre, post, i, w[i - 1])
  <2> SUFFICES ASSUME NEW i \in 1..p PROVE w[i] = MatchRow(pre, post, i, w[i - 1])
    OBVIOUS
  <2>1. i - 1 \in 0..p
    OBVIOUS
  <2>2. RowOK(w[i - 1], pre, post, i - 1, q)
    BY <1>6, <2>1
  <2> HIDE DEF first, Row
  <2> QED
    BY <1>5, <2>2
<1>8. Eq(w)
  <2>1. ASSUME NEW i \in 0..p PROVE w[i] = IF i = 0 THEN first ELSE MatchRow(pre, post, i, w[i - 1])
    <3>1. i # 0 => i \in 1..p
      OBVIOUS
    <3> HIDE DEF first
    <3> QED
      BY <1>5, <1>7, <3>1
  <2>2. w = [i \in 0..p |-> IF i = 0 THEN first ELSE MatchRow(pre, post, i, w[i - 1])]
    <3> HIDE DEF first, Row
    <3> QED
      BY <1>5, <2>1
  <2> QED
    BY <2>2
<1>9. Eq(v)
  BY <1>8, Zenon
<1>10. Matchings(pre, post) = v[p][q]
  BY DEF Matchings
<1> HIDE DEF v
<1>11. v = [i \in 0..p |-> IF i = 0 THEN first ELSE MatchRow(pre, post, i, v[i - 1])]
  BY <1>9
<1>12. \A i \in 0..p : v[i] = IF i = 0 THEN first ELSE MatchRow(pre, post, i, v[i - 1])
  <2> HIDE DEF first
  <2> QED
    BY <1>11
<1> DEFINE Same == {i \in 0..p : v[i] = w[i]}
<1>13. \A i \in 0..p : i \in Same
  <2>1. 0 \in Same
    <3> HIDE DEF first
    <3> QED
      BY <1>3, <1>5, <1>12
  <2>2. ASSUME NEW i \in 1..p, i - 1 \in Same PROVE i \in Same
    <3>1. i \in 0..p /\ i # 0 /\ v[i - 1] = w[i - 1]
      BY <2>2
    <3>2. v[i] = MatchRow(pre, post, i, v[i - 1])
      BY <1>12, <3>1
    <3> QED
      BY <1>7, <3>1, <3>2
  <2> HIDE DEF Same
  <2> QED
    BY <1>3, <2>1, <2>2, BoundedInduction
<1>14. v[p] = w[p] /\ RowOK(w[p], pre, post, p, q)
  <2>1. p \in 0..p
    BY <1>3
  <2> QED
    BY <1>6, <1>13, <2>1
<1>15. s \in w[p][q] /\ q \in 0..q
  BY <1>10, <1>14
<1> QED
  BY <1>14, <1>15 DEF RowOK

(* What the first two tiers give to the first j lines of post: every line  *)
(* of pre to one line at most, and to a line with its text.                *)
Taken(g, pre, post, matching, j) ==
    /\ g \in Seq(SUBSET (1..Len(pre)))
    /\ Len(g) = j
    /\ \A k \in 1..j :
          /\ g[k] = Unchanged(matching, k) \/ g[k] \cap {p[1] : p \in matching} = {}
          /\ \A i \in g[k] : pre[i].text = post[k].text
          /\ \A l \in 1..j : g[k] \cap g[l] # {} => k = l

LEMMA TakenGrows ==
    ASSUME NEW pre, NEW chunk, NEW post, DOMAIN pre = 1..Len(pre), Len(post) \in Nat,
           NEW s, IsMatching(s, pre, post, Len(pre), Len(post)),
           NEW j \in 1..Len(post), NEW g, Taken(g, pre, post, s, j - 1),
           NEW x, x = IF Unchanged(s, j) # {} THEN Unchanged(s, j)
                      ELSE Nearest(Candidates(pre, chunk, post, j)
                                    \ ({p[1] : p \in s} \cup UNION Range(g)), j)
    PROVE  Taken(Append(g, x), pre, post, s, j)
<1> DEFINE kept == {p[1] : p \in s}
           h == Append(g, x)
<1>1. ASSUME NEW k, NEW i \in Unchanged(s, k)
      PROVE  i \in 1..Len(pre) /\ pre[i] = post[k] /\ i \in kept
             /\ \A l : i \in Unchanged(s, l) => k = l
  <2>1. PICK p \in s : p[1] = i /\ p[2] = k
    BY DEF Unchanged
  <2>2. p \in (1..Len(pre)) \X (1..Len(post)) /\ pre[p[1]] = post[p[2]]
    BY DEF IsMatching
  <2>3. ASSUME NEW l, i \in Unchanged(s, l) PROVE k = l
    <3>1. PICK q \in s : q[1] = i /\ q[2] = l
      BY <2>3 DEF Unchanged
    <3>2. p = q
      BY <2>1, <3>1 DEF IsMatching
    <3> QED
      BY <2>1, <3>1, <3>2
  <2> QED
    BY <2>1, <2>2, <2>3
<1>4. ASSUME x \subseteq 1..Len(pre), \A i \in x : pre[i].text = post[j].text,
             x = Unchanged(s, j) \/ x \cap kept = {},
             \A k \in 1..(j - 1) : g[k] \cap x = {}
      PROVE  Taken(h, pre, post, s, j)
  <2>1. g \in Seq(SUBSET (1..Len(pre))) /\ Len(g) = j - 1
    BY DEF Taken
  <2>2. h \in Seq(SUBSET (1..Len(pre))) /\ Len(h) = j /\ h[j] = x
        /\ \A k \in 1..(j - 1) : h[k] = g[k]
    <3>1. PICK T : T = SUBSET (1..Len(pre))
      OBVIOUS
    <3>2. g \in Seq(T) /\ x \in T /\ Len(g) + 1 = j
      BY <1>4, <2>1, <3>1
    <3>3. h \in Seq(T) /\ Len(h) = Len(g) + 1 /\ h[Len(g) + 1] = x
          /\ \A k \in 1..Len(g) : h[k] = g[k]
      BY <3>2, AppendProperties
    <3> QED
      BY <2>1, <3>1, <3>2, <3>3
  <2>3. \A k \in 1..j : k = j \/ k \in 1..(j - 1)
    OBVIOUS
  <2> HIDE DEF h
  <2>4. ASSUME NEW k \in 1..j
        PROVE  /\ h[k] = Unchanged(s, k) \/ h[k] \cap kept = {}
               /\ \A i \in h[k] : pre[i].text = post[k].text
    <3>1. CASE k = j
      BY <1>4, <2>2, <3>1
    <3>2. CASE k \in 1..(j - 1)
      BY <2>2, <3>2 DEF Taken
    <3> QED
      BY <2>3, <3>1, <3>2
  <2>5. ASSUME NEW k \in 1..j, NEW l \in 1..j, h[k] \cap h[l] # {} PROVE k = l
    <3>1. CASE k \in 1..(j - 1) /\ l \in 1..(j - 1)
      BY <2>2, <2>5, <3>1 DEF Taken
    <3>2. CASE k = j \/ l = j
      BY <1>4, <2>2, <2>3, <2>5, <3>2
    <3> QED
      BY <2>3, <3>1, <3>2
  <2> QED
    BY <2>2, <2>4, <2>5 DEF Taken
<1> HIDE DEF h
<1>2. ASSUME Unchanged(s, j) # {}
      PROVE  /\ x \subseteq 1..Len(pre) /\ \A i \in x : pre[i].text = post[j].text
             /\ x = Unchanged(s, j) \/ x \cap kept = {}
             /\ \A k \in 1..(j - 1) : g[k] \cap x = {}
  <2>1. x = Unchanged(s, j)
    BY <1>2
  <2>2. x \subseteq 1..Len(pre) /\ \A i \in x : pre[i].text = post[j].text
    BY <1>1, <2>1
  <2>3. ASSUME NEW k \in 1..(j - 1) PROVE g[k] \cap x = {}
    <3>1. SUFFICES ASSUME NEW i \in g[k], i \in x PROVE FALSE
      OBVIOUS
    <3>2. g[k] = Unchanged(s, k)
      BY <1>1, <2>1, <3>1 DEF Taken
    <3>3. k = j
      BY <1>1, <2>1, <3>1, <3>2
    <3> QED
      BY <3>3
  <2>4. x = Unchanged(s, j) \/ x \cap kept = {}
    BY <2>1
  <2> QED
    BY <2>2, <2>3, <2>4
<1>3. ASSUME Unchanged(s, j) = {}
      PROVE  /\ x \subseteq 1..Len(pre) /\ \A i \in x : pre[i].text = post[j].text
             /\ x = Unchanged(s, j) \/ x \cap kept = {}
             /\ \A k \in 1..(j - 1) : g[k] \cap x = {}
  <2>1. x \subseteq Candidates(pre, chunk, post, j) \ (kept \cup UNION Range(g))
    BY <1>3 DEF Nearest
  <2>2. x \subseteq 1..Len(pre) /\ \A i \in x : pre[i].text = post[j].text
    BY <2>1 DEF Candidates, Context
  <2>3. x \cap kept = {}
    BY <2>1
  <2>4. ASSUME NEW k \in 1..(j - 1) PROVE g[k] \cap x = {}
    <3>1. g[k] \in Range(g)
      BY DEF Range, Taken
    <3> QED
      BY <2>1, <3>1
  <2>5. x = Unchanged(s, j) \/ x \cap kept = {}
    BY <2>3
  <2> QED
    BY <2>2, <2>4, <2>5
<1>5. Taken(h, pre, post, s, j)
  BY <1>2, <1>3, <1>4
<1> QED
  BY <1>5 DEF h

LEMMA MatchedTakes ==
    ASSUME NEW pre, NEW chunk, NEW post, DOMAIN pre = 1..Len(pre), Len(pre) \in Nat,
           Len(post) \in Nat, NEW s, IsMatching(s, pre, post, Len(pre), Len(post))
    PROVE  Taken(Matched(pre, chunk, post, s), pre, post, s, Len(post))
<1> DEFINE q == Len(post)
           D == Seq(SUBSET (1..Len(pre)))
           Pick1(g, j) == IF Unchanged(s, j) # {} THEN Unchanged(s, j)
                          ELSE Nearest(Candidates(pre, chunk, post, j)
                                        \ ({p[1] : p \in s} \cup UNION Range(g)), j)
           Eq(h) == h = [j \in 0..Len(post) |->
                           IF j = 0 THEN <<>>
                           ELSE Append(h[j - 1],
                                IF Unchanged(s, j) # {} THEN Unchanged(s, j)
                                ELSE Nearest(Candidates(pre, chunk, post, j)
                                        \ ({p[1] : p \in s} \cup UNION Range(h[j - 1])), j))]
           v == CHOOSE h : Eq(h)
           H == [j \in 1..q |-> [g \in D |-> Append(g, Pick1(g, j))]]
<1>1. ASSUME NEW j, NEW g PROVE Pick1(g, j) \subseteq 1..Len(pre)
  <2>1. Unchanged(s, j) \subseteq 1..Len(pre)
    BY DEF Unchanged, IsMatching
  <2>2. \A t : t \subseteq Candidates(pre, chunk, post, j) => Nearest(t, j) \subseteq 1..Len(pre)
    BY DEF Nearest, Candidates
  <2>3. Nearest(Candidates(pre, chunk, post, j) \ ({p[1] : p \in s} \cup UNION Range(g)), j)
            \subseteq 1..Len(pre)
    BY <2>2
  <2> QED
    BY <2>1, <2>3
<1>2. H \in [1..q -> [D -> D]] /\ <<>> \in D
  <2>1. ASSUME NEW j \in 1..q, NEW g \in D PROVE Append(g, Pick1(g, j)) \in D
    <3> HIDE DEF Pick1
    <3> QED
      BY <1>1
  <2> HIDE DEF Pick1
  <2> QED
    BY <2>1
<1>3. PICK w : Follows(w, q, D, <<>>, H)
  <2> HIDE DEF H, D
  <2> QED
    BY <1>2, BoundedIteration
<1>4. w \in [0..q -> D] /\ w[0] = <<>>
      /\ \A j \in 1..q : w[j] = Append(w[j - 1], Pick1(w[j - 1], j))
  <2>1. w \in [0..q -> D] /\ w[0] = <<>> /\ \A j \in 1..q : w[j] = H[j][w[j - 1]]
    BY <1>3 DEF Follows
  <2>2. ASSUME NEW j \in 1..q PROVE w[j] = Append(w[j - 1], Pick1(w[j - 1], j))
    <3>1. j - 1 \in 0..q
      OBVIOUS
    <3>2. w[j - 1] \in D
      BY <2>1, <3>1
    <3> HIDE DEF D, Pick1
    <3> QED
      BY <2>1, <3>2
  <2> HIDE DEF D, H, Pick1
  <2> QED
    BY <2>1, <2>2
<1> DEFINE Good == {j \in 0..q : Taken(w[j], pre, post, s, j)}
<1>5. \A j \in 0..q : j \in Good
  <2>1. 0 \in Good
    BY <1>4 DEF Taken
  <2>2. ASSUME NEW j \in 1..q, j - 1 \in Good PROVE j \in Good
    <3>1. Taken(w[j - 1], pre, post, s, j - 1) /\ j \in 0..q
      BY <2>2
    <3>2. PICK x : x = Pick1(w[j - 1], j)
      OBVIOUS
    <3>3. Taken(Append(w[j - 1], x), pre, post, s, j)
      BY <3>1, <3>2, TakenGrows
    <3> HIDE DEF Pick1, D
    <3> QED
      BY <1>4, <3>1, <3>2, <3>3
  <2> HIDE DEF Good
  <2> QED
    BY <2>1, <2>2, BoundedInduction
<1>6. Eq(w)
  <2>1. ASSUME NEW j \in 0..q
        PROVE  w[j] = IF j = 0 THEN <<>> ELSE Append(w[j - 1], Pick1(w[j - 1], j))
    <3>1. j # 0 => j \in 1..q
      OBVIOUS
    <3> HIDE DEF Pick1
    <3> QED
      BY <1>4, <3>1
  <2>2. w = [j \in 0..q |-> IF j = 0 THEN <<>> ELSE Append(w[j - 1], Pick1(w[j - 1], j))]
    <3> HIDE DEF D, Pick1
    <3> QED
      BY <1>4, <2>1
  <2> QED
    BY <2>2
<1>7. Eq(v)
  BY <1>6, Zenon
<1>8. Matched(pre, chunk, post, s) = v[q]
  BY DEF Matched
<1> HIDE DEF v
<1>9. \A j \in 0..q : v[j] = IF j = 0 THEN <<>> ELSE Append(v[j - 1], Pick1(v[j - 1], j))
  <2>1. v = [j \in 0..q |-> IF j = 0 THEN <<>> ELSE Append(v[j - 1], Pick1(v[j - 1], j))]
    BY <1>7
  <2> HIDE DEF Pick1
  <2> QED
    BY <2>1
<1> DEFINE Same == {j \in 0..q : v[j] = w[j]}
<1>10. \A j \in 0..q : j \in Same
  <2>1. 0 \in Same
    <3>1. 0 \in 0..q
      OBVIOUS
    <3> HIDE DEF Pick1, D
    <3> QED
      BY <1>4, <1>9, <3>1
  <2>2. ASSUME NEW j \in 1..q, j - 1 \in Same PROVE j \in Same
    <3>1. j \in 0..q /\ j # 0 /\ v[j - 1] = w[j - 1]
      BY <2>2
    <3>2. v[j] = Append(v[j - 1], Pick1(v[j - 1], j))
      <4> HIDE DEF Pick1
      <4> QED
        BY <1>9, <3>1
    <3>3. v[j] = Append(w[j - 1], Pick1(w[j - 1], j))
      BY <3>1, <3>2
    <3> HIDE DEF Pick1, D
    <3> QED
      BY <1>4, <3>1, <3>3
  <2> HIDE DEF Same
  <2> QED
    BY <2>1, <2>2, BoundedInduction
<1>11. v[q] = w[q] /\ Taken(w[q], pre, post, s, q)
  <2>1. q \in 0..q
    OBVIOUS
  <2> QED
    BY <1>5, <1>10, <2>1
<1> QED
  BY <1>8, <1>11

(* The line a line gets its place from has got one of its own. *)
LEMMA NeighbourHas ==
    ASSUME NEW g, NEW m \in Nat, DOMAIN g = 1..m, Len(g) = m, NEW j \in 1..m
    PROVE  /\ g[j] # {} => Neighbour(g, j) = g[j]
           /\ (\E k \in 1..m : g[k] # {}) =>
                 \E k \in 1..m : g[k] # {} /\ Neighbour(g, j) = g[k]
           /\ Neighbour(g, j) # {} => \E k \in 1..m : g[k] # {}
<1> DEFINE before == {k \in 1..j : g[k] # {}}
           after == {k \in j..Len(g) : g[k] # {}}
<1>1. before \subseteq 1..m /\ after \subseteq 1..m
  OBVIOUS
<1>2. Neighbour(g, j) = IF before # {} THEN g[Max(before)]
                        ELSE IF after # {} THEN g[Min(after)] ELSE {}
  BY DEF Neighbour
<1>3. ASSUME g[j] # {} PROVE Neighbour(g, j) = g[j]
  <2>1. j \in before
    BY <1>3
  <2>2. Max(before) \in before /\ j <= Max(before)
    <3> HIDE DEF before
    <3> QED
      BY <1>1, <2>1, MinAndMax
  <2>3. Max(before) = j
    BY <2>2
  <2> HIDE DEF before, after
  <2> QED
    BY <1>2, <2>1, <2>3
<1>4. ASSUME NEW k \in 1..m, g[k] # {}
      PROVE  \E l \in 1..m : g[l] # {} /\ Neighbour(g, j) = g[l]
  <2>1. k \in before \/ k \in after
    BY <1>4
  <2>2. CASE before # {}
    <3>1. Max(before) \in before
      <4> HIDE DEF before
      <4> QED
        BY <1>1, <2>2, MinAndMax
    <3>2. PICK b : b = Max(before)
      OBVIOUS
    <3>3. b \in before
      BY <3>1, <3>2
    <3>4. b \in 1..m /\ g[b] # {}
      BY <3>3
    <3> HIDE DEF before, after
    <3> QED
      BY <1>2, <2>2, <3>2, <3>4
  <2>3. CASE before = {}
    <3>1. Min(after) \in after
      <4>1. after # {}
        BY <2>1, <2>3
      <4> HIDE DEF after
      <4> QED
        BY <1>1, <4>1, MinAndMax
    <3>2. PICK b : b = Min(after)
      OBVIOUS
    <3>3. b \in after
      BY <3>1, <3>2
    <3>4. b \in 1..m /\ g[b] # {} /\ after # {}
      BY <3>3
    <3> HIDE DEF before, after
    <3> QED
      BY <1>2, <2>3, <3>2, <3>4
  <2> QED
    BY <2>2, <2>3
<1>5. ASSUME Neighbour(g, j) # {} PROVE \E k \in 1..m : g[k] # {}
  <2>1. before # {} \/ after # {}
    <3> HIDE DEF before, after
    <3> QED
      BY <1>2, <1>5
  <2>2. PICK k : k \in before \/ k \in after
    BY <2>1
  <2> QED
    BY <1>1, <2>2
<1> QED
  BY <1>3, <1>4, <1>5

(* The entries of a text that was made of another one: a line that got a   *)
(* line has its text, no two got one, and the others have the place of a   *)
(* line that got one.                                                      *)
Leads(to, pre, post) ==
    LET found == {j \in DOMAIN to : to[j].confidence # "inferred"}
    IN  /\ DOMAIN to \subseteq DOMAIN post
        /\ found # {} => DOMAIN to = DOMAIN post
        /\ \A j \in DOMAIN to : to[j].from \in DOMAIN pre
        /\ \A j \in found : pre[to[j].from].text = post[j].text
        /\ \A j, k \in found : to[j].from = to[k].from => j = k
        /\ \A j \in DOMAIN to \ found : \E k \in found : to[k].from = to[j].from

LEMMA RemappedLeads ==
    ASSUME NEW pre, NEW chunk, NEW post, DOMAIN pre = 1..Len(pre), Len(pre) \in Nat,
           DOMAIN post = 1..Len(post), Len(post) \in Nat, NEW s \in Matchings(pre, post)
    PROVE  Leads(Remapped(pre, chunk, post, s), pre, post)
<1>1. PICK to : to = Remapped(pre, chunk, post, s)
  OBVIOUS
<1>2. PICK g : g = Matched(pre, chunk, post, s)
  OBVIOUS
<1> DEFINE m == Len(post)
           lines == {j \in DOMAIN post : Neighbour(g, j) # {}}
           found == {j \in DOMAIN to : to[j].confidence # "inferred"}
<1>3. IsMatching(s, pre, post, Len(pre), Len(post))
  BY MatchingsMatch
<1>4. Taken(g, pre, post, s, m)
  BY <1>2, <1>3, MatchedTakes
<1>5. g \in Seq(SUBSET (1..Len(pre))) /\ Len(g) = m
  BY <1>4 DEF Taken
<1>6. DOMAIN g = 1..m /\ \A j \in 1..m : g[j] \subseteq 1..Len(pre)
  <2>1. PICK T : T = SUBSET (1..Len(pre))
    OBVIOUS
  <2>2. DOMAIN g = 1..m /\ \A j \in 1..m : g[j] \in T
    BY <1>5, <2>1
  <2> QED
    BY <2>1, <2>2
<1>7. /\ DOMAIN to = lines
      /\ \A j \in lines :
            /\ to[j].from = CHOOSE i \in Neighbour(g, j) : TRUE
            /\ to[j].confidence = IF g[j] = {} THEN "inferred" ELSE Confidence(s, j)
  BY <1>1, <1>2 DEF Remapped
<1>8. \A j \in lines : to[j].confidence = "inferred" <=> g[j] = {}
  BY <1>7 DEF Confidence
<1>9. ASSUME NEW j \in 1..m
      PROVE  /\ g[j] # {} => Neighbour(g, j) = g[j]
             /\ (\E k \in 1..m : g[k] # {}) =>
                   \E k \in 1..m : g[k] # {} /\ Neighbour(g, j) = g[k]
             /\ Neighbour(g, j) # {} => \E k \in 1..m : g[k] # {}
  BY <1>5, <1>6, NeighbourHas
<1>10. ASSUME NEW j \in 1..m, Neighbour(g, j) # {}
       PROVE  \E k \in 1..m : g[k] # {} /\ Neighbour(g, j) = g[k]
  <2>1. \E k \in 1..m : g[k] # {}
    BY <1>9, <1>10
  <2> QED
    BY <1>9, <2>1
<1>11. found = {j \in 1..m : g[j] # {}}
  <2>1. \A j \in 1..m : g[j] # {} => j \in lines
    BY <1>9
  <2> HIDE DEF lines
  <2> QED
    BY <1>6, <1>7, <1>8, <2>1 DEF lines
<1>12. ASSUME NEW j \in lines PROVE to[j].from \in Neighbour(g, j)
  BY <1>7
<1>13. ASSUME NEW j \in found PROVE to[j].from \in g[j]
  <2>1. j \in lines /\ j \in 1..m /\ g[j] # {}
    BY <1>7, <1>11
  <2>2. Neighbour(g, j) = g[j]
    BY <1>9, <2>1
  <2> QED
    BY <1>12, <2>1, <2>2
<1>14. ASSUME NEW j \in DOMAIN to PROVE to[j].from \in DOMAIN pre
  <2>1. j \in 1..m /\ Neighbour(g, j) # {}
    BY <1>7
  <2>2. PICK k \in 1..m : Neighbour(g, j) = g[k]
    BY <1>10, <2>1
  <2> QED
    BY <1>6, <1>7, <1>12, <2>2
<1>15. ASSUME found # {} PROVE DOMAIN to = DOMAIN post
  <2>1. \E k \in 1..m : g[k] # {}
    BY <1>11, <1>15
  <2>2. \A j \in 1..m : Neighbour(g, j) # {}
    BY <1>9, <2>1
  <2> QED
    BY <1>7, <2>2
<1>16. ASSUME NEW j \in found PROVE pre[to[j].from].text = post[j].text
  BY <1>4, <1>11, <1>13 DEF Taken
<1>17. ASSUME NEW j \in found, NEW k \in found, to[j].from = to[k].from PROVE j = k
  BY <1>4, <1>11, <1>13, <1>17 DEF Taken
<1>18. ASSUME NEW j \in DOMAIN to, j \notin found PROVE \E k \in found : to[k].from = to[j].from
  <2>1. j \in 1..m /\ Neighbour(g, j) # {} /\ j \in lines
    BY <1>7, <1>18
  <2>2. PICK k \in 1..m : g[k] # {} /\ Neighbour(g, j) = g[k]
    BY <1>10, <2>1
  <2>3. Neighbour(g, k) = g[k] /\ k \in lines /\ k \in found
    BY <1>9, <1>11, <2>2
  <2>4. to[k].from = to[j].from
    BY <1>7, <2>1, <2>2, <2>3
  <2> QED
    BY <2>3, <2>4
<1>19. DOMAIN to \subseteq DOMAIN post
  BY <1>7
<1> HIDE DEF lines
<1>20. Leads(to, pre, post)
  BY <1>14, <1>15, <1>16, <1>17, <1>18, <1>19 DEF Leads
<1> QED
  BY <1>1, <1>20

(* What is written is a sequence of lines, whatever the formatter did. *)
LEMMA OnDiskIsText ==
    ASSUME NEW S, NEW lines \in Seq(S)
    PROVE  DOMAIN OnDisk(lines) = 1..Len(OnDisk(lines)) /\ Len(OnDisk(lines)) \in Nat
<1> DEFINE T == [text : {lines[i].text : i \in DOMAIN lines} \cup {Added}, form : Nat]
           x == Plainly(lines)
           added == [text |-> Added, form |-> 0]
           parts == [i \in DOMAIN x |-> IF x[i].text.blank THEN <<>> ELSE <<x[i]>>]
           squeezed == FlattenSeq(parts)
           Indent(s) == [i \in DOMAIN s |-> [s[i] EXCEPT !.form = i % 2]]
<1>1. x \in Seq(T) /\ added \in T
  <2>1. \A i \in 1..Len(lines) : [text |-> lines[i].text, form |-> 0] \in T
    OBVIOUS
  <2>2. x = [i \in 1..Len(lines) |-> [text |-> lines[i].text, form |-> 0]] /\ Len(lines) \in Nat
    BY DEF Plainly
  <2> HIDE DEF x, T
  <2>3. x \in Seq(T)
    BY <2>1, <2>2
  <2> QED
    BY <2>3 DEF T
<1>2. squeezed \in Seq(T)
  <2>1. ASSUME NEW i \in DOMAIN x PROVE (IF x[i].text.blank THEN <<>> ELSE <<x[i]>>) \in Seq(T)
    <3>1. <<>> \in Seq(T) /\ <<x[i]>> \in Seq(T)
      <4> HIDE DEF T, x
      <4> QED
        BY <1>1
    <3> QED
      BY <3>1
  <2>2. parts \in Seq(Seq(T))
    <3>1. parts = [i \in 1..Len(x) |-> IF x[i].text.blank THEN <<>> ELSE <<x[i]>>] /\ Len(x) \in Nat
      <4> HIDE DEF T, x
      <4> QED
        BY <1>1
    <3>2. DOMAIN x = 1..Len(x)
      <4> HIDE DEF T, x
      <4> QED
        BY <1>1
    <3> HIDE DEF T, x, parts
    <3> QED
      BY <2>1, <3>1, <3>2
  <2> HIDE DEF T, x, parts
  <2> QED
    BY <2>2, FlattenType
<1>3. ASSUME NEW s \in Seq(T) PROVE Indent(s) \in Seq(T)
  <2>1. ASSUME NEW i \in 1..Len(s) PROVE [s[i] EXCEPT !.form = i % 2] \in T
    <3>1. s[i] \in T /\ i % 2 \in Nat
      <4> HIDE DEF T
      <4> QED
        OBVIOUS
    <3> QED
      BY <3>1
  <2>2. DOMAIN s = 1..Len(s) /\ Len(s) \in Nat
    <3> HIDE DEF T
    <3> QED
      OBVIOUS
  <2> HIDE DEF T
  <2> QED
    BY <2>1, <2>2
<1>4. PICK y : y = Format(setting.formatter, x)
  OBVIOUS
<1>5. y \in Seq(T)
  <2>1. <<added, added>> \o Indent(squeezed) \o <<added>> \in Seq(T)
    <3>1. PICK z : z = Indent(squeezed)
      OBVIOUS
    <3>2. z \in Seq(T)
      <4> HIDE DEF squeezed, Indent, T
      <4> QED
        BY <1>2, <1>3, <3>1
    <3> HIDE DEF T, added
    <3>3. <<added, added>> \in Seq(T) /\ <<added>> \in Seq(T)
      BY <1>1
    <3>4. <<added, added>> \o z \o <<added>> \in Seq(T)
      BY <3>2, <3>3
    <3> QED
      BY <3>1, <3>4
  <2>2. Indent(x) \in Seq(T)
    <3> HIDE DEF x, T, Indent
    <3> QED
      BY <1>1, <1>3
  <2>3. y = CASE setting.formatter = "squeeze" -> squeezed
              [] setting.formatter = "indent" -> Indent(x)
              [] setting.formatter = "frame" ->
                    <<added, added>> \o Indent(squeezed) \o <<added>>
              [] OTHER -> x
    BY <1>4 DEF Format
  <2> HIDE DEF x, T, Indent, squeezed, added
  <2> QED
    BY <1>1, <1>2, <2>1, <2>2, <2>3
<1>6. OnDisk(lines) = WithoutTrailingBlanks(y)
  BY <1>4 DEF OnDisk
<1>7. WithoutTrailingBlanks(y) \in Seq(T)
  <2> DEFINE keep == {i \in DOMAIN y : ~y[i].text.blank}
  <2> HIDE DEF T
  <2>1. keep \subseteq 1..Len(y) /\ Len(y) \in Nat
    BY <1>5
  <2>2. keep # {} => Max(keep) \in 1..Len(y)
    <3> HIDE DEF keep
    <3> QED
      BY <2>1, MinAndMax
  <2>3. WithoutTrailingBlanks(y) = IF keep = {} THEN <<>> ELSE SubSeq(y, 1, Max(keep))
    BY DEF WithoutTrailingBlanks
  <2>4. CASE keep = {}
    BY <2>3, <2>4
  <2>5. CASE keep # {}
    <3>1. PICK m : m = Max(keep)
      OBVIOUS
    <3>2. m \in 1..Len(y)
      BY <2>2, <2>5, <3>1
    <3>3. SubSeq(y, 1, m) \in Seq(T)
      BY <1>5, <3>2
    <3> HIDE DEF keep
    <3> QED
      BY <2>3, <2>5, <3>1, <3>3
  <2> QED
    BY <2>4, <2>5
<1> HIDE DEF T
<1>8. DOMAIN WithoutTrailingBlanks(y) = 1..Len(WithoutTrailingBlanks(y))
      /\ Len(WithoutTrailingBlanks(y)) \in Nat
  BY <1>7
<1> QED
  BY <1>6, <1>8

(* The map of a file fits the file. *)
Fits(map, file) ==
    LET found == {j \in DOMAIN map : map[j].confidence # "inferred"}
    IN  /\ found # {} => DOMAIN map = DOMAIN file
        /\ Contiguous => \A j \in found : texts[map[j].file][map[j].line] = file[j].text
        /\ \A j, k \in found : map[j].from = map[k].from => j = k
        /\ \A j \in DOMAIN map \ found : \E k \in found : map[k].from = map[j].from

(* Its entries lead to places in the sources. *)
InSources(map) ==
    \A j \in DOMAIN map : map[j].file \in DOMAIN texts /\ map[j].line \in Nat \ {0}

LinesInSources(lines) ==
    \A x \in Range(lines) : x.file \in DOMAIN texts /\ x.line \in Nat \ {0}

LEMMA PlainMapFits ==
    ASSUME NEW S, NEW lines \in Seq(S), LinesInSources(lines)
    PROVE  /\ InSources(PlainMap(lines))
           /\ (Contiguous => \A x \in Range(lines) : texts[x.file][x.line] = x.text) =>
                 Fits(PlainMap(lines), Plainly(lines))
<1>1. PICK m : m = PlainMap(lines)
  OBVIOUS
<1>2. DOMAIN m = DOMAIN lines
      /\ \A i \in DOMAIN lines : m[i].file = lines[i].file /\ m[i].line = lines[i].line
                                 /\ m[i].from = i /\ m[i].confidence = "exact"
  BY <1>1 DEF PlainMap, EntryOf
<1>3. PICK p : p = Plainly(lines)
  OBVIOUS
<1>4. DOMAIN p = DOMAIN lines /\ \A i \in DOMAIN lines : p[i].text = lines[i].text
  BY <1>3 DEF Plainly
<1>5. \A i \in DOMAIN lines : lines[i] \in Range(lines)
  BY DEF Range
<1>6. InSources(m)
  BY <1>2, <1>5 DEF InSources, LinesInSources
<1>7. ASSUME Contiguous => \A x \in Range(lines) : texts[x.file][x.line] = x.text
      PROVE  Fits(m, p)
  BY <1>2, <1>4, <1>5, <1>7 DEF Fits
<1> QED
  BY <1>1, <1>3, <1>6, <1>7

LEMMA FormattedMapFits ==
    ASSUME NEW S, NEW lines \in Seq(S), LinesInSources(lines),
           NEW post, DOMAIN post = 1..Len(post), Len(post) \in Nat,
           NEW s \in Matchings(Plainly(lines), post)
    PROVE  /\ InSources(MapAfterFormat(lines, post, s))
           /\ (Contiguous => \A x \in Range(lines) : texts[x.file][x.line] = x.text) =>
                 Fits(MapAfterFormat(lines, post, s), post)
<1>1. PICK p : p = Plainly(lines)
  OBVIOUS
<1>2. DOMAIN p = DOMAIN lines /\ \A i \in DOMAIN lines : p[i].text = lines[i].text
  BY <1>1 DEF Plainly
<1>3. CASE post = p
  <2>1. MapAfterFormat(lines, post, s) = PlainMap(lines)
    BY <1>1, <1>3 DEF MapAfterFormat
  <2> QED
    BY <1>1, <1>3, <2>1, PlainMapFits
<1>4. CASE post # p
  <2>1. PICK chunk : chunk = [i \in DOMAIN lines |-> lines[i].chunk]
    OBVIOUS
  <2>2. PICK to : to = Remapped(p, chunk, post, s)
    OBVIOUS
  <2>3. PICK m : m = MapAfterFormat(lines, post, s)
    OBVIOUS
  <2>4. m = [j \in DOMAIN to |-> EntryOf(lines, to[j].from, to[j].confidence)]
    BY <1>1, <1>4, <2>1, <2>2, <2>3 DEF MapAfterFormat
  <2>5. Leads(to, p, post)
    <3>1. DOMAIN p = 1..Len(p) /\ Len(p) \in Nat
      BY <1>1 DEF Plainly
    <3> QED
      BY <1>1, <2>2, <3>1, RemappedLeads
  <2>6. DOMAIN m = DOMAIN to
        /\ \A j \in DOMAIN to : /\ m[j].file = lines[to[j].from].file
                                /\ m[j].line = lines[to[j].from].line
                                /\ m[j].from = to[j].from
                                /\ m[j].confidence = to[j].confidence
    BY <2>4 DEF EntryOf
  <2>7. \A j \in DOMAIN to : to[j].from \in DOMAIN lines
    BY <1>2, <2>5 DEF Leads
  <2>8. \A i \in DOMAIN lines : lines[i] \in Range(lines)
    BY DEF Range
  <2>9. InSources(m)
    BY <2>6, <2>7, <2>8 DEF InSources, LinesInSources
  <2>10. ASSUME Contiguous => \A x \in Range(lines) : texts[x.file][x.line] = x.text
         PROVE  Fits(m, post)
    <3> DEFINE found == {j \in DOMAIN to : to[j].confidence # "inferred"}
    <3>1. {j \in DOMAIN m : m[j].confidence # "inferred"} = found
      BY <2>6
    <3>2. found # {} => DOMAIN m = DOMAIN post
      BY <2>5, <2>6 DEF Leads
    <3>3. ASSUME Contiguous, NEW j \in found
          PROVE  texts[m[j].file][m[j].line] = post[j].text
      <4>1. p[to[j].from].text = post[j].text
        BY <2>5 DEF Leads
      <4>2. to[j].from \in DOMAIN lines
        BY <2>7
      <4> QED
        BY <1>2, <2>6, <2>8, <2>10, <3>3, <4>1, <4>2
    <3>4. \A j, k \in found : m[j].from = m[k].from => j = k
      BY <2>5, <2>6 DEF Leads
    <3>5. \A j \in DOMAIN m \ found : \E k \in found : m[k].from = m[j].from
      BY <2>5, <2>6 DEF Leads
    <3> HIDE DEF found
    <3> QED
      BY <3>1, <3>2, <3>3, <3>4, <3>5 DEF Fits
  <2> QED
    BY <2>3, <2>9, <2>10
<1> QED
  BY <1>3, <1>4

(* A line of an expansion comes from a place in the sources. *)
LEMMA OutputsInSources == HistoryInv => \A r \in Range(out) : LinesInSources(r.lines)
<1> SUFFICES ASSUME HistoryInv, NEW r \in Range(out), NEW x \in Range(r.lines)
             PROVE  x.file \in DOMAIN texts /\ x.line \in Nat \ {0}
  BY DEF LinesInSources
<1>1. TypeI /\ IsProject(texts) /\ PassInv /\ ReadInv
  BY DEF HistoryInv, PassInv, TypeI
<1>2. pc # "read"
  <2>1. out # <<>>
    BY DEF Range
  <2> QED
    BY <1>1, <2>1 DEF TypeI
<1>3. r.lines \in Seq(OutLines)
  BY <1>1 DEF PassInv, IsWritten
<1>4. PICK c \in Names : \E d \in Range(store.defs[c]) : x \in OutLinesOf(c, d)
  BY <1>3 DEF OutLines, Range
<1>5. PICK d \in Range(store.defs[c]) : x \in OutLinesOf(c, d)
  BY <1>4
<1>6. PICK k \in DOMAIN d.body : x = OutLine(c, d, k)
  BY <1>5 DEF OutLinesOf
<1>7. PICK j \in DOMAIN store.defs[c] : d = store.defs[c][j]
  BY DEF Range
<1> DEFINE p == Place(d)
<1>8. p \in Current(c)
  BY <1>1, <1>2, <1>7, ReadInvMatches DEF DefinitionsMatchText
<1>9. p \in Places
  BY <1>1, <1>8, BeginsAre DEF Current
<1>10. p[1] = d.file /\ p[2] = d.line
  BY DEF Place
<1> HIDE DEF p
<1>11. p[1] \in DOMAIN texts /\ p[2] \in DOMAIN texts[p[1]]
  BY <1>9 DEF Places
<1>12. d \in Defs
  BY <1>1, <1>7 DEF TypeI, StoreType
<1>13. k \in Nat \ {0} /\ d.line \in Nat
  <2>1. d.body \in Seq(BodyTexts) /\ d.line \in Nat
    BY <1>12 DEF Defs
  <2> QED
    BY <2>1
<1>14. x.file = d.file /\ x.line = d.line + k
  BY <1>6 DEF OutLine
<1> QED
  BY <1>10, <1>11, <1>13, <1>14

LEMMA ContiguousStays == UNCHANGED texts => (Contiguous' <=> Contiguous)
<1> SUFFICES ASSUME texts' = texts PROVE Contiguous' <=> Contiguous
  OBVIOUS
<1>1. \A x : Headers(x)' = Headers(x) /\ Begins(x)' = Begins(x)
  BY DEF Begins, Headers, Places, LineAt
<1>2. Places' = Places
  BY DEF Places
<1>3. ASSUME NEW p PROVE Ends(p)' = Ends(p)
  <2> DEFINE stops == {j \in DOMAIN texts[p[1]] :
                         /\ j > p[2]
                         /\ \/ texts[p[1]][j].kind = "close"
                            \/ /\ texts[p[1]][j].kind = "open"
                               /\ texts[p[1]][j].name \in Names
                               /\ <<p[1], j>> \in Begins(texts[p[1]][j].name)}
  <2>1. stops' = stops
    BY <1>1
  <2>2. Ends(p) = IF stops = {} THEN Len(texts[p[1]]) + 1 ELSE Min(stops)
    BY DEF Ends
  <2>3. Ends(p)' = IF stops' = {} THEN Len(texts'[p[1]]) + 1 ELSE Min(stops')
    BY DEF Ends
  <2> HIDE DEF stops
  <2> QED
    BY <2>1, <2>2, <2>3
<1> QED
  BY <1>1, <1>2, <1>3 DEF Contiguous

LEMMA FitsStays ==
    ASSUME UNCHANGED texts, NEW m, NEW file
    PROVE  /\ Fits(m, file) => Fits(m, file)'
           /\ InSources(m) => InSources(m)'
BY ContiguousStays DEF Fits, InSources

(* The maps and files of the pass, and the maps it leaves behind. *)
MapsInv ==
    /\ own = [maps |-> own.maps, deps |-> own.deps, written |-> own.written]
    /\ \A f \in DOMAIN own.maps : InSources(own.maps[f])
    /\ \A f \in Written : /\ f \in DOMAIN own.maps /\ f \in DOMAIN disk
                          /\ Fits(own.maps[f], disk[f])
    /\ pc = "read" => own = OwnDb
    /\ pc = "done" => db.maps = own.maps

LEMMA OwnDbIsEmpty == OwnDb.maps = NoFiles /\ DOMAIN NoFiles = {} /\ OwnDb.written = {}
                      /\ OwnDb = [maps |-> OwnDb.maps, deps |-> OwnDb.deps,
                                  written |-> OwnDb.written]
BY DEF OwnDb, NoFiles

LEMMA MapsStart == own = OwnDb /\ pc # "done" => MapsInv
BY OwnDbIsEmpty DEF MapsInv, Written

(* A step that leaves the databases and files of the pass alone. *)
LEMMA MapsKeep ==
    ASSUME MapsInv, UNCHANGED <<texts, own, disk>>,
           skip' = skip \/ own = OwnDb,
           pc' = "read" => pc = "read",
           pc' = "done" => db'.maps = own.maps
    PROVE  MapsInv'
<1>1. PICK o : o = own
  OBVIOUS
<1>2. PICK files : files = disk
  OBVIOUS
<1>3. own' = o /\ disk' = files
  BY <1>1, <1>2
<1>4. \A f \in DOMAIN o.maps : InSources(o.maps[f])'
  BY <1>1, FitsStays DEF MapsInv
<1>5. Written' \subseteq Written
  BY OwnDbIsEmpty DEF Written
<1>6. \A f \in Written : /\ f \in DOMAIN o.maps /\ f \in DOMAIN files
                         /\ Fits(o.maps[f], files[f])'
  BY <1>1, <1>2, FitsStays DEF MapsInv
<1> QED
  BY <1>1, <1>3, <1>4, <1>5, <1>6 DEF MapsInv, OwnDb, NoFiles

(* A file that is expanded gets its map, and if it is written, its text. *)
LEMMA HistoryMaps == HistoryInv => MapPointsAtText
BY LinesMapped DEF HistoryInv

LEMMA MapsWritten ==
    ASSUME HistoryInv, HistoryInv', MapsInv, WriteOutput
    PROVE  MapsInv'
<1>1. texts' = texts /\ pc = "expand" /\ (pc' = "expand" \/ pc' = "failed")
      /\ skip' = skip /\ db' = db
  BY DEF WriteOutput, ExpandFile
<1>2. CASE pc' = "failed"
  BY <1>1, <1>2, MapsKeep DEF WriteOutput
<1>3. CASE pc' # "failed"
  <2>1. PICK x : x = Expansion(store.files[n + 1])
    OBVIOUS
  <2>2. PICK name : name = store.files[n + 1]
    OBVIOUS
  <2>3. PICK o : o = [name |-> name, lines |-> x.lines, deps |-> x.deps]
    OBVIOUS
  <2>4. out' = Append(out, o)
    BY <1>3, <2>1, <2>2, <2>3 DEF WriteOutput, ExpandFile
  <2>5. PICK k \in DOMAIN out' : out'[k] = o /\ Last(out') = o
    <3>1. PICK S : S = Range(out) \cup {o}
      OBVIOUS
    <3>2. out \in Seq(S) /\ o \in S
      BY <3>1 DEF HistoryInv, PassInv
    <3>3. PICK u : u = Append(out, o)
      OBVIOUS
    <3>4. Len(u) = Len(out) + 1 /\ u[Len(u)] = o /\ DOMAIN u = 1..(Len(out) + 1) /\ Len(out) \in Nat
      BY <3>2, <3>3
    <3> QED
      BY <2>4, <3>3, <3>4 DEF Last
  <2>6. PICK lines : lines = o.lines
    OBVIOUS
  <2>7. o \in Range(out')
    BY <2>5 DEF Range
  <2>8. PICK S : S = OutLines'
    OBVIOUS
  <2>9. lines \in Seq(S)
    BY <2>6, <2>7, <2>8 DEF HistoryInv, PassInv, IsWritten
  <2>10. LinesInSources(lines)
    <3>1. (\A r \in Range(out) : LinesInSources(r.lines))'
      BY OutputsInSources, PTL
    <3>2. LinesInSources(lines)'
      BY <2>6, <2>7, <3>1
    <3> QED
      BY <1>1, <3>2 DEF LinesInSources
  <2>11. Contiguous => \A y \in Range(lines) : texts[y.file][y.line] = y.text
    <3>1. MapPointsAtText'
      BY HistoryMaps, PTL
    <3> QED
      BY <1>1, <2>5, <2>6, <3>1, ContiguousStays DEF MapPointsAtText
  <2>12. PICK maps : maps = own.maps
    OBVIOUS
  <2>13. /\ \A f \in DOMAIN maps : InSources(maps[f])'
         /\ \A f \in Written : /\ f \in DOMAIN maps /\ f \in DOMAIN disk
    <3>1. PICK files : files = disk
      OBVIOUS
    <3>2. ASSUME NEW f \in DOMAIN maps PROVE InSources(maps[f])'
      BY <1>1, <2>12, FitsStays DEF MapsInv
    <3>3. ASSUME NEW f \in Written PROVE f \in DOMAIN maps /\ f \in DOMAIN files
                                        /\ Fits(maps[f], files[f])'
      <4>1. f \in DOMAIN maps /\ f \in DOMAIN files /\ Fits(maps[f], files[f])
        BY <2>12, <3>1 DEF MapsInv
      <4>2. PICK g, h : g = maps[f] /\ h = files[f]
        OBVIOUS
      <4> QED
        BY <1>1, <4>1, <4>2, FitsStays
    <3> QED
      BY <3>1, <3>2, <3>3
  <2>14. CASE name \in skip
    <3>1. PICK m : m = PlainMap(lines)
      OBVIOUS
    <3>2. /\ own' = [own EXCEPT !.maps = With(@, name, m), !.deps = AddDeps(@, o.deps)]
          /\ disk' = disk
      BY <1>3, <2>3, <2>5, <2>6, <2>14, <3>1 DEF WriteOutput
    <3>3. InSources(m)'
      BY <1>1, <2>9, <2>10, <3>1, PlainMapFits, FitsStays
    <3>4. own' = [maps |-> With(maps, name, m), deps |-> own'.deps, written |-> own.written]
      BY <2>12, <3>2 DEF MapsInv
    <3>5. Written' = Written /\ name \notin Written
      BY <1>1, <2>14, <3>4 DEF Written
    <3>6. PICK all : all = With(maps, name, m)
      OBVIOUS
    <3>7. DOMAIN all = {name} \cup DOMAIN maps /\ all[name] = m
          /\ \A f \in DOMAIN maps : f # name => all[f] = maps[f]
      BY <3>6 DEF With
    <3>8. own'.maps = all
      BY <3>4, <3>6
    <3>9. \A f \in DOMAIN all : InSources(all[f])'
      BY <2>13, <3>3, <3>7
    <3>10. ASSUME NEW f \in Written'
           PROVE  f \in DOMAIN all /\ f \in DOMAIN disk' /\ Fits(all[f], disk[f])'
      <4>1. f \in Written /\ f # name
        BY <3>5, <3>10
      <4>2. f \in DOMAIN maps /\ f \in DOMAIN disk /\ Fits(maps[f], disk[f])
        BY <2>12, <4>1 DEF MapsInv
      <4>3. PICK g, h : g = maps[f] /\ h = disk[f]
        OBVIOUS
      <4>4. Fits(g, h)'
        BY <1>1, <4>2, <4>3, FitsStays
      <4>5. all[f] = g /\ disk'[f] = h
        BY <3>2, <3>7, <4>1, <4>2, <4>3
      <4> QED
        BY <3>2, <3>7, <4>2, <4>4, <4>5
    <3>11. own' = [maps |-> own'.maps, deps |-> own'.deps, written |-> own'.written]
      BY <3>4
    <3> QED
      BY <1>1, <1>3, <3>8, <3>9, <3>10, <3>11 DEF MapsInv
  <2>15. CASE name \notin skip
    <3>1. PICK post : post = OnDisk(lines)
      OBVIOUS
    <3>2. PICK q : q = Last(out')
      OBVIOUS
    <3>3. q.name = name /\ q.lines = lines /\ q.deps = o.deps /\ q.name \notin skip
           /\ OnDisk(q.lines) = post
      BY <2>3, <2>5, <2>6, <2>15, <3>1, <3>2
    <3>4. /\ disk' = With(disk, q.name, OnDisk(q.lines))
           /\ \E s \in Matchings(Plainly(q.lines), OnDisk(q.lines)) :
                 own' = [own EXCEPT
                           !.maps = With(@, q.name, MapAfterFormat(q.lines, OnDisk(q.lines), s)),
                           !.deps = AddDeps(@, q.deps),
                           !.written = @ \cup {q.name}]
      BY <1>3, <3>2, <3>3, Zenon DEF WriteOutput
    <3>5. PICK s \in Matchings(Plainly(lines), post) :
              own' = [own EXCEPT !.maps = With(@, name, MapAfterFormat(lines, post, s)),
                                 !.deps = AddDeps(@, o.deps),
                                 !.written = @ \cup {name}]
      BY <3>3, <3>4
    <3>6. disk' = With(disk, name, post)
      BY <3>3, <3>4
    <3>7. PICK m : m = MapAfterFormat(lines, post, s)
      OBVIOUS
    <3>8. DOMAIN post = 1..Len(post) /\ Len(post) \in Nat
      BY <2>9, <3>1, OnDiskIsText
    <3>9. InSources(m) /\ Fits(m, post)
      BY <2>9, <2>10, <2>11, <3>7, <3>8, FormattedMapFits
    <3>10. InSources(m)' /\ Fits(m, post)'
      BY <1>1, <3>9, FitsStays
    <3>11. own' = [maps |-> With(maps, name, m), deps |-> own'.deps,
                  written |-> own.written \cup {name}]
      BY <2>12, <3>5, <3>7 DEF MapsInv
    <3>12. Written' = Written \cup {name}
      BY <1>1, <2>15, <3>11 DEF Written
    <3>13. PICK all : all = With(maps, name, m)
      OBVIOUS
    <3>14. DOMAIN all = {name} \cup DOMAIN maps /\ all[name] = m
           /\ \A f \in DOMAIN maps : f # name => all[f] = maps[f]
      BY <3>13 DEF With
    <3>15. PICK files : files = With(disk, name, post)
      OBVIOUS
    <3>16. DOMAIN files = {name} \cup DOMAIN disk /\ files[name] = post
           /\ \A f \in DOMAIN disk : f # name => files[f] = disk[f]
      BY <3>15 DEF With
    <3>17. own'.maps = all /\ disk' = files
      BY <3>6, <3>11, <3>13, <3>15
    <3>18. \A f \in DOMAIN all : InSources(all[f])'
      BY <2>13, <3>10, <3>14
    <3>19. ASSUME NEW f \in Written'
           PROVE  f \in DOMAIN all /\ f \in DOMAIN files /\ Fits(all[f], files[f])'
      <4>1. CASE f = name
        BY <3>10, <3>14, <3>16, <4>1
      <4>2. CASE f # name
        <5>1. f \in DOMAIN maps /\ f \in DOMAIN disk
          BY <2>13, <3>12, <4>2
        <5>2. PICK a, b : a = maps[f] /\ b = disk[f]
          OBVIOUS
        <5>3. Fits(a, b)
          BY <2>12, <3>12, <4>2, <5>2 DEF MapsInv
        <5>4. Fits(a, b)'
          BY <1>1, <5>3, FitsStays
        <5>5. all[f] = a /\ files[f] = b
          BY <3>14, <3>16, <4>2, <5>1, <5>2
        <5> QED
          BY <3>14, <3>16, <5>1, <5>4, <5>5
      <4> QED
        BY <4>1, <4>2
    <3>20. own' = [maps |-> own'.maps, deps |-> own'.deps, written |-> own'.written]
      BY <3>11
    <3> QED
      BY <1>1, <1>3, <3>17, <3>18, <3>19, <3>20 DEF MapsInv
  <2> QED
    BY <2>14, <2>15
<1> QED
  BY <1>1, <1>2, <1>3

LEMMA MapsNext ==
    ASSUME HistoryInv, HistoryInv', MapsInv, [IncNext]_incVars
    PROVE  MapsInv'
<1>1. CASE UNCHANGED incVars
  BY <1>1, MapsKeep DEF incVars, MapsInv
<1>2. CASE Reading
  BY <1>2, MapsKeep DEF Reading, Read
<1>3. CASE StartPass
  <2>1. own = OwnDb
    BY <1>3 DEF StartPass, StartWriting, MapsInv
  <2> QED
    BY <1>3, <2>1, MapsKeep DEF StartPass, StartWriting
<1>4. CASE WriteOutput
  BY <1>4, MapsWritten
<1>5. CASE Refuse
  BY <1>5, MapsKeep DEF Refuse
<1>6. CASE FinishPass
  BY <1>6, MapsKeep DEF FinishPass, Finish
<1>7. CASE Cover
  BY <1>7, MapsKeep DEF Cover, MapsInv
<1>8. CASE Revise
  <2>1. own' = OwnDb' /\ pc' # "done"
    BY <1>8 DEF Revise, OwnDb, NoFiles
  <2>2. (own = OwnDb /\ pc # "done" => MapsInv)'
    BY MapsStart, PTL
  <2> QED
    BY <2>1, <2>2
<1> QED
  BY <1>1, <1>2, <1>3, <1>4, <1>5, <1>6, <1>7, <1>8 DEF IncNext

(* The maps that the passes leave behind. *)
LEMMA MapsHold == IncSpec => []MapsInv
<1>1. IncInit => MapsInv
  BY MapsStart DEF IncInit, Init
<1> QED
  BY <1>1, HistoryInvHolds, MapsNext, PTL DEF IncSpec

(* Every line of every file that a pass has written through a formatter is *)
(* led to the source, whichever of the longest matchings of its lines the  *)
(* diff library has found.                                                 *)
THEOREM EachFileFitsItsMap == IncSpec => []MapFitsFormattedFile
<1>1. MapsInv => MapFitsFormattedFile
  <2> SUFFICES ASSUME MapsInv, pc = "done", Contiguous, NEW f \in Written
               PROVE  LET map == db.maps[f]
                          found == {j \in DOMAIN map : map[j].confidence # "inferred"}
                      IN  /\ found # {} => DOMAIN map = DOMAIN disk[f]
                          /\ \A j \in found :
                                texts[map[j].file][map[j].line] = disk[f][j].text
                          /\ \A j, k \in found : map[j].from = map[k].from => j = k
                          /\ \A j \in DOMAIN map \ found :
                                \E k \in found : map[k].from = map[j].from
    BY DEF MapFitsFormattedFile
  <2>1. Fits(db.maps[f], disk[f])
    BY DEF MapsInv
  <2> QED
    BY <2>1 DEF Fits
<1> QED
  BY <1>1, MapsHold, PTL
-----------------------------------------------------------------------------
(* wb-query coverage *)

(* The headings above a line. *)
LEMMA AnchorIs ==
    ASSUME NEW text, Len(text) \in Nat, NEW i \in Nat
    PROVE  Anchor(text, i) = IF i <= Len(text) THEN i ELSE Len(text)
<1>1. ASSUME NEW a \in Nat, NEW b \in Nat PROVE Min({a, b}) = IF a <= b THEN a ELSE b
  <2>1. PICK m : m = IF a <= b THEN a ELSE b
    OBVIOUS
  <2>2. m \in {a, b} /\ \A y \in {a, b} : m <= y
    BY <2>1
  <2>3. \A x \in {a, b} : (\A y \in {a, b} : x <= y) => x = m
    BY <2>1
  <2>4. Min({a, b}) \in {a, b} /\ \A y \in {a, b} : Min({a, b}) <= y
    BY <2>2 DEF Min
  <2> QED
    BY <2>1, <2>3, <2>4
<1> QED
  BY <1>1 DEF Anchor

Above(text, i) == HeadingsIn(text, 1, Anchor(text, i))

LEMMA AboveAre ==
    ASSUME NEW text, Len(text) \in Nat, DOMAIN text = 1..Len(text), NEW i \in Nat
    PROVE  Above(text, i) = {h \in HeadingsIn(text, 1, Len(text)) : h <= i}
BY AnchorIs DEF Above, HeadingsIn

(* In a flat source only the last heading above a line counts. *)
LEMMA FlatChain ==
    ASSUME NEW text, Len(text) \in Nat, DOMAIN text = 1..Len(text), Flat(text),
           NEW i \in Nat, NEW j \in Nat,
           Above(text, i) = {} <=> Above(text, j) = {},
           Above(text, i) # {} => Max(Above(text, i)) = Max(Above(text, j))
    PROVE  TitleChain(text, i) = TitleChain(text, j)
<1> DEFINE H == HeadingsIn(text, 1, Len(text))
           Chain(k) == {x \in Above(text, k) : \A y \in Above(text, k) :
                            y > x => LevelAt(text, y) > LevelAt(text, x)}
<1>1. H \subseteq 1..Len(text) /\ \A x \in H : LevelAt(text, x) \in Nat
  BY HeadingLevels DEF HeadingsIn, IsHeading, Says, LevelAt
<1>2. ASSUME NEW k \in Nat
      PROVE  Chain(k) = IF Above(text, k) = {} THEN {} ELSE {Max(Above(text, k))}
  <2>1. PICK A : A = Above(text, k)
    OBVIOUS
  <2>2. A \subseteq H
    BY <2>1, AboveAre
  <2>3. Chain(k) = {x \in A : \A y \in A : ~(y > x)}
    <3>1. \A x, y \in A : LevelAt(text, x) = LevelAt(text, y) /\ LevelAt(text, x) \in Nat
      BY <1>1, <2>2 DEF Flat
    <3> HIDE DEF H
    <3>2. \A x, y \in A : ~(LevelAt(text, y) > LevelAt(text, x))
      BY <3>1
    <3> QED
      BY <2>1, <3>2
  <2>4. CASE A = {}
    BY <2>1, <2>3, <2>4
  <2>5. CASE A # {}
    <3>1. PICK m : m = Max(A)
      OBVIOUS
    <3>2. A \subseteq 1..Len(text)
      BY <1>1, <2>2
    <3>3. m \in A /\ \A x \in A : x <= m
      BY <2>5, <3>1, <3>2, MinAndMax
    <3>4. {x \in A : \A y \in A : ~(y > x)} = {m}
      <4>1. \A x \in A : x \in Nat
        BY <3>2
      <4>2. ASSUME NEW x \in A, \A y \in A : ~(y > x) PROVE x = m
        <5>1. x \in Nat /\ m \in Nat /\ x <= m /\ ~(m > x)
          BY <3>3, <4>1, <4>2
        <5> QED
          BY <5>1
      <4>3. \A y \in A : ~(y > m)
        BY <3>3, <4>1
      <4> QED
        BY <3>3, <4>2, <4>3
    <3> HIDE DEF Chain
    <3> QED
      BY <2>1, <2>3, <2>5, <3>1, <3>4
  <2> QED
    BY <2>4, <2>5
<1>3. Chain(i) = Chain(j)
  <2> HIDE DEF Chain
  <2> QED
    BY <1>2
<1>4. ASSUME NEW k
      PROVE  TitleChain(text, k) = LET order == SetToSortSeq(Chain(k), <)
                                   IN  [x \in DOMAIN order |-> text[order[x]].name]
  BY DEF TitleChain, Above
<1> HIDE DEF Chain
<1> QED
  BY <1>3, <1>4

(* All lines of the range that is looked up for a line stand under its     *)
(* heading.                                                                *)
LEMMA SectionTitles ==
    ASSUME NEW text, Len(text) \in Nat, DOMAIN text = 1..Len(text), Flat(text),
           NEW i \in Nat \ {0}, NEW j \in Nat \ {0},
           SectionRange(text, j).first <= i, i <= SectionRange(text, j).last
    PROVE  TitleChain(text, i) = TitleChain(text, j)
<1>1. PICK H : H = HeadingsIn(text, 1, Len(text))
  OBVIOUS
<1>2. PICK A : A = Above(text, j)
  OBVIOUS
<1>3. PICK at : at = Anchor(text, j)
  OBVIOUS
<1> DEFINE level == IF A = {} THEN 1 ELSE LevelAt(text, Max(A))
           N == {k \in HeadingsIn(text, at + 1, Len(text)) : LevelAt(text, k) <= level}
<1>4. SectionRange(text, j) = [first |-> IF A = {} THEN 1 ELSE Max(A),
                               last |-> IF N = {} THEN Len(text) ELSE Min(N) - 1]
  BY <1>2, <1>3 DEF SectionRange, Above
<1>5. H \subseteq 1..Len(text) /\ (\A x \in H : LevelAt(text, x) \in Nat)
      /\ (\A x, y \in H : LevelAt(text, x) = LevelAt(text, y))
      /\ (1 \in H \/ \A x \in H : LevelAt(text, x) = 1)
  BY <1>1, HeadingLevels DEF HeadingsIn, IsHeading, Says, LevelAt, Flat
<1>6. A = {h \in H : h <= j}
  BY <1>1, <1>2, AboveAre
<1>7. at \in Nat /\ \A h \in H : h <= at <=> h <= j
  BY <1>3, <1>5, AnchorIs
<1>8. HeadingsIn(text, at + 1, Len(text)) = {h \in H : h > at}
  BY <1>1, <1>7 DEF HeadingsIn
<1>9. A # {} => Max(A) \in A /\ \A h \in A : h <= Max(A)
  <2>1. A \subseteq 1..Len(text)
    BY <1>5, <1>6
  <2> QED
    BY <2>1, MinAndMax
<1>10. N = {h \in H : h > at}
  <2>1. ASSUME NEW h \in H, h > at PROVE LevelAt(text, h) <= level
    <3>1. CASE A # {}
      <4>1. Max(A) \in H
        BY <1>6, <1>9, <3>1
      <4>2. LevelAt(text, h) = LevelAt(text, Max(A)) /\ LevelAt(text, h) \in Nat
        BY <1>5, <4>1
      <4> QED
        BY <3>1, <4>2
    <3>2. CASE A = {}
      <4>1. 1 \notin H
        BY <1>6, <3>2
      <4>2. LevelAt(text, h) = 1
        BY <1>5, <4>1
      <4> QED
        BY <3>2, <4>2
    <3> QED
      BY <3>1, <3>2
  <2> HIDE DEF level
  <2> QED
    BY <1>8, <2>1
<1> HIDE DEF N, level
<1>11. N # {} => Min(N) \in N /\ \A h \in N : Min(N) <= h
  <2>1. N \subseteq 1..Len(text)
    BY <1>5, <1>10
  <2> QED
    BY <2>1, MinAndMax
<1>12. \A h \in N : i < h
  <2> SUFFICES ASSUME NEW h \in N PROVE i < h
    OBVIOUS
  <2>1. PICK a : a = Min(N)
    OBVIOUS
  <2>2. i <= a - 1
    BY <1>4, <2>1
  <2>3. \A x \in N : x \in Nat
    BY <1>5, <1>10
  <2>4. a \in N /\ a <= h
    BY <1>11, <2>1
  <2>5. a \in Nat /\ h \in Nat
    BY <2>3, <2>4
  <2> QED
    BY <2>2, <2>4, <2>5
<1>13. PICK B : B = Above(text, i)
  OBVIOUS
<1>14. B = {h \in H : h <= i}
  BY <1>1, <1>13, AboveAre
<1>15. B \subseteq A
  <2> SUFFICES ASSUME NEW h \in B PROVE h \in A
    OBVIOUS
  <2>1. h \in H /\ h <= i /\ h \in Nat
    BY <1>5, <1>14
  <2>2. ~(h > at)
    BY <1>10, <1>12, <2>1
  <2> QED
    BY <1>6, <1>7, <2>1, <2>2
<1>16. CASE A = {}
  BY <1>2, <1>13, <1>15, <1>16, FlatChain
<1>17. CASE A # {}
  <2>1. Max(A) <= i
    BY <1>4, <1>17
  <2>2. Max(A) \in B
    BY <1>6, <1>9, <1>14, <1>17, <2>1
  <2>3. Max(B) = Max(A)
    <3>1. B \subseteq 1..Len(text)
      BY <1>5, <1>14
    <3>2. Max(B) \in B /\ \A h \in B : h <= Max(B)
      BY <2>2, <3>1, MinAndMax
    <3>3. PICK a, b : a = Max(A) /\ b = Max(B)
      OBVIOUS
    <3>4. b <= a
      BY <1>9, <1>15, <1>17, <3>2, <3>3
    <3>5. a <= b
      BY <2>2, <3>2, <3>3
    <3>6. a \in Nat /\ b \in Nat
      <4>1. \A x \in B : x \in Nat
        BY <3>1
      <4>2. a \in B /\ b \in B
        BY <2>2, <3>2, <3>3
      <4> QED
        BY <4>1, <4>2
    <3> QED
      BY <3>3, <3>4, <3>5, <3>6
  <2> QED
    BY <1>2, <1>13, <1>17, <2>2, <2>3, FlatChain
<1> QED
  BY <1>16, <1>17

(* The lines of a report. *)
Records(lcov) ==
    [file : {lcov[i].file : i \in DOMAIN lcov}, line : Nat, hits : Nat]

LEMMA LcovLineType ==
    ASSUME NEW lcov, NEW i \in DOMAIN lcov, IsLcovLine(lcov[i]),
           NEW F, F = {lcov[k].file : k \in DOMAIN lcov},
           NEW s \in [file : {<<>>} \cup {<<f>> : f \in F}, records : Seq(Records(lcov))]
    PROVE  LcovLine(s, lcov[i])
              \in [file : {<<>>} \cup {<<f>> : f \in F}, records : Seq(Records(lcov))]
<1>1. PICK R : R = Records(lcov)
  OBVIOUS
<1>2. PICK l : l = lcov[i]
  OBVIOUS
<1>3. l.file \in F
  BY <1>2
<1>4. s.file \in {<<>>} \cup {<<f>> : f \in F} /\ s.records \in Seq(R)
      /\ s = [file |-> s.file, records |-> s.records]
  BY <1>1
<1>5. CASE l.kind = "SF"
  <2>1. LcovLine(s, l) = [file |-> <<l.file>>, records |-> s.records]
    BY <1>4, <1>5 DEF LcovLine
  <2> QED
    BY <1>1, <1>2, <1>3, <1>4, <2>1
<1>6. CASE l.kind = "end"
  <2>1. LcovLine(s, l) = [file |-> <<>>, records |-> s.records]
    BY <1>4, <1>6 DEF LcovLine
  <2> QED
    BY <1>1, <1>2, <1>4, <2>1
<1>7. CASE l.kind = "DA" /\ s.file # <<>>
  <2>1. PICK f \in F : s.file = <<f>>
    BY <1>4, <1>7
  <2>2. s.file[1] = f
    BY <2>1
  <2>3. PICK r : r = [file |-> f, line |-> l.line, hits |-> l.hits]
    OBVIOUS
  <2>4. LcovLine(s, l) = [file |-> s.file, records |-> Append(s.records, r)]
    BY <1>4, <1>7, <2>2, <2>3 DEF LcovLine
  <2>5. r \in R
    <3>1. l.line \in Nat /\ l.hits \in Nat
      BY <1>2, <1>7 DEF IsLcovLine
    <3> QED
      BY <1>1, <2>3, <3>1 DEF Records
  <2>6. Append(s.records, r) \in Seq(R)
    BY <1>4, <2>5
  <2> QED
    BY <1>1, <1>2, <1>4, <2>4, <2>6
<1>8. CASE l.kind # "SF" /\ l.kind # "end" /\ ~(l.kind = "DA" /\ s.file # <<>>)
  BY <1>2, <1>8 DEF LcovLine
<1> QED
  BY <1>5, <1>6, <1>7, <1>8

LEMMA LcovRecordsType ==
    ASSUME NEW lcov, lcov \in Seq(Range(lcov)), \A i \in DOMAIN lcov : IsLcovLine(lcov[i])
    PROVE  LcovRecords(lcov) \in Seq(Records(lcov))
<1>1. PICK F : F = {lcov[k].file : k \in DOMAIN lcov}
  OBVIOUS
<1> DEFINE m == Len(lcov)
           D == [file : {<<>>} \cup {<<f>> : f \in F}, records : Seq(Records(lcov))]
           start == [file |-> <<>>, records |-> <<>>]
           Eq(h) == h = [i \in 0..Len(lcov) |->
                            IF i = 0 THEN [file |-> <<>>, records |-> <<>>]
                            ELSE LcovLine(h[i - 1], lcov[i])]
           v == CHOOSE h : Eq(h)
           H == [i \in 1..m |-> [s \in D |-> LcovLine(s, lcov[i])]]
<1>2. m \in Nat /\ DOMAIN lcov = 1..m
  OBVIOUS
<1>3. start \in D
  OBVIOUS
<1>4. ASSUME NEW i \in 1..m, NEW s \in D PROVE LcovLine(s, lcov[i]) \in D
  BY <1>1, <1>2, LcovLineType
<1> HIDE DEF D, start
<1>5. H \in [1..m -> [D -> D]]
  BY <1>4
<1>6. PICK w : Follows(w, m, D, start, H)
  <2> HIDE DEF H, m
  <2> QED
    BY <1>2, <1>3, <1>5, BoundedIteration
<1>7. w \in [0..m -> D] /\ w[0] = start /\ \A i \in 1..m : w[i] = LcovLine(w[i - 1], lcov[i])
  <2>1. w \in [0..m -> D] /\ w[0] = start /\ \A i \in 1..m : w[i] = H[i][w[i - 1]]
    BY <1>6 DEF Follows
  <2>2. ASSUME NEW i \in 1..m PROVE w[i] = LcovLine(w[i - 1], lcov[i])
    <3>1. w[i - 1] \in D
      BY <1>2, <2>1
    <3> QED
      BY <2>1, <3>1
  <2> QED
    BY <2>1, <2>2
<1>8. Eq(w)
  <2>1. ASSUME NEW i \in 0..m
        PROVE  w[i] = IF i = 0 THEN start ELSE LcovLine(w[i - 1], lcov[i])
    <3>1. i # 0 => i \in 1..m
      BY <1>2
    <3> QED
      BY <1>7, <3>1
  <2>2. w = [i \in 0..m |-> IF i = 0 THEN start ELSE LcovLine(w[i - 1], lcov[i])]
    BY <1>7, <2>1
  <2> QED
    BY <2>2 DEF start
<1>9. Eq(v)
  BY <1>8, Zenon
<1>10. LcovRecords(lcov) = v[m].records
  BY DEF LcovRecords
<1> HIDE DEF v
<1>11. \A i \in 0..m : v[i] = IF i = 0 THEN start ELSE LcovLine(v[i - 1], lcov[i])
  <2>1. v = [i \in 0..m |-> IF i = 0 THEN start ELSE LcovLine(v[i - 1], lcov[i])]
    BY <1>9 DEF start
  <2> QED
    BY <2>1
<1> DEFINE Good == {i \in 0..m : v[i] \in D}
<1>12. \A i \in 0..m : i \in Good
  <2>1. 0 \in Good
    BY <1>2, <1>3, <1>11
  <2>2. ASSUME NEW i \in 1..m, i - 1 \in Good PROVE i \in Good
    <3>1. i \in 0..m /\ i # 0 /\ v[i - 1] \in D
      BY <1>2, <2>2
    <3> QED
      BY <1>4, <1>11, <3>1
  <2> HIDE DEF Good, m
  <2> QED
    BY <1>2, <2>1, <2>2, BoundedInduction
<1>13. v[m] \in D
  BY <1>2, <1>12
<1> QED
  BY <1>10, <1>13 DEF D

(* What a summary has looked up and found, for entries and sources. *)
EntriesOf(entries) == UNION {Range(entries[f]) : f \in DOMAIN entries}
Loaded(entries, sources) == {e \in EntriesOf(entries) : e.file \in DOMAIN sources}

LookedUp(entries, sources) == {LookUp(sources, e) : e \in Loaded(entries, sources)}

Rows(records, entries, sources) ==
    {r \in [record : Range(records), entry : Loaded(entries, sources),
            titles : {TitleChain(sources[e.file], e.line) : e \in Loaded(entries, sources)}] :
        Flat(sources[r.entry.file]) =>
            r.titles = TitleChain(sources[r.entry.file], r.entry.line)}

Summaries(records, entries, sources) ==
    [cache : Seq(LookedUp(entries, sources)), rows : Seq(Rows(records, entries, sources)),
     unmapped : Seq(Range(records))]

AreTexts(sources) ==
    \A f \in DOMAIN sources : /\ Len(sources[f]) \in Nat
                              /\ DOMAIN sources[f] = 1..Len(sources[f])

LEMMA AttributeKeeps ==
    ASSUME NEW records, NEW entries, NEW sources, AreTexts(sources),
           \A e \in EntriesOf(entries) : e.line \in Nat \ {0},
           NEW r \in Range(records), NEW s \in Summaries(records, entries, sources)
    PROVE  Attribute(s, r, entries, sources) \in Summaries(records, entries, sources)
<1>1. PICK C : C = LookedUp(entries, sources)
  OBVIOUS
<1>2. PICK R : R = Rows(records, entries, sources)
  OBVIOUS
<1>3. PICK U : U = Range(records)
  OBVIOUS
<1>4. s.cache \in Seq(C) /\ s.rows \in Seq(R) /\ s.unmapped \in Seq(U)
      /\ s = [cache |-> s.cache, rows |-> s.rows, unmapped |-> s.unmapped]
  BY <1>1, <1>2, <1>3 DEF Summaries
<1>5. Summaries(records, entries, sources) = [cache : Seq(C), rows : Seq(R), unmapped : Seq(U)]
  BY <1>1, <1>2, <1>3 DEF Summaries
<1>6. CASE ~HasContext(entries, sources, s.cache, r)
  <2>1. Attribute(s, r, entries, sources)
            = [cache |-> s.cache, rows |-> s.rows, unmapped |-> Append(s.unmapped, r)]
    BY <1>4, <1>6 DEF Attribute
  <2>2. Append(s.unmapped, r) \in Seq(U)
    BY <1>3, <1>4
  <2> QED
    BY <1>4, <1>5, <2>1, <2>2
<1>7. CASE HasContext(entries, sources, s.cache, r)
  <2>1. PICK e : e = entries[r.file][r.line]
    OBVIOUS
  <2>2. e \in EntriesOf(entries)
    BY <1>7, <2>1 DEF HasContext, HasEntry, EntriesOf, Range
  <2>3. PICK found : found = Cached(s.cache, e)
    OBVIOUS
  <2>4. PICK section : section = IF found = {} THEN LookUp(sources, e) ELSE s.cache[Min(found)]
    OBVIOUS
  <2>5. PICK row : row = [record |-> r, entry |-> e, titles |-> section.titles]
    OBVIOUS
  <2>6. PICK cache : cache = IF found = {} THEN Append(s.cache, section) ELSE s.cache
    OBVIOUS
  <2>7. Attribute(s, r, entries, sources)
            = [cache |-> cache, rows |-> Append(s.rows, row), unmapped |-> s.unmapped]
    BY <1>4, <1>7, <2>1, <2>3, <2>4, <2>5, <2>6 DEF Attribute
  <2>8. found = {} => e \in Loaded(entries, sources) /\ LookUp(sources, e) \in C
    BY <1>1, <1>7, <2>1, <2>2, <2>3 DEF LookedUp, Loaded, HasContext
  <2>9. cache \in Seq(C)
    BY <1>4, <2>4, <2>6, <2>8
  <2>10. PICK titles : titles = TitleChain(sources[e.file], e.line)
    OBVIOUS
  <2>11. /\ section.titles \in {TitleChain(sources[x.file], x.line) : x \in Loaded(entries, sources)}
         /\ e \in Loaded(entries, sources)
         /\ Flat(sources[e.file]) => section.titles = titles
    <3>1. CASE found = {}
      BY <2>4, <2>8, <2>10, <3>1 DEF LookUp
    <3>2. CASE found # {}
      <4>1. found \subseteq 1..Len(s.cache) /\ Len(s.cache) \in Nat
        BY <1>4, <2>3 DEF Cached
      <4>2. PICK k : k = Min(found)
        OBVIOUS
      <4>3. k \in found
        BY <3>2, <4>1, <4>2, MinAndMax
      <4>4. s.cache[k].file = e.file /\ s.cache[k].first <= e.line /\ e.line <= s.cache[k].last
        BY <2>3, <4>3 DEF Cached
      <4>5. section = s.cache[k]
        BY <2>4, <3>2, <4>2
      <4>6. s.cache[k] \in C
        BY <1>4, <4>1, <4>3
      <4>7. PICK x \in Loaded(entries, sources) : section = LookUp(sources, x)
        BY <1>1, <4>5, <4>6 DEF LookedUp
      <4>8. PICK text : text = sources[x.file]
        OBVIOUS
      <4>9. /\ section.file = x.file
            /\ section.first = SectionRange(text, x.line).first
            /\ section.last = SectionRange(text, x.line).last
            /\ section.titles = TitleChain(text, x.line)
        BY <4>7, <4>8 DEF LookUp
      <4>10. x.file = e.file /\ x.line \in Nat \ {0} /\ e.line \in Nat \ {0}
        BY <2>2, <4>4, <4>5, <4>7, <4>9 DEF Loaded
      <4>11. Len(text) \in Nat /\ DOMAIN text = 1..Len(text)
        BY <4>7, <4>8 DEF Loaded, AreTexts
      <4>12. Flat(text) => TitleChain(text, e.line) = TitleChain(text, x.line)
        BY <4>4, <4>5, <4>9, <4>10, <4>11, SectionTitles
      <4>13. e \in Loaded(entries, sources)
        BY <2>2, <4>7, <4>10 DEF Loaded
      <4> QED
        BY <2>10, <4>7, <4>8, <4>9, <4>10, <4>12, <4>13
    <3> QED
      BY <3>1, <3>2
  <2>12. row \in R
    BY <1>2, <2>5, <2>10, <2>11 DEF Rows
  <2>13. Append(s.rows, row) \in Seq(R)
    BY <1>4, <2>12
  <2> QED
    BY <1>4, <1>5, <2>7, <2>9, <2>13
<1> QED
  BY <1>6, <1>7

LEMMA AttributedType ==
    ASSUME NEW records, records \in Seq(Range(records)), NEW entries, NEW sources,
           AreTexts(sources),
           \A e \in EntriesOf(entries) : e.line \in Nat \ {0}
    PROVE  Attributed(records, entries, sources) \in Summaries(records, entries, sources)
<1>1. PICK D : D = Summaries(records, entries, sources)
  OBVIOUS
<1> DEFINE m == Len(records)
           start == [cache |-> <<>>, rows |-> <<>>, unmapped |-> <<>>]
           Eq(h) == h = [i \in 0..Len(records) |->
                            IF i = 0 THEN [cache |-> <<>>, rows |-> <<>>, unmapped |-> <<>>]
                            ELSE Attribute(h[i - 1], records[i], entries, sources)]
           v == CHOOSE h : Eq(h)
           H == [i \in 1..m |-> [s \in D |-> Attribute(s, records[i], entries, sources)]]
<1>2. m \in Nat /\ DOMAIN records = 1..m
  OBVIOUS
<1>3. start \in D
  BY <1>1 DEF Summaries
<1>4. ASSUME NEW i \in 1..m, NEW s \in D
      PROVE  Attribute(s, records[i], entries, sources) \in D
  <2>1. records[i] \in Range(records)
    BY <1>2 DEF Range
  <2> QED
    BY <1>1, <2>1, AttributeKeeps
<1> HIDE DEF start
<1>5. H \in [1..m -> [D -> D]]
  BY <1>4
<1>6. PICK w : Follows(w, m, D, start, H)
  <2> HIDE DEF H, m
  <2> QED
    BY <1>2, <1>3, <1>5, BoundedIteration
<1>7. w \in [0..m -> D] /\ w[0] = start
      /\ \A i \in 1..m : w[i] = Attribute(w[i - 1], records[i], entries, sources)
  <2>1. w \in [0..m -> D] /\ w[0] = start /\ \A i \in 1..m : w[i] = H[i][w[i - 1]]
    BY <1>6 DEF Follows
  <2>2. ASSUME NEW i \in 1..m PROVE w[i] = Attribute(w[i - 1], records[i], entries, sources)
    <3>1. w[i - 1] \in D
      BY <1>2, <2>1
    <3> QED
      BY <2>1, <3>1
  <2> QED
    BY <2>1, <2>2
<1>8. Eq(w)
  <2>1. ASSUME NEW i \in 0..m
        PROVE  w[i] = IF i = 0 THEN start
                      ELSE Attribute(w[i - 1], records[i], entries, sources)
    <3>1. i # 0 => i \in 1..m
      BY <1>2
    <3> QED
      BY <1>7, <3>1
  <2>2. w = [i \in 0..m |-> IF i = 0 THEN start
                            ELSE Attribute(w[i - 1], records[i], entries, sources)]
    BY <1>7, <2>1
  <2> QED
    BY <2>2 DEF start
<1>9. Eq(v)
  BY <1>8, Zenon
<1>10. Attributed(records, entries, sources) = v[m]
  BY DEF Attributed
<1> HIDE DEF v
<1>11. \A i \in 0..m : v[i] = IF i = 0 THEN start
                              ELSE Attribute(v[i - 1], records[i], entries, sources)
  <2>1. v = [i \in 0..m |-> IF i = 0 THEN start
                            ELSE Attribute(v[i - 1], records[i], entries, sources)]
    BY <1>9 DEF start
  <2> QED
    BY <2>1
<1> DEFINE Good == {i \in 0..m : v[i] \in D}
<1>12. \A i \in 0..m : i \in Good
  <2>1. 0 \in Good
    BY <1>2, <1>3, <1>11
  <2>2. ASSUME NEW i \in 1..m, i - 1 \in Good PROVE i \in Good
    <3>1. i \in 0..m /\ i # 0 /\ v[i - 1] \in D
      BY <1>2, <2>2
    <3> QED
      BY <1>4, <1>11, <3>1
  <2> HIDE DEF Good, m
  <2> QED
    BY <1>2, <2>1, <2>2, BoundedInduction
<1>13. v[m] \in D
  BY <1>2, <1>12
<1> QED
  BY <1>1, <1>10, <1>13

(* A report of what the last pass has left behind. *)
LEMMA CoverAttributes ==
    ASSUME HistoryInv, MapsInv, Cover
    PROVE  LinesUnderTheirSection'
<1>1. texts' = texts /\ pc = "done" /\ IsProject(texts) /\ texts \in Projects
  BY DEF Cover, HistoryInv, PassInv, TypeI
<1>2. PICK lcov \in Reports(texts), top \in 1..MaxTop, loads \in SUBSET DOMAIN texts :
          report' = ReportOf(lcov, top, loads)
  BY DEF Cover
<1>3. lcov \in Seq(Range(lcov)) /\ \A i \in DOMAIN lcov : IsLcovLine(lcov[i])
  BY <1>1, <1>2, ProjectsOK
<1>4. PICK records : records = LcovRecords(lcov)
  OBVIOUS
<1>5. records \in Seq(Range(records))
  <2>1. PICK S : S = Records(lcov)
    OBVIOUS
  <2>2. records \in Seq(S)
    BY <1>3, <1>4, <2>1, LcovRecordsType
  <2> QED
    BY <2>2 DEF Range
<1>6. PICK entries : entries = db.maps
  OBVIOUS
<1>7. \A e \in EntriesOf(entries) : e.line \in Nat \ {0}
  BY <1>1, <1>6 DEF MapsInv, InSources, EntriesOf, Range
<1>8. PICK sources : sources = [f \in loads |-> texts[f]]
  OBVIOUS
<1>13. AreTexts(sources)
  BY <1>1, <1>8, Sources DEF AreTexts
<1>9. PICK s : s = Attributed(records, entries, sources)
  OBVIOUS
<1>10. s \in Summaries(records, entries, sources)
  BY <1>5, <1>7, <1>9, <1>13, AttributedType
<1>11. report'.rows = s.rows
  BY <1>2, <1>4, <1>6, <1>8, <1>9 DEF ReportOf, CoverageSummary
<1>12. ASSUME NEW r \in Range(s.rows), Flat(sources[r.entry.file])
       PROVE  r.titles = TitleChain(sources[r.entry.file], r.entry.line)
  <2>1. PICK R : R = Rows(records, entries, sources)
    OBVIOUS
  <2>2. s.rows \in Seq(R)
    BY <1>10, <2>1 DEF Summaries
  <2>3. r \in R
    BY <1>12, <2>2 DEF Range
  <2> QED
    BY <1>12, <2>1, <2>3 DEF Rows
<1> QED
  <2> SUFFICES ASSUME NEW r \in Range(s.rows), Flat(texts[r.entry.file])
               PROVE  r.titles = TitleChain(texts[r.entry.file], r.entry.line)
    BY <1>1, <1>11 DEF LinesUnderTheirSection
  <2>1. PICK R : R = Rows(records, entries, sources)
    OBVIOUS
  <2>2. s.rows \in Seq(R)
    BY <1>10, <2>1 DEF Summaries
  <2>3. r \in R
    BY <2>2 DEF Range
  <2>4. r.entry.file \in loads /\ sources[r.entry.file] = texts[r.entry.file]
    BY <1>8, <2>1, <2>3 DEF Rows, Loaded
  <2> QED
    BY <1>12, <2>4

(* In every report a line stands under the titles of its own section, with *)
(* any number of records in any order.                                     *)
THEOREM EachReportKeepsSections == IncSpec => []LinesUnderTheirSection
<1> DEFINE Empty == report.rows = <<>>
<1>1. Empty => LinesUnderTheirSection
  BY DEF LinesUnderTheirSection, Range
<1>2. IncInit => LinesUnderTheirSection
  BY <1>1 DEF IncInit, NoReport
<1>3. HistoryInv /\ MapsInv /\ LinesUnderTheirSection /\ [IncNext]_incVars
         => LinesUnderTheirSection'
  <2> SUFFICES ASSUME HistoryInv, MapsInv, LinesUnderTheirSection, [IncNext]_incVars
               PROVE  LinesUnderTheirSection'
    OBVIOUS
  <2>1. CASE Cover
    BY <2>1, CoverAttributes
  <2>2. CASE Revise
    <3>1. report'.rows = <<>>
      BY <2>2 DEF Revise, NoReport
    <3> QED
      BY <3>1 DEF LinesUnderTheirSection, Range
  <2>3. CASE UNCHANGED <<texts, report>>
    BY <2>3 DEF LinesUnderTheirSection
  <2>4. Cover \/ Revise \/ UNCHANGED <<texts, report>>
    BY DEF IncNext, incVars, Reading, StartPass, WriteOutput, Refuse, FinishPass,
           Read, StartWriting, ExpandFile, Finish
  <2> QED
    BY <2>1, <2>2, <2>3, <2>4
<1> QED
  BY <1>2, <1>3, HistoryInvHolds, MapsHold, PTL DEF IncSpec
-----------------------------------------------------------------------------
(* check_chunk_body_outside_fence and the block parsers *)

(* The recursion over a text unfolds. *)
LEMMA FenceSteps ==
    ASSUME NEW text, Len(text) \in Nat, NEW reader
    PROVE  LET open == OpenFence(text, reader)
           IN  /\ DOMAIN open = 0..Len(text) /\ open[0] = 0
               /\ \A i \in 1..Len(text) : open[i] = FenceAfter(text, reader, open[i - 1], i)
<1> DEFINE m == Len(text)
           Eq(h) == h = [i \in 0..Len(text) |->
                            IF i = 0 THEN 0 ELSE FenceAfter(text, reader, h[i - 1], i)]
           v == CHOOSE h : Eq(h)
           H == [i \in 1..m |-> [x \in Nat |-> FenceAfter(text, reader, x, i)]]
<1>1. ASSUME NEW i \in 1..m, NEW x \in Nat PROVE FenceAfter(text, reader, x, i) \in Nat
  <2>1. i \in Nat
    OBVIOUS
  <2> QED
    BY <2>1 DEF FenceAfter
<1>2. H \in [1..m -> [Nat -> Nat]]
  BY <1>1
<1>3. PICK w : Follows(w, m, Nat, 0, H)
  <2> HIDE DEF H
  <2> QED
    BY <1>2, BoundedIteration
<1>4. w \in [0..m -> Nat] /\ w[0] = 0
      /\ \A i \in 1..m : w[i] = FenceAfter(text, reader, w[i - 1], i)
  <2>1. w \in [0..m -> Nat] /\ w[0] = 0 /\ \A i \in 1..m : w[i] = H[i][w[i - 1]]
    BY <1>3 DEF Follows
  <2>2. ASSUME NEW i \in 1..m PROVE w[i] = FenceAfter(text, reader, w[i - 1], i)
    <3>1. i - 1 \in 0..m
      OBVIOUS
    <3>2. w[i - 1] \in Nat
      BY <2>1, <3>1
    <3> QED
      BY <2>1, <3>2
  <2> QED
    BY <2>1, <2>2
<1>5. Eq(w)
  <2>1. ASSUME NEW i \in 0..m
        PROVE  w[i] = IF i = 0 THEN 0 ELSE FenceAfter(text, reader, w[i - 1], i)
    <3>1. i # 0 => i \in 1..m
      OBVIOUS
    <3> QED
      BY <1>4, <3>1
  <2> QED
    BY <1>4, <2>1
<1>6. Eq(v)
  BY <1>5, Zenon
<1>7. OpenFence(text, reader) = v
  BY DEF OpenFence
<1> HIDE DEF v
<1>8. v = [i \in 0..m |-> IF i = 0 THEN 0 ELSE FenceAfter(text, reader, v[i - 1], i)]
  BY <1>6
<1>9. ASSUME NEW i \in 1..m PROVE v[i] = FenceAfter(text, reader, v[i - 1], i)
  <2>1. i \in 0..m /\ i # 0
    OBVIOUS
  <2> QED
    BY <1>8, <2>1
<1>10. 0 \in 0..m
  OBVIOUS
<1>11. v[0] = 0 /\ DOMAIN v = 0..m
  BY <1>8, <1>10
<1> QED
  BY <1>7, <1>9, <1>11

LEMMA LintSteps ==
    ASSUME NEW text, Len(text) \in Nat, NEW closes
    PROVE  LET open == OpenDefinition(text, closes)
           IN  /\ DOMAIN open = 0..Len(text) /\ open[0] = 0
               /\ \A i \in 1..Len(text) : open[i] = DefinitionAfter(text, closes, open[i - 1], i)
<1> DEFINE m == Len(text)
           Eq(h) == h = [i \in 0..Len(text) |->
                            IF i = 0 THEN 0 ELSE DefinitionAfter(text, closes, h[i - 1], i)]
           v == CHOOSE h : Eq(h)
           H == [i \in 1..m |-> [x \in Nat |-> DefinitionAfter(text, closes, x, i)]]
<1>1. ASSUME NEW i \in 1..m, NEW x \in Nat PROVE DefinitionAfter(text, closes, x, i) \in Nat
  <2>1. i \in Nat
    OBVIOUS
  <2> QED
    BY <2>1 DEF DefinitionAfter
<1>2. H \in [1..m -> [Nat -> Nat]]
  BY <1>1
<1>3. PICK w : Follows(w, m, Nat, 0, H)
  <2> HIDE DEF H
  <2> QED
    BY <1>2, BoundedIteration
<1>4. w \in [0..m -> Nat] /\ w[0] = 0
      /\ \A i \in 1..m : w[i] = DefinitionAfter(text, closes, w[i - 1], i)
  <2>1. w \in [0..m -> Nat] /\ w[0] = 0 /\ \A i \in 1..m : w[i] = H[i][w[i - 1]]
    BY <1>3 DEF Follows
  <2>2. ASSUME NEW i \in 1..m PROVE w[i] = DefinitionAfter(text, closes, w[i - 1], i)
    <3>1. i - 1 \in 0..m
      OBVIOUS
    <3>2. w[i - 1] \in Nat
      BY <2>1, <3>1
    <3> QED
      BY <2>1, <3>2
  <2> QED
    BY <2>1, <2>2
<1>5. Eq(w)
  <2>1. ASSUME NEW i \in 0..m
        PROVE  w[i] = IF i = 0 THEN 0 ELSE DefinitionAfter(text, closes, w[i - 1], i)
    <3>1. i # 0 => i \in 1..m
      OBVIOUS
    <3> QED
      BY <1>4, <3>1
  <2> QED
    BY <1>4, <2>1
<1>6. Eq(v)
  BY <1>5, Zenon
<1>7. OpenDefinition(text, closes) = v
  BY DEF OpenDefinition
<1> HIDE DEF v
<1>8. v = [i \in 0..m |-> IF i = 0 THEN 0 ELSE DefinitionAfter(text, closes, v[i - 1], i)]
  BY <1>6
<1>9. ASSUME NEW i \in 1..m PROVE v[i] = DefinitionAfter(text, closes, v[i - 1], i)
  <2>1. i \in 0..m /\ i # 0
    OBVIOUS
  <2> QED
    BY <1>8, <2>1
<1>10. 0 \in 0..m
  OBVIOUS
<1>11. v[0] = 0 /\ DOMAIN v = 0..m
  BY <1>8, <1>10
<1> QED
  BY <1>7, <1>9, <1>11

(* A fence that is open has been open since its line. *)
IsOpenFence(text, reader, open, i) ==
    open[i] # 0 =>
        /\ open[i] \in 1..i /\ Says(text[open[i]], reader.fences) /\ open[open[i] - 1] = 0
        /\ \A k \in open[i]..i : open[k] = open[i]

LEMMA FenceIsOpen ==
    ASSUME NEW text, Len(text) \in Nat, NEW reader
    PROVE  \A i \in 0..Len(text) : IsOpenFence(text, reader, OpenFence(text, reader), i)
<1>1. PICK open : open = OpenFence(text, reader)
  OBVIOUS
<1>2. open[0] = 0 /\ \A i \in 1..Len(text) : open[i] = FenceAfter(text, reader, open[i - 1], i)
  BY <1>1, FenceSteps
<1> DEFINE Good == {i \in 0..Len(text) : IsOpenFence(text, reader, open, i)}
<1>3. 0 \in Good
  BY <1>2 DEF IsOpenFence
<1>4. ASSUME NEW i \in 1..Len(text), i - 1 \in Good PROVE i \in Good
  <2>1. i \in 0..Len(text) /\ i \in Nat /\ i # 0 /\ IsOpenFence(text, reader, open, i - 1)
    BY <1>4
  <2>2. open[i] = FenceAfter(text, reader, open[i - 1], i)
    BY <1>2
  <2>3. CASE open[i] = 0
    BY <2>1, <2>3 DEF IsOpenFence
  <2>4. CASE open[i] = i /\ Says(text[i], reader.fences) /\ open[i - 1] = 0
    <3>1. \A k \in i..i : k = i
      BY <2>1
    <3>2. IsOpenFence(text, reader, open, i)
      BY <2>1, <2>4, <3>1 DEF IsOpenFence
    <3> QED
      BY <2>1, <3>2
  <2>5. CASE open[i] = open[i - 1] /\ open[i] # 0
    <3>1. PICK o : o = open[i]
      OBVIOUS
    <3>2. o \in 1..(i - 1) /\ Says(text[o], reader.fences) /\ open[o - 1] = 0
          /\ \A k \in o..(i - 1) : open[k] = o
      BY <2>1, <2>5, <3>1 DEF IsOpenFence
    <3>3. ASSUME NEW k \in o..i PROVE open[k] = o
      <4>1. k = i \/ k \in o..(i - 1)
        BY <2>1, <3>2
      <4> QED
        BY <3>1, <3>2, <4>1
    <3>4. o \in 1..i
      BY <2>1, <3>2
    <3>5. IsOpenFence(text, reader, open, i)
      BY <3>1, <3>2, <3>3, <3>4 DEF IsOpenFence
    <3> QED
      BY <2>1, <3>5
  <2>6. open[i] = 0 \/ (open[i] = i /\ Says(text[i], reader.fences) /\ open[i - 1] = 0)
        \/ open[i] = open[i - 1]
    BY <2>2 DEF FenceAfter
  <2> HIDE DEF Good
  <2> QED
    BY <2>3, <2>4, <2>5, <2>6
<1>5. \A i \in 0..Len(text) : i \in Good
  <2> HIDE DEF Good
  <2> QED
    BY <1>3, <1>4, BoundedInduction
<1> QED
  BY <1>1, <1>5

(* Where the fences above a line are alike, all readers see the same code  *)
(* blocks there.                                                           *)
LEMMA FencesAlike ==
    ASSUME NEW text, Len(text) \in Nat, NEW a, NEW b, NEW m \in 0..Len(text),
           \A i \in 1..m : Says(text[i], a.fences) <=> Says(text[i], b.fences),
           \A i, j \in 1..m : Says(text[i], a.fences) /\ Says(text[j], a.fences) =>
                                text[i] = text[j]
    PROVE  \A i \in 0..m : OpenFence(text, a)[i] = OpenFence(text, b)[i]
<1>1. PICK v : v = OpenFence(text, a)
  OBVIOUS
<1>2. PICK w : w = OpenFence(text, b)
  OBVIOUS
<1>3. v[0] = 0 /\ \A i \in 1..Len(text) : v[i] = FenceAfter(text, a, v[i - 1], i)
  BY <1>1, FenceSteps
<1>4. w[0] = 0 /\ \A i \in 1..Len(text) : w[i] = FenceAfter(text, b, w[i - 1], i)
  BY <1>2, FenceSteps
<1> DEFINE Same == {i \in 0..m : v[i] = w[i]}
<1>5. 0 \in Same
  BY <1>3, <1>4
<1>6. ASSUME NEW i \in 1..m, i - 1 \in Same PROVE i \in Same
  <2>1. i \in 0..m /\ i \in 1..Len(text) /\ i - 1 \in 0..m /\ v[i - 1] = w[i - 1]
    BY <1>6
  <2>2. PICK o : o = v[i - 1]
    OBVIOUS
  <2>3. o # 0 => o \in 1..m /\ Says(text[o], a.fences)
    <3>1. IsOpenFence(text, a, v, i - 1)
      <4>1. i - 1 \in 0..Len(text)
        BY <2>1
      <4> QED
        BY <1>1, <4>1, FenceIsOpen
    <3>2. i - 1 <= m /\ i - 1 \in Nat
      BY <2>1
    <3>3. o # 0 => o \in 1..(i - 1) /\ Says(text[o], a.fences)
      BY <2>2, <3>1 DEF IsOpenFence
    <3> QED
      BY <3>2, <3>3
  <2>4. o # 0 /\ Says(text[i], a.fences) => text[o] = text[i]
    BY <1>6, <2>3
  <2>5. FenceAfter(text, a, o, i) = FenceAfter(text, b, o, i)
    BY <1>6, <2>4 DEF FenceAfter
  <2> HIDE DEF Same
  <2>6. v[i] = w[i]
    BY <1>3, <1>4, <2>1, <2>2, <2>5
  <2> QED
    BY <2>1, <2>6 DEF Same
<1>7. \A i \in 0..m : i \in Same
  <2>1. m \in Nat
    OBVIOUS
  <2> HIDE DEF Same
  <2> QED
    BY <1>5, <1>6, <2>1, BoundedInduction
<1> QED
  BY <1>1, <1>2, <1>7

(* What is in one of the sequences is in all of them joined. *)
LEMMA FlattenHolds ==
    ASSUME NEW T, NEW s \in Seq(Seq(T)), NEW i \in 1..Len(s), NEW x \in Range(s[i])
    PROVE  x \in Range(FlattenSeq(s))
<1>1. PICK g : FlattensBy(g, s, T)
  BY FlattenSteps
<1>2. Len(s) \in Nat /\ s[i] \in Seq(T)
  OBVIOUS
<1> DEFINE Good == {k \in 0..Len(s) : i <= k => x \in Range(g[k])}
<1>3. \A k \in 1..Len(s) : g[k - 1] \in Seq(T) /\ s[k] \in Seq(T) /\ g[k] = g[k - 1] \o s[k]
  <2>1. \A k \in 1..Len(s) : k - 1 \in Nat /\ s[k] \in Seq(T)
    OBVIOUS
  <2> QED
    BY <1>1, <2>1 DEF FlattensBy
<1>4. ASSUME NEW a \in Seq(T), NEW b \in Seq(T), x \in Range(a) \/ x \in Range(b)
      PROVE  x \in Range(a \o b)
  <2>1. CASE x \in Range(a)
    <3>1. PICK k \in 1..Len(a) : x = a[k]
      BY <2>1 DEF Range
    <3>2. (a \o b)[k] = a[k] /\ k \in DOMAIN (a \o b)
      BY <3>1
    <3> QED
      BY <3>1, <3>2 DEF Range
  <2>2. CASE x \in Range(b)
    <3>1. PICK k \in 1..Len(b) : x = b[k]
      BY <2>2 DEF Range
    <3>2. PICK l : l = Len(a) + k
      OBVIOUS
    <3>3. l \in DOMAIN (a \o b) /\ (a \o b)[l] = b[k]
      BY <3>1, <3>2
    <3> QED
      BY <3>1, <3>3 DEF Range
  <2> QED
    BY <1>4, <2>1, <2>2
<1>5. \A k \in 0..Len(s) : k \in Good
  <2>1. 0 \in Good
    OBVIOUS
  <2>2. ASSUME NEW k \in 1..Len(s), k - 1 \in Good PROVE k \in Good
    <3>1. SUFFICES ASSUME i <= k PROVE x \in Range(g[k])
      OBVIOUS
    <3>2. i = k \/ i <= k - 1
      BY <3>1
    <3>3. x \in Range(g[k - 1]) \/ x \in Range(s[k])
      BY <2>2, <3>2
    <3> HIDE DEF Good
    <3> QED
      BY <1>3, <1>4, <3>3
  <2> HIDE DEF Good
  <2> QED
    BY <1>2, <2>1, <2>2, BoundedInduction
<1>6. x \in Range(g[Len(s)])
  <2>1. Len(s) \in 0..Len(s) /\ i <= Len(s)
    BY <1>2
  <2> QED
    BY <1>5, <2>1
<1> QED
  BY <1>1, <1>6 DEF FlattensBy

(* A line between fences is in a code block. *)
LEMMA CodeBlockHolds ==
    ASSUME NEW text, Len(text) \in Nat, DOMAIN text = 1..Len(text), NEW reader,
           NEW i \in 1..Len(text), OpenFence(text, reader)[i - 1] # 0
    PROVE  \E b \in Range(ScannedBlocks(text, reader)) : b.type = "code" /\ i \in b.first..b.last
<1>1. PICK open : open = OpenFence(text, reader)
  OBVIOUS
<1>2. PICK s : s = open[i - 1]
  OBVIOUS
<1>3. i - 1 \in 0..Len(text) /\ i \in Nat
  OBVIOUS
<1>4. s \in 1..(i - 1) /\ open[s - 1] = 0 /\ \A k \in s..(i - 1) : open[k] = s
  <2>1. IsOpenFence(text, reader, open, i - 1)
    BY <1>1, <1>3, FenceIsOpen
  <2> QED
    BY <1>1, <1>2, <2>1 DEF IsOpenFence
<1>5. s \in Nat /\ s # 0 /\ s <= i - 1 /\ s \in 1..Len(text) /\ open[s] = s
  <2>1. s \in s..(i - 1)
    BY <1>4
  <2> QED
    BY <1>4, <2>1
<1>6. ClassOf(text, reader, open, s) = "code"
  BY <1>5 DEF ClassOf
<1>7. s \in BlockStarts(text, reader, open)
  BY <1>4, <1>5, <1>6 DEF BlockStarts
<1> DEFINE last == {j \in s..Len(text) : open[j] = 0 \/ j = Len(text)}
<1>8. BlockEnd(text, reader, open, s) = Min(last)
  BY <1>6 DEF BlockEnd
<1>9. PICK e : e = Min(last)
  OBVIOUS
<1>10. e \in last
  <2>1. last \subseteq 1..Len(text) /\ Len(text) \in last
    BY <1>5
  <2> HIDE DEF last
  <2> QED
    BY <1>9, <2>1, MinAndMax
<1>11. e \in Nat /\ i <= e
  <2>1. e \in s..Len(text) /\ (open[e] = 0 \/ e = Len(text))
    BY <1>10
  <2> HIDE DEF last
  <2>2. e \in Nat /\ s <= e
    <3>1. PICK m \in Nat : m = Len(text)
      OBVIOUS
    <3>2. e \in s..m /\ s \in Nat
      BY <1>5, <2>1, <3>1
    <3> QED
      BY <3>2
  <2>3. ASSUME e <= i - 1 PROVE FALSE
    <3>1. e \in s..(i - 1)
      <4>1. s \in Nat /\ i \in Nat /\ e \in Nat /\ s <= e /\ e <= i - 1
        BY <1>3, <1>5, <2>2, <2>3
      <4> QED
        BY <4>1
    <3>2. open[e] = s
      BY <1>4, <3>1
    <3>3. e = Len(text)
      BY <1>5, <2>1, <3>2
    <3> QED
      BY <2>3, <3>3
  <2> QED
    BY <1>3, <2>2, <2>3
<1> HIDE DEF last
<1> DEFINE block(j) == [type |-> ClassOf(text, reader, open, j), first |-> j,
                        last |-> BlockEnd(text, reader, open, j)]
           parts == [j \in DOMAIN text |->
                        IF j \in BlockStarts(text, reader, open) THEN <<block(j)>> ELSE <<>>]
           T == {block(j) : j \in DOMAIN text}
<1>12. block(s) = [type |-> "code", first |-> s, last |-> e]
  BY <1>6, <1>8, <1>9
<1> HIDE DEF block
<1>13. parts \in Seq(Seq(T)) /\ Len(parts) = Len(text) /\ parts[s] = <<block(s)>>
  <2>1. \A j \in 1..Len(text) :
            (IF j \in BlockStarts(text, reader, open) THEN <<block(j)>> ELSE <<>>) \in Seq(T)
    <3> TAKE j \in 1..Len(text)
    <3>1. block(j) \in T
      OBVIOUS
    <3> HIDE DEF T
    <3>2. <<block(j)>> \in Seq(T) /\ <<>> \in Seq(T)
      BY <3>1
    <3>3. CASE j \in BlockStarts(text, reader, open)
      BY <3>2, <3>3
    <3>4. CASE j \notin BlockStarts(text, reader, open)
      BY <3>2, <3>4
    <3> QED
      BY <3>3, <3>4
  <2>2. parts = [j \in 1..Len(text) |->
                    IF j \in BlockStarts(text, reader, open) THEN <<block(j)>> ELSE <<>>]
    OBVIOUS
  <2>3. parts[s] = <<block(s)>>
    BY <1>5, <1>7
  <2> HIDE DEF parts, T
  <2> QED
    BY <2>1, <2>2, <2>3
<1>14. ScannedBlocks(text, reader) = FlattenSeq(parts)
  BY <1>1 DEF ScannedBlocks, block
<1> HIDE DEF parts, T
<1>15. block(s) \in Range(parts[s])
  BY <1>13 DEF Range
<1>16. block(s) \in Range(FlattenSeq(parts))
  BY <1>5, <1>13, <1>15, FlattenHolds
<1>17. i \in s..e
  BY <1>3, <1>5, <1>11
<1> QED
  BY <1>12, <1>14, <1>16, <1>17

(* What the linter takes to be in a code block is in one for the parsers   *)
(* of AsciiDoc, if the fences above it are alike.                          *)
LEMMA HeadersInBlocks ==
    ASSUME NEW text, Len(text) \in Nat, DOMAIN text = 1..Len(text),
           setting.parser \in LintedFormats, setting.parser # "other", OutsideFence(text) = {},
           NEW i \in DOMAIN text, text[i].kind = "open", ~FencesDifferAbove(text, i)
    PROVE  InCodeBlock(text, i)
<1>1. OpenFence(text, Linter)[i - 1] # 0
  BY DEF OutsideFence
<1>2. i - 1 \in 0..Len(text) /\ i \in 1..Len(text)
  OBVIOUS
<1>3. \A j, k \in 1..(i - 1) :
          Says(text[j], Fences \cup LintFences) /\ Says(text[k], Fences \cup LintFences) =>
              text[j] = text[k] /\ Says(text[j], Fences \cap LintFences)
  BY DEF FencesDifferAbove
<1>4. \A j \in 1..(i - 1) : Says(text[j], LintFences) <=> Says(text[j], Fences)
  BY <1>3 DEF Says
<1>5. \A j, k \in 1..(i - 1) : Says(text[j], LintFences) /\ Says(text[k], LintFences) =>
                                 text[j] = text[k]
  BY <1>3 DEF Says
<1>6. ASSUME NEW reader, reader.fences = Fences
      PROVE  OpenFence(text, reader)[i - 1] # 0
  <2>1. \A j \in 0..(i - 1) : OpenFence(text, Linter)[j] = OpenFence(text, reader)[j]
    <3>1. Linter.fences = LintFences
      BY DEF Linter
    <3>2. PICK m : m = i - 1
      OBVIOUS
    <3>3. m \in 0..Len(text)
      BY <1>2, <3>2
    <3>4. \A j \in 1..m : Says(text[j], Linter.fences) <=> Says(text[j], reader.fences)
      BY <1>4, <1>6, <3>1, <3>2
    <3>5. \A j, k \in 1..m :
              Says(text[j], Linter.fences) /\ Says(text[k], Linter.fences) => text[j] = text[k]
      BY <1>5, <3>1, <3>2
    <3>6. \A j \in 0..m : OpenFence(text, Linter)[j] = OpenFence(text, reader)[j]
      BY <3>3, <3>4, <3>5, FencesAlike
    <3> QED
      BY <3>2, <3>6
  <2>2. i - 1 \in 0..(i - 1)
    BY <1>2
  <2> QED
    BY <1>1, <2>1, <2>2
<1>7. PICK p : p = ScannedBlocks(text, AsciiDoc)
  OBVIOUS
<1>8. PICK q : q = ScannedBlocks(text, LineScanner)
  OBVIOUS
<1>9. AsciiDoc.fences = Fences /\ LineScanner.fences = Fences
  BY DEF AsciiDoc, LineScanner
<1>10. \E b \in Range(p) : b.type = "code" /\ i \in b.first..b.last
  BY <1>2, <1>6, <1>7, <1>9, CodeBlockHolds
<1>11. \E b \in Range(q) : b.type = "code" /\ i \in b.first..b.last
  BY <1>2, <1>6, <1>8, <1>9, CodeBlockHolds
<1>12. p # <<>>
  BY <1>10 DEF Range
<1>13. BlocksOf(text) = p \/ BlocksOf(text) = q
  BY <1>7, <1>8, <1>12 DEF BlocksOf, SourceBlocks, AdocBlocks, ParsedBlocks, LintedFormats, Formats
<1> QED
  BY <1>10, <1>11, <1>13 DEF InCodeBlock

(* A definition stays open from its header to a line that ends it.         *)
Closes(l, closes) == l.kind = "close" \/ Says(l, closes)

LEMMA StaysOpen ==
    ASSUME NEW text, Len(text) \in Nat, NEW closes, NEW i \in 1..Len(text),
           text[i].kind = "open"
    PROVE  \A j \in i..Len(text) :
              (\A k \in (i + 1)..j : ~Closes(text[k], closes)) =>
                  OpenDefinition(text, closes)[j] # 0
<1>1. PICK open : open = OpenDefinition(text, closes)
  OBVIOUS
<1>2. \A j \in 1..Len(text) : open[j] = DefinitionAfter(text, closes, open[j - 1], j)
  BY <1>1, LintSteps
<1> DEFINE Good == {j \in 0..Len(text) :
                      (i <= j /\ \A k \in (i + 1)..j : ~Closes(text[k], closes)) => open[j] # 0}
<1>3. 0 \in Good
  OBVIOUS
<1>4. ASSUME NEW j \in 1..Len(text), j - 1 \in Good PROVE j \in Good
  <2>1. SUFFICES ASSUME i <= j, \A k \in (i + 1)..j : ~Closes(text[k], closes)
                 PROVE  open[j] # 0
    OBVIOUS
  <2>2. open[j] = DefinitionAfter(text, closes, open[j - 1], j)
    BY <1>2
  <2>3. CASE text[j].kind = "open"
    BY <2>2, <2>3 DEF DefinitionAfter, Says, IsText
  <2>4. CASE text[j].kind # "open"
    <3>1. i <= j - 1 /\ \A k \in (i + 1)..(j - 1) : ~Closes(text[k], closes)
      <4>1. i # j
        BY <2>4
      <4> QED
        BY <2>1, <4>1
    <3>2. open[j - 1] # 0
      BY <1>4, <3>1
    <3>3. ~Closes(text[j], closes)
      <4>1. j \in (i + 1)..j
        BY <3>1
      <4> QED
        BY <2>1, <4>1
    <3> HIDE DEF Good
    <3> QED
      BY <2>2, <2>4, <3>2, <3>3 DEF DefinitionAfter, Closes
  <2> QED
    BY <2>3, <2>4
<1>5. \A j \in 0..Len(text) : j \in Good
  <2> HIDE DEF Good
  <2> QED
    BY <1>3, <1>4, BoundedInduction
<1>6. \A j \in i..Len(text) : j \in 0..Len(text) /\ i <= j
  OBVIOUS
<1> QED
  BY <1>1, <1>5, <1>6

(* In a source about whose definitions there is nothing to say, one that   *)
(* has no line of these closes below its header ends for the chunk store.  *)
ClosesBelow(text, closes, i) ==
    \E k \in DOMAIN text : /\ i < k /\ Says(text[k], closes)
                           /\ \A j \in (i + 1)..k : text[j].kind # "open"

LEMMA CleanEnds ==
    ASSUME IsProject(texts), NEW c, NEW p \in Begins(c), NEW closes,
           Unterminated(texts[p[1]], closes) = {}, ~ClosesBelow(texts[p[1]], closes, p[2])
    PROVE  DefinitionAt(p).end # 0
<1>1. PICK f, i : f = p[1] /\ i = p[2]
  OBVIOUS
<1>2. f \in 1..Len(texts) /\ i \in 1..Len(texts[f]) /\ p = <<f, i>> /\ texts[f][i].kind = "open"
  BY <1>1, BeginsAre
<1>3. PICK text : text = texts[f]
  OBVIOUS
<1>4. Len(text) \in Nat /\ DOMAIN text = 1..Len(text) /\ \A j \in 1..Len(text) : IsLine(text[j])
  BY <1>2, <1>3, Sources
<1>5. PICK open : open = OpenDefinition(text, closes)
  OBVIOUS
<1>6. open[Len(text)] = 0 /\ \A j \in 1..Len(text) : text[j].kind = "open" => open[j - 1] = 0
  BY <1>1, <1>3, <1>4, <1>5 DEF Unterminated
<1>7. PICK e : e = Ends(p)
  OBVIOUS
<1>8. /\ e \in Nat /\ i < e /\ e <= Len(text) + 1
      /\ \A j \in 1..Len(text) : i < j /\ j < e => ~StopAt(f, j)
      /\ e <= Len(text) => e \in 1..Len(text) /\ StopAt(f, e)
  BY <1>2, <1>3, <1>7, EndsIs
<1>9. ASSUME NEW k \in (i + 1)..(e - 1), \A j \in (i + 1)..k : text[j].kind # "open"
      PROVE  ~Closes(text[k], closes)
  <2>1. k \in 1..Len(text) /\ i < k /\ k < e
    BY <1>2, <1>3, <1>8
  <2>2. text[k].kind # "close"
    BY <1>3, <1>8, <2>1 DEF StopAt
  <2>3. ~Says(text[k], closes)
    BY <1>1, <1>3, <1>4, <1>9, <2>1 DEF ClosesBelow
  <2> QED
    BY <2>2, <2>3 DEF Closes
<1> DEFINE Good == {j \in 0..(e - 1) : \A k \in (i + 1)..j : text[k].kind # "open"}
<1>10. ASSUME NEW j \in 1..(e - 1), j - 1 \in Good PROVE j \in Good
  <2>1. j \in 0..(e - 1) /\ \A k \in (i + 1)..(j - 1) : text[k].kind # "open"
    BY <1>8, <1>10
  <2>2. SUFFICES ASSUME i < j PROVE text[j].kind # "open"
    <3>1. \A k \in (i + 1)..j : (k = j /\ i < j) \/ k \in (i + 1)..(j - 1)
      BY <1>2
    <3> QED
      BY <2>1, <3>1
  <2>3. \A k \in (i + 1)..(j - 1) :
            k \in (i + 1)..(e - 1) /\ \A l \in (i + 1)..k : l \in (i + 1)..(j - 1)
    BY <1>2, <1>8, <2>1
  <2>4. \A k \in (i + 1)..(j - 1) : ~Closes(text[k], closes)
    <3> TAKE k \in (i + 1)..(j - 1)
    <3> QED
      BY <1>9, <2>1, <2>3
  <2>5. j - 1 \in i..Len(text) /\ j \in 1..Len(text)
    BY <1>2, <1>3, <1>8, <2>2
  <2>6. open[j - 1] # 0
    BY <1>2, <1>3, <1>4, <1>5, <2>4, <2>5, StaysOpen
  <2> QED
    BY <1>6, <2>5, <2>6
<1>11. \A j \in 0..(e - 1) : j \in Good
  <2>1. 0 \in Good
    BY <1>2, <1>8
  <2> HIDE DEF Good
  <2>2. e - 1 \in Nat
    BY <1>2, <1>8
  <2> QED
    BY <1>10, <2>1, <2>2, BoundedInduction
<1>12. \A k \in (i + 1)..(e - 1) : text[k].kind # "open" /\ ~Closes(text[k], closes)
  <2>1. e - 1 \in 0..(e - 1)
    BY <1>2, <1>8
  <2>2. \A k \in (i + 1)..(e - 1) : text[k].kind # "open"
    BY <1>11, <2>1
  <2> TAKE k \in (i + 1)..(e - 1)
  <2>3. \A j \in (i + 1)..k : j \in (i + 1)..(e - 1)
    BY <1>2, <1>8
  <2> QED
    BY <1>9, <2>2, <2>3
<1>13. open[e - 1] # 0
  <2>1. e - 1 \in i..Len(text)
    BY <1>2, <1>3, <1>8
  <2> QED
    BY <1>2, <1>3, <1>4, <1>5, <1>12, <2>1, StaysOpen
<1>14. e <= Len(text)
  <2>1. e - 1 # Len(text)
    BY <1>6, <1>13
  <2> QED
    BY <1>4, <1>8, <2>1
<1>15. text[e].kind = "close"
  BY <1>3, <1>6, <1>8, <1>13, <1>14 DEF StopAt
<1>16. e \in DOMAIN text /\ e # 0
  BY <1>4, <1>8, <1>14
<1> QED
  BY <1>1, <1>3, <1>7, <1>15, <1>16 DEF DefinitionAt

(* A definition that never ends is reported, or holds an end that only the *)
(* linter sees; a header outside of the blocks of code is reported, or     *)
(* stands below fences that the readers take differently: in sources of    *)
(* any length, whatever the lines are that each reader knows.              *)
THEOREM EachLintedDefinitionHolds == IncSpec => []LintedDefinitionsHold
<1>1. HistoryInv => LintedDefinitionsHold
  <2> SUFFICES ASSUME HistoryInv, setting.parser \in LintedFormats, pc # "read"
               PROVE  LintedDefinitionsHold
    BY DEF LintedDefinitionsHold
  <2>1. IsProject(texts) /\ TypeI /\ DefinitionsMatchText
    BY ReadInvMatches DEF HistoryInv, PassInv, TypeI
  <2>2. ASSUME NEW c \in Names, NEW d \in Range(store.defs[c]), d.end = 0,
               Unterminated(texts[d.file], LintCloses) = {}
        PROVE  LintClosesBelow(texts[d.file], d.line)
    <3>1. PICK j \in DOMAIN store.defs[c] : d = store.defs[c][j]
      BY <2>2 DEF Range
    <3>2. PICK p : p = Place(d)
      OBVIOUS
    <3>3. p \in Current(c) /\ d = DefinitionAt(p)
      BY <2>1, <3>1, <3>2 DEF DefinitionsMatchText
    <3>4. p \in Begins(c) /\ p[1] = d.file /\ p[2] = d.line
      BY <3>2, <3>3 DEF Current, Place
    <3>5. ClosesBelow(texts[p[1]], LintCloses, p[2])
      BY <2>1, <2>2, <3>3, <3>4, CleanEnds
    <3> QED
      BY <3>4, <3>5 DEF ClosesBelow, LintClosesBelow
  <2>3. ASSUME NEW f \in DOMAIN texts, setting.parser # "other", OutsideFence(texts[f]) = {},
               NEW i \in DOMAIN texts[f], texts[f][i].kind = "open",
               ~FencesDifferAbove(texts[f], i)
        PROVE  InCodeBlock(texts[f], i)
    <3>1. Len(texts[f]) \in Nat /\ DOMAIN texts[f] = 1..Len(texts[f])
      BY <2>1, <2>3, Sources
    <3> QED
      BY <2>3, <3>1, HeadersInBlocks
  <2> QED
    BY <2>2, <2>3 DEF LintedDefinitionsHold
<1> QED
  BY <1>1, HistoryInvHolds, PTL
-----------------------------------------------------------------------------
(* compute_skip_set: the blocks of the sources that have not changed hold  *)
(* the definitions that have not, these the chunks a file is expanded      *)
(* from, and these what is on disk.                                        *)

(* Blocks follow each other. *)
InOrder(blocks) ==
    /\ \E m \in Nat : DOMAIN blocks = 1..m
    /\ \A k \in DOMAIN blocks : /\ blocks[k].first \in Nat /\ blocks[k].last \in Nat
                                /\ 1 <= blocks[k].first /\ blocks[k].first <= blocks[k].last
    /\ \A k, l \in DOMAIN blocks : k < l => blocks[k].last < blocks[l].first

(* Some of the numbers up to i, each with what it stands for. *)
Picks(x, q, i) ==
    /\ \A k \in DOMAIN x : x[k].first \in 1..i /\ q[x[k].first] = <<x[k]>>
    /\ \A k, l \in DOMAIN x : k < l => x[k].first < x[l].first

LEMMA PicksJoined ==
    ASSUME NEW T, NEW q \in Seq(Seq(T)),
           \A i \in 1..Len(q) : q[i] = <<>> \/ \E x \in T : q[i] = <<x>> /\ x.first = i
    PROVE  FlattenSeq(q) \in Seq(T) /\ Picks(FlattenSeq(q), q, Len(q))
<1>1. PICK g : FlattensBy(g, q, T)
  BY FlattenSteps
<1>2. g \in [Nat -> Seq(T)] /\ g[0] = <<>> /\ \A i \in 1..Len(q) : g[i] = g[i - 1] \o q[i]
  BY <1>1 DEF FlattensBy
<1>3. Len(q) \in Nat
  OBVIOUS
<1> DEFINE Good == {i \in 0..Len(q) : Picks(g[i], q, i)}
<1>4. 0 \in Good
  BY <1>2 DEF Picks
<1>5. ASSUME NEW i \in 1..Len(q), i - 1 \in Good PROVE i \in Good
  <2>1. PICK y : y = g[i - 1]
    OBVIOUS
  <2>2. y \in Seq(T) /\ Picks(y, q, i - 1)
    BY <1>2, <1>5, <2>1
  <2>3. g[i] = y \o q[i]
    BY <1>2, <2>1
  <2>4. CASE q[i] = <<>>
    <3>1. g[i] = y
      BY <2>2, <2>3, <2>4
    <3> QED
      BY <2>2, <3>1 DEF Picks
  <2>5. ASSUME NEW x \in T, q[i] = <<x>>, x.first = i PROVE Picks(g[i], q, i)
    <3>1. PICK z : z = Append(y, x)
      OBVIOUS
    <3>2. g[i] = z
      BY <2>2, <2>3, <2>5, <3>1
    <3>3. /\ DOMAIN z = 1..(Len(y) + 1) /\ z[Len(y) + 1] = x
          /\ DOMAIN y = 1..Len(y) /\ Len(y) \in Nat
          /\ \A k \in 1..Len(y) : z[k] = y[k]
      BY <2>2, <3>1
    <3>4. \A k \in 1..(Len(y) + 1) : k \in 1..Len(y) \/ k = Len(y) + 1
      BY <3>3
    <3>5. ASSUME NEW k \in DOMAIN z PROVE z[k].first \in 1..i /\ q[z[k].first] = <<z[k]>>
      <4>1. CASE k \in 1..Len(y)
        <5>1. z[k].first \in 1..(i - 1) /\ q[z[k].first] = <<z[k]>>
          BY <2>2, <3>3, <4>1 DEF Picks
        <5> QED
          BY <5>1
      <4>2. CASE k = Len(y) + 1
        <5>1. i \in 1..i
          OBVIOUS
        <5> QED
          BY <2>5, <3>3, <4>2, <5>1
      <4> QED
        BY <3>3, <3>4, <4>1, <4>2
    <3>6. ASSUME NEW k \in DOMAIN z, NEW l \in DOMAIN z, k < l PROVE z[k].first < z[l].first
      <4>1. k \in 1..Len(y)
        BY <3>3, <3>6
      <4>2. CASE l \in 1..Len(y)
        BY <2>2, <3>3, <3>6, <4>1, <4>2 DEF Picks
      <4>3. CASE l = Len(y) + 1
        BY <2>2, <2>5, <3>3, <4>1, <4>3 DEF Picks
      <4> QED
        BY <3>3, <3>4, <4>2, <4>3
    <3> QED
      BY <3>2, <3>5, <3>6 DEF Picks
  <2> QED
    BY <2>4, <2>5
<1>6. \A i \in 0..Len(q) : i \in Good
  <2> HIDE DEF Good
  <2> QED
    BY <1>3, <1>4, <1>5, BoundedInduction
<1>7. Picks(g[Len(q)], q, Len(q)) /\ g[Len(q)] \in Seq(T)
  BY <1>2, <1>3, <1>6
<1> QED
  BY <1>1, <1>7 DEF FlattensBy

(* Where a block ends. *)
LEMMA BlockEnds ==
    ASSUME NEW text, Len(text) \in Nat, DOMAIN text = 1..Len(text), NEW reader,
           NEW i \in BlockStarts(text, reader, OpenFence(text, reader))
    PROVE  LET open == OpenFence(text, reader)
           IN  /\ i \in 1..Len(text) /\ BlockEnd(text, reader, open, i) \in i..Len(text)
               /\ \A j \in BlockStarts(text, reader, open) : i < j => BlockEnd(text, reader, open, i) < j
<1>1. PICK open : open = OpenFence(text, reader)
  OBVIOUS
<1>2. PICK class : class = ClassOf(text, reader, open, i)
  OBVIOUS
<1>3. i \in 1..Len(text) /\ i \in Nat
  BY DEF BlockStarts
<1> DEFINE last == {j \in i..Len(text) :
                       CASE class = "section" -> j = i
                         [] class = "code" -> open[j] = 0 \/ j = Len(text)
                         [] OTHER -> j = Len(text) \/ ClassOf(text, reader, open, j + 1) # "para"}
<1>4. BlockEnd(text, reader, open, i) = Min(last)
  BY <1>2 DEF BlockEnd
<1>5. PICK e : e = Min(last)
  OBVIOUS
<1>6. e \in last /\ \A j \in last : e <= j
  <2>1. last \subseteq 1..Len(text)
    BY <1>3
  <2>2. (IF class = "section" THEN i ELSE Len(text)) \in last
    <3>1. i \in i..Len(text) /\ Len(text) \in i..Len(text)
      BY <1>3
    <3>2. CASE class = "section"
      BY <3>1, <3>2
    <3>3. CASE class = "code"
      BY <3>1, <3>3
    <3>4. CASE class # "section" /\ class # "code"
      BY <3>1, <3>4
    <3> QED
      BY <3>2, <3>3, <3>4
  <2> HIDE DEF last
  <2> QED
    BY <1>5, <2>1, <2>2, MinAndMax
<1>7. e \in i..Len(text)
  BY <1>6
<1>8. ASSUME NEW j \in BlockStarts(text, reader, open), i < j, j <= e PROVE FALSE
  <2>1. j \in 1..Len(text) /\ j \in Nat /\ j # 1
    BY <1>3, <1>8 DEF BlockStarts
  <2>2. j - 1 \in i..Len(text) /\ j - 1 \notin last
    <3>1. j - 1 \in i..Len(text) /\ ~(e <= j - 1)
      BY <1>3, <1>7, <1>8, <2>1
    <3> HIDE DEF last
    <3> QED
      BY <1>6, <3>1
  <2>3. CASE class = "section"
    <3>1. e = i
      BY <1>6, <2>3
    <3> QED
      BY <1>3, <1>8, <3>1
  <2>4. CASE class = "code"
    <3>1. open[j - 1] # 0
      BY <2>2, <2>4
    <3>2. ClassOf(text, reader, open, j) = "code"
      BY <3>1 DEF ClassOf
    <3> QED
      BY <1>8, <3>1, <3>2 DEF BlockStarts
  <2>5. CASE class # "section" /\ class # "code"
    <3>1. ClassOf(text, reader, open, (j - 1) + 1) = "para"
      BY <2>2, <2>5
    <3>2. ClassOf(text, reader, open, j) = "para" /\ (j - 1) + 1 = j
      BY <2>1, <3>1
    <3>3. class = "para"
      BY <1>1, <1>2, <2>5 DEF BlockStarts
    <3>4. ClassOf(text, reader, open, j - 1) = "para"
      <4>1. CASE j - 1 = i
        BY <1>2, <3>3, <4>1
      <4>2. CASE j - 1 # i
        <5>1. j - 2 \in i..Len(text) /\ ~(e <= j - 2) /\ (j - 2) + 1 = j - 1
          BY <1>3, <1>7, <1>8, <2>1, <2>2, <4>2
        <5>2. j - 2 \notin last
          <6> HIDE DEF last
          <6> QED
            BY <1>6, <5>1
        <5>3. ClassOf(text, reader, open, (j - 2) + 1) = "para"
          BY <2>5, <5>1, <5>2
        <5> QED
          BY <5>1, <5>3
      <4> QED
        BY <4>1, <4>2
    <3> QED
      BY <1>8, <2>1, <3>2, <3>4 DEF BlockStarts
  <2> QED
    BY <2>3, <2>4, <2>5
<1> HIDE DEF last
<1>9. \A j \in BlockStarts(text, reader, open) : i < j => e < j
  <2> TAKE j \in BlockStarts(text, reader, open)
  <2>1. j \in Nat
    BY DEF BlockStarts
  <2> QED
    BY <1>3, <1>7, <1>8, <2>1
<1> QED
  BY <1>1, <1>3, <1>4, <1>5, <1>7, <1>9

(* The blocks of a source follow each other. *)
LEMMA ScannedInOrder ==
    ASSUME NEW text, Len(text) \in Nat, DOMAIN text = 1..Len(text), NEW reader
    PROVE  /\ InOrder(ScannedBlocks(text, reader))
           /\ \A k \in DOMAIN ScannedBlocks(text, reader) :
                 ScannedBlocks(text, reader)[k].last <= Len(text)
<1>1. PICK open : open = OpenFence(text, reader)
  OBVIOUS
<1>2. PICK starts : starts = BlockStarts(text, reader, open)
  OBVIOUS
<1>3. \A i \in starts :
         /\ i \in 1..Len(text) /\ BlockEnd(text, reader, open, i) \in i..Len(text)
         /\ \A j \in starts : i < j => BlockEnd(text, reader, open, i) < j
  BY <1>1, <1>2, BlockEnds
<1> DEFINE block(j) == [type |-> ClassOf(text, reader, open, j), first |-> j,
                        last |-> BlockEnd(text, reader, open, j)]
           q == [j \in DOMAIN text |-> IF j \in starts THEN <<block(j)>> ELSE <<>>]
           T == {block(j) : j \in DOMAIN text}
<1>4. ScannedBlocks(text, reader) = FlattenSeq(q)
  BY <1>1, <1>2 DEF ScannedBlocks
<1>5. \A j \in 1..Len(text) : block(j) \in T /\ block(j).first = j
                              /\ block(j).last = BlockEnd(text, reader, open, j)
  OBVIOUS
<1> HIDE DEF block, T
<1>6. /\ q \in Seq(Seq(T)) /\ Len(q) = Len(text)
      /\ \A j \in 1..Len(text) : q[j] = IF j \in starts THEN <<block(j)>> ELSE <<>>
  <2>1. ASSUME NEW j \in 1..Len(text)
        PROVE  (IF j \in starts THEN <<block(j)>> ELSE <<>>) \in Seq(T)
    <3>1. <<block(j)>> \in Seq(T) /\ <<>> \in Seq(T)
      BY <1>5
    <3>2. CASE j \in starts
      BY <3>1, <3>2
    <3>3. CASE j \notin starts
      BY <3>1, <3>3
    <3> QED
      BY <3>2, <3>3
  <2> QED
    BY <2>1
<1> HIDE DEF q
<1>7. PICK x : x = FlattenSeq(q)
  OBVIOUS
<1>8. x \in Seq(T) /\ Picks(x, q, Len(text))
  <2>1. \A j \in 1..Len(text) : q[j] = <<>> \/ \E b \in T : q[j] = <<b>> /\ b.first = j
    BY <1>5, <1>6
  <2> QED
    BY <1>6, <1>7, <2>1, PicksJoined
<1>9. ASSUME NEW k \in DOMAIN x
      PROVE  x[k].first \in starts /\ x[k].last = BlockEnd(text, reader, open, x[k].first)
  <2>1. x[k].first \in 1..Len(text) /\ q[x[k].first] = <<x[k]>>
    BY <1>8 DEF Picks
  <2>2. PICK j \in 1..Len(text) : j = x[k].first
    BY <2>1
  <2>3. j \in starts /\ <<x[k]>> = <<block(j)>>
    <3>1. q[j] = <<x[k]>> /\ <<x[k]>> # <<>>
      BY <2>1, <2>2
    <3>2. CASE j \notin starts
      BY <1>6, <3>1, <3>2
    <3>3. CASE j \in starts
      BY <1>6, <3>1, <3>3
    <3> QED
      BY <3>2, <3>3
  <2>4. x[k] = block(j)
    BY <2>3
  <2> QED
    BY <1>5, <2>2, <2>3, <2>4
<1>10. ASSUME NEW k \in DOMAIN x
       PROVE  /\ x[k].first \in Nat /\ x[k].last \in Nat /\ 1 <= x[k].first
              /\ x[k].first <= x[k].last /\ x[k].last <= Len(text)
  BY <1>3, <1>9
<1>11. ASSUME NEW k \in DOMAIN x, NEW l \in DOMAIN x, k < l PROVE x[k].last < x[l].first
  <2>1. x[k].first < x[l].first
    BY <1>8, <1>11 DEF Picks
  <2> QED
    BY <1>3, <1>9, <2>1
<1>12. Len(x) \in Nat /\ DOMAIN x = 1..Len(x)
  BY <1>8
<1> QED
  BY <1>4, <1>7, <1>10, <1>11, <1>12 DEF InOrder

LEMMA BlocksInOrder ==
    ASSUME NEW text, Len(text) \in Nat, DOMAIN text = 1..Len(text)
    PROVE  /\ InOrder(BlocksOf(text))
           /\ Len(text) >= 1 => \A k \in DOMAIN BlocksOf(text) : BlocksOf(text)[k].last <= Len(text)
<1>1. PICK p : p = ScannedBlocks(text, AsciiDoc)
  OBVIOUS
<1>2. PICK r : r = ScannedBlocks(text, LineScanner)
  OBVIOUS
<1>7. PICK q : q = ScannedBlocks(text, Markdown)
  OBVIOUS
<1>3. PICK w : w = WholeText(text)
  OBVIOUS
<1>4. BlocksOf(text) \in {p, q, r, w}
  BY <1>1, <1>2, <1>3, <1>7 DEF BlocksOf, SourceBlocks, AdocBlocks, ParsedBlocks
<1>5. /\ InOrder(p) /\ \A k \in DOMAIN p : p[k].last <= Len(text)
      /\ InOrder(r) /\ \A k \in DOMAIN r : r[k].last <= Len(text)
      /\ InOrder(q) /\ \A k \in DOMAIN q : q[k].last <= Len(text)
  BY <1>1, <1>2, <1>7, ScannedInOrder
<1>6. InOrder(w) /\ (Len(text) >= 1 => \A k \in DOMAIN w : w[k].last <= Len(text))
  <2>1. PICK m : m = Max({1, Len(text)})
    OBVIOUS
  <2>2. m \in Nat /\ 1 <= m /\ (Len(text) >= 1 => m <= Len(text))
    <3>1. PICK l \in Nat : l = Len(text)
      OBVIOUS
    <3>2. \E a \in {1, l} : \A i \in {1, l} : i <= a
      <4>1. CASE l = 0
        BY <4>1
      <4>2. CASE 1 <= l
        BY <4>2
      <4> QED
        BY <4>1, <4>2
    <3>3. m \in {1, l} /\ \A i \in {1, l} : i <= m
      BY <2>1, <3>1, <3>2 DEF Max
    <3>4. (m = 1 \/ m = l) /\ 1 <= m
      BY <3>3
    <3> QED
      BY <3>1, <3>4
  <2>3. w = <<[type |-> "text", first |-> 1, last |-> m]>>
    BY <1>3, <2>1 DEF WholeText
  <2>4. DOMAIN w = 1..1 /\ w[1].first = 1 /\ w[1].last = m
    BY <2>3
  <2>5. 1..1 = {1} /\ 1 \in Nat
    OBVIOUS
  <2> QED
    BY <2>2, <2>4, <2>5 DEF InOrder
<1> QED
  BY <1>4, <1>5, <1>6

(* Numbers that are moved among themselves, in their order, stay.          *)
LEMMA IncreasingIsIdentity ==
    ASSUME NEW m \in Nat, NEW X, X \subseteq 1..m, NEW g \in [X -> X],
           \A h, k \in X : h < k => g[h] < g[k]
    PROVE  \A h \in X : g[h] = h
<1>0. \A h \in X : h \in Nat /\ h \in 1..m /\ g[h] \in X /\ g[h] \in Nat
  <2>1. \A h \in X : h \in 1..m /\ g[h] \in X
    OBVIOUS
  <2>2. \A i \in 1..m : i \in Nat
    OBVIOUS
  <2> QED
    BY <2>1, <2>2
<1>1. ASSUME NEW h \in X PROVE ~(g[h] < h)
  <2> DEFINE D == {k \in X : g[k] < k}
  <2>1. SUFFICES ASSUME h \in D PROVE FALSE
    OBVIOUS
  <2>2. D \subseteq Nat
    BY <1>0
  <2>3. PICK l \in D : \A k \in D : l <= k
    <3> HIDE DEF D
    <3> QED
      BY <2>1, <2>2, LeastNatural
  <2>4. l \in X /\ g[l] \in X /\ g[l] < l
    BY <1>0
  <2>5. g[l] \in D
    BY <2>4
  <2>6. l \in Nat /\ g[l] \in Nat
    BY <1>0, <2>4
  <2> HIDE DEF D
  <2> QED
    BY <2>3, <2>4, <2>5, <2>6
<1>2. ASSUME NEW h \in X PROVE ~(h < g[h])
  <2> DEFINE D == {k \in X : k < g[k]}
  <2>1. SUFFICES ASSUME h \in D PROVE FALSE
    OBVIOUS
  <2>2. D \subseteq 1..m
    OBVIOUS
  <2>3. PICK l \in D : \A k \in D : k <= l
    <3> HIDE DEF D
    <3> QED
      BY <2>1, <2>2, MinAndMax
  <2>4. l \in X /\ g[l] \in X /\ l < g[l]
    OBVIOUS
  <2>5. g[l] \in D
    BY <2>4
  <2>6. l \in Nat /\ g[l] \in Nat
    BY <1>0, <2>4
  <2> HIDE DEF D
  <2> QED
    BY <2>3, <2>4, <2>5, <2>6
<1> QED
  <2> TAKE h \in X
  <2>1. h \in Nat /\ g[h] \in Nat
    BY <1>0
  <2> QED
    BY <1>1, <1>2, <2>1

IsText1(text) ==
    /\ text \in Seq(Range(text)) /\ Len(text) \in Nat /\ DOMAIN text = 1..Len(text)

BlocksFit(blocks, text) ==
    /\ InOrder(blocks)
    /\ \A k \in DOMAIN blocks : blocks[k].last <= Len(text)

Lies(i, b) == b.first <= i /\ i <= b.last

(* The blocks B hold the lines K.                                          *)
Hold(B, K) == \A i \in K : \E k \in DOMAIN B : Lies(i, B[k])

(* The blocks C of text u with a line of K have the content that the blocks *)
(* B of text t have.                                                       *)
SameContent(t, u, B, C, K) ==
    \A k \in DOMAIN C, i \in K : Lies(i, C[k]) =>
        k \in DOMAIN B /\ Content(t, B[k]) = Content(u, C[k])

(* The block of line i has stayed where it was.                            *)
InPlace(B, C, i) == \E k \in DOMAIN C : Lies(i, C[k]) /\ k \in DOMAIN B /\ B[k].first = C[k].first

(* Two blocks with the same content have the same lines. *)
LEMMA ContentLines ==
    ASSUME NEW t, IsText1(t), NEW u, IsText1(u), NEW B, BlocksFit(B, t), NEW C, BlocksFit(C, u),
           NEW k \in DOMAIN B, NEW l \in DOMAIN C, Content(t, B[k]) = Content(u, C[l])
    PROVE  /\ B[k].last - B[k].first = C[l].last - C[l].first
           /\ \A j \in 0..(C[l].last - C[l].first) : t[B[k].first + j] = u[C[l].first + j]
<1>1. PICK b1 \in Nat : b1 = B[k].first
  BY DEF BlocksFit, InOrder
<1>2. PICK b2 \in Nat : b2 = B[k].last
  BY DEF BlocksFit, InOrder
<1>3. PICK c1 \in Nat : c1 = C[l].first
  BY DEF BlocksFit, InOrder
<1>4. PICK c2 \in Nat : c2 = C[l].last
  BY DEF BlocksFit, InOrder
<1>5. 1 <= b1 /\ b1 <= b2 /\ b2 <= Len(t) /\ 1 <= c1 /\ c1 <= c2 /\ c2 <= Len(u)
  BY <1>1, <1>2, <1>3, <1>4 DEF BlocksFit, InOrder
<1>6. ASSUME NEW a \in Nat, NEW m \in Nat, a <= m PROVE Min({a, m}) = a
  <2>1. \A i \in {a, m} : a <= i
    BY <1>6
  <2>2. \A i \in {a, m} : (\A j \in {a, m} : i <= j) => i = a
    BY <1>6
  <2> QED
    BY <2>1, <2>2 DEF Min
<1>7. Content(t, B[k]) = SubSeq(t, b1, b2) /\ Content(u, C[l]) = SubSeq(u, c1, c2)
  <2>1. Min({b2, Len(t)}) = b2 /\ Min({c2, Len(u)}) = c2
    BY <1>5, <1>6 DEF IsText1
  <2> QED
    BY <1>1, <1>2, <1>3, <1>4, <2>1 DEF Content
<1>8. PICK x : x = SubSeq(t, b1, b2)
  OBVIOUS
<1>9. x = SubSeq(u, c1, c2)
  BY <1>7, <1>8
<1>10. Len(x) = b2 - b1 + 1 /\ \A i \in 1..(b2 - b1 + 1) : x[i] = t[b1 + i - 1]
  BY <1>5, <1>8 DEF IsText1
<1>11. Len(x) = c2 - c1 + 1 /\ \A i \in 1..(c2 - c1 + 1) : x[i] = u[c1 + i - 1]
  BY <1>5, <1>9 DEF IsText1
<1>12. b2 - b1 = c2 - c1
  BY <1>10, <1>11
<1>13. ASSUME NEW j \in 0..(c2 - c1) PROVE t[b1 + j] = u[c1 + j]
  <2>1. j + 1 \in 1..(b2 - b1 + 1) /\ j + 1 \in 1..(c2 - c1 + 1)
    BY <1>12
  <2>2. x[j + 1] = t[b1 + (j + 1) - 1] /\ x[j + 1] = u[c1 + (j + 1) - 1]
    BY <1>10, <1>11, <2>1
  <2>3. b1 + (j + 1) - 1 = b1 + j /\ c1 + (j + 1) - 1 = c1 + j
    OBVIOUS
  <2> QED
    BY <2>2, <2>3
<1> QED
  BY <1>1, <1>2, <1>3, <1>4, <1>12, <1>13

(* The line at which a block of new content has stood before. *)
Moved(B, C, b, h) == h - C[b[h]].first + B[b[h]].first

(* Blocks whose content has not changed have stayed where they were, if    *)
(* they hold all the headers of a chunk and these have stayed: the headers *)
(* could only have been moved among themselves.                            *)
LEMMA BlocksStay ==
    ASSUME NEW t, IsText1(t), NEW u, IsText1(u), Len(t) = Len(u),
           NEW B, BlocksFit(B, t), NEW C, BlocksFit(C, u),
           NEW X, X \subseteq 1..Len(u),
           \A i \in 1..Len(u), h \in X : t[i] = u[h] => i \in X,
           Hold(C, X), SameContent(t, u, B, C, X)
    PROVE  \A h \in X : InPlace(B, C, h)
<1> DEFINE b == [h \in X |-> CHOOSE k \in DOMAIN C : Lies(h, C[k])]
<1>1. \A h \in X : b[h] \in DOMAIN C /\ Lies(h, C[b[h]])
  BY DEF Hold
<1> HIDE DEF b
<1>2. \A h \in X : /\ b[h] \in DOMAIN B /\ b[h] \in DOMAIN C
                    /\ Content(t, B[b[h]]) = Content(u, C[b[h]])
  BY <1>1 DEF SameContent
<1>3. \A k \in DOMAIN B : B[k].first \in Nat /\ B[k].last \in Nat /\ 1 <= B[k].first
                          /\ B[k].last <= Len(t)
  BY DEF BlocksFit, InOrder
<1>4. \A k \in DOMAIN C : C[k].first \in Nat /\ C[k].last \in Nat
  BY DEF BlocksFit, InOrder
<1>5. \A h \in X : h \in Nat
  OBVIOUS
<1>6. ASSUME NEW h \in X
      PROVE  /\ Moved(B, C, b, h) \in Nat
             /\ B[b[h]].first <= Moved(B, C, b, h) /\ Moved(B, C, b, h) <= B[b[h]].last
             /\ t[Moved(B, C, b, h)] = u[h]
  <2>1. PICK k : k = b[h]
    OBVIOUS
  <2>2. k \in DOMAIN B /\ k \in DOMAIN C /\ Content(t, B[k]) = Content(u, C[k])
    BY <1>2, <2>1
  <2>3. PICK c1 \in Nat : c1 = C[k].first
    BY <1>4, <2>2
  <2>4. PICK c2 \in Nat : c2 = C[k].last
    BY <1>4, <2>2
  <2>5. PICK b1 \in Nat : b1 = B[k].first
    BY <1>3, <2>2
  <2>6. PICK b2 \in Nat : b2 = B[k].last
    BY <1>3, <2>2
  <2>7. b2 - b1 = c2 - c1 /\ \A j \in 0..(c2 - c1) : t[b1 + j] = u[c1 + j]
    <3>1. /\ B[k].last - B[k].first = C[k].last - C[k].first
          /\ \A j \in 0..(C[k].last - C[k].first) : t[B[k].first + j] = u[C[k].first + j]
      BY <2>2, ContentLines
    <3> QED
      BY <2>3, <2>4, <2>5, <2>6, <3>1
  <2>8. c1 <= h /\ h <= c2 /\ h \in Nat
    BY <1>1, <1>5, <2>1, <2>3, <2>4 DEF Lies
  <2>9. PICK j \in 0..(c2 - c1) : j = h - c1
    <3>1. PICK d : d = h - c1
      OBVIOUS
    <3>2. d \in Nat /\ d <= c2 - c1 /\ c2 - c1 \in Int
      BY <2>3, <2>4, <2>8, <3>1
    <3>3. d \in 0..(c2 - c1)
      BY <3>2
    <3> QED
      BY <3>1, <3>3
  <2>10. t[b1 + j] = u[c1 + j] /\ c1 + j = h /\ b1 + j = h - c1 + b1
    <3>1. t[b1 + j] = u[c1 + j]
      BY <2>7
    <3>2. c1 \in Nat /\ b1 \in Nat /\ h \in Nat /\ j = h - c1
      BY <2>3, <2>5, <2>8, <2>9
    <3> QED
      BY <3>1, <3>2
  <2>11. Moved(B, C, b, h) = h - c1 + b1
    BY <2>1, <2>3, <2>5 DEF Moved
  <2> QED
    BY <2>1, <2>5, <2>6, <2>7, <2>8, <2>9, <2>10, <2>11
<1> DEFINE g == [h \in X |-> Moved(B, C, b, h)]
<1>7. ASSUME NEW h \in X PROVE Moved(B, C, b, h) \in X
  <2>1. PICK i : i = Moved(B, C, b, h)
    OBVIOUS
  <2>2. i \in Nat /\ 1 <= i /\ i <= Len(t) /\ t[i] = u[h]
    <3>1. PICK k : k = b[h]
      OBVIOUS
    <3>2. B[k].first \in Nat /\ B[k].last \in Nat /\ 1 <= B[k].first /\ B[k].last <= Len(t)
      BY <1>2, <1>3, <3>1
    <3>3. i \in Nat /\ B[k].first <= i /\ i <= B[k].last /\ t[i] = u[h]
      BY <1>6, <2>1, <3>1
    <3> QED
      BY <3>2, <3>3 DEF IsText1
  <2>3. i \in 1..Len(u)
    BY <2>2 DEF IsText1
  <2> QED
    BY <2>1, <2>2, <2>3
<1>8. ASSUME NEW h \in X, NEW l \in X, h < l PROVE Moved(B, C, b, h) < Moved(B, C, b, l)
  <2>1. PICK i : i = b[h]
    OBVIOUS
  <2>2. PICK j : j = b[l]
    OBVIOUS
  <2>3. i \in DOMAIN B /\ i \in DOMAIN C /\ j \in DOMAIN B /\ j \in DOMAIN C
    BY <1>2, <2>1, <2>2
  <2>4. h \in Nat /\ l \in Nat /\ C[i].first <= h /\ h <= C[i].last
        /\ C[j].first <= l /\ l <= C[j].last
    BY <1>1, <1>5, <2>1, <2>2 DEF Lies
  <2>5. C[i].first \in Nat /\ C[i].last \in Nat /\ C[j].first \in Nat /\ C[j].last \in Nat
        /\ B[i].first \in Nat /\ B[i].last \in Nat /\ B[j].first \in Nat /\ B[j].last \in Nat
    BY <1>3, <1>4, <2>3
  <2>6. CASE i = j
    <3>1. Moved(B, C, b, h) = h - C[i].first + B[i].first
          /\ Moved(B, C, b, l) = l - C[i].first + B[i].first
      BY <2>1, <2>2, <2>6 DEF Moved
    <3> QED
      BY <1>8, <2>4, <2>5, <3>1
  <2>7. CASE i # j
    <3>1. ~(j < i)
      <4>1. j < i => C[j].last < C[i].first
        BY <2>3 DEF BlocksFit, InOrder
      <4> QED
        BY <1>8, <2>4, <2>5, <4>1
    <3>2. i < j
      <4>1. i \in Nat /\ j \in Nat
        BY <2>3 DEF BlocksFit, InOrder
      <4> QED
        BY <2>7, <3>1, <4>1
    <3>3. B[i].last < B[j].first
      BY <2>3, <3>2 DEF BlocksFit, InOrder
    <3>4. /\ Moved(B, C, b, h) \in Nat /\ Moved(B, C, b, h) <= B[i].last
          /\ Moved(B, C, b, l) \in Nat /\ B[j].first <= Moved(B, C, b, l)
      BY <1>6, <2>1, <2>2
    <3> QED
      BY <2>5, <3>3, <3>4
  <2> QED
    BY <2>6, <2>7
<1>9. g \in [X -> X] /\ \A h \in X : g[h] = Moved(B, C, b, h)
  BY <1>7
<1>10. \A h, l \in X : h < l => g[h] < g[l]
  BY <1>8, <1>9
<1> HIDE DEF g
<1>11. \A h \in X : g[h] = h
  <2>1. Len(u) \in Nat
    BY DEF IsText1
  <2> QED
    BY <1>9, <1>10, <2>1, IncreasingIsIdentity
<1> QED
  <2> TAKE h \in X
  <2>1. PICK k : k = b[h]
    OBVIOUS
  <2>2. k \in DOMAIN B /\ k \in DOMAIN C /\ Lies(h, C[k])
    BY <1>1, <1>2, <2>1
  <2>3. h - C[k].first + B[k].first = h
    BY <1>9, <1>11, <2>1 DEF Moved
  <2>4. h \in Nat /\ C[k].first \in Nat /\ B[k].first \in Nat
    BY <1>3, <1>4, <1>5, <2>2
  <2>5. B[k].first = C[k].first
    BY <2>3, <2>4
  <2> QED
    BY <2>2, <2>5 DEF InPlace

(* Where every block that a definition reaches into has kept its content,  *)
(* and the first of them its place, the definition has kept its lines.     *)
LEMMA LinesStay ==
    ASSUME NEW t, IsText1(t), NEW u, IsText1(u),
           NEW B, BlocksFit(B, t), NEW C, BlocksFit(C, u),
           NEW first \in Nat, NEW e \in Nat, first <= e,
           Hold(B, first..e), Hold(C, first..e), SameContent(t, u, B, C, first..e),
           InPlace(B, C, first)
    PROVE  \A i \in first..e : t[i] = u[i]
<1>1. /\ \A k \in DOMAIN B : k \in Nat /\ B[k].first \in Nat /\ B[k].last \in Nat
      /\ \A k \in DOMAIN C : k \in Nat /\ C[k].first \in Nat /\ C[k].last \in Nat
      /\ \A k \in DOMAIN B : B[k].first <= B[k].last
      /\ \A k \in DOMAIN C : C[k].first <= C[k].last
      /\ \A k, l \in DOMAIN B : k < l => B[k].last < B[l].first
      /\ \A k, l \in DOMAIN C : k < l => C[k].last < C[l].first
  BY DEF BlocksFit, InOrder
<1> DEFINE Good == {d \in 0..(e - first) : InPlace(B, C, first + d)}
<1>2. 0 \in Good
  OBVIOUS
<1>3. ASSUME NEW d \in 1..(e - first), d - 1 \in Good PROVE d \in Good
  <2>1. PICK i \in Nat : i = first + d
    OBVIOUS
  <2>2. i - 1 \in first..e /\ i \in first..e /\ i - 1 = first + (d - 1)
    BY <2>1
  <2>3. PICK k \in DOMAIN C : Lies(i - 1, C[k]) /\ k \in DOMAIN B /\ B[k].first = C[k].first
    BY <1>3, <2>2 DEF InPlace
  <2>4. Content(t, B[k]) = Content(u, C[k])
    BY <2>2, <2>3 DEF SameContent
  <2>5. B[k].last - B[k].first = C[k].last - C[k].first
    BY <2>3, <2>4, ContentLines
  <2>6. B[k].last = C[k].last
    BY <1>1, <2>3, <2>5
  <2>7. CASE Lies(i, C[k])
    BY <2>1, <2>3, <2>6, <2>7 DEF InPlace
  <2>8. CASE ~Lies(i, C[k])
    <3>0. /\ k \in Nat /\ C[k].first \in Nat /\ C[k].last \in Nat /\ i \in Nat
          /\ C[k].first <= i - 1 /\ i - 1 <= C[k].last
          /\ ~(C[k].first <= i /\ i <= C[k].last)
      BY <1>1, <2>1, <2>3, <2>8 DEF Lies
    <3>1. C[k].last = i - 1
      BY <3>0
    <3>2. PICK l \in DOMAIN C : Lies(i, C[l])
      BY <2>2 DEF Hold
    <3>3. l \in DOMAIN B /\ Content(t, B[l]) = Content(u, C[l])
      BY <2>2, <3>2 DEF SameContent
    <3>4. PICK m \in DOMAIN B : Lies(i, B[m])
      BY <2>2 DEF Hold
    <3>5. k < l /\ C[l].first = i
      <4>1. /\ l \in Nat /\ C[l].first \in Nat /\ C[l].last \in Nat
            /\ C[l].first <= i /\ i <= C[l].last
        BY <1>1, <3>2 DEF Lies
      <4>2. l # k /\ (l < k => C[l].last < C[k].first)
        BY <1>1, <2>3, <2>8, <3>2
      <4>3. k < l
        BY <3>0, <4>1, <4>2
      <4>4. C[k].last < C[l].first
        BY <1>1, <2>3, <3>2, <4>3
      <4> QED
        BY <3>0, <3>1, <4>1, <4>3, <4>4
    <3>6. k < m /\ B[m].first = i
      <4>1. /\ m \in Nat /\ B[m].first \in Nat /\ B[m].last \in Nat
            /\ B[m].first <= i /\ i <= B[m].last
        BY <1>1, <3>4 DEF Lies
      <4>2. m # k /\ (m < k => B[m].last < B[k].first)
        BY <1>1, <2>3, <2>6, <3>0, <3>1, <3>4, <4>1
      <4>3. k < m
        BY <2>3, <3>0, <4>1, <4>2
      <4>4. B[k].last < B[m].first
        BY <1>1, <2>3, <3>4, <4>3
      <4> QED
        BY <2>6, <3>0, <3>1, <4>1, <4>3, <4>4
    <3>7. ~(m < l)
      <4>1. SUFFICES ASSUME m < l PROVE FALSE
        OBVIOUS
      <4>2. m \in DOMAIN C
        <5>1. PICK c \in Nat : DOMAIN C = 1..c
          BY DEF BlocksFit, InOrder
        <5>2. k \in 1..c /\ l \in 1..c /\ m \in Nat
          BY <1>1, <2>3, <3>2, <3>4, <5>1
        <5> QED
          BY <3>6, <4>1, <5>1, <5>2
      <4>3. C[k].last < C[m].first /\ C[m].last < C[l].first /\ C[m].first <= C[m].last
        BY <1>1, <2>3, <3>2, <3>6, <4>1, <4>2
      <4> QED
        BY <1>1, <2>1, <2>3, <3>1, <3>2, <3>5, <4>2, <4>3
    <3>8. ~(l < m)
      <4>1. SUFFICES ASSUME l < m PROVE FALSE
        OBVIOUS
      <4>2. B[k].last < B[l].first /\ B[l].last < B[m].first /\ B[l].first <= B[l].last
        BY <1>1, <2>3, <3>3, <3>4, <3>5, <4>1
      <4> QED
        BY <1>1, <2>1, <2>3, <2>6, <3>1, <3>3, <3>6, <4>2
    <3>9. l = m
      BY <1>1, <3>2, <3>4, <3>7, <3>8
    <3> QED
      BY <2>1, <3>2, <3>3, <3>5, <3>6, <3>9 DEF InPlace
  <2> QED
    BY <2>7, <2>8
<1>4. \A d \in 0..(e - first) : d \in Good
  <2>1. e - first \in Nat
    OBVIOUS
  <2> HIDE DEF Good
  <2> QED
    BY <1>2, <1>3, <2>1, BoundedInduction
<1> QED
  <2> TAKE i \in first..e
  <2>1. PICK d \in 0..(e - first) : i = first + d
    <3>1. i - first \in 0..(e - first) /\ i = first + (i - first)
      OBVIOUS
    <3> QED
      BY <3>1
  <2>2. PICK k \in DOMAIN C : Lies(i, C[k]) /\ k \in DOMAIN B /\ B[k].first = C[k].first
    BY <1>4, <2>1 DEF InPlace
  <2>3. Content(t, B[k]) = Content(u, C[k])
    BY <2>2 DEF SameContent
  <2>4. \A j \in 0..(C[k].last - C[k].first) : t[B[k].first + j] = u[C[k].first + j]
    BY <2>2, <2>3, ContentLines
  <2>5. PICK j : j = i - C[k].first
    OBVIOUS
  <2>6. j \in 0..(C[k].last - C[k].first) /\ C[k].first + j = i
    BY <1>1, <2>2, <2>5 DEF Lies
  <2> QED
    BY <2>2, <2>4, <2>6
-----------------------------------------------------------------------------
(* The operators of Noweb on a text, for the sources of an earlier pass. *)
PlacesOf(t) == UNION {{f} \X DOMAIN t[f] : f \in DOMAIN t}
LineOf(t, p) == t[p[1]][p[2]]
HeadersOf(t, c) == {p \in PlacesOf(t) : LineOf(t, p).kind = "open" /\ LineOf(t, p).name = c}
BeginsOf(t, c) ==
    {p \in HeadersOf(t, c) : \/ c \in Plain
                             \/ LineOf(t, p).replace
                             \/ \A q \in HeadersOf(t, c) : ~Before(q, p)}
CurrentOf(t, c) ==
    {p \in BeginsOf(t, c) : \A q \in BeginsOf(t, c) : LineOf(t, q).replace => ~Before(p, q)}
StopsOf(t, p) ==
    {i \in DOMAIN t[p[1]] :
        /\ i > p[2]
        /\ \/ t[p[1]][i].kind = "close"
           \/ /\ t[p[1]][i].kind = "open"
              /\ t[p[1]][i].name \in Names
              /\ <<p[1], i>> \in BeginsOf(t, t[p[1]][i].name)}
EndsOf(t, p) == IF StopsOf(t, p) = {} THEN Len(t[p[1]]) + 1 ELSE Min(StopsOf(t, p))
BodyOf(t, f, first, last) ==
    FlattenSeq([i \in 1..(last - first) |->
        IF t[f][first + i].kind = "open" THEN <<>> ELSE <<t[f][first + i]>>])
DefinitionOf(t, p) ==
    [file |-> p[1], line |-> p[2],
     end |-> IF EndsOf(t, p) \in DOMAIN t[p[1]] /\ t[p[1]][EndsOf(t, p)].kind = "close"
             THEN EndsOf(t, p) ELSE 0,
     body |-> BodyOf(t, p[1], p[2], EndsOf(t, p) - 1)]

(* What the sources t say of chunk c. *)
SaidOf(t, c, ds) ==
    /\ {Place(ds[k]) : k \in DOMAIN ds} = CurrentOf(t, c)
    /\ \A k \in DOMAIN ds :
          /\ ds[k] = DefinitionOf(t, Place(ds[k]))
          /\ \A j \in DOMAIN ds : k < j => Before(Place(ds[k]), Place(ds[j]))

LEMMA OfTexts ==
    /\ PlacesOf(texts) = Places
    /\ \A p : LineOf(texts, p) = LineAt(p)
    /\ \A c : HeadersOf(texts, c) = Headers(c)
    /\ \A c : BeginsOf(texts, c) = Begins(c)
    /\ \A c : CurrentOf(texts, c) = Current(c)
    /\ \A p : EndsOf(texts, p) = Ends(p)
    /\ \A p : DefinitionOf(texts, p) = DefinitionAt(p)
<1>1. PlacesOf(texts) = Places
  BY DEF PlacesOf, Places
<1>2. \A p : LineOf(texts, p) = LineAt(p)
  BY DEF LineOf, LineAt
<1>3. \A c : HeadersOf(texts, c) = Headers(c)
  BY <1>1, <1>2 DEF HeadersOf, Headers
<1>4. \A c : BeginsOf(texts, c) = Begins(c)
  BY <1>2, <1>3 DEF BeginsOf, Begins
<1>5. \A c : CurrentOf(texts, c) = Current(c)
  BY <1>2, <1>4 DEF CurrentOf, Current
<1>6. \A p : EndsOf(texts, p) = Ends(p)
  BY <1>4 DEF EndsOf, StopsOf, Ends
<1>7. \A p : DefinitionOf(texts, p) = DefinitionAt(p)
  BY <1>6 DEF DefinitionOf, DefinitionAt, BodyOf, BodyLines
<1> QED
  BY <1>1, <1>2, <1>3, <1>4, <1>5, <1>6, <1>7

(* Sources whose headers and ends are in the same places say the same of   *)
(* where the definitions are.                                              *)
LEMMA SamePlacesSay ==
    ASSUME NEW t, NEW u, IsProject(t), IsProject(u), SamePlaces(t, u)
    PROVE  /\ PlacesOf(t) = PlacesOf(u)
           /\ \A c : HeadersOf(t, c) = HeadersOf(u, c)
           /\ \A c : CurrentOf(t, c) = CurrentOf(u, c)
           /\ \A f \in DOMAIN u : DOMAIN t[f] = DOMAIN u[f]
           /\ \A p \in PlacesOf(u) : /\ EndsOf(t, p) = EndsOf(u, p)
                                     /\ DefinitionOf(t, p).end = DefinitionOf(u, p).end
<1>1. DOMAIN t = DOMAIN u /\ \A f \in DOMAIN u : DOMAIN t[f] = DOMAIN u[f] /\ Len(t[f]) = Len(u[f])
  <2>1. ASSUME NEW f \in DOMAIN u PROVE DOMAIN t[f] = DOMAIN u[f] /\ Len(t[f]) = Len(u[f])
    <3>1. f \in DOMAIN t /\ Len(t[f]) = Len(u[f])
      BY DEF SamePlaces
    <3>2. t[f] \in Seq(Range(t[f])) /\ u[f] \in Seq(Range(u[f]))
      BY <3>1 DEF IsProject
    <3>3. DOMAIN t[f] = 1..Len(t[f]) /\ DOMAIN u[f] = 1..Len(u[f])
      BY <3>2
    <3> QED
      BY <3>1, <3>3
  <2> QED
    BY <2>1 DEF SamePlaces
<1>2. PlacesOf(t) = PlacesOf(u)
  BY <1>1 DEF PlacesOf
<1>3. \A f \in DOMAIN u : \A i \in DOMAIN u[f] :
         /\ t[f][i].kind = "open" <=> u[f][i].kind = "open"
         /\ t[f][i].kind = "close" <=> u[f][i].kind = "close"
         /\ u[f][i].kind = "open" => t[f][i] = u[f][i]
  BY <1>1 DEF SamePlaces
<1>4. \A p \in PlacesOf(u) : p[1] \in DOMAIN u /\ p[2] \in DOMAIN u[p[1]]
  BY DEF PlacesOf
<1>5. \A c : HeadersOf(t, c) = HeadersOf(u, c)
  BY <1>2, <1>3, <1>4 DEF HeadersOf, LineOf
<1>6. \A c : \A p \in HeadersOf(u, c) : LineOf(t, p) = LineOf(u, p)
  BY <1>3, <1>4 DEF HeadersOf, LineOf
<1>7. \A c : BeginsOf(t, c) = BeginsOf(u, c)
  BY <1>5, <1>6 DEF BeginsOf
<1>8. \A c : CurrentOf(t, c) = CurrentOf(u, c)
  <2>1. \A c : \A p \in BeginsOf(u, c) : LineOf(t, p) = LineOf(u, p)
    BY <1>6 DEF BeginsOf
  <2> QED
    BY <1>7, <2>1 DEF CurrentOf
<1>9. ASSUME NEW p \in PlacesOf(u)
      PROVE  EndsOf(t, p) = EndsOf(u, p) /\ DefinitionOf(t, p).end = DefinitionOf(u, p).end
  <2>1. p[1] \in DOMAIN u
    BY <1>4
  <2>2. StopsOf(t, p) = StopsOf(u, p)
    BY <1>1, <1>3, <1>7, <2>1 DEF StopsOf
  <2>3. EndsOf(t, p) = EndsOf(u, p)
    BY <1>1, <2>1, <2>2 DEF EndsOf
  <2>4. DefinitionOf(t, p).end = DefinitionOf(u, p).end
    BY <1>1, <1>3, <2>1, <2>3 DEF DefinitionOf
  <2> QED
    BY <2>3, <2>4
<1> QED
  BY <1>1, <1>2, <1>5, <1>8, <1>9

(* The places K, in order. *)
Lists(a, m, K) ==
    /\ DOMAIN a = 1..m
    /\ K = {a[i] : i \in 1..m}
    /\ \A i, j \in 1..m : i < j => Before(a[i], a[j])

StartsAs(a, m, b, l) == \A i \in 1..m : i <= l /\ a[i] = b[i]

(* Two sequences of the same places in the same order are one. *)
LEMMA SortedOnce ==
    ASSUME NEW K, \A p \in K : p[1] \in Nat /\ p[2] \in Nat,
           NEW m \in Nat, NEW a, Lists(a, m, K), NEW l \in Nat, NEW b, Lists(b, l, K)
    PROVE  StartsAs(a, m, b, l)
<1>0. /\ \A i \in 1..m : a[i] \in K
      /\ \A i, j \in 1..m : i < j => Before(a[i], a[j])
      /\ \A i, j \in 1..l : i < j => Before(b[i], b[j])
      /\ \A i \in 1..m : \E j \in 1..l : b[j] = a[i]
      /\ \A j \in 1..l : \E i \in 1..m : b[j] = a[i]
  BY DEF Lists
<1>1. \A p, q \in K : Before(p, q) => p # q /\ ~Before(q, p)
  BY DEF Before
<1> DEFINE Good == {i \in 0..m : i <= l /\ \A j \in 1..i : a[j] = b[j]}
<1>2. 0 \in Good
  OBVIOUS
<1>3. ASSUME NEW i \in 1..m, i - 1 \in Good PROVE i \in Good
  <2>1. i - 1 <= l /\ \A j \in 1..(i - 1) : a[j] = b[j]
    BY <1>3
  <2>2. PICK j \in 1..l : b[j] = a[i]
    BY <1>0
  <2>3. i <= j
    <3>1. SUFFICES ASSUME j < i PROVE FALSE
      OBVIOUS
    <3>2. j \in 1..(i - 1) /\ j \in 1..m
      BY <3>1
    <3>3. a[j] = a[i] /\ Before(a[j], a[i]) /\ a[i] \in K /\ a[j] \in K
      BY <1>0, <2>1, <2>2, <3>1, <3>2
    <3> QED
      BY <1>1, <3>2, <3>3
  <2>4. i \in 1..l
    BY <2>3
  <2>5. PICK k \in 1..m : b[i] = a[k]
    BY <1>0, <2>4
  <2>6. i <= k
    <3>1. SUFFICES ASSUME k < i PROVE FALSE
      OBVIOUS
    <3>2. k \in 1..(i - 1) /\ k \in 1..l
      BY <2>4, <3>1
    <3>3. b[k] = b[i] /\ Before(b[k], b[i]) /\ b[i] \in K
      BY <1>0, <2>1, <2>4, <2>5, <3>1, <3>2
    <3> QED
      BY <1>1, <2>5, <3>3
  <2>7. ~(i < j)
    <3>1. SUFFICES ASSUME i < j PROVE FALSE
      OBVIOUS
    <3>2. Before(a[k], a[i]) /\ a[k] \in K /\ a[i] \in K
      BY <1>0, <2>2, <2>4, <2>5, <3>1
    <3>3. k # i
      BY <1>1, <3>2
    <3>4. Before(a[i], a[k])
      BY <1>0, <2>6, <3>3
    <3> QED
      BY <1>1, <3>2, <3>4
  <2>8. j = i
    BY <2>3, <2>7
  <2>9. \A h \in 1..i : h \in 1..(i - 1) \/ h = i
    OBVIOUS
  <2>10. \A h \in 1..i : a[h] = b[h]
    BY <2>1, <2>2, <2>8, <2>9
  <2>11. i \in 0..m /\ i <= l
    BY <2>4
  <2> QED
    BY <2>10, <2>11
<1>4. \A i \in 0..m : i \in Good
  <2>1. m \in Nat
    OBVIOUS
  <2> HIDE DEF Good
  <2> QED
    BY <1>2, <1>3, <2>1, BoundedInduction
<1>5. m \in Good
  <2>1. m \in 0..m
    OBVIOUS
  <2> QED
    BY <1>4, <2>1
<1>6. m <= l /\ \A i \in 1..m : a[i] = b[i]
  BY <1>5
<1> QED
  BY <1>6 DEF StartsAs

(* Where two sources have the same definitions in the same places, they    *)
(* say the same of a chunk.                                                *)
LEMMA SameDefinitions ==
    ASSUME NEW t, NEW u, NEW c, NEW ds, NEW es, SaidOf(t, c, ds), SaidOf(u, c, es),
           ds \in Seq(Range(ds)), es \in Seq(Range(es)), IsProject(u),
           CurrentOf(t, c) = CurrentOf(u, c),
           \A p \in CurrentOf(u, c) : DefinitionOf(t, p) = DefinitionOf(u, p)
    PROVE  ds = es
<1> DEFINE C == CurrentOf(u, c)
<1>1. \A p \in C : p[1] \in Nat /\ p[2] \in Nat
  <2>1. \A p \in C : p[1] \in DOMAIN u /\ p[2] \in DOMAIN u[p[1]]
    BY DEF CurrentOf, BeginsOf, HeadersOf, PlacesOf
  <2>2. u \in Seq(Range(u)) /\ \A f \in DOMAIN u : u[f] \in Seq(Range(u[f]))
    BY DEF IsProject
  <2>3. DOMAIN u \subseteq Nat
    BY <2>2
  <2>4. \A f \in DOMAIN u : DOMAIN u[f] \subseteq Nat
    BY <2>2
  <2> QED
    BY <2>1, <2>3, <2>4
<1>2. PICK dm \in Nat : DOMAIN ds = 1..dm
  OBVIOUS
<1>3. PICK em \in Nat : DOMAIN es = 1..em
  OBVIOUS
<1> DEFINE dp == [i \in 1..dm |-> Place(ds[i])]
           ep == [i \in 1..em |-> Place(es[i])]
<1>4. DOMAIN dp = 1..dm /\ DOMAIN ep = 1..em /\ C = {dp[i] : i \in 1..dm} /\ C = {ep[i] : i \in 1..em}
  BY <1>2, <1>3 DEF SaidOf
<1>5. /\ \A i, j \in 1..dm : i < j => Before(dp[i], dp[j])
      /\ \A i, j \in 1..em : i < j => Before(ep[i], ep[j])
  BY <1>2, <1>3 DEF SaidOf
<1>6. /\ \A i \in 1..dm : ds[i] = DefinitionOf(u, dp[i])
      /\ \A i \in 1..em : es[i] = DefinitionOf(u, ep[i])
  BY <1>2, <1>3, <1>4 DEF SaidOf
<1> HIDE DEF dp, ep, C
<1>7. Lists(dp, dm, C) /\ Lists(ep, em, C)
  BY <1>4, <1>5 DEF Lists
<1>8. dm <= em /\ em <= dm /\ \A i \in 1..dm : dp[i] = ep[i]
  <2>1. dm \in Nat /\ em \in Nat
    BY <1>2, <1>3
  <2>2. StartsAs(dp, dm, ep, em) /\ StartsAs(ep, em, dp, dm)
    BY <1>1, <1>7, <2>1, SortedOnce, Zenon
  <2> QED
    BY <2>1, <2>2 DEF StartsAs
<1>9. dm = em
  BY <1>8
<1>10. DOMAIN ds = DOMAIN es /\ \A i \in DOMAIN ds : ds[i] = es[i]
  BY <1>2, <1>3, <1>6, <1>8, <1>9
<1>11. ds = [i \in DOMAIN ds |-> ds[i]] /\ es = [i \in DOMAIN es |-> es[i]]
  OBVIOUS
<1> QED
  BY <1>10, <1>11

(* The lines of a definition are all that its text depends on. *)
LEMMA SameLines ==
    ASSUME NEW t, NEW u, NEW p \in PlacesOf(u), IsProject(t), IsProject(u), SamePlaces(t, u),
           NEW e \in Nat, EndsOf(u, p) = e, p[2] \in Nat, p[2] < e,
           \A i \in p[2]..(e - 1) : t[p[1]][i] = u[p[1]][i]
    PROVE  DefinitionOf(t, p) = DefinitionOf(u, p)
<1>1. EndsOf(t, p) = e /\ DefinitionOf(t, p).end = DefinitionOf(u, p).end
  BY SamePlacesSay
<1>2. PICK f : f = p[1]
  OBVIOUS
<1>3. PICK first \in Nat : first = p[2]
  OBVIOUS
<1>4. BodyOf(t, f, first, e - 1) = BodyOf(u, f, first, e - 1)
  <2> DEFINE q(w) == [i \in 1..((e - 1) - first) |->
                        IF w[f][first + i].kind = "open" THEN <<>> ELSE <<w[f][first + i]>>]
  <2>1. \A i \in 1..((e - 1) - first) : t[f][first + i] = u[f][first + i]
    <3> TAKE i \in 1..((e - 1) - first)
    <3>1. first + i \in first..(e - 1)
      OBVIOUS
    <3> QED
      BY <1>2, <1>3, <3>1
  <2>2. q(t) = q(u)
    BY <2>1
  <2>3. BodyOf(t, f, first, e - 1) = FlattenSeq(q(t)) /\ BodyOf(u, f, first, e - 1) = FlattenSeq(q(u))
    BY DEF BodyOf
  <2> HIDE DEF q
  <2> QED
    BY <2>2, <2>3
<1>5. /\ DefinitionOf(t, p) = [file |-> p[1], line |-> p[2], end |-> DefinitionOf(t, p).end,
                               body |-> BodyOf(t, f, first, e - 1)]
      /\ DefinitionOf(u, p) = [file |-> p[1], line |-> p[2], end |-> DefinitionOf(u, p).end,
                               body |-> BodyOf(u, f, first, e - 1)]
  BY <1>1, <1>2, <1>3 DEF DefinitionOf
<1> QED
  BY <1>1, <1>4, <1>5

(* The rows of chunk_defs for the definitions ds. *)
RowsOf(ds) ==
    UNION {{[chunk |-> c, file |-> d.file, first |-> d.line, last |-> d.end] :
              d \in {x \in Range(ds[c]) : x.end # 0}} : c \in Names}

(* The block hashes in the database, if there are any, are those of the    *)
(* sources it has.                                                         *)
HashesKept ==
    \A f \in DOMAIN db.blocks : f \in DOMAIN db.texts /\ db.blocks[f] = Hashes(db.texts[f])

LEMMA SameAsItself == IsProject(texts) => SamePlaces(texts, texts)
BY DEF SamePlaces

(* Where the headers and ends have stayed, the linter sees each definition *)
(* open up to its end.                                                     *)
LEMMA OpenToItsEnd ==
    ASSUME IsProject(texts), NEW ts, IsProject(ts), SamePlaces(ts, texts),
           NEW c, NEW p \in Begins(c), NEW j \in p[2]..(Ends(p) - 1)
    PROVE  j \in DOMAIN ts[p[1]] /\ OpenDefinition(ts[p[1]], {})[j] # 0
<1>1. PICK f, i : f = p[1] /\ i = p[2]
  OBVIOUS
<1>2. f \in 1..Len(texts) /\ i \in 1..Len(texts[f]) /\ p = <<f, i>> /\ texts[f][i].kind = "open"
  BY <1>1, BeginsAre
<1>3. Len(texts[f]) \in Nat /\ f \in DOMAIN texts /\ DOMAIN texts[f] = 1..Len(texts[f])
  BY <1>2, Sources
<1>4. PICK e : e = Ends(p)
  OBVIOUS
<1>5. /\ e \in Nat /\ i < e /\ e <= Len(texts[f]) + 1
      /\ \A k \in 1..Len(texts[f]) : i < k /\ k < e => ~StopAt(f, k)
  BY <1>2, <1>4, EndsIs
<1>6. PICK text : text = ts[f]
  OBVIOUS
<1>7. /\ f \in DOMAIN ts /\ Len(text) = Len(texts[f])
      /\ \A k \in DOMAIN text :
            {text[k].kind, texts[f][k].kind} \cap {"open", "close"} # {} => text[k] = texts[f][k]
  BY <1>3, <1>6 DEF SamePlaces
<1>8. DOMAIN text = 1..Len(texts[f])
  <2>1. text \in Seq(Range(text))
    BY <1>6, <1>7 DEF IsProject
  <2> QED
    BY <1>7, <2>1
<1>9. text[i].kind = "open"
  BY <1>2, <1>3, <1>7, <1>8
<1>10. \A k \in (i + 1)..j : text[k].kind # "close"
  <2>1. SUFFICES ASSUME NEW k \in (i + 1)..j, text[k].kind = "close" PROVE FALSE
    OBVIOUS
  <2>2. k \in 1..Len(texts[f]) /\ i < k /\ k < e
    BY <1>1, <1>2, <1>3, <1>4, <1>5
  <2>3. texts[f][k].kind = "close"
    BY <1>7, <1>8, <2>1, <2>2
  <2> QED
    BY <1>5, <2>2, <2>3 DEF StopAt
<1>11. j \in i..Len(text) /\ i \in 1..Len(text) /\ Len(text) \in Nat
  BY <1>1, <1>2, <1>3, <1>4, <1>5, <1>7
<1>12. OpenDefinition(text, {})[j] # 0
  <2>1. \A k \in (i + 1)..j : ~Closes(text[k], {})
    BY <1>10 DEF Closes, Says
  <2> QED
    BY <1>9, <1>11, <2>1, StaysOpen
<1> QED
  BY <1>1, <1>3, <1>6, <1>7, <1>8, <1>11, <1>12

LEMMA SourceFits ==
    ASSUME NEW ts, IsProject(ts), NEW f \in DOMAIN ts, NEW j \in DOMAIN ts[f]
    PROVE  /\ IsText1(ts[f]) /\ BlocksFit(BlocksOf(ts[f]), ts[f])
           /\ \A i \in 1..Len(ts[f]) : i \in DOMAIN ts[f]
<1>1. PICK text : text = ts[f]
  OBVIOUS
<1>2. text \in Seq(Range(text))
  BY <1>1 DEF IsProject
<1>3. Len(text) \in Nat /\ DOMAIN text = 1..Len(text) /\ Len(text) >= 1
  BY <1>1, <1>2
<1>4. IsText1(text)
  BY <1>2, <1>3 DEF IsText1
<1>5. BlocksFit(BlocksOf(text), text)
  BY <1>3, BlocksInOrder DEF BlocksFit
<1> QED
  BY <1>1, <1>3, <1>4, <1>5

(* What was recorded of a chunk none of whose lines is dirty: a block that *)
(* any of its definitions reaches into has had the content it has.         *)
LEMMA BlocksUnchanged ==
    ASSUME HashesKept, NEW c \in Names, c \notin DirtyAtFirst,
           NEW d \in db.defs, d.chunk = c, d.file \in DOMAIN texts,
           NEW k \in DOMAIN BlocksOf(texts[d.file]),
           d.first <= BlocksOf(texts[d.file])[k].last,
           d.last >= BlocksOf(texts[d.file])[k].first
    PROVE  /\ d.file \in DOMAIN db.texts /\ k \in DOMAIN BlocksOf(db.texts[d.file])
           /\ Content(db.texts[d.file], BlocksOf(db.texts[d.file])[k])
                = Content(texts[d.file], BlocksOf(texts[d.file])[k])
<1>1. PICK f : f = d.file
  OBVIOUS
<1>2. PICK r : r = BlocksOf(texts[f])
  OBVIOUS
<1>3. d \in DefsOverlapping(f, r[k])
  BY <1>1, <1>2 DEF DefsOverlapping
<1>4. k \notin ChangedBlocks(f)
  <2>1. SUFFICES ASSUME k \in ChangedBlocks(f) PROVE FALSE
    OBVIOUS
  <2>2. d \in UNION {DefsOverlapping(f, BlocksOf(texts[f])[h]) : h \in ChangedBlocks(f)}
    BY <1>2, <1>3, <2>1
  <2>3. c \in {x.chunk : x \in UNION {DefsOverlapping(f, BlocksOf(texts[f])[h]) :
                                          h \in ChangedBlocks(f)}}
    BY <2>2
  <2>4. c \in DirtyAtFirst
    BY <1>1, <2>3 DEF DirtyAtFirst
  <2> QED
    BY <2>4
<1>5. f \in DOMAIN db.blocks /\ k \in DOMAIN db.blocks[f]
      /\ db.blocks[f][k] = Hashes(texts[f])[k]
  BY <1>1, <1>4 DEF ChangedBlocks
<1>6. f \in DOMAIN db.texts /\ db.blocks[f] = Hashes(db.texts[f])
  BY <1>5 DEF HashesKept
<1>7. PICK s : s = BlocksOf(db.texts[f])
  OBVIOUS
<1>8. Hashes(db.texts[f]) = [h \in DOMAIN s |-> Content(db.texts[f], s[h])]
      /\ Hashes(texts[f]) = [h \in DOMAIN r |-> Content(texts[f], r[h])]
  BY <1>2, <1>7 DEF Hashes
<1>9. k \in DOMAIN s /\ Content(db.texts[f], s[k]) = Content(texts[f], r[k])
  BY <1>1, <1>2, <1>5, <1>6, <1>8
<1> QED
  BY <1>1, <1>2, <1>6, <1>7, <1>9

(* A definition of a chunk that is not dirty has its lines as they were.   *)
LEMMA DefinitionStays ==
    ASSUME IsProject(texts), IsProject(db.texts), ChangedWithinChunks, HashesKept,
           NEW c \in Names, c \notin DirtyAtFirst,
           \A p \in Current(c) : \E d \in db.defs : /\ d.chunk = c /\ d.file = p[1]
                                                    /\ d.first = p[2] /\ d.last = Ends(p),
           NEW p \in Current(c)
    PROVE  \A i \in p[2]..(Ends(p) - 1) : db.texts[p[1]][i] = texts[p[1]][i]
<1>0. /\ SamePlaces(db.texts, texts) /\ Headers(c) = Current(c) /\ Current(c) \subseteq Begins(c)
      /\ \A f \in DOMAIN texts : BlocksCover(db.texts[f]) /\ BlocksCover(texts[f])
  BY DEF ChangedWithinChunks, Current
<1>1. PICK f, h : f = p[1] /\ h = p[2]
  OBVIOUS
<1>2. f \in DOMAIN texts /\ h \in DOMAIN texts[f] /\ p = <<f, h>>
  BY <1>0, <1>1, BeginsAre, Sources
<1>3. f \in DOMAIN db.texts /\ Len(db.texts[f]) = Len(texts[f]) /\ DOMAIN db.texts[f] = DOMAIN texts[f]
  BY <1>0, <1>2, SamePlacesSay DEF SamePlaces
<1>4. PICK new : new = texts[f]
  OBVIOUS
<1>5. PICK old : old = db.texts[f]
  OBVIOUS
<1>6. PICK NB : NB = BlocksOf(new)
  OBVIOUS
<1>7. PICK OB : OB = BlocksOf(old)
  OBVIOUS
<1>8. /\ IsText1(new) /\ BlocksFit(NB, new) /\ IsText1(old) /\ BlocksFit(OB, old)
      /\ Len(old) = Len(new) /\ Len(new) \in Nat /\ DOMAIN new = 1..Len(new)
  BY <1>2, <1>3, <1>4, <1>5, <1>6, <1>7, SourceFits DEF IsText1
<1> DEFINE Y == {i \in DOMAIN new : <<f, i>> \in Current(c)}
<1>9. ASSUME NEW g \in Y
      PROVE  /\ Ends(<<f, g>>) \in Nat /\ g \in Nat /\ g < Ends(<<f, g>>)
             /\ \A i \in g..(Ends(<<f, g>>) - 1) :
                   /\ \E k \in DOMAIN OB : Lies(i, OB[k])
                   /\ \E k \in DOMAIN NB : Lies(i, NB[k])
             /\ \A k \in DOMAIN NB, i \in g..(Ends(<<f, g>>) - 1) : Lies(i, NB[k]) =>
                   k \in DOMAIN OB /\ Content(old, OB[k]) = Content(new, NB[k])
  <2>1. PICK q : q = <<f, g>>
    OBVIOUS
  <2>2. q \in Current(c) /\ q \in Begins(c) /\ q[1] = f /\ q[2] = g
    BY <1>0, <2>1
  <2>3. PICK e : e = Ends(q)
    OBVIOUS
  <2>4. e \in Nat /\ g \in Nat /\ g < e
    <3>1. f \in 1..Len(texts) /\ g \in 1..Len(texts[f])
      BY <2>2, BeginsAre
    <3> QED
      BY <2>1, <2>3, <3>1, EndsIs
  <2>5. ASSUME NEW i \in g..(e - 1)
        PROVE  /\ \E k \in DOMAIN OB : Lies(i, OB[k])
               /\ \E k \in DOMAIN NB : Lies(i, NB[k])
    <3>1. i \in DOMAIN new /\ OpenDefinition(new, {})[i] # 0
      BY <1>4, <2>2, <2>3, OpenToItsEnd, SameAsItself
    <3>2. i \in DOMAIN old /\ OpenDefinition(old, {})[i] # 0
      BY <1>0, <1>5, <2>2, <2>3, OpenToItsEnd
    <3>3. BlocksCover(old) /\ BlocksCover(new)
      BY <1>0, <1>2, <1>4, <1>5
    <3>4. PICK r \in Range(OB) : i \in r.first..r.last
      BY <1>7, <3>2, <3>3 DEF BlocksCover
    <3>5. PICK s \in Range(NB) : i \in s.first..s.last
      BY <1>6, <3>1, <3>3 DEF BlocksCover
    <3>6. PICK k \in DOMAIN OB : r = OB[k]
      BY <3>4 DEF Range
    <3>7. PICK l \in DOMAIN NB : s = NB[l]
      BY <3>5 DEF Range
    <3>8. Lies(i, OB[k]) /\ Lies(i, NB[l])
      BY <3>4, <3>5, <3>6, <3>7 DEF Lies
    <3> QED
      BY <3>6, <3>7, <3>8
  <2>6. ASSUME NEW k \in DOMAIN NB, NEW i \in g..(e - 1), Lies(i, NB[k])
        PROVE  k \in DOMAIN OB /\ Content(old, OB[k]) = Content(new, NB[k])
    <3>1. PICK d \in db.defs : d.chunk = c /\ d.file = f /\ d.first = g /\ d.last = e
      BY <2>2, <2>3
    <3>2. NB[k].first \in Nat /\ NB[k].last \in Nat
      BY <1>8 DEF BlocksFit, InOrder
    <3>3. g <= NB[k].last /\ e >= NB[k].first
      BY <2>4, <2>6, <3>2 DEF Lies
    <3>4. /\ k \in DOMAIN BlocksOf(db.texts[f])
          /\ Content(db.texts[f], BlocksOf(db.texts[f])[k]) = Content(texts[f], BlocksOf(texts[f])[k])
      <4>1. k \in DOMAIN BlocksOf(texts[f]) /\ d.first <= BlocksOf(texts[f])[k].last
            /\ d.last >= BlocksOf(texts[f])[k].first /\ d.file \in DOMAIN texts
        BY <1>2, <1>4, <1>6, <2>6, <3>1, <3>3
      <4> QED
        BY <3>1, <4>1, BlocksUnchanged
    <3> QED
      BY <1>4, <1>5, <1>6, <1>7, <3>4
  <2> QED
    BY <2>1, <2>3, <2>4, <2>5, <2>6
<1>10. h \in Y
  BY <1>2, <1>4
<1>11. Y \subseteq 1..Len(new)
  BY <1>8
<1>12. ASSUME NEW i \in 1..Len(new), NEW g \in Y, old[i] = new[g] PROVE i \in Y
  <2>1. PICK q : q = <<f, g>>
    OBVIOUS
  <2>2. q \in Begins(c) /\ q[1] = f /\ q[2] = g
    BY <1>0, <2>1
  <2>3. new[g].kind = "open" /\ new[g].name = c
    BY <1>4, <2>2, BeginsAre
  <2>4. <<f, i>> \in HeadersOf(db.texts, c)
    <3>1. i \in DOMAIN db.texts[f] /\ db.texts[f][i].kind = "open" /\ db.texts[f][i].name = c
      BY <1>3, <1>4, <1>5, <1>8, <1>12, <2>3
    <3> QED
      BY <1>3, <3>1 DEF HeadersOf, PlacesOf, LineOf
  <2>5. <<f, i>> \in Current(c)
    BY <1>0, <2>4, SamePlacesSay, OfTexts
  <2> QED
    BY <1>8, <2>5
<1> HIDE DEF Y
<1>13. \A g \in Y : g \in g..(Ends(<<f, g>>) - 1)
  BY <1>9
<1>14. Hold(NB, Y)
  BY <1>9, <1>13 DEF Hold
<1>15. SameContent(old, new, OB, NB, Y)
  BY <1>9, <1>13 DEF SameContent
<1>16. \A g \in Y : InPlace(OB, NB, g)
  BY <1>8, <1>11, <1>12, <1>14, <1>15, BlocksStay
<1>17. PICK z : z = Ends(p) - 1
  OBVIOUS
<1>18. /\ z \in Nat /\ h \in Nat /\ h <= z
       /\ Hold(OB, h..z) /\ Hold(NB, h..z) /\ SameContent(old, new, OB, NB, h..z)
  BY <1>2, <1>9, <1>10, <1>17 DEF Hold, SameContent
<1>19. InPlace(OB, NB, h)
  BY <1>10, <1>16
<1>20. \A i \in h..z : old[i] = new[i]
  BY <1>8, <1>18, <1>19, LinesStay
<1> QED
  BY <1>1, <1>4, <1>5, <1>17, <1>20

(* A chunk that is not dirty is what it was in the previous pass.          *)
LEMMA ChunkStays ==
    ASSUME IsProject(texts), IsProject(db.texts), ChangedWithinChunks, HashesKept,
           NEW ds, db.defs = RowsOf(ds), NEW c \in Names, c \notin DirtyAtFirst,
           SaidOf(db.texts, c, ds[c]), ds[c] \in Seq(Range(ds[c])),
           SaidOf(texts, c, store.defs[c]), store.defs[c] \in Seq(Range(store.defs[c]))
    PROVE  ds[c] = store.defs[c]
<1>0. SamePlaces(db.texts, texts) /\ DefinitionsEnd(texts) /\ Current(c) \subseteq Begins(c)
  BY DEF ChangedWithinChunks, Current
<1>1. CurrentOf(db.texts, c) = Current(c) /\ CurrentOf(texts, c) = Current(c)
      /\ \A p : EndsOf(texts, p) = Ends(p) /\ DefinitionOf(texts, p) = DefinitionAt(p)
  BY <1>0, SamePlacesSay, OfTexts
<1>2. \A p \in Current(c) : p \in PlacesOf(texts) /\ p[1] \in DOMAIN texts
  BY <1>0, BeginsAre, OfTexts, Sources
<1>3. ASSUME NEW p \in Current(c)
      PROVE  /\ DefinitionAt(p).end = Ends(p) /\ Ends(p) # 0
             /\ DefinitionOf(db.texts, p).end = Ends(p)
             /\ DefinitionOf(db.texts, p).file = p[1] /\ DefinitionOf(db.texts, p).line = p[2]
  <2>1. p \in Begins(c) /\ p[1] \in DOMAIN texts
    BY <1>0, <1>2
  <2>2. DefinitionAt(p).end # 0
    BY <1>0, <2>1, CleanEnds DEF DefinitionsEnd, ClosesBelow, Says
  <2>3. DefinitionAt(p).end = Ends(p)
    BY <2>2 DEF DefinitionAt
  <2>4. DefinitionOf(db.texts, p).end = Ends(p)
    BY <1>0, <1>1, <1>2, <2>3, SamePlacesSay
  <2>5. DefinitionOf(db.texts, p).file = p[1] /\ DefinitionOf(db.texts, p).line = p[2]
    BY DEF DefinitionOf
  <2> QED
    BY <2>2, <2>3, <2>4, <2>5
<1>4. ASSUME NEW p \in Current(c)
      PROVE  \E d \in db.defs : /\ d.chunk = c /\ d.file = p[1]
                                /\ d.first = p[2] /\ d.last = Ends(p)
  <2>1. PICK k \in DOMAIN ds[c] : Place(ds[c][k]) = p
    BY <1>1 DEF SaidOf
  <2>2. PICK x : x = ds[c][k]
    OBVIOUS
  <2>3. x \in Range(ds[c]) /\ x = DefinitionOf(db.texts, p)
    BY <2>1, <2>2 DEF SaidOf, Range
  <2>4. x.end = Ends(p) /\ x.end # 0 /\ x.file = p[1] /\ x.line = p[2]
    BY <1>3, <2>3
  <2>5. [chunk |-> c, file |-> x.file, first |-> x.line, last |-> x.end] \in db.defs
    BY <2>3, <2>4 DEF RowsOf
  <2> QED
    BY <2>4, <2>5
<1>5. ASSUME NEW p \in Current(c) PROVE DefinitionOf(db.texts, p) = DefinitionOf(texts, p)
  <2>1. \A i \in p[2]..(Ends(p) - 1) : db.texts[p[1]][i] = texts[p[1]][i]
    BY <1>4, DefinitionStays
  <2>2. PICK e : e = Ends(p)
    OBVIOUS
  <2>3. e \in Nat /\ p[2] \in Nat /\ p[2] < e
    <3>1. p = <<p[1], p[2]>> /\ p[1] \in 1..Len(texts) /\ p[2] \in 1..Len(texts[p[1]]) /\ p[2] \in Nat
      BY <1>0, BeginsAre
    <3> QED
      BY <2>2, <3>1, EndsIs
  <2>4. p \in PlacesOf(texts) /\ EndsOf(texts, p) = e
    BY <1>1, <1>2, <2>2
  <2> QED
    BY <1>0, <2>1, <2>2, <2>3, <2>4, SameLines
<1> QED
  BY <1>1, <1>5, SameDefinitions

(* What is dirty at first is dirty, and so is every user of a dirty chunk. *)
LEMMA DirtyClosed ==
    ASSUME \A d \in db.defs : d.chunk \in Names, \A e \in db.deps : e[1] \in Names
    PROVE  /\ DirtyAtFirst \subseteq DirtyChunks
           /\ \A e \in db.deps : e[2] \in DirtyChunks => e[1] \in DirtyChunks
<1>0. IsFiniteSet(Names)
  BY ConstantsOK, FS_Union DEF Names
<1>1. PICK A : A = DirtyAtFirst
  OBVIOUS
<1>2. A \in SUBSET Names
  BY <1>1 DEF DirtyAtFirst, DefsOverlapping
<1> DEFINE users(s) == s \cup {e[1] : e \in {x \in db.deps : x[2] \in s}}
           F == [X \in SUBSET Names |-> users(X)]
           Eq(h) == h = [k \in Nat |-> IF k = 0 THEN A ELSE users(h[k - 1])]
           v == CHOOSE h : Eq(h)
<1>3. F \in [SUBSET Names -> SUBSET Names]
  OBVIOUS
<1>4. PICK g \in [Nat -> SUBSET Names] : g[0] = A /\ \A k \in Nat : g[k + 1] = F[g[k]]
  <2> DEFINE S == SUBSET Names
  <2>1. A \in S /\ F \in [S -> S]
    BY <1>2, <1>3
  <2> HIDE DEF S, F
  <2>2. \E g \in [Nat -> S] : g[0] = A /\ \A k \in Nat : g[k + 1] = F[g[k]]
    BY <2>1, Iteration
  <2> QED
    BY <2>2 DEF S
<1>5. \A X \in SUBSET Names : F[X] = users(X)
  OBVIOUS
<1> HIDE DEF users
<1>6. Eq(g)
  <2>1. ASSUME NEW k \in Nat PROVE g[k] = IF k = 0 THEN A ELSE users(g[k - 1])
    <3>1. CASE k = 0
      BY <1>4, <3>1
    <3>2. CASE k # 0
      <4>1. k - 1 \in Nat /\ (k - 1) + 1 = k
        BY <3>2
      <4>2. g[k - 1] \in SUBSET Names
        BY <1>4, <4>1
      <4> HIDE DEF F
      <4> QED
        BY <1>4, <1>5, <3>2, <4>1, <4>2
    <3> QED
      BY <3>1, <3>2
  <2> QED
    BY <1>4, <2>1
<1>7. Eq(v)
  BY <1>6, Zenon
<1>8. DirtyChunks = v[Cardinality(Names)]
  BY <1>1, Zenon DEF DirtyChunks, users
<1> HIDE DEF v, F
<1>9. \A k \in Nat : v[k] = g[k]
  <2> DEFINE T == {k \in Nat : v[k] = g[k]}
  <2>1. 0 \in T
    BY <1>4, <1>7
  <2>2. ASSUME NEW k \in Nat, k \in T PROVE k + 1 \in T
    <3>1. v[k + 1] = users(v[k])
      BY <1>7
    <3>2. g[k + 1] = users(g[k])
      BY <1>4, <1>5
    <3> QED
      BY <2>2, <3>1, <3>2
  <2>3. \A k \in Nat : k \in T
    <3> HIDE DEF T
    <3> QED
      BY <2>1, <2>2, NatSets
  <2> QED
    BY <2>3
<1>10. \A k \in Nat : g[k] \subseteq g[k + 1]
  BY <1>4, <1>5 DEF users
<1>11. F[g[Cardinality(Names)]] = g[Cardinality(Names)]
  BY <1>0, <1>3, <1>4, <1>10, GrowthEnds
<1>12. Cardinality(Names) \in Nat
  BY <1>0, FS_CardinalityType
<1>13. PICK D : D = DirtyChunks
  OBVIOUS
<1>14. D = g[Cardinality(Names)] /\ D \in SUBSET Names /\ users(D) = D
  BY <1>4, <1>5, <1>8, <1>9, <1>11, <1>12, <1>13
<1>15. \A k \in Nat : A \subseteq g[k]
  <2> DEFINE T == {k \in Nat : A \subseteq g[k]}
  <2>1. 0 \in T
    BY <1>4
  <2>2. ASSUME NEW k \in Nat, k \in T PROVE k + 1 \in T
    BY <1>10, <2>2
  <2>3. \A k \in Nat : k \in T
    <3> HIDE DEF T
    <3> QED
      BY <2>1, <2>2, NatSets
  <2> QED
    BY <2>3
<1>16. A \subseteq D
  BY <1>12, <1>14, <1>15
<1>17. \A e \in db.deps : e[2] \in D => e[1] \in D
  BY <1>14 DEF users
<1> QED
  BY <1>1, <1>13, <1>16, <1>17
-----------------------------------------------------------------------------
(* Expansion of the definitions ds, for those of an earlier pass.          *)
ExpandedOf(ds, below, x) ==
    LET defs == Order(x.opts, ds[x.chunk])
    IN  IF OnCycle(x.stack, x.chunk) THEN Failed("RecursiveReference")
        ELSE IF defs # <<>>
             THEN Joined([i \in DOMAIN defs |-> Definition(below, x, defs[i])])
        ELSE IF strict THEN Failed("UndefinedChunk") ELSE Nothing

LevelsOf(ds, e) ==
    /\ \A x \in Calls : e[0][x] = Failed("RecursionLimit")
    /\ \A k \in Nat : \A x \in Calls : e[k + 1][x] = ExpandedOf(ds, e[k], x)

(* The definitions are sequences, and their references name chunks.        *)
Sound(ds) ==
    \A c \in Names :
        /\ ds[c] \in Seq(Range(ds[c]))
        /\ \A d \in Range(ds[c]) : BodyOK(d.body)

LEMMA LevelsOfStore ==
    /\ \A e : Levels(e) => LevelsOf(store.defs, e)
    /\ DefsOK => Sound(store.defs)
<1>1. \A below, x : Expanded(below, x) = ExpandedOf(store.defs, below, x)
  BY DEF Expanded, ExpandedOf
<1> QED
  BY <1>1 DEF Levels, LevelsOf, DefsOK, Sound

LEMMA SameBelow ==
    ASSUME NEW ds, Sound(ds), NEW es, NEW x \in Calls, ds[x.chunk] = es[x.chunk],
           NEW r, NEW s,
           \A l \in UNION {RefsIn(d) : d \in Range(ds[x.chunk])} : r[SubCall(x, l)] = s[SubCall(x, l)]
    PROVE  ExpandedOf(ds, r, x) = ExpandedOf(es, s, x)
<1> DEFINE defs == Order(x.opts, ds[x.chunk])
<1>0. x.chunk \in Names
  BY DEF Calls
<1>1. Order(x.opts, es[x.chunk]) = defs
  OBVIOUS
<1>2. Range(defs) = Range(ds[x.chunk])
  <2>1. ds[x.chunk] \in Seq(Range(ds[x.chunk]))
    BY <1>0 DEF Sound
  <2> QED
    BY <2>1, OrderKeeps
<1>3. ASSUME NEW d \in Range(ds[x.chunk]) PROVE Definition(r, x, d) = Definition(s, x, d)
  <2> DEFINE q(w) == [k \in DOMAIN d.body |-> Item(w, x, d, k)]
  <2>1. ASSUME NEW k \in DOMAIN d.body PROVE Item(r, x, d, k) = Item(s, x, d, k)
    <3>1. CASE d.body[k].kind = "ref"
      <4>1. d.body[k] \in RefsIn(d)
        BY <3>1 DEF RefsIn, Range
      <4>2. r[SubCall(x, d.body[k])] = s[SubCall(x, d.body[k])]
        BY <4>1
      <4> QED
        BY <4>2 DEF Item, SubCall
    <3>2. CASE d.body[k].kind # "ref"
      BY <3>2 DEF Item
    <3> QED
      BY <3>1, <3>2
  <2>2. q(r) = q(s)
    BY <2>1
  <2>3. /\ Definition(r, x, d) = [Joined(q(r)) EXCEPT !.lines = Spaced(x.opts, @)]
        /\ Definition(s, x, d) = [Joined(q(s)) EXCEPT !.lines = Spaced(x.opts, @)]
    BY DEF Definition
  <2> HIDE DEF q
  <2> QED
    BY <2>2, <2>3
<1> HIDE DEF defs
<1> DEFINE z(w) == [i \in DOMAIN defs |-> Definition(w, x, defs[i])]
<1>4. z(r) = z(s)
  <2>1. ASSUME NEW i \in DOMAIN defs PROVE Definition(r, x, defs[i]) = Definition(s, x, defs[i])
    BY <1>2, <1>3 DEF Range
  <2> QED
    BY <2>1
<1>5. Joined(z(r)) = Joined(z(s))
  <2> HIDE DEF z
  <2> QED
    BY <1>4
<1> QED
  BY <1>1, <1>5 DEF ExpandedOf, defs

LeadsWithin(ds, C) == \A c \in C : \A d \in Range(ds[c]) : \A l \in RefsIn(d) : l.name \in C
AgreeOn(ds, es, C) == \A c \in C : ds[c] = es[c]

(* Definitions that agree on chunks from which references do not lead away *)
(* expand to the same.                                                     *)
LEMMA SameExpansions ==
    ASSUME NEW ds, Sound(ds), NEW es, NEW C \in SUBSET Names, AgreeOn(ds, es, C), LeadsWithin(ds, C),
           NEW r, LevelsOf(ds, r), NEW s, LevelsOf(es, s)
    PROVE  \A k \in Nat : \A x \in Calls : x.chunk \in C => r[k][x] = s[k][x]
<1> DEFINE Good == {k \in Nat : \A x \in Calls : x.chunk \in C => r[k][x] = s[k][x]}
<1>1. 0 \in Good
  BY DEF LevelsOf
<1>2. ASSUME NEW k \in Nat, k \in Good PROVE k + 1 \in Good
  <2>1. SUFFICES ASSUME NEW x \in Calls, x.chunk \in C PROVE r[k + 1][x] = s[k + 1][x]
    OBVIOUS
  <2>2. ASSUME NEW d \in Range(ds[x.chunk]), NEW l \in RefsIn(d)
        PROVE  r[k][SubCall(x, l)] = s[k][SubCall(x, l)]
    <3>1. l.name \in C
      BY <2>1 DEF LeadsWithin
    <3>2. SubCall(x, l) \in Calls /\ SubCall(x, l).chunk = l.name
      <4>1. BodyOK(d.body)
        BY <2>1 DEF Sound
      <4>2. PICK j \in DOMAIN d.body : l = d.body[j] /\ l.kind = "ref"
        BY DEF RefsIn, Range
      <4>3. l.name \in Names /\ l.opts \in SUBSET Options
        BY <4>1, <4>2 DEF BodyOK, IsLine
      <4>4. Append(x.stack, x.chunk) \in Seq(Names)
        BY DEF Calls
      <4> QED
        BY <4>3, <4>4 DEF SubCall, Calls
    <3> QED
      BY <1>2, <3>1, <3>2
  <2>3. ExpandedOf(ds, r[k], x) = ExpandedOf(es, s[k], x)
    <3>1. PICK rk : rk = r[k]
      OBVIOUS
    <3>2. PICK sk : sk = s[k]
      OBVIOUS
    <3>3. \A l \in UNION {RefsIn(d) : d \in Range(ds[x.chunk])} : rk[SubCall(x, l)] = sk[SubCall(x, l)]
      BY <2>2, <3>1, <3>2
    <3>4. ds[x.chunk] = es[x.chunk]
      BY <2>1 DEF AgreeOn
    <3>5. ExpandedOf(ds, rk, x) = ExpandedOf(es, sk, x)
      BY <3>3, <3>4, SameBelow
    <3> QED
      BY <3>1, <3>2, <3>5
  <2> QED
    BY <2>3 DEF LevelsOf
<1>3. Nat \subseteq Good
  <2> HIDE DEF Good
  <2> QED
    BY <1>1, <1>2, NatSets
<1> QED
  BY <1>3

(* The recorded edges hold all references from the chunks that f leads to. *)
RecordedOf(ds, f) ==
    \E C \in SUBSET Names :
        /\ f \in C
        /\ \A c \in C : \A d \in Range(ds[c]) : \A l \in RefsIn(d) :
              l.name \in C /\ \E e \in db.deps : e[1] = c /\ e[2] = l.name

(* The database was merged by a pass that read the definitions ds. *)
DbSays(ds) ==
    /\ IsProject(db.texts)
    /\ Sound(ds)
    /\ \A c \in Names : SaidOf(db.texts, c, ds[c])
    /\ db.defs = RowsOf(ds)
    /\ HashesKept
    /\ \A e \in db.deps : e[1] \in Names
    /\ \A f \in Files : ds[f] # <<>> => RecordedOf(ds, f)

(* A generated file with a baseline holds the expansion of ds, unless the  *)
(* pass under way has written it.                                          *)
ShowsOf(ds, f) ==
    \E e : LevelsOf(ds, e) /\ disk[f] = OnDisk(e[MaxDepth + 1][RootCall(f)].lines)

FilesShow(ds) ==
    \A f \in Files : /\ f \in db.baselines /\ f \in DOMAIN disk /\ ds[f] # <<>>
                     /\ pc = "done" \/ f \notin own.written
                     => ShowsOf(ds, f)

(* A file that compute_skip_set takes for unchanged holds what the sources *)
(* generate, where headers and ends have stayed.                           *)
LEMMA SkippedIsFresh ==
    ASSUME IsProject(texts), store \in StoreType, ChangedWithinChunks,
           \A c \in Names : SaidOf(texts, c, store.defs[c]),
           NEW ds, DbSays(ds), FilesShow(ds), own.written = {}, NEW f \in SkippedFiles
    PROVE  f \in DOMAIN disk /\ disk[f] = OnDisk(Expansion(f).lines)
<1>1. /\ f \in Files /\ f \in Names /\ f \notin DirtyChunks /\ f \in db.baselines /\ f \in DOMAIN disk
      /\ \E d \in db.defs : d.chunk = f
  BY DEF SkippedFiles, Names
<1>2. ds[f] # <<>>
  <2>1. PICK d \in db.defs : d.chunk = f
    BY <1>1
  <2>2. \E x \in Range(ds[f]) : TRUE
    BY <2>1 DEF DbSays, RowsOf
  <2>3. \E k \in DOMAIN ds[f] : TRUE
    BY <2>2 DEF Range
  <2> QED
    BY <2>3
<1>3. PICK C \in SUBSET Names :
         /\ f \in C
         /\ \A c \in C : \A d \in Range(ds[c]) : \A l \in RefsIn(d) :
               l.name \in C /\ \E e \in db.deps : e[1] = c /\ e[2] = l.name
  BY <1>1, <1>2 DEF DbSays, RecordedOf
<1>4. /\ DirtyAtFirst \subseteq DirtyChunks
      /\ \A e \in db.deps : e[2] \in DirtyChunks => e[1] \in DirtyChunks
  <2>1. \A d \in db.defs : d.chunk \in Names
    BY DEF DbSays, RowsOf
  <2> QED
    BY <2>1, DirtyClosed DEF DbSays
<1> DEFINE K == {c \in C : c \notin DirtyChunks}
<1>5. K \in SUBSET Names /\ f \in K
  BY <1>1, <1>3
<1>6. ASSUME NEW c \in K, NEW d \in Range(ds[c]), NEW l \in RefsIn(d) PROVE l.name \in K
  BY <1>3, <1>4
<1>7. DefsOK
  BY StoredDefs
<1>8. ASSUME NEW c \in K PROVE ds[c] = store.defs[c]
  <2>1. c \in Names /\ c \notin DirtyAtFirst
    BY <1>4, <1>5
  <2>2. /\ IsProject(db.texts) /\ HashesKept /\ db.defs = RowsOf(ds)
        /\ SaidOf(db.texts, c, ds[c]) /\ ds[c] \in Seq(Range(ds[c]))
    BY <2>1 DEF DbSays, Sound
  <2>3. SaidOf(texts, c, store.defs[c]) /\ store.defs[c] \in Seq(Range(store.defs[c]))
    BY <1>7, <2>1 DEF DefsOK
  <2> QED
    BY <2>1, <2>2, <2>3, ChunkStays
<1> HIDE DEF K
<1>9. PICK r : LevelsOf(ds, r) /\ disk[f] = OnDisk(r[MaxDepth + 1][RootCall(f)].lines)
  BY <1>1, <1>2 DEF FilesShow, ShowsOf
<1>10. PICK g : Levels(g) /\ Expansion(f) = g[MaxDepth + 1][RootCall(f)]
  BY <1>1, <1>7, ExpansionLevels
<1>11. LevelsOf(store.defs, g) /\ Sound(ds)
  BY <1>10, LevelsOfStore DEF DbSays
<1>12. \A k \in Nat : \A x \in Calls : x.chunk \in K => r[k][x] = g[k][x]
  <2>1. AgreeOn(ds, store.defs, K) /\ LeadsWithin(ds, K)
    BY <1>6, <1>8 DEF AgreeOn, LeadsWithin
  <2> QED
    BY <1>5, <1>9, <1>11, <2>1, SameExpansions
<1>13. MaxDepth + 1 \in Nat /\ RootCall(f) \in Calls /\ RootCall(f).chunk = f
  BY <1>1, <1>7, ConstantsOK, ExpansionLevels DEF RootCall
<1>14. r[MaxDepth + 1][RootCall(f)] = g[MaxDepth + 1][RootCall(f)]
  BY <1>5, <1>12, <1>13
<1> QED
  BY <1>1, <1>9, <1>10, <1>14
-----------------------------------------------------------------------------
(* An `@file` chunk with a definition is in the list of files. *)
Filed(ds, files) == \A c \in Files : ds[c] # <<>> => c \in Range(files)

(* Only a header that begins a definition adds to the list. *)
LEMMA OtherLinesFile ==
    ASSUME IsProject(texts), NEW f \in 1..Len(texts), NEW i \in 1..Len(texts[f]), NEW s \in Reader,
           texts[f][i].kind # "open" \/ Ignored(s, texts[f][i])
    PROVE  ReadLine(s, f, i).files = s.files
<1> DEFINE l == texts[f][i]
           t == ReadLine(s, f, i)
           d == OpenDef(s)
<1>1. IsLine(l) /\ i \in Nat /\ l \in Lines
  BY Sources
<1>2. CASE l.kind = "open"
  <2>1. Ignored(s, l) /\ t = Header(s, f, i, l)
    BY <1>2 DEF ReadLine
  <2>2. t = s \/ \E e : t = [s EXCEPT !.errors = e]
    <3>1. CASE l.name \in Unsafe
      <4>1. l.name \notin Files
        BY <3>1, ConstantsOK
      <4> QED
        BY <2>1, <3>1, <4>1 DEF Header
    <3>2. CASE l.name \notin Unsafe
      <4>1. l.name \in Files /\ s.defs[l.name] # <<>> /\ ~l.replace
        BY <2>1, <3>2 DEF Ignored
      <4> QED
        BY <2>1, <3>2, <4>1 DEF Header
    <3> QED
      BY <3>1, <3>2
  <2> HIDE DEF t
  <2>3. t.files = s.files
    BY <2>2 DEF Reader
  <2> QED
    BY <2>3 DEF t
<1>3. CASE l.kind # "open" /\ s.open = <<>>
  BY <1>3, ReadLineCases
<1>4. CASE l.kind # "open" /\ s.open # <<>>
  <2>1. d \in Defs
    BY <1>4, OpenDefIs
  <2>2. CASE l.kind = "close"
    <3>1. PICK e : e = [d EXCEPT !.end = i]
      OBVIOUS
    <3>2. e \in Defs
      BY <1>1, <2>1, <3>1 DEF Defs
    <3>3. PICK u : u = ChangeOpen(s, e)
      OBVIOUS
    <3>4. u \in Reader /\ u.files = s.files
      BY <1>4, <3>2, <3>3, ChangeOpenIs
    <3>5. t = [u EXCEPT !.open = <<>>]
      BY <1>4, <2>2, <3>1, <3>3 DEF ReadLine
    <3> HIDE DEF t
    <3>6. t.files = s.files
      BY <3>4, <3>5 DEF Reader
    <3> QED
      BY <3>6 DEF t
  <2>3. CASE l.kind # "close"
    <3>1. PICK e : e = [d EXCEPT !.body = Append(@, l)]
      OBVIOUS
    <3>2. e \in Defs /\ t = ChangeOpen(s, e)
      BY <1>4, <2>3, <3>1, ReadLineCases
    <3> QED
      BY <1>4, <3>2, ChangeOpenIs
  <2> QED
    BY <2>2, <2>3
<1> QED
  BY <1>2, <1>3, <1>4

LEMMA LineFiles ==
    ASSUME IsProject(texts), NEW f \in 1..Len(texts), NEW i \in 1..Len(texts[f]), NEW s \in Reader,
           Filed(s.defs, s.files)
    PROVE  Filed(ReadLine(s, f, i).defs, ReadLine(s, f, i).files)
<1> DEFINE l == texts[f][i]
           d == OpenDef(s)
<1>0. PICK t : t = ReadLine(s, f, i)
  OBVIOUS
<1>1. CASE l.kind = "open" /\ ~Ignored(s, l)
  <2>1. l.name \in Names /\ t = Begin(s, f, i, l) /\ l \in Lines /\ f \in Nat /\ i \in Nat
    <3>1. l.name \in Names /\ t = Begin(s, f, i, l)
      BY <1>0, <1>1, ReadLineCases
    <3>2. l \in Lines /\ f \in Nat /\ i \in Nat
      BY Sources
    <3> QED
      BY <3>1, <3>2
  <2>2. HasBegun(t, s, f, i, l)
    BY <2>1, BeginIs
  <2>3. \A x \in Names : x # l.name => t.defs[x] = s.defs[x]
    BY <2>2 DEF HasBegun
  <2>4. t.files = IF l.name \in Files /\ ~Contains(s.files, l.name)
                  THEN Append(s.files, l.name) ELSE s.files
    BY <2>1 DEF Begin, Reader
  <2>5. PICK fs : fs = s.files
    OBVIOUS
  <2>6. fs \in Seq(Files)
    BY <2>5 DEF Reader
  <2>7. Range(fs) \subseteq Range(t.files)
    <3>1. CASE t.files = fs
      BY <3>1
    <3>2. CASE l.name \in Files /\ t.files = Append(fs, l.name)
      BY <2>6, <3>2, RangeOfAppend
    <3> QED
      BY <2>4, <2>5, <3>1, <3>2
  <2>8. l.name \in Files => l.name \in Range(t.files)
    <3>1. CASE l.name \in Files /\ Contains(fs, l.name)
      <4>1. PICK k \in 1..Len(fs) : fs[k] = l.name
        BY <3>1 DEF Contains
      <4>2. k \in DOMAIN fs
        BY <2>6
      <4>3. l.name \in Range(fs)
        BY <4>1, <4>2 DEF Range
      <4> QED
        BY <2>7, <4>3
    <3>2. CASE l.name \in Files /\ ~Contains(fs, l.name)
      BY <2>4, <2>5, <2>6, <3>2, RangeOfAppend
    <3> QED
      BY <3>1, <3>2
  <2> HIDE DEF l
  <2> QED
    BY <1>0, <2>3, <2>5, <2>7, <2>8 DEF Filed, Names
<1>2. CASE ~(l.kind = "open" /\ ~Ignored(s, l))
  <2>1. t.files = s.files
    BY <1>0, <1>2, OtherLinesFile
  <2>2. \A c \in Names : s.defs[c] = <<>> => t.defs[c] = <<>>
    <3>1. CASE l.kind = "open" \/ s.open = <<>>
      BY <1>0, <1>2, <3>1, ReadLineCases
    <3>2. CASE l.kind # "open" /\ s.open # <<>>
      <4>1. PICK e \in Defs : t.defs = ChangeOpen(s, e).defs
        <5>1. CASE l.kind = "close"
          BY <1>0, <3>2, <5>1, ReadLineCases
        <5>2. CASE l.kind # "close"
          BY <1>0, <3>2, <5>2, ReadLineCases
        <5> QED
          BY <5>1, <5>2
      <4>2. \A x \in Names : x # s.open[1] => t.defs[x] = s.defs[x]
        BY <3>2, <4>1, ChangeOpenIs
      <4>3. s.defs[s.open[1]] # <<>>
        BY <3>2, OpenDefIs
      <4> QED
        BY <4>2, <4>3
    <3> QED
      BY <3>1, <3>2
  <2> QED
    BY <1>0, <2>1, <2>2 DEF Filed, Names
<1> QED
  BY <1>1, <1>2

LEMMA SourceFiles ==
    ASSUME IsProject(texts), NEW f \in 1..Len(texts), store \in StoreType,
           Filed(store.defs, store.files)
    PROVE  Filed(ReadSource(f).defs, ReadSource(f).files)
<1>1. PICK g : ReadsBy(g, f)
  BY SourceReads
<1>2. PICK m : m = Len(texts[f])
  OBVIOUS
<1>3. /\ m \in Nat /\ g \in [Nat -> Reader]
      /\ g[0].defs = store.defs /\ g[0].files = store.files
      /\ \A i \in 1..m : g[i] = ReadLine(g[i - 1], f, i)
      /\ ReadSource(f) = g[m]
  <2>1. m \in Nat
    BY <1>2, Sources
  <2>2. g \in [Nat -> Reader] /\ g[0].defs = store.defs /\ g[0].files = store.files
    BY <1>1 DEF ReadsBy
  <2>3. (\A i \in 1..m : g[i] = ReadLine(g[i - 1], f, i)) /\ ReadSource(f) = g[m]
    BY <1>1, <1>2 DEF ReadsBy
  <2> QED
    BY <2>1, <2>2, <2>3
<1> DEFINE Fine == {k \in Nat : k <= m => Filed(g[k].defs, g[k].files)}
<1>4. 0 \in Fine
  BY <1>3
<1>5. ASSUME NEW k \in Nat, k \in Fine PROVE k + 1 \in Fine
  <2> SUFFICES ASSUME k + 1 <= m PROVE Filed(g[k + 1].defs, g[k + 1].files)
    OBVIOUS
  <2>1. k + 1 \in 1..m /\ (k + 1) - 1 = k /\ k <= m
    BY <1>3
  <2>2. PICK s \in Reader : s = g[k]
    BY <1>3
  <2>3. Filed(s.defs, s.files)
    BY <1>5, <2>1, <2>2
  <2>4. PICK i : i = k + 1
    OBVIOUS
  <2>5. i \in 1..Len(texts[f]) /\ g[i] = ReadLine(s, f, i)
    BY <1>2, <1>3, <2>1, <2>2, <2>4
  <2>6. Filed(ReadLine(s, f, i).defs, ReadLine(s, f, i).files)
    BY <2>3, <2>5, LineFiles
  <2> QED
    BY <2>4, <2>5, <2>6
<1>6. Nat \subseteq Fine
  <2> HIDE DEF Fine
  <2> QED
    BY <1>4, <1>5, NatSets
<1> QED
  BY <1>3, <1>6

(* Every `@file` chunk that is defined will be expanded. *)
FilesListed == Filed(store.defs, store.files)

LEMMA ListedNext ==
    ASSUME TypeI, FilesListed, [IncNext]_incVars
    PROVE  FilesListed'
<1>1. CASE Read
  <2>1. PICK f \in 1..Len(texts) : f = n + 1
    BY <1>1, Sources DEF TypeI, Read
  <2>2. store'.defs = ReadSource(f).defs /\ store'.files = ReadSource(f).files
    BY <1>1, <2>1 DEF Read
  <2>3. Filed(ReadSource(f).defs, ReadSource(f).files)
    BY SourceFiles DEF TypeI, FilesListed
  <2> QED
    BY <2>2, <2>3 DEF FilesListed, Filed
<1>2. CASE Revise
  BY <1>2 DEF Revise, EmptyStore, FilesListed, Filed, Names
<1>3. CASE store' = store
  BY <1>3 DEF FilesListed, Filed
<1>4. Read \/ Revise \/ store' = store
  BY DEF IncNext, incVars, Reading, StartPass, WriteOutput, FinishPass, Cover, Refuse,
         StartWriting, ExpandFile, Finish
<1> QED
  BY <1>1, <1>2, <1>3, <1>4

(* Nothing in a pass changes what the sources generate. *)
LEMMA ExpansionStays ==
    ASSUME UNCHANGED <<store, strict>>, NEW c
    PROVE  Expansion(c)' = Expansion(c)
<1>1. ASSUME NEW below, NEW x PROVE Expanded(below, x)' = Expanded(below, x)
  <2>1. PICK o : o = store.defs[x.chunk]
    OBVIOUS
  <2>2. store'.defs[x.chunk] = o /\ strict' = strict
    BY <2>1
  <2> QED
    BY <2>1, <2>2 DEF Expanded
<1> DEFINE Eq(h) == h = [left \in Nat |->
                           [x \in Calls |-> IF left = 0 THEN Failed("RecursionLimit")
                                            ELSE Expanded(h[left - 1], x)]]
           e == CHOOSE h : Eq(h)
           x0 == [chunk |-> c, opts |-> {}, stack |-> <<>>]
<1>2. ASSUME NEW h PROVE Eq(h)' <=> Eq(h)
  BY <1>1
<1>3. Expansion(c) = e[MaxDepth + 1][x0]
  BY DEF Expansion
<1>4. Expansion(c)' = (e')[MaxDepth + 1][x0]
  BY DEF Expansion
<1> HIDE DEF Eq
<1>5. e' = e
  BY <1>2, Zenon
<1> HIDE DEF e, x0
<1> QED
  BY <1>3, <1>4, <1>5

LEMMA OnDiskStays ==
    ASSUME setting' = setting, NEW lines
    PROVE  OnDisk(lines)' = OnDisk(lines)
BY DEF OnDisk

LEMMA LevelsStay ==
    ASSUME strict' = strict, NEW ds, NEW e
    PROVE  LevelsOf(ds, e)' <=> LevelsOf(ds, e)
BY DEF LevelsOf, ExpandedOf

LEMMA HashesStay ==
    ASSUME setting' = setting, NEW t
    PROVE  BlocksOf(t)' = BlocksOf(t) /\ Hashes(t)' = Hashes(t) /\ BlocksCover(t)' = BlocksCover(t)
BY DEF BlocksOf, Hashes, BlocksCover

LEMMA ChangedStays ==
    ASSUME UNCHANGED <<texts, db, setting>>
    PROVE  ChangedWithinChunks' <=> ChangedWithinChunks
<1>1. \A c : Headers(c)' = Headers(c) /\ Current(c)' = Current(c)
  BY DEF Current, Begins, Headers, Places, LineAt
<1>2. PICK b : b = db
  OBVIOUS
<1>3. PICK t : t = texts
  OBVIOUS
<1>4. db' = b /\ texts' = t
  BY <1>2, <1>3
<1>5. \A f : /\ BlocksCover(b.texts[f])' <=> BlocksCover(b.texts[f])
             /\ BlocksCover(t[f])' <=> BlocksCover(t[f])
  BY HashesStay
<1> QED
  BY <1>1, <1>2, <1>3, <1>4, <1>5 DEF ChangedWithinChunks

LEMMA SaysStays ==
    ASSUME UNCHANGED <<db, setting>>, NEW ds, DbSays(ds)
    PROVE  DbSays(ds)'
<1>1. PICK b : b = db
  OBVIOUS
<1>2. db' = b
  BY <1>1
<1>3. \A f : Hashes(b.texts[f])' = Hashes(b.texts[f])
  BY HashesStay
<1>4. HashesKept'
  BY <1>1, <1>2, <1>3 DEF HashesKept, DbSays
<1>5. \A f : RecordedOf(ds, f)' <=> RecordedOf(ds, f)
  BY DEF RecordedOf
<1> QED
  BY <1>1, <1>2, <1>4, <1>5 DEF DbSays

LEMMA ShowsStays ==
    ASSUME UNCHANGED <<strict, setting>>, NEW ds, NEW f, disk'[f] = disk[f]
    PROVE  ShowsOf(ds, f)' <=> ShowsOf(ds, f)
<1>1. \A e : LevelsOf(ds, e)' <=> LevelsOf(ds, e)
  BY LevelsStay
<1>2. \A e : OnDisk(e[MaxDepth + 1][RootCall(f)].lines)' = OnDisk(e[MaxDepth + 1][RootCall(f)].lines)
  BY DEF OnDisk
<1> QED
  BY <1>1, <1>2 DEF ShowsOf
-----------------------------------------------------------------------------
(* What the sources generate is on disk. *)
Fresh(f) == f \in DOMAIN disk /\ disk[f] = OnDisk(Expansion(f).lines)

LEMMA FreshStays ==
    ASSUME UNCHANGED <<store, strict, setting>>, NEW f, Fresh(f),
           f \in DOMAIN disk => f \in DOMAIN disk' /\ disk'[f] = disk[f]
    PROVE  Fresh(f)'
<1>1. PICK lines : lines = Expansion(f).lines
  OBVIOUS
<1>2. (Expansion(f).lines)' = lines
  BY <1>1, ExpansionStays
<1>3. OnDisk(lines)' = OnDisk(lines)
  BY OnDiskStays
<1> QED
  BY <1>1, <1>2, <1>3 DEF Fresh

(* The outputs of the pass: output i is that of the file at i, it is on    *)
(* disk unless it was left out, and its edges are recorded.                *)
OutputOK(i) ==
    LET f == store.files[i]
    IN  /\ out[i].name = f
        /\ out[i].lines = Expansion(f).lines
        /\ out[i].deps \subseteq own.deps
        /\ f \notin skip => Fresh(f)

OutputsOK ==
    /\ DOMAIN out = 1..n /\ n <= Len(store.files)
    /\ \A i \in DOMAIN out : OutputOK(i)
    /\ \A e \in own.deps : \E i \in DOMAIN out : e \in out[i].deps

(* The invariant of the files: the database is that of some definitions,   *)
(* from which the files on disk were generated, and what this pass leaves  *)
(* out is what it would write.                                             *)
SkipInv ==
    /\ FilesListed
    /\ db.present /\ (pc = "done" => pass < MaxPasses) => \E ds : DbSays(ds) /\ FilesShow(ds)
    /\ ~db.present => skip = {}
    /\ pc = "expand" /\ ChangedWithinChunks => \A f \in skip : Fresh(f)
    /\ pc = "expand" => OutputsOK

LEMMA StoreSays ==
    ASSUME TypeI, ReadInv, pc # "read" \/ n = Len(texts)
    PROVE  \A c \in Names : SaidOf(texts, c, store.defs[c])
<1> SUFFICES ASSUME NEW c \in Names PROVE SaidOf(texts, c, store.defs[c])
  OBVIOUS
<1>1. IsProject(texts) /\ ChunkUpTo(store.defs[c], c, Len(texts) + 1, 0)
  BY DEF TypeI, ReadInv, StoreUpTo
<1>2. PICK ds : ds = store.defs[c]
  OBVIOUS
<1>3. /\ {Place(ds[k]) : k \in DOMAIN ds} = Current(c)
      /\ \A k \in DOMAIN ds :
            /\ ds[k] = DefinitionAt(Place(ds[k]))
            /\ \A j \in DOMAIN ds : k < j => Before(Place(ds[k]), Place(ds[j]))
  BY <1>1, <1>2, AllRead
<1>4. CurrentOf(texts, c) = Current(c) /\ \A p : DefinitionOf(texts, p) = DefinitionAt(p)
  BY OfTexts
<1> QED
  BY <1>2, <1>3, <1>4 DEF SaidOf

(* The pass begins to write. *)
LEMMA StartsFresh ==
    ASSUME TypeI, ReadInv, MapsInv, SkipInv, FilesListed', StartPass
    PROVE  SkipInv'
<1>1. /\ pc = "read" /\ n = Len(texts) /\ own = OwnDb /\ n' = 0 /\ out' = out /\ out = <<>>
      /\ UNCHANGED <<texts, strict, store, setting, pass, own, db, disk>>
      /\ pc' \in {"expand", "failed"}
      /\ skip' = IF force THEN {} ELSE SkippedFiles
  BY DEF StartPass, StartWriting, MapsInv, TypeI
<1>2. own.written = {} /\ own.deps = {}
  BY <1>1 DEF OwnDb
<1>3. \A c \in Names : SaidOf(texts, c, store.defs[c])
  BY <1>1, StoreSays
<1>4. ASSUME db.present
      PROVE  \E ds : DbSays(ds) /\ FilesShow(ds)
  BY <1>1, <1>4 DEF SkipInv
<1>5. ASSUME NEW ds, DbSays(ds), FilesShow(ds) PROVE DbSays(ds)' /\ FilesShow(ds)'
  <2>1. DbSays(ds)'
    BY <1>1, <1>5, SaysStays
  <2>2. \A f : ShowsOf(ds, f)' <=> ShowsOf(ds, f)
    BY <1>1, ShowsStays
  <2> QED
    BY <1>1, <1>5, <2>1, <2>2 DEF FilesShow
<1>6. ASSUME ~db.present PROVE skip' = {}
  BY <1>1, <1>6 DEF SkippedFiles
<1>7. ASSUME ChangedWithinChunks', NEW f \in skip' PROVE Fresh(f)'
  <2>1. db.present /\ f \in SkippedFiles
    BY <1>1, <1>6, <1>7
  <2>2. PICK ds : DbSays(ds) /\ FilesShow(ds)
    BY <1>4, <2>1
  <2>3. ChangedWithinChunks
    BY <1>1, <1>7, ChangedStays
  <2>4. Fresh(f)
    BY <1>2, <1>3, <2>1, <2>2, <2>3, SkippedIsFresh DEF Fresh, TypeI
  <2> QED
    BY <1>1, <2>4, FreshStays
<1>8. OutputsOK'
  <2>1. Len(store.files) \in Nat
    BY DEF TypeI, StoreType
  <2> QED
    BY <1>1, <1>2, <2>1 DEF OutputsOK
<1> QED
  BY <1>1, <1>4, <1>5, <1>6, <1>7, <1>8 DEF SkipInv

(* Recording the edges of an output deletes no edge of another one, though *)
(* it deletes all those of its sources.                                    *)
EdgesKept ==
    \A i, j \in DOMAIN out : \A e \in out[i].deps :
        e[3] \in {x[3] : x \in out[j].deps} => e \in out[j].deps

(* A step that only moves the pass on. *)
LEMMA OnlyMoves ==
    ASSUME SkipInv, FilesListed', UNCHANGED <<strict, setting, pass, own, db, disk, skip>>,
           pc' = "failed" \/ (pc' = pc /\ (pc # "expand" \/ UNCHANGED <<texts, store, n, out>>)),
           pc # "done" \/ pc' = pc
    PROVE  SkipInv'
<1>1. ASSUME NEW ds, DbSays(ds), FilesShow(ds) PROVE DbSays(ds)' /\ FilesShow(ds)'
  <2>1. DbSays(ds)'
    BY <1>1, SaysStays
  <2>2. \A f : ShowsOf(ds, f)' <=> ShowsOf(ds, f)
    BY ShowsStays
  <2> QED
    BY <1>1, <2>1, <2>2 DEF FilesShow
<1>2. db.present /\ (pc = "done" => pass < MaxPasses) => \E ds : DbSays(ds) /\ FilesShow(ds)
  BY DEF SkipInv
<1>3. (db.present /\ (pc = "done" => pass < MaxPasses) => \E ds : DbSays(ds) /\ FilesShow(ds))'
  BY <1>1, <1>2
<1>4. CASE pc' = "expand"
  <2>1. pc = "expand" /\ UNCHANGED <<texts, store, n, out>>
    BY <1>4
  <2>2. ASSUME ChangedWithinChunks', NEW f \in skip' PROVE Fresh(f)'
    <3>1. ChangedWithinChunks /\ f \in skip
      BY <2>1, <2>2, ChangedStays
    <3>2. Fresh(f)
      BY <2>1, <3>1 DEF SkipInv
    <3> QED
      BY <2>1, <3>2, FreshStays
  <2>3. OutputsOK
    BY <2>1 DEF SkipInv
  <2>4. ASSUME NEW i \in DOMAIN out' PROVE OutputOK(i)'
    <3>1. i \in DOMAIN out
      BY <2>1, <2>4
    <3>2. OutputOK(i)
      BY <2>3, <3>1 DEF OutputsOK
    <3>3. PICK f : f = store.files[i]
      OBVIOUS
    <3>4. Expansion(f)' = Expansion(f) /\ (Fresh(f) => Fresh(f)')
      BY <2>1, ExpansionStays, FreshStays
    <3>5. store'.files[i] = f
      BY <2>1, <3>3
    <3> QED
      BY <2>1, <3>2, <3>3, <3>4, <3>5 DEF OutputOK
  <2>5. OutputsOK'
    BY <2>1, <2>3, <2>4 DEF OutputsOK
  <2> QED
    BY <1>3, <2>2, <2>5 DEF SkipInv
<1>5. CASE pc' # "expand"
  BY <1>3, <1>5 DEF SkipInv
<1> QED
  BY <1>4, <1>5

(* What is written to disk and to the database of the pass for a file. *)
Wrote(o) ==
    /\ own'.deps = AddDeps(own.deps, o.deps)
    /\ own.written \subseteq own'.written
    /\ \A g \in DOMAIN disk : g \in DOMAIN disk' /\ (g # o.name => disk'[g] = disk[g])
    /\ \A g \in DOMAIN disk' : g \notin own'.written => g \in DOMAIN disk /\ disk'[g] = disk[g]
    /\ o.name \in skip => disk' = disk
    /\ o.name \notin skip => o.name \in DOMAIN disk' /\ disk'[o.name] = OnDisk(o.lines)

LEMMA OutputWritten ==
    ASSUME MapsInv, WriteOutput, pc' # "failed", NEW o, Last(out') = o
    PROVE  Wrote(o)
<1>1. own = [maps |-> own.maps, deps |-> own.deps, written |-> own.written]
  BY DEF MapsInv
<1>2. CASE o.name \in skip
  <2>1. disk' = disk /\ own'.deps = AddDeps(own.deps, o.deps) /\ own'.written = own.written
    BY <1>1, <1>2 DEF WriteOutput
  <2> QED
    BY <1>2, <2>1 DEF Wrote
<1>3. CASE o.name \notin skip
  <2>1. PICK post : post = OnDisk(o.lines)
    OBVIOUS
  <2>2. disk' = With(disk, o.name, post)
    BY <1>3, <2>1 DEF WriteOutput
  <2>3. \E m : own' = [own EXCEPT !.maps = m, !.deps = AddDeps(@, o.deps),
                                  !.written = @ \cup {o.name}]
    BY <1>3, <2>1, Zenon DEF WriteOutput
  <2>4. own'.deps = AddDeps(own.deps, o.deps) /\ own'.written = own.written \cup {o.name}
    BY <1>1, <2>3
  <2>5. /\ DOMAIN disk' = DOMAIN disk \cup {o.name} /\ disk'[o.name] = post
        /\ \A g \in DOMAIN disk : g # o.name => disk'[g] = disk[g]
    BY <2>2 DEF With
  <2> QED
    BY <1>3, <2>1, <2>4, <2>5 DEF Wrote
<1> QED
  BY <1>2, <1>3

(* A file is expanded, and written unless it is left out. *)
LEMMA WritesFresh ==
    ASSUME PassInv, MapsInv, SkipInv, FilesListed', EdgesKept', WriteOutput
    PROVE  SkipInv'
<1>1. /\ UNCHANGED <<texts, strict, store, setting, pass, force, skip, db>>
      /\ pc = "expand" /\ n < Len(store.files) /\ (pc' = "expand" \/ pc' = "failed")
  BY DEF WriteOutput, ExpandFile
<1>2. CASE pc' = "failed"
  <2>1. UNCHANGED <<own, disk>>
    BY <1>2 DEF WriteOutput
  <2> QED
    BY <1>1, <1>2, <2>1, OnlyMoves
<1>3. CASE pc' # "failed"
  <2>1. PICK f : f = store.files[n + 1]
    OBVIOUS
  <2>2. PICK x : x = Expansion(f)
    OBVIOUS
  <2>3. PICK o : o = [name |-> f, lines |-> x.lines, deps |-> x.deps]
    OBVIOUS
  <2>4. out' = Append(out, o) /\ n' = n + 1 /\ pc' = "expand"
    BY <1>1, <1>3, <2>1, <2>2, <2>3 DEF WriteOutput, ExpandFile
  <2>5. OutputsOK /\ n \in Nat /\ Len(store.files) \in Nat
    BY <1>1 DEF SkipInv, PassInv, TypeI, StoreType
  <2>6. /\ DOMAIN out' = 1..(n + 1) /\ out'[n + 1] = o /\ Last(out') = o
        /\ \A i \in DOMAIN out : out'[i] = out[i]
    <3>1. PICK S : S = Range(out) \cup {o}
      OBVIOUS
    <3>2. out \in Seq(S) /\ o \in S
      BY <3>1 DEF PassInv
    <3>3. PICK u : u = out
      OBVIOUS
    <3>4. DOMAIN u = 1..n /\ u \in Seq(S)
      BY <2>5, <3>2, <3>3 DEF OutputsOK
    <3>5. Len(u) = n
      BY <2>5, <3>4
    <3>6. PICK v : v = Append(u, o)
      OBVIOUS
    <3>7. Len(v) = n + 1 /\ v[n + 1] = o /\ DOMAIN v = 1..(n + 1) /\ \A i \in 1..n : v[i] = u[i]
      BY <2>5, <3>2, <3>4, <3>5, <3>6
    <3> QED
      BY <2>4, <3>3, <3>4, <3>6, <3>7 DEF Last
  <2>7. Wrote(o)
    BY <1>3, <2>6, OutputWritten
  <2>8. \A g : Expansion(g)' = Expansion(g)
    BY <1>1, ExpansionStays
  <2>9. o.name = f /\ o.lines = Expansion(f).lines /\ o.deps = Expansion(f).deps
    BY <2>2, <2>3
  <2>10. f \notin skip => Fresh(f)'
    <3>1. PICK lines : lines = o.lines
      OBVIOUS
    <3>2. OnDisk(lines)' = OnDisk(lines)
      BY <1>1, OnDiskStays
    <3>3. Expansion(f)'.lines = lines
      BY <2>8, <2>9, <3>1
    <3> QED
      BY <2>7, <2>9, <3>1, <3>2, <3>3 DEF Wrote, Fresh
  <2>11. ASSUME NEW g, Fresh(g), g # f \/ f \in skip PROVE Fresh(g)'
    <3>1. g \in DOMAIN disk => g \in DOMAIN disk' /\ disk'[g] = disk[g]
      BY <2>7, <2>9, <2>11 DEF Wrote
    <3> QED
      BY <1>1, <2>11, <3>1, FreshStays
  <2>12. ASSUME NEW i \in DOMAIN out' PROVE OutputOK(i)'
    <3>1. CASE i = n + 1
      <4>1. o.deps \subseteq own'.deps
        BY <2>7 DEF Wrote, AddDeps
      <4>2. out'[i] = o /\ store'.files[i] = f
        BY <1>1, <2>1, <2>6, <3>1
      <4> QED
        BY <1>1, <2>8, <2>9, <2>10, <4>1, <4>2 DEF OutputOK
    <3>2. CASE i # n + 1
      <4>1. i \in DOMAIN out /\ out'[i] = out[i] /\ n + 1 \in DOMAIN out'
        BY <2>5, <2>6, <2>12, <3>2 DEF OutputsOK
      <4>2. PICK g : g = store.files[i]
        OBVIOUS
      <4>3. /\ out[i].name = g /\ out[i].lines = Expansion(g).lines
            /\ out[i].deps \subseteq own.deps /\ (g \notin skip => Fresh(g))
        BY <2>5, <4>1, <4>2 DEF OutputsOK, OutputOK
      <4>4. out[i].deps \subseteq own'.deps
        <5> SUFFICES ASSUME NEW e \in out[i].deps PROVE e \in own'.deps
          OBVIOUS
        <5>1. e[3] \in {y[3] : y \in o.deps} => e \in o.deps
          BY <2>6, <4>1 DEF EdgesKept
        <5> QED
          BY <2>7, <4>3, <5>1 DEF Wrote, AddDeps
      <4>5. g \notin skip => Fresh(g)'
        BY <2>10, <2>11, <4>3
      <4>6. store'.files[i] = g
        BY <1>1, <4>2
      <4> QED
        BY <1>1, <2>8, <4>1, <4>3, <4>4, <4>5, <4>6 DEF OutputOK
    <3> QED
      BY <3>1, <3>2
  <2>13. ASSUME NEW e \in own'.deps PROVE \E i \in DOMAIN out' : e \in out'[i].deps
    <3>1. CASE e \in o.deps
      <4>1. n + 1 \in DOMAIN out'
        BY <2>5, <2>6
      <4> QED
        BY <2>6, <3>1, <4>1
    <3>2. CASE e \in own.deps
      <4>1. PICK i \in DOMAIN out : e \in out[i].deps
        BY <2>5, <3>2 DEF OutputsOK
      <4>2. i \in DOMAIN out' /\ out'[i] = out[i]
        BY <2>5, <2>6, <4>1 DEF OutputsOK
      <4> QED
        BY <4>1, <4>2
    <3> QED
      BY <2>7, <3>1, <3>2 DEF Wrote, AddDeps
  <2>14. OutputsOK'
    BY <1>1, <2>4, <2>5, <2>6, <2>12, <2>13 DEF OutputsOK
  <2>15. ASSUME ChangedWithinChunks', NEW g \in skip' PROVE Fresh(g)'
    <3>1. ChangedWithinChunks /\ g \in skip
      BY <1>1, <2>15, ChangedStays
    <3>2. Fresh(g)
      BY <1>1, <3>1 DEF SkipInv
    <3> QED
      BY <2>11, <3>1, <3>2
  <2>16. ASSUME NEW ds, DbSays(ds), FilesShow(ds) PROVE DbSays(ds)' /\ FilesShow(ds)'
    <3>1. DbSays(ds)'
      BY <1>1, <2>16, SaysStays
    <3>2. ASSUME NEW g \in Files, g \in db'.baselines, g \in DOMAIN disk', ds[g] # <<>>,
                 g \notin own'.written
          PROVE  ShowsOf(ds, g)'
      <4>1. g \in DOMAIN disk /\ disk'[g] = disk[g] /\ g \notin own.written
        BY <2>7, <3>2 DEF Wrote
      <4>2. ShowsOf(ds, g)
        BY <1>1, <2>16, <3>2, <4>1 DEF FilesShow
      <4> QED
        BY <1>1, <4>1, <4>2, ShowsStays
    <3> QED
      BY <2>4, <3>1, <3>2 DEF FilesShow
  <2>17. db.present => \E ds : DbSays(ds) /\ FilesShow(ds)
    BY <1>1 DEF SkipInv
  <2> QED
    BY <1>1, <2>4, <2>14, <2>15, <2>16, <2>17 DEF SkipInv
<1> QED
  BY <1>2, <1>3

(* What has been generated for a file that is in the list. *)
LEMMA ListedIsFresh ==
    ASSUME PassInv, SkipInv, pc = "expand", n = Len(store.files),
           skip = {} \/ ChangedWithinChunks, NEW f \in Files, store.defs[f] # <<>>
    PROVE  /\ Fresh(f)
           /\ \E i \in DOMAIN out : out[i].name = f
<1>1. f \in Range(store.files)
  BY DEF SkipInv, FilesListed, Filed
<1>2. store.files \in Seq(Files)
  BY DEF PassInv, TypeI, StoreType
<1>3. PICK i \in DOMAIN store.files : store.files[i] = f
  BY <1>1 DEF Range
<1>4. i \in DOMAIN out
  BY <1>2, <1>3 DEF SkipInv, OutputsOK
<1>5. out[i].name = f /\ (f \notin skip => Fresh(f))
  BY <1>3, <1>4 DEF SkipInv, OutputsOK, OutputOK
<1> QED
  BY <1>4, <1>5 DEF SkipInv

(* The edges of the pass hold all references from the chunks of a file. *)
LEMMA EdgesRecorded ==
    ASSUME PassInv, SkipInv, pc = "expand", NEW i \in DOMAIN out,
           NEW c \in Reached(out[i].name), NEW d \in Range(store.defs[c]), NEW l \in RefsIn(d)
    PROVE  /\ l.name \in Reached(out[i].name)
           /\ \E e \in own.deps : e[1] = c /\ e[2] = l.name
<1>1. DefsOK
  BY StoredDefs DEF PassInv, TypeI
<1>2. PICK f \in Names : f = out[i].name
  BY DEF PassInv, IsWritten, Range
<1>3. l.name \in RefsOf(c)
  BY DEF RefsOf, RefsIn
<1>4. <<c, l.name, d.file>> \in EdgesOf(c)
  BY DEF EdgesOf, RefsIn
<1>5. out[i].deps = UNION {EdgesOf(z) : z \in Reached(out[i].name)}
  BY PassDeps DEF DepsExact
<1>6. out[i].deps \subseteq own.deps
  BY DEF SkipInv, OutputsOK, OutputOK
<1>7. l.name \in Reached(f)
  BY <1>1, <1>2, <1>3, ReachedClosed
<1> QED
  BY <1>2, <1>4, <1>5, <1>6, <1>7

LEMMA EdgesAreNamed ==
    ASSUME PassInv, SkipInv, pc = "expand", NEW e \in own.deps
    PROVE  e[1] \in Names
<1>1. DefsOK
  BY StoredDefs DEF PassInv, TypeI
<1>2. PICK i \in DOMAIN out : e \in out[i].deps
  BY DEF SkipInv, OutputsOK
<1>3. PICK f \in Names : f = out[i].name
  BY DEF PassInv, IsWritten, Range
<1>4. out[i].deps = UNION {EdgesOf(z) : z \in Reached(f)}
  BY <1>3, PassDeps DEF DepsExact
<1>5. Reached(f) \subseteq Names
  BY <1>1, <1>3, ReachedClosed
<1> QED
  BY <1>2, <1>4, <1>5 DEF EdgesOf

(* The database of the pass is merged. *)
LEMMA FinishesFresh ==
    ASSUME PassInv, ReadInv, SkipInv, FilesListed', FinishPass,
           ~db.present \/ ChangedWithinChunks
    PROVE  SkipInv'
<1>1. /\ pc = "expand" /\ n = Len(store.files) /\ pc' = "done"
      /\ UNCHANGED <<texts, strict, store, setting, pass, skip, own, disk>>
      /\ db'.present /\ db'.texts = texts /\ db'.defs = ChunkDefs /\ db'.deps = own.deps
      /\ db'.blocks = IF force THEN NoFiles ELSE AllHashes
  BY DEF FinishPass, Finish
<1>2. DefsOK
  BY StoredDefs DEF PassInv, TypeI
<1>3. PICK ds : ds = store.defs
  OBVIOUS
<1>4. skip = {} \/ ChangedWithinChunks
  BY DEF SkipInv
<1>5. IsProject(texts) /\ Sound(ds) /\ \A c \in Names : SaidOf(texts, c, ds[c])
  BY <1>1, <1>2, <1>3, StoreSays, LevelsOfStore DEF PassInv, TypeI
<1>6. ChunkDefs = RowsOf(ds)
  BY <1>3 DEF ChunkDefs, RowsOf
<1>7. HashesKept'
  <2>1. PICK t : t = texts
    OBVIOUS
  <2>2. \A f : Hashes(t[f])' = Hashes(t[f])
    BY <1>1, HashesStay
  <2>3. \A f \in DOMAIN db'.blocks : f \in DOMAIN t /\ db'.blocks[f] = Hashes(t[f])
    <3>1. PICK a : a = AllHashes
      OBVIOUS
    <3>2. DOMAIN a = DOMAIN t /\ \A f \in DOMAIN t : a[f] = Hashes(t[f])
      BY <2>1, <3>1 DEF AllHashes
    <3>3. DOMAIN NoFiles = {}
      BY DEF NoFiles
    <3> QED
      BY <1>1, <3>1, <3>2, <3>3
  <2>4. db'.texts = t
    BY <1>1, <2>1
  <2> QED
    BY <2>2, <2>3, <2>4 DEF HashesKept
<1>8. ASSUME NEW f \in Files, ds[f] # <<>> PROVE RecordedOf(ds, f)'
  <2>1. PICK i \in DOMAIN out : out[i].name = f
    BY <1>1, <1>3, <1>4, <1>8, ListedIsFresh
  <2>2. PICK C : C = Reached(f)
    OBVIOUS
  <2>3. f \in C /\ C \in SUBSET Names
    BY <1>2, <2>2, ReachedClosed DEF Names
  <2>4. ASSUME NEW c \in C, NEW d \in Range(ds[c]), NEW l \in RefsIn(d)
        PROVE  l.name \in C /\ \E e \in own.deps : e[1] = c /\ e[2] = l.name
    BY <1>1, <1>3, <2>1, <2>2, EdgesRecorded
  <2> QED
    BY <1>1, <2>3, <2>4 DEF RecordedOf
<1>9. DbSays(ds)'
  BY <1>1, <1>5, <1>6, <1>7, <1>8, EdgesAreNamed DEF DbSays
<1>10. ASSUME NEW f \in Files, ds[f] # <<>> PROVE ShowsOf(ds, f)'
  <2>1. Fresh(f)
    BY <1>1, <1>3, <1>4, <1>10, ListedIsFresh
  <2>2. PICK g : Levels(g) /\ Expansion(f) = g[MaxDepth + 1][RootCall(f)]
    BY <1>2, ExpansionLevels DEF Names
  <2>3. LevelsOf(ds, g)
    BY <1>3, <2>2, LevelsOfStore
  <2>4. ShowsOf(ds, f)
    BY <2>1, <2>2, <2>3 DEF ShowsOf, Fresh
  <2> QED
    BY <1>1, <2>4, ShowsStays
<1>11. FilesShow(ds)'
  BY <1>10 DEF FilesShow
<1> QED
  BY <1>1, <1>9, <1>11 DEF SkipInv

(* The user comes between two passes. *)
LEMMA RevisesFresh ==
    ASSUME SkipInv, FilesListed', Revise, pc = "done" \/ own.written = {} \/ ~db.present
    PROVE  SkipInv'
<1>1. /\ pass < MaxPasses /\ pc' = "read" /\ skip' = {} /\ own' = OwnDb
      /\ UNCHANGED <<strict, setting, db>>
      /\ \A f \in DOMAIN disk' : f \in DOMAIN disk /\ disk'[f] = disk[f]
  BY DEF Revise
<1>2. ASSUME db.present PROVE \E ds : DbSays(ds)' /\ FilesShow(ds)'
  <2>1. PICK ds : DbSays(ds) /\ FilesShow(ds)
    BY <1>1, <1>2 DEF SkipInv
  <2>2. DbSays(ds)'
    BY <1>1, <2>1, SaysStays
  <2>3. ASSUME NEW f \in Files, f \in db'.baselines, f \in DOMAIN disk', ds[f] # <<>>
        PROVE  ShowsOf(ds, f)'
    <3>1. ShowsOf(ds, f) /\ disk'[f] = disk[f]
      BY <1>1, <1>2, <2>1, <2>3 DEF FilesShow
    <3> QED
      BY <1>1, <3>1, ShowsStays
  <2> QED
    BY <2>2, <2>3 DEF FilesShow
<1> QED
  BY <1>1, <1>2 DEF SkipInv

(* The user comes back to a pass that has ended, or that has written no    *)
(* file, or to one before anything was merged; and what is merged belongs  *)
(* to sources that were changed within chunks and between them only, or is *)
(* the first that is, or the last.                                         *)
Steady ==
    /\ Revise => pc = "done" \/ own.written = {} \/ ~db.present
    /\ FinishPass => ~(pass < MaxPasses) \/ ~db.present \/ ChangedWithinChunks

LEMMA FreshNext ==
    ASSUME HistoryInv, MapsInv, SkipInv, EdgesKept', [IncNext]_incVars, [Steady]_incVars
    PROVE  SkipInv'
<1>1. PassInv /\ ReadInv /\ TypeI
  BY DEF HistoryInv, PassInv
<1>2. FilesListed'
  BY <1>1, ListedNext DEF SkipInv
<1>3. CASE UNCHANGED incVars \/ Cover \/ Reading \/ Refuse
  <2>1. /\ UNCHANGED <<strict, setting, pass, own, db, disk, skip>>
        /\ pc' = "failed" \/ (pc' = pc /\ (pc # "expand" \/ UNCHANGED <<texts, store, n, out>>))
        /\ pc # "done" \/ pc' = pc
    BY <1>3 DEF incVars, Cover, Reading, Read, Refuse
  <2> QED
    BY <1>2, <2>1, OnlyMoves
<1>4. CASE StartPass
  BY <1>1, <1>2, <1>4, StartsFresh
<1>5. CASE WriteOutput
  BY <1>1, <1>2, <1>5, WritesFresh
<1>6. CASE Revise
  <2>1. incVars' # incVars
    BY <1>6 DEF Revise, incVars
  <2> QED
    BY <1>2, <1>6, <2>1, RevisesFresh DEF Steady
<1>7. CASE FinishPass
  <2>1. incVars' # incVars
    BY <1>7 DEF FinishPass, Finish, incVars
  <2>2. CASE pass < MaxPasses
    BY <1>1, <1>2, <1>7, <2>1, <2>2, FinishesFresh DEF Steady
  <2>3. CASE ~(pass < MaxPasses)
    BY <1>2, <1>7, <2>3 DEF FinishPass, Finish, SkipInv
  <2> QED
    BY <2>2, <2>3
<1> QED
  BY <1>3, <1>4, <1>5, <1>6, <1>7 DEF IncNext

LEMMA FreshStarts == IncInit => SkipInv
BY DEF IncInit, Init, SkipInv, NoDb, FilesListed, Filed, EmptyStore, Names

LEMMA FreshSkips ==
    ASSUME PassInv, SkipInv
    PROVE  SkippedFilesAreFresh
<1> SUFFICES ASSUME pc = "expand", n = Len(store.files), ChangedWithinChunks, NEW o \in Range(out)
             PROVE  disk[o.name] = OnDisk(o.lines)
  BY DEF SkippedFilesAreFresh
<1>1. PICK i \in DOMAIN out : o = out[i]
  BY DEF Range
<1>2. /\ o.lines = Expansion(o.name).lines
      /\ o.name \notin skip => Fresh(o.name)
  BY <1>1 DEF SkipInv, OutputsOK, OutputOK
<1>3. Fresh(o.name)
  BY <1>2 DEF SkipInv
<1> QED
  BY <1>2, <1>3 DEF Fresh

(* A pass that is about to succeed leaves no generated file behind its     *)
(* sources, after any number of passes: if the sources were changed only   *)
(* within chunks and between them, each pass was brought to its end or     *)
(* wrote nothing, and recording the edges of one `@file` chunk has deleted *)
(* none of another's.                                                      *)
THEOREM EachSkippedFileIsFresh ==
    IncSpec /\ [][Steady]_incVars /\ []EdgesKept => []SkippedFilesAreFresh
<1>1. HistoryInv => PassInv
  BY DEF HistoryInv
<1> QED
  BY <1>1, HistoryInvHolds, MapsHold, FreshStarts, FreshNext, FreshSkips, PTL DEF IncSpec

(* Before the first pass has ended there is nothing to skip by. *)
FirstPass ==
    /\ pass \in Nat /\ pass >= 1
    /\ pass = 1 /\ pc # "done" => ~db.present

(* Of two passes the second finds the files of the first as they are, so   *)
(* that nothing need be said of the user.                                  *)
THEOREM SecondPassIsFresh ==
    ASSUME MaxPasses \in 0..2
    PROVE  IncSpec /\ []EdgesKept => []SkippedFilesAreFresh
<1>1. IncInit => FirstPass
  <2>1. IncInit => pass = 1 /\ ~db.present
    BY DEF IncInit, NoDb
  <2> QED
    BY <2>1 DEF FirstPass
<1>2. FirstPass /\ [IncNext]_incVars => FirstPass'
  <2> SUFFICES ASSUME FirstPass, [IncNext]_incVars PROVE FirstPass'
    OBVIOUS
  <2>1. CASE Revise
    <3>1. pass' = pass + 1 /\ pass \in Nat /\ pass >= 1
      BY <2>1 DEF Revise, FirstPass
    <3>2. pass' \in Nat /\ pass' >= 1 /\ pass' # 1
      BY <3>1
    <3> QED
      BY <3>2 DEF FirstPass
  <2>2. CASE FinishPass
    BY <2>2 DEF FinishPass, Finish, FirstPass
  <2>3. CASE ~Revise /\ ~FinishPass
    <3>1. pass' = pass /\ db' = db /\ (pc' # "done" => pc # "done")
      BY <2>3 DEF IncNext, incVars, Reading, StartPass, WriteOutput, Cover, Refuse,
                  Read, StartWriting, ExpandFile
    <3> QED
      BY <3>1 DEF FirstPass
  <2> QED
    BY <2>1, <2>2, <2>3
<1>3. FirstPass /\ [IncNext]_incVars => [Steady]_incVars
  <2> SUFFICES ASSUME FirstPass, pass < MaxPasses PROVE pass = 1
    BY DEF FirstPass, Steady, Revise, FinishPass, Finish
  <2> QED
    BY DEF FirstPass
<1> QED
  BY <1>1, <1>2, <1>3, EachSkippedFileIsFresh, PTL DEF IncSpec
=============================================================================
