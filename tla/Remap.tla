-------------------------------- MODULE Remap --------------------------------
(***************************************************************************)
(* remap_noweb_entries: a formatter has changed the text of a generated    *)
(* file, and the places recorded for its lines are given to the lines of   *)
(* the text it made of them.                                               *)
(*                                                                         *)
(* A line of a file is [text, form]: two lines are equal when both agree,  *)
(* and equal but for white space and a trailing comment when their texts   *)
(* do.  pre are the lines before, post those after the formatter;          *)
(* chunk[i] names the chunk line i of pre comes from.                      *)
(***************************************************************************)
EXTENDS Integers, FiniteSets, SequencesExt

CONSTANT Trivial    \* the text of lines that have one character

(* The sets of a set that have most elements. *)
Largest(s) ==
    LET most == Max({Cardinality(m) : m \in s})
    IN  {m \in s : Cardinality(m) = most}

(* The longest ways to match the first i lines of pre with the first lines *)
(* of post, when above has those for i - 1.                                *)
MatchRow(pre, post, i, above) ==
    LET row[j \in 0..Len(post)] ==
            IF j = 0 THEN {{}}
            ELSE IF pre[i] = post[j] THEN {s \cup {<<i, j>>} : s \in above[j - 1]}
            ELSE Largest(above[j] \cup row[j - 1])
    IN  row

(* The longest ways to match equal lines in order, as sets of pairs.  The  *)
(* diff library finds one of them.                                         *)
Matchings(pre, post) ==
    LET rows[i \in 0..Len(pre)] ==
            IF i = 0 THEN [j \in 0..Len(post) |-> {{}}]
            ELSE MatchRow(pre, post, i, rows[i - 1])
    IN  rows[Len(pre)][Len(post)]

(* Tier 1: the lines the formatter left alone. *)
Unchanged(matching, j) == {p[1] : p \in {q \in matching : q[2] = j}}

(* There is nothing before the first line and after the last, as in a      *)
(* blank line.                                                             *)
NoText == [kind |-> "text", blank |-> TRUE]
TextAt(x, i) == IF i \in DOMAIN x THEN x[i].text ELSE NoText

(* A line with its neighbours.  Lines that are blank or have one character *)
(* are no key.                                                             *)
Context(x, i) == <<TextAt(x, i - 1), x[i].text, TextAt(x, i + 1)>>
IsKey(line) == ~line.text.blank /\ line.text.name \notin Trivial

(* The lines of pre that have the context of line j of post, if they all   *)
(* belong to one chunk.                                                    *)
Candidates(pre, chunk, post, j) ==
    LET same == {i \in DOMAIN pre : IsKey(pre[i]) /\ Context(pre, i) = Context(post, j)}
    IN  IF ~IsKey(post[j]) \/ Cardinality({chunk[i] : i \in same}) > 1 THEN {}
        ELSE same

Distance(i, j) == IF i < j THEN j - i ELSE i - j

(* The nearest of some lines, the first one of two that are equally near. *)
Nearest(set, j) ==
    {i \in set : \A k \in set : \/ Distance(i, j) < Distance(k, j)
                                \/ Distance(i, j) = Distance(k, j) /\ i <= k}

(* A plausible slip: a line may be taken again. *)
MatchedAgain(pre, chunk, post, matching) ==
    [j \in 1..Len(post) |->
        IF Unchanged(matching, j) # {} THEN Unchanged(matching, j)
        ELSE Nearest(Candidates(pre, chunk, post, j), j)]

(* Tiers 1 and 2, from the first line of post to the last: the lines of    *)
(* pre each line has got, none or one.  No line of pre is taken twice.     *)
Matched(pre, chunk, post, matching) ==
    LET kept == {p[1] : p \in matching}
        pick(got, j) ==
          LET taken == kept \cup UNION Range(got)
          IN  IF Unchanged(matching, j) # {} THEN Unchanged(matching, j)
              ELSE Nearest(Candidates(pre, chunk, post, j) \ taken, j)
        got[j \in 0..Len(post)] ==
          IF j = 0 THEN <<>> ELSE Append(got[j - 1], pick(got[j - 1], j))
    IN  got[Len(post)]

Confidence(matching, j) == IF Unchanged(matching, j) # {} THEN "exact" ELSE "hash_match"

(* Tier 3: a line that got nothing takes the place of the last line before *)
(* it that got one, or of the first one after it.                          *)
Neighbour(got, j) ==
    LET before == {k \in 1..j : got[k] # {}}
        after == {k \in j..Len(got) : got[k] # {}}
    IN  IF before # {} THEN got[Max(before)]
        ELSE IF after # {} THEN got[Min(after)]
        ELSE {}

(* The entries of the file the formatter made: the line of pre each line   *)
(* of post is traced to.                                                   *)
Remapped(pre, chunk, post, matching) ==
    LET got == Matched(pre, chunk, post, matching)
        lines == {j \in DOMAIN post : Neighbour(got, j) # {}}
    IN  [j \in lines |->
            [from |-> CHOOSE i \in Neighbour(got, j) : TRUE,
             confidence |-> IF got[j] = {} THEN "inferred" ELSE Confidence(matching, j)]]
=============================================================================
