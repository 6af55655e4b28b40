------------------------------ MODULE MCNoweb ------------------------------
(***************************************************************************)
(* Instances of Incremental for TLC.  Half of the projects are made for    *)
(* reading and expansion: a source that begins an `@file` chunk and a      *)
(* second source of four lines, for one pass.  The others are made for two *)
(* passes: a source with headings and fences, and a second one.            *)
(***************************************************************************)
EXTENDS Incremental

CONSTANTS file, chunk1, chunk2, outside, line1, line2

Open(c) == [kind |-> "open", name |-> c, replace |-> FALSE]
OpenReplace(c) == [kind |-> "open", name |-> c, replace |-> TRUE]
Close == [kind |-> "close"]
Ref(c, o) == [kind |-> "ref", name |-> c, opts |-> o]
Text(l) == [kind |-> "text", name |-> l, blank |-> FALSE]
BlankLine == [kind |-> "text", blank |-> TRUE]

FirstLines == {Ref(chunk1, {}), Ref(chunk1, {"reversed"}), Ref(chunk2, {"compact"}),
               Ref(chunk1, {"tight"}), Close, Text(line1), Open(outside)}
SecondLines == {Open(file), OpenReplace(file), Open(chunk1), OpenReplace(chunk1), Open(chunk2),
                Ref(chunk1, {}), Ref(chunk2, {"reversed"}), Close, Text(line1), BlankLine}

Sources ==
    {<< <<Open(file), a, b>>, <<c, d, e, g>> >> :
        a \in FirstLines, b \in {Ref(chunk1, {}), Close},
        c \in {l \in SecondLines : l.kind = "open"} \cup {Text(line1)},
        d \in SecondLines, e \in SecondLines, g \in {Ref(chunk2, {"reversed"}), Text(line2)}}

MCHeadings == "= one" :> 1 @@ "= two" :> 1 @@ "== three" :> 2
MCMarkdownHeadings == {"# one"}
MCFences == {"----", "....", "++++", "-----"}
MCMarkdownFences == {"~~~"}
MCLintFences == {"----", "....", " ----"}
MCLintCloses == {"  // @"}
MCTrivial == {"}"}
MCAdded == Text("added")

(* A project that is revised: the parts that differ are a line of prose,   *)
(* the lines of the chunks, and a heading.                                 *)
Project(p) ==
    << <<Text("= one"), p.prose, Text("----"), Open(file), p.first, p.second, Ref(chunk2, {}), Close,
         Text("----"), Text(p.heading), p.fence, Open(chunk1), p.used, Close>>,
       <<Text("= two"), Open(chunk2), p.other, Text(line2), Close>> >>

Parts ==
    [prose : {Text(line1), BlankLine},
     first : {Text(line1), Ref(chunk1, {})},
     second : {BlankLine, Text("}")},
     heading : {"= two", "== three"},
     fence : {BlankLine, Text("....")},
     used : {Text(line1), Text(line2), BlankLine},
     other : {Text(line1), Text("}")}]

PartsOf(t) ==
    [prose |-> t[1][2], first |-> t[1][5], second |-> t[1][6], heading |-> t[1][10].name,
     fence |-> t[1][11], used |-> t[1][13], other |-> t[2][3]]

(* The projects a history begins with. *)
Revised == {Project(p) : p \in {q \in Parts : /\ q.prose = Text(line1)
                                              /\ q.fence = BlankLine
                                              /\ q.used = Text(line1)
                                              /\ q.other = Text(line1)}}
IsRevised(t) == Len(t[1]) = 14

(* A chunk outside of any code block, with three blank lines between two   *)
(* lines: above the first of those there are k of them, the line is moved. *)
Spread(k) ==
    LET blanks(i) == [j \in 1..i |-> BlankLine]
    IN  << <<Open(file), Text(line1)>> \o blanks(k) \o <<Text(line2)>> \o blanks(3 - k)
              \o <<Text(line1), Close>>, <<>> >>
MCSpread == {Spread(k) : k \in 1..2}

(* A chunk that is defined and defined anew, each in a code block of its   *)
(* own, below a paragraph that may go.                                     *)
Twice(fence, prose, old, new) ==
    LET code(l) == <<Text(fence), OpenReplace(chunk1), Text(l), Close, Text(fence)>>
    IN  << <<Open(file), Ref(chunk1, {}), Close, BlankLine, prose, BlankLine>>
              \o code(old) \o code(new), <<>> >>
MCTwice(fence) ==
    {Twice(fence, p, a, b) : p \in {Text("prose"), BlankLine}, a, b \in {line1, line2}}

Shifted(t) == [t EXCEPT ![1] = <<BlankLine>> \o @]

(* Chunks whose lines repeat, for a formatter that moves them. *)
Repeating ==
    {<< <<Open(file), Ref(c, {}), x, Close>>,
        <<Open(chunk1), y, Text(line2), y, Text(line2), Text(line1), Close>> >> :
        c \in Plain, x \in {BlankLine, Ref(chunk1, {})}, y \in {Text(line1), Text("}")}}

(* The user changes at most two of the parts, or puts a line in front. *)
MCRevisions(t) ==
    IF t \in MCSpread THEN MCSpread
    ELSE IF t \in MCTwice("----") THEN MCTwice("----")
    ELSE IF t \in MCTwice("~~~") THEN MCTwice("~~~")
    ELSE IF ~IsRevised(t) THEN {}
    ELSE LET p == PartsOf(t)
         IN  {Project(q) : q \in {x \in Parts :
                  Cardinality({f \in DOMAIN p : p[f] # x[f]}) \in 1..2}}
             \cup {Shifted(t)}

(* Lines above the first heading, whose level is the outermost or not. *)
Preambles ==
    {<< <<Open(file), Text(line1), Ref(chunk1, {}), Close, Text(h), Open(chunk1), Text(line2),
          Close>>, <<>> >> : h \in DOMAIN MCHeadings}

(* What linter, chunk store and block parser take for different things. *)
ReadApart ==
    LET fences == {Text(l) : l \in MCFences \cup MCLintFences}
    IN  {<< <<a, Open(file), b, c, d, Text("----")>>, <<>> >> :
            a \in fences,
            b \in {Text(line1), Close, Text("  // @")},
            c \in fences \cup {Open(chunk1), Text("  // @")},
            d \in {Text("----"), Text("  // @"), Open(outside), Close}}

(* The lines of a file, counted twice or from the end, with some too many, *)
(* and a file that is not generated.                                       *)
MCReports(t) ==
    IF t \notin Revised \cup Preambles THEN {}
    ELSE LET SF(f) == <<[kind |-> "SF", file |-> f]>>
             DA(i) == [kind |-> "DA", line |-> i, hits |-> i % 2]
             End == <<[kind |-> "end"]>>
             up == [i \in 1..8 |-> DA(i)]
         IN  {SF(file) \o up \o End \o up,
              <<[kind |-> "junk"]>> \o SF(file) \o Reverse(up) \o up \o End,
              SF(outside) \o <<DA(1), DA(2), DA(4)>> \o End \o SF(file) \o Reverse(up)}

MCSettings(t) ==
    IF t \in Repeating THEN {[parser |-> "other", formatter |-> f] : f \in {"frame", "squeeze"}}
    ELSE IF t \in MCTwice("----") THEN {[parser |-> "adoc", formatter |-> "none"]}
    ELSE IF t \in MCTwice("~~~") THEN {[parser |-> "markdown", formatter |-> "squeeze"]}
    ELSE IF t \in ReadApart
    THEN {[parser |-> p, formatter |-> "none"] : p \in {"adoc", "adoc not parsed", "other"}}
    ELSE IF t \in MCSpread THEN {[parser |-> p, formatter |-> "none"] : p \in {"adoc", "other"}}
    ELSE IF ~IsRevised(t) THEN {[parser |-> "other", formatter |-> "none"]}
    ELSE {[parser |-> "adoc", formatter |-> "frame"], [parser |-> "adoc", formatter |-> "none"],
          [parser |-> "adoc not parsed", formatter |-> "indent"],
          [parser |-> "adoc", formatter |-> "squeeze"],
          [parser |-> "other", formatter |-> "none"]}

MCInputs == Sources \cup Revised \cup Repeating \cup MCSpread \cup MCTwice("----")
                \cup MCTwice("~~~") \cup Preambles \cup ReadApart

(* All that a revision can make of these. *)
MCProjects ==
    LET made == {Project(p) : p \in Parts}
    IN  MCInputs \cup made \cup {Shifted(t) : t \in made}
=============================================================================
