----------------------------- MODULE MacroPatch -----------------------------
(***************************************************************************)
(* How apply-back takes the change of one generated line back through the  *)
(* macros (resolve.rs, heuristics/, oracle.rs): the line is traced to the  *)
(* text it comes from, lines of the source are tried with the change in    *)
(* them, and the oracle keeps those from which the macros make the wanted  *)
(* line.                                                                   *)
(*                                                                         *)
(* A line is a sequence of symbols: a letter, another character, or one of *)
(* the pieces of macro syntax, which count as one column.  A macro has one *)
(* parameter, and its body calls no macro; no name of a macro can be       *)
(* spelled with Letters.  What may be missing is a set of at most one.     *)
(***************************************************************************)
EXTENDS Integers, FiniteSets, SequencesExt, TLC

CONSTANTS
    Letters,    \* the symbols that words are made of
    DefOpen,    \* [macro names -> symbols]: `%def(m, p, %{`
    CallOpen,   \* [macro names -> symbols]: `%m(`
    Computed    \* [symbols -> Letters]: calls of builtins, and their results

DefClose == "%})"
CallClose == ")"
Param == "%(p)"
Newline == "newline"
Space == " "

HasSigil(line) ==
    Range(line) \cap (Range(DefOpen) \cup Range(CallOpen) \cup DOMAIN Computed
                        \cup {DefClose, Param}) # {}

ASSUME SymbolsOK ==
    /\ IsInjective(DefOpen) /\ IsInjective(CallOpen)
    /\ DOMAIN DefOpen = DOMAIN CallOpen
    /\ Range(Computed) \subseteq Letters
    /\ Space \notin Letters
    /\ ~HasSigil(<<CallClose, Newline, Space>>) /\ \A l \in Letters : ~HasSigil(<<l>>)

-----------------------------------------------------------------------------
(* The expansion of a source, with the place each symbol of it comes from  *)
(* and the kind of text that is.  (Modules MacroSyntax and MacroEval have  *)
(* the whole of the macro processor.)                                      *)

Symbols(s) ==
    FlattenSeq([i \in DOMAIN s |->
        [j \in 1..(Len(s[i]) + 1) |->
            [sym |-> IF j \in DOMAIN s[i] THEN s[i][j] ELSE Newline,
             line |-> i, col |-> j, kind |-> "Literal", macro |-> ""]]])

MacroOf(opens, sym) == CHOOSE m \in DOMAIN opens : opens[m] = sym

As(c, kind, m) ==
    IF c.sym \in DOMAIN Computed THEN [c EXCEPT !.sym = Computed[@], !.kind = "Computed"]
    ELSE [c EXCEPT !.kind = kind, !.macro = m]

Called(m, body, arg) ==
    FlattenSeq([i \in DOMAIN body |->
        IF body[i].sym = Param
        THEN [j \in DOMAIN arg |-> [arg[j] EXCEPT !.kind = "MacroArg", !.macro = m]]
        ELSE <<As(body[i], "MacroBody", m)>>])

\* One symbol of the source: in the text, in the definition of a macro, or
\* in the argument of a call.
Advance(x, c) ==
    LET def == c.sym \in Range(DefOpen)
        call == c.sym \in Range(CallOpen)
        begin(in, m) == [x EXCEPT !.in = in, !.macro = m, !.part = <<>>]
        end == [x EXCEPT !.in = "text"]
        wrong == [x EXCEPT !.ok = FALSE]
    IN  CASE ~x.ok -> x
          [] x.ok /\ x.in = "text" ->
                IF def THEN begin("def", MacroOf(DefOpen, c.sym))
                ELSE IF call /\ MacroOf(CallOpen, c.sym) \in DOMAIN x.bodies
                THEN begin("call", MacroOf(CallOpen, c.sym))
                ELSE IF call \/ c.sym \in {DefClose, Param} THEN wrong
                ELSE [x EXCEPT !.out = Append(@, As(c, "Literal", ""))]
          [] x.ok /\ x.in = "def" ->
                IF def \/ call THEN wrong
                ELSE IF c.sym # DefClose THEN [x EXCEPT !.part = Append(@, c)]
                ELSE IF x.macro \in DOMAIN x.bodies THEN wrong
                ELSE [end EXCEPT !.bodies = (x.macro :> x.part) @@ @]
          [] x.ok /\ x.in = "call" ->
                IF c.sym = CallClose
                THEN [end EXCEPT !.out = @ \o Called(x.macro, x.bodies[x.macro], x.part)]
                ELSE IF def \/ call \/ c.sym \in {DefClose, Param} THEN wrong
                ELSE [x EXCEPT !.part = Append(@, As(c, "Literal", ""))]

AtEnd(x) == [out |-> x.out, ok |-> x.ok /\ x.in = "text"]

Expansion(s) ==
    AtEnd(FoldLeft(Advance,
                   [in |-> "text", macro |-> "", part |-> <<>>, bodies |-> <<>>,
                    out |-> <<>>, ok |-> TRUE],
                   Symbols(s)))

\* The positions in s of what is in S.
Positions(s, S) == SelectSeq([i \in DOMAIN s |-> i], LAMBDA i : s[i] \in S)

TextOf(places) == [i \in DOMAIN places |-> places[i].sym]

\* Where the lines of an expansion end; the first of them before it begins.
Ends(out) == <<0>> \o Positions(TextOf(out), {Newline})

LinesOf(out) ==
    LET ends == Ends(out)
    IN  [k \in 1..(Len(ends) - 1) |-> SubSeq(out, ends[k] + 1, ends[k + 1] - 1)]

TextsOf(lines) == [k \in DOMAIN lines |-> TextOf(lines[k])]

\* The text lines of the expansion.
Expanded(s) == TextsOf(LinesOf(Expansion(s).out))
-----------------------------------------------------------------------------
(* resolve_best_patch_source *)

\* span_at_line: a column beyond the end of the line is one of the lines
\* that follow.
SpanAt(out, k, col) == {out[i] : i \in {Ends(out)[k] + 1 + col} \cap DOMAIN out}

\* The column of the token a symbol belongs to: a word, or itself.
TokenStart(line, col) ==
    Min({j \in 1..col : j = col \/ \A i \in j..col : line[i] \in Letters})

\* resolve_patch_source for column col of line k: what is changed, where.
Resolve(snap, out, k, col) ==
    LET none == [kind |-> "Noweb", line |-> k, col |-> 0, macro |-> "", template |-> <<>>]
        from(p) ==
            [kind |-> CASE p.kind = "MacroBody" ->
                             IF HasSigil(snap[p.line]) THEN "MacroBodyWithVars"
                             ELSE "MacroBodyLiteral"
                        [] p.kind = "Computed" -> "Unpatchable"
                        [] OTHER -> p.kind,
             line |-> p.line,
             col |-> TokenStart(snap[p.line] \o <<Newline>>, p.col),
             macro |-> p.macro,
             template |-> snap[p.line]]
    IN  IF SpanAt(out, k, col) = {} THEN none
        ELSE from(CHOOSE p \in SpanAt(out, k, col) : TRUE)

KindRank ==
    [MacroArg |-> 50, Literal |-> 40, MacroBodyLiteral |-> 35, MacroBodyWithVars |-> 30,
     Noweb |-> 20, Unpatchable |-> 0]

Distance(i, j) == IF i < j THEN j - i ELSE i - j

\* hint is the source line of the definition an LSP server has named.
PatchRank(c, k, hint) ==
    KindRank[c.kind]
        - (IF c.kind \in {"Literal", "Noweb"} /\ c.line = k THEN 20 ELSE 0)
        + (IF hint = {} THEN 0 ELSE 15)
        + (IF \E l \in hint : Distance(c.line, l) <= 2 THEN 20 ELSE 0)

\* The columns that are tried, from the first difference on.
TriedColumns(old, new) ==
    LET diff == {i \in DOMAIN old \cap DOMAIN new : old[i] # new[i]}
        first == IF diff = {} THEN 0 ELSE Min(diff) - 1
        last == Max({Len(old), Len(new), 1}) - 1
    IN  Min({first, last})..Min({first + 6, last})

\* The first of the best.
BestSource(snap, k, old, new, hint) ==
    LET out == Expansion(snap).out
        cols == TriedColumns(old, new)
        c == [col \in cols |-> Resolve(snap, out, k, col)]
        rank == [col \in cols |-> PatchRank(c[col], k, hint)]
        best == {col \in cols : \A d \in cols : rank[d] <= rank[col]}
    IN  c[Min(best)]
-----------------------------------------------------------------------------
(* The change of one line, tried in another text *)

FirstAt(s, part, from) ==
    LET at == {i \in from..(Len(s) - Len(part) + 1) :
                  SubSeq(s, i, i + Len(part) - 1) = part}
    IN  IF at = {} THEN {} ELSE {Min(at)}

Splice(s, i, n, new) == SubSeq(s, 1, i - 1) \o new \o SubSeq(s, i + n, Len(s))

(* attempt_macro_arg_patch, in the columns after col.  The column of a     *)
(* trace counts from 1 and is used as one that counts from 0, so that the  *)
(* first symbol of the argument is not searched.                           *)
MacroArgPatch(line, col, old, new) ==
    LET common(s, t) == Cardinality({n \in DOMAIN s \cap DOMAIN t :
                                        SubSeq(s, 1, n) = SubSeq(t, 1, n)})
        pfx == common(old, new)
        from == Min({col, Len(line)}) + 1
        frag(sfx) == SubSeq(old, pfx + 1, Len(old) - sfx)
        fits == {sfx \in 0..common(Reverse(old), Reverse(new)) :
                    /\ pfx < Len(old) - sfx
                    /\ pfx <= Len(new) - sfx
                    /\ FirstAt(line, frag(sfx), from) # {}}
        put(sfx) == {Splice(line, i, Len(frag(sfx)), SubSeq(new, pfx + 1, Len(new) - sfx)) :
                        i \in FirstAt(line, frag(sfx), from)}
    IN  IF col + Len(old) <= Len(line) /\ SubSeq(line, col + 1, col + Len(old)) = old
        THEN {Splice(line, col + 1, Len(old), new)}
        ELSE IF fits = {} THEN {} ELSE put(Min(fits))

\* The text of a line without the white space around it.
Trimmed(line) ==
    LET ink == {i \in DOMAIN line : line[i] # Space}
    IN  IF ink = {} THEN <<>> ELSE SubSeq(line, Min(ink), Max(ink))

\* The text between the uses of the parameter.
Literals(template) ==
    LET at == <<0>> \o Positions(template, {Param}) \o <<Len(template) + 1>>
    IN  [n \in 1..(Len(at) - 1) |-> SubSeq(template, at[n] + 1, at[n + 1] - 1)]

NoMatch == [ok |-> FALSE, rest |-> <<>>, parts |-> <<>>]
AllOf(s) == [ok |-> TRUE, rest |-> s, parts |-> <<>>]

\* What comes before place i goes to the parts, and n symbols more are read.
Take(x, i, n) ==
    [x EXCEPT !.rest = SubSeq(@, i + n, Len(@)), !.parts = Append(@, SubSeq(x.rest, 1, i - 1))]

\* The values that the parameters had in the line old.
ParamValues(lits, old) ==
    LET value(x, n) ==
            LET from == Len(lits[n]) + 1
                at == IF lits[n + 1] # <<>> THEN FirstAt(x.rest, lits[n + 1], from)
                      ELSE IF n + 1 = Len(lits) THEN {Len(x.rest) + 1} ELSE {}
            IN  IF ~x.ok \/ ~IsPrefix(lits[n], x.rest) \/ at = {} THEN NoMatch
                ELSE Take([x EXCEPT !.rest = SubSeq(@, from, Len(@))],
                          Min(at) - from + 1, 0)
        whole(x) == IF x.ok /\ IsPrefix(Last(lits), x.rest) THEN x ELSE NoMatch
    IN  whole(FoldLeft(value, AllOf(old), [n \in 1..(Len(lits) - 1) |-> n]))

\* The line new with the parameter for those values.
Rebuilt(values, new) ==
    LET next(x, v) ==
            LET at == FirstAt(x.rest, v, 1)
            IN  IF ~x.ok \/ at = {} THEN NoMatch ELSE Take(x, Min(at), Len(v))
        joined(x) ==
            IF x.ok THEN {FlattenSeq([n \in DOMAIN x.parts |-> Append(x.parts[n], Param)])
                              \o x.rest}
            ELSE {}
    IN  IF values.ok THEN joined(FoldLeft(next, AllOf(new), values.parts)) ELSE {}

\* attempt_macro_body_fix
MacroBodyFix(template, old, new) ==
    IF old = new THEN {}
    ELSE IF Trimmed(template) = Trimmed(old) THEN {new}
    ELSE IF Param \notin Range(template)
    THEN {Splice(template, i, Len(old), new) : i \in FirstAt(template, old, 1)}
    ELSE Rebuilt(ParamValues(Literals(template), old), new) \ {template}
-----------------------------------------------------------------------------
(* The search for a line of the source to change *)

(* A plausible slip: it is enough that the macros can be expanded. *)
VerifiedIfExpands(lines, i, text, k, wanted) ==
    Expansion(ReplaceAt(lines, i, text)).ok

(* verify_candidate: with text in line i, line k of the expansion is the   *)
(* wanted one.                                                             *)
HasLine(t, k, wanted) == k \in DOMAIN t /\ t[k] = wanted

Verified(lines, i, text, k, wanted) ==
    /\ Expansion(ReplaceAt(lines, i, text)).ok
    /\ HasLine(Expanded(ReplaceAt(lines, i, text)), k, wanted)

Words(s) ==
    LET at == <<0>> \o SelectSeq([i \in DOMAIN s |-> i], LAMBDA i : s[i] \notin Letters)
                    \o <<Len(s) + 1>>
    IN  SelectSeq([n \in 1..(Len(at) - 1) |-> SubSeq(s, at[n] + 1, at[n + 1] - 1)],
                  LAMBDA w : w # <<>>)

TokenOverlap(line, old, new) ==
    3 * Len(SelectSeq(Words(old) \o Words(new), LAMBDA w : w \in Range(Words(line))))

Unique(S) == IF Cardinality(S) = 1 THEN S ELSE {}

\* The only word that is another one.
DifferingWords(old, new) ==
    LET v == Words(old)  w == Words(new)
        diff == {i \in DOMAIN v : v[i] # w[i]}
    IN  IF Len(v) = Len(w) THEN {<<v[i], w[i]>> : i \in Unique(diff)} ELSE {}

(* fuzzy_find_line, as the set of the lines that match: white space around *)
(* a line does not count, and a blank line is not searched for.            *)
Nearby(s, i, line, window) ==
    {j \in DOMAIN s : /\ Trimmed(line) # <<>>
                      /\ Trimmed(s[j]) = Trimmed(line)
                      /\ Distance(i, j) <= window}

\* candidate_line_indices
LinesToTry(lines, hinted, anchors) ==
    {i \in DOMAIN lines : Distance(i, hinted) <= 6}
        \cup UNION {Unique(Nearby(lines, hinted, a, 40)) : a \in anchors}

\* rank_candidate, with chunk_context_bonus.
CandidateRank(lines, defs, p, i) ==
    100 - 2 * Distance(p.line, i)
        + (IF \E d \in defs : {p.line, i} \subseteq d.first..d.last THEN 20 ELSE 0)
        + TokenOverlap(lines[i], p.old[1], p.new[1])
        + (IF FirstAt(lines[i], p.old[1], 1) # {} THEN 12 ELSE 0)

\* choose_best_candidate: the best score, on one line.
ChooseBest(cs) ==
    LET top == {c \in cs : \A d \in cs : d.score <= c.score}
        first == {c \in top : \A d \in top : c.line <= d.line}
    IN  IF Cardinality(first) = 1 /\ first # top THEN {}
        ELSE {c \in first : \A d \in first : c.nth <= d.nth}

\* search_macro_arg_candidate and search_macro_body_candidate
SearchLines(lines, defs, p) ==
    LET arg == p.kind = "MacroArg"
    IN  ChooseBest(UNION {
            {[line |-> i, text |-> t, nth |-> 0, score |-> CandidateRank(lines, defs, p, i)] :
                t \in {x \in IF arg THEN MacroArgPatch(lines[i], p.col, p.old[1], p.new[1])
                             ELSE MacroBodyFix(p.template, p.old[1], p.new[1]) :
                         Verified(lines, i, x, p.expanded, p.new[1])}} :
            i \in LinesToTry(lines, p.line,
                              {p.old[1]} \cup (IF arg THEN {} ELSE {p.template}))})

\* Every way to put a word for another in a line.
WordChanges(line, old, new) ==
    LET sides(i) == {i - 1, i + Len(old)} \cap DOMAIN line
        at == {i \in 1..(Len(line) - Len(old) + 1) :
                  /\ SubSeq(line, i, i + Len(old) - 1) = old
                  /\ \A j \in sides(i) : line[j] \notin Letters}
    IN  {[nth |-> i, text |-> Splice(line, i, Len(old), new)] : i \in at}

\* search_macro_call_candidate
SearchCalls(lines, p) ==
    LET old == p.old[1]
        new == p.new[1]
        calls == {i \in DOMAIN lines : CallOpen[p.macro] \in Range(lines[i])}
        changes == UNION {
            {[line |-> i, nth |-> 0, text |-> t, base |-> 80] :
                t \in MacroArgPatch(lines[i], 0, old, new)}
            \cup UNION {{c @@ [line |-> i, base |-> 95] :
                            c \in WordChanges(lines[i], w[1], w[2])} :
                        w \in DifferingWords(old, new)} : i \in calls}
    IN  ChooseBest({c @@ [score |-> c.base + TokenOverlap(lines[c.line], old, new)] :
            c \in {x \in changes : Verified(lines, x.line, x.text, p.expanded, new)}})

\* The line to change and its new text, if there is one.
FirstOf(found, otherwise) == IF found # {} THEN found ELSE otherwise

Candidate(lines, defs, p) == FirstOf(SearchLines(lines, defs, p), SearchCalls(lines, p))
=============================================================================
