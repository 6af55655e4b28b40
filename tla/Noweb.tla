-------------------------------- MODULE Noweb --------------------------------
(***************************************************************************)
(* The chunk store of weaveback-tangle: clip.read collects the chunk       *)
(* definitions of the literate sources, one source after the other, and    *)
(* write_files expands every `@file` chunk into lines, each with its place *)
(* in the sources (noweb_map), and into dependency edges (chunk_deps).     *)
(*                                                                         *)
(* A source line is a record: it opens a chunk, closes one, refers to one, *)
(* or is text, blank or not.  Indentation is left out.                     *)
(***************************************************************************)
EXTENDS Naturals, FiniteSets, SequencesExt

CONSTANTS
    Plain,      \* names of chunks that are not output files
    Files,      \* names of `@file` chunks
    Unsafe,     \* `@file` names that path_is_safe refuses
    Inputs,     \* what the sources may be: sequences of sequences of lines
    MaxDepth    \* MAX_RECURSION_DEPTH (100 in the code)

Names == Plain \cup Files
Options == {"reversed", "compact", "tight"}

IsLine(l) ==
    /\ l.kind \in {"open", "close", "ref", "text"}
    /\ l.kind = "open" => l.name \in Names \cup Unsafe /\ l.replace \in BOOLEAN
    /\ l.kind = "ref" => l.name \in Names /\ l.opts \in SUBSET Options
    /\ l.kind = "text" => l.blank \in BOOLEAN

(* Sources are sequences of lines. *)
IsProject(t) ==
    /\ t \in Seq(Range(t))
    /\ \A f \in DOMAIN t :
          t[f] \in Seq(Range(t[f])) /\ \A i \in DOMAIN t[f] : IsLine(t[f][i])

(* What the sources name is finite. *)
ASSUME ConstantsOK ==
    /\ MaxDepth \in Nat
    /\ Plain \cap Files = {} /\ Plain \cap Unsafe = {} /\ Files \cap Unsafe = {}
    /\ IsFiniteSet(Plain) /\ IsFiniteSet(Files)
    /\ \A t \in Inputs : IsProject(t)

VARIABLES
    texts,   \* the sources
    strict,  \* --strict
    pc,      \* "read", "expand", "done" or "failed"
    store,   \* the definitions, the `@file` chunks and the parse errors
    n,       \* how many sources have been read, then `@file` chunks expanded
    out,     \* what each `@file` chunk expanded to
    err      \* why the pass failed

vars == <<texts, strict, pc, store, n, out, err>>

EmptyStore == [defs |-> [c \in Names |-> <<>>], files |-> <<>>, errors |-> 0]

Init ==
    /\ texts \in Inputs
    /\ strict \in BOOLEAN
    /\ pc = "read"
    /\ store = EmptyStore
    /\ n = 0
    /\ out = <<>>
    /\ err = "none"
-----------------------------------------------------------------------------
(* ChunkStore::read.  While a source is read, s is the store together with *)
(* the definition that is open: its chunk and its index there, or nothing. *)

ChangeOpen(s, d) == [s EXCEPT !.defs[s.open[1]][s.open[2]] = d]
OpenDef(s) == s.defs[s.open[1]][s.open[2]]

Begin(s, f, i, l) ==
    LET kept == IF l.replace THEN <<>> ELSE s.defs[l.name]
        new == [file |-> f, line |-> i, end |-> 0, body |-> <<>>]
    IN  [s EXCEPT !.defs[l.name] = Append(kept, new),
                  !.open = <<l.name, Len(kept) + 1>>,
                  !.files = IF l.name \in Files /\ ~Contains(@, l.name)
                            THEN Append(@, l.name) ELSE @]

(* A header is ignored when its name is unsafe or when it would define an  *)
(* `@file` chunk again; the definition that is open stays open.            *)
Header(s, f, i, l) ==
    CASE l.name \in Unsafe -> s
      [] l.name \in Files /\ s.defs[l.name] # <<>> /\ ~l.replace ->
            [s EXCEPT !.errors = IF strict THEN @ + 1 ELSE @]
      [] OTHER -> Begin(s, f, i, l)

(* A plausible slip: the end is recorded, but the definition stays open. *)
ReadLineStaysOpen(s, f, i) ==
    LET l == texts[f][i]
    IN  CASE l.kind = "open" -> Header(s, f, i, l)
          [] l.kind # "open" /\ s.open = <<>> -> s
          [] l.kind = "close" /\ s.open # <<>> ->
                ChangeOpen(s, [OpenDef(s) EXCEPT !.end = i])
          [] OTHER -> ChangeOpen(s, [OpenDef(s) EXCEPT !.body = Append(@, l)])

ReadLine(s, f, i) ==
    LET l == texts[f][i]
    IN  CASE l.kind = "open" -> Header(s, f, i, l)
          [] l.kind # "open" /\ s.open = <<>> -> s
          [] l.kind = "close" /\ s.open # <<>> ->
                [ChangeOpen(s, [OpenDef(s) EXCEPT !.end = i]) EXCEPT !.open = <<>>]
          [] OTHER -> ChangeOpen(s, [OpenDef(s) EXCEPT !.body = Append(@, l)])

(* The store after source f, whose lines are read in order. *)
ReadSource(f) ==
    LET start == [defs |-> store.defs, files |-> store.files, errors |-> store.errors,
                  open |-> <<>>]
        s[i \in 0..Len(texts[f])] == IF i = 0 THEN start ELSE ReadLine(s[i - 1], f, i)
    IN  s[Len(texts[f])]

(* A source that ends while a definition is open leaves it without an end. *)
Read ==
    /\ pc = "read"
    /\ n < Len(texts)
    /\ LET s == ReadSource(n + 1)
       IN  store' = [defs |-> s.defs, files |-> s.files, errors |-> s.errors]
    /\ n' = n + 1
    /\ UNCHANGED <<texts, strict, pc, out, err>>

(* strict turns the parse errors into a failure before anything is written. *)
StartWriting ==
    /\ pc = "read"
    /\ n = Len(texts)
    /\ n' = 0
    /\ IF store.errors > 0
       THEN pc' = "failed" /\ err' = "FileChunkRedefinition"
       ELSE pc' = "expand" /\ UNCHANGED err
    /\ UNCHANGED <<texts, strict, store, out>>
-----------------------------------------------------------------------------
(* apply_ref_space_options, on expanded lines *)

Blank(x) == x.text.blank

Trimmed(x) ==
    LET keep == {i \in DOMAIN x : ~Blank(x[i])}
    IN  IF keep = {} THEN <<>> ELSE SubSeq(x, Min(keep), Max(keep))

Spaced(opts, x) ==
    IF "tight" \in opts
    THEN FlattenSeq([i \in DOMAIN x |-> IF Blank(x[i]) THEN <<>> ELSE <<x[i]>>])
    ELSE IF "compact" \in opts THEN Trimmed(x)
    ELSE x

(* expand_inner *)

Nothing == [err |-> "none", lines |-> <<>>, deps |-> {}]
Failed(e) == [err |-> e, lines |-> <<>>, deps |-> {}]

(* A plausible slip: the header is forgotten in the count of lines. *)
OutLineFromHeader(c, d, k) ==
    [text |-> d.body[k], chunk |-> c, file |-> d.file, line |-> d.line + k - 1]

(* The line that definition d of chunk c has at index k of its body. *)
OutLine(c, d, k) ==
    [text |-> d.body[k], chunk |-> c, file |-> d.file, line |-> d.line + k]

(* A plausible slip: no edge to a chunk that does not exist yet. *)
EdgesToDefined(c, d, l) ==
    IF store.defs[l.name] = <<>> THEN {} ELSE {<<c, l.name, d.file>>}

Edges(c, d, l) == {<<c, l.name, d.file>>}

(* A plausible slip: only the chunk at the root is looked at. *)
OnCycleThroughRoot(stack, c) == stack # <<>> /\ Head(stack) = c

OnCycle(stack, c) == c \in Range(stack)

(* A plausible slip: @reversed is not looked at. *)
OrderAsRead(opts, defs) == defs

Order(opts, defs) == IF "reversed" \in opts THEN Reverse(defs) ELSE defs

(* Results one after the other.  The first failure ends the expansion. *)
Joined(rs) ==
    LET bad == {i \in DOMAIN rs : rs[i].err # "none"}
    IN  [err |-> IF bad = {} THEN "none" ELSE rs[Min(bad)].err,
         lines |-> FlattenSeq([i \in DOMAIN rs |-> rs[i].lines]),
         deps |-> UNION {rs[i].deps : i \in DOMAIN rs}]

(* What is asked of an expansion: a chunk, the options of the reference to *)
(* it, and the stack of the chunks whose expansion has begun.              *)
Calls == [chunk : Names, opts : SUBSET Options, stack : Seq(Names)]

(* What line k of definition d gives in call x; below are the expansions   *)
(* with one chunk more on the stack.                                       *)
Item(below, x, d, k) ==
    LET l == d.body[k]
        sub == below[[chunk |-> l.name, opts |-> l.opts, stack |-> Append(x.stack, x.chunk)]]
    IN  IF l.kind = "ref"
        THEN [err |-> sub.err,
              lines |-> Spaced(l.opts, sub.lines),
              deps |-> Edges(x.chunk, d, l) \cup sub.deps]
        ELSE [Nothing EXCEPT !.lines = <<OutLine(x.chunk, d, k)>>]

Definition(below, x, d) ==
    [Joined([k \in DOMAIN d.body |-> Item(below, x, d, k)]) EXCEPT !.lines = Spaced(x.opts, @)]

Expanded(below, x) ==
    LET defs == Order(x.opts, store.defs[x.chunk])
    IN  IF OnCycle(x.stack, x.chunk) THEN Failed("RecursiveReference")
        ELSE IF defs # <<>>
             THEN Joined([i \in DOMAIN defs |-> Definition(below, x, defs[i])])
        ELSE IF strict THEN Failed("UndefinedChunk") ELSE Nothing

(* The expansion with an empty stack.  The depth is checked before the     *)
(* cycle, the cycle before the existence of the chunk: left is how many    *)
(* chunks may still be put on the stack before it is deeper than MaxDepth. *)
Expansion(root) ==
    LET e[left \in Nat] ==
            [x \in Calls |-> IF left = 0 THEN Failed("RecursionLimit")
                             ELSE Expanded(e[left - 1], x)]
    IN  e[MaxDepth + 1][[chunk |-> root, opts |-> {}, stack |-> <<>>]]

(* The loop body of write_files_incremental, without the files. *)
ExpandFile ==
    /\ pc = "expand"
    /\ n < Len(store.files)
    /\ LET f == store.files[n + 1]
           x == Expansion(f)
       IN  IF x.err = "none"
           THEN /\ out' = Append(out, [name |-> f, lines |-> x.lines, deps |-> x.deps])
                /\ n' = n + 1
                /\ UNCHANGED <<pc, err>>
           ELSE /\ pc' = "failed"
                /\ err' = x.err
                /\ UNCHANGED <<n, out>>
    /\ UNCHANGED <<texts, strict, store>>

Finish ==
    /\ pc = "expand"
    /\ n = Len(store.files)
    /\ pc' = "done"
    /\ UNCHANGED <<texts, strict, store, n, out, err>>

Next == Read \/ StartWriting \/ ExpandFile \/ Finish

Spec == Init /\ [][Next]_vars
-----------------------------------------------------------------------------
(* Properties. *)

(* Places in the sources, in the order in which they are read. *)
Before(p, q) == p[1] < q[1] \/ (p[1] = q[1] /\ p[2] < q[2])
LineAt(p) == texts[p[1]][p[2]]
Places == UNION {{f} \X DOMAIN texts[f] : f \in DOMAIN texts}
Headers(c) == {p \in Places : LineAt(p).kind = "open" /\ LineAt(p).name = c}

(* The headers that begin a definition, and those of them that count: for  *)
(* an `@file` chunk the first one or the last @replace, for another chunk  *)
(* everything from the last @replace on.                                   *)
Begins(c) ==
    LET headers == Headers(c)
    IN  {p \in headers : \/ c \in Plain
                        \/ LineAt(p).replace
                        \/ \A q \in headers : ~Before(q, p)}
Current(c) ==
    LET begins == Begins(c)
    IN  {p \in begins : \A q \in begins : LineAt(q).replace => ~Before(p, q)}

(* Where the definition that begins at p ends: the next line that closes   *)
(* it or begins another one, or the end of the source.                     *)
Ends(p) ==
    LET f == p[1]
        stops == {i \in DOMAIN texts[f] :
                     /\ i > p[2]
                     /\ \/ texts[f][i].kind = "close"
                        \/ /\ texts[f][i].kind = "open"
                           /\ texts[f][i].name \in Names
                           /\ <<f, i>> \in Begins(texts[f][i].name)}
    IN  IF stops = {} THEN Len(texts[f]) + 1 ELSE Min(stops)

(* The lines between two places of a source, the ignored headers left out. *)
BodyLines(f, first, last) ==
    FlattenSeq([i \in 1..(last - first) |->
        IF texts[f][first + i].kind = "open" THEN <<>> ELSE <<texts[f][first + i]>>])

DefinitionAt(p) ==
    LET f == p[1]  e == Ends(p)
    IN  [file |-> f, line |-> p[2],
         end |-> IF e \in DOMAIN texts[f] /\ texts[f][e].kind = "close" THEN e ELSE 0,
         body |-> BodyLines(f, p[2], e - 1)]

Place(d) == <<d.file, d.line>>

(* Once every source is read, the definitions of each chunk are those its  *)
(* headers ask for, in reading order, with the lines and the end that      *)
(* belong to them: a close marker ends one definition, a header that is    *)
(* ignored neither begins nor ends one, @replace drops what came before    *)
(* it, in whichever source.                                                *)
DefinitionsMatchText ==
    pc # "read" =>
        \A c \in Names :
            LET defs == store.defs[c]
            IN  /\ {Place(defs[i]) : i \in DOMAIN defs} = Current(c)
                /\ \A i \in DOMAIN defs :
                      /\ defs[i] = DefinitionAt(Place(defs[i]))
                      /\ \A j \in DOMAIN defs : i < j => Before(Place(defs[i]), Place(defs[j]))

(* No header was ignored while a definition was open: the lines of every   *)
(* body follow each other in the source.                                   *)
Contiguous ==
    \A c \in Names, p \in Places :
        p \in Begins(c) =>
            \A i \in (p[2] + 1)..(Ends(p) - 1) : texts[p[1]][i].kind # "open"

(* Every line of an output is the source line that noweb_map records for   *)
(* it, and lies inside a definition of the chunk it names, however many    *)
(* definitions in however many sources the chunk has, and whatever order   *)
(* and spacing the references ask for.                                     *)
MapPointsAtText ==
    Contiguous =>
        \A i \in DOMAIN out : \A x \in Range(out[i].lines) :
            /\ texts[x.file][x.line] = x.text
            /\ \E p \in Current(x.chunk) :
                  p[1] = x.file /\ p[2] < x.line /\ x.line < Ends(p)

(* The chunks that references lead to, from the definitions alone. *)
RefsOf(c) ==
    UNION {{l.name : l \in {b \in Range(d.body) : b.kind = "ref"}} :
           d \in Range(store.defs[c])}

Reached(c) ==
    LET r[k \in Nat] == IF k = 0 THEN {c}
                        ELSE r[k - 1] \cup UNION {RefsOf(x) : x \in r[k - 1]}
    IN  r[Cardinality(Names)]

(* The references in a chunk, each with the source it stands in. *)
EdgesOf(c) ==
    UNION {{<<c, l.name, d.file>> : l \in {b \in Range(d.body) : b.kind = "ref"}} :
           d \in Range(store.defs[c])}

(* The edges recorded for an output are all the references in the chunks   *)
(* it reaches, each with the source it stands in, those to chunks that do  *)
(* not exist included: what an incremental pass skips rests on them.       *)
DepsExact ==
    \A i \in DOMAIN out :
        out[i].deps = UNION {EdgesOf(c) : c \in Reached(out[i].name)}

(* The walks of k references from chunk c. *)
Walks(c) ==
    LET w[k \in Nat] ==
            IF k = 0 THEN {<<c>>}
            ELSE UNION {{Append(v, x) : x \in RefsOf(Last(v))} : v \in w[k - 1]}
    IN  w

Undefined(v) == store.defs[Last(v)] = <<>>

(* An expansion fails for a reason that is there, and one that ends well   *)
(* has none: a chunk may be used many times, but not below itself, not too *)
(* deep and, in strict mode, not without a definition.                     *)
FailsExactly ==
    LET walks(c) == UNION {Walks(c)[k] : k \in 0..(MaxDepth + 1)}
        at == store.files[n + 1]
    IN  /\ \A i \in DOMAIN out : \A v \in walks(out[i].name) :
              /\ Len(v) <= MaxDepth + 1
              /\ IsInjective(v)
              /\ strict => ~Undefined(v)
        /\ err = "RecursionLimit" =>
              \E v \in walks(at) : Len(v) = MaxDepth + 2 /\ IsInjective(Front(v))
        /\ err = "RecursiveReference" => \E v \in walks(at) : ~IsInjective(v)
        /\ err = "UndefinedChunk" => strict /\ \E v \in walks(at) : Undefined(v)

(* Textual substitution: a reference becomes the lines of the definitions  *)
(* of its chunk.                                                           *)
BodiesOf(l) ==
    LET defs == store.defs[l.name]
        order == IF "reversed" \in l.opts THEN Reverse(defs) ELSE defs
    IN  FlattenSeq([i \in DOMAIN order |-> order[i].body])

Substitution(s) ==
    FlattenSeq([i \in DOMAIN s |-> IF s[i].kind = "ref" THEN BodiesOf(s[i]) ELSE <<s[i]>>])

RootRef(f) == [kind |-> "ref", name |-> f, opts |-> {}]

(* As many substitutions as an expansion may have references below each    *)
(* other.                                                                  *)
Substituted(f) ==
    LET t[k \in Nat] == IF k = 0 THEN <<RootRef(f)>> ELSE Substitution(t[k - 1])
    IN  t[MaxDepth + 1]

Visible(s) == FlattenSeq([i \in DOMAIN s |-> IF s[i].blank THEN <<>> ELSE <<s[i]>>])

(* Substitution leaves no reference behind, and an output has the lines    *)
(* that it gives, in the same order; only blank lines may be missing.      *)
ExpansionIsSubstitution ==
    \A i \in DOMAIN out :
        LET s == Substituted(out[i].name)
        IN  /\ \A l \in Range(s) : l.kind = "text"
            /\ Visible([k \in DOMAIN out[i].lines |-> out[i].lines[k].text]) = Visible(s)
=============================================================================
