----------------------------- MODULE ApplyBack -----------------------------
(***************************************************************************)
(* `wb-tangle apply-back`: edits the user made in generated files go back  *)
(* to the literate source, and weaveback.db takes the edited files as its  *)
(* new baselines.                                                          *)
(*                                                                         *)
(* There is one literate source.  What its macros make of it (module       *)
(* MacroPatch) is the text that the chunks are read from, and the lines of *)
(* noweb_map are lines of that text; a generated file is the bodies of     *)
(* some chunks, one after the other, each indented as the reference to the *)
(* chunk is.  A line is a sequence of symbols; the lines that open and     *)
(* close chunks are not indented.                                          *)
(***************************************************************************)
EXTENDS MacroPatch

CONSTANTS
    Projects,    \* records [source, files, parts, edits]: a source, the generated
                 \* files in list_baselines order, the parts [chunk, indent] each
                 \* is made of, and bounds on the edits the user makes in [gen, src]
    Open,        \* [chunk names -> lines]: the line that opens a chunk
    Close,       \* the line that ends a chunk
    Retyped(_),  \* lines the user may put for a line of a generated file; also
                 \* blank ones, and the line with another indentation
    Added,       \* lines the user may add to a generated file
    Written,     \* lines the user writes into the source
    Hints,       \* lines of definitions that an LSP server may name, 0 for none
    Window,      \* how far do_patch looks for a line (15 in the code)
    MaxRuns      \* bound on the times apply-back is started

Markers == {Open[c] : c \in DOMAIN Open} \cup {Close}

ASSUME ConstantsOK ==
    /\ \A p \in Projects : \A f \in Range(p.files) :
          p.parts[f] \in Seq([chunk : DOMAIN Open, indent : Seq({Space})])
    /\ {Window, MaxRuns} \subseteq Nat
    /\ Hints \subseteq Nat /\ 0 \in Hints
    /\ Written \cap Added = {}

VARIABLES
    project, \* the one of Projects
    src,     \* the literate source on disk
    gen,     \* the generated files on disk
    db,      \* gen_baselines, noweb_map, chunk_defs and the source snapshot
    run,     \* the local state of the apply-back process
    edits    \* how many edits the user has made in each

vars == <<project, src, gen, db, run, edits>>

Files == project.files
FileSet == Range(Files)
-----------------------------------------------------------------------------
(* What a tangle makes of the source s: for each line of file f its        *)
(* position in the expanded text and its indentation, which is what        *)
(* noweb_map records, and its text.                                        *)

First(t, c) == CHOOSE i \in DOMAIN t : t[i] = Open[c]
End(t, c) ==
    CHOOSE i \in DOMAIN t : /\ i > First(t, c)
                            /\ t[i] = Close
                            /\ \A j \in (First(t, c) + 1)..(i - 1) : t[j] # Close

Body(t, part) ==
    LET first == First(t, part.chunk)
    IN  [i \in 1..(End(t, part.chunk) - first - 1) |->
            [line |-> first + i, indent |-> part.indent]]

Traced(s, f) ==
    FlattenSeq([i \in DOMAIN project.parts[f] |-> Body(Expanded(s), project.parts[f][i])])

Expand(s, f) ==
    LET t == Expanded(s)  map == Traced(s, f)
    IN  [i \in DOMAIN map |-> map[i].indent \o t[map[i].line]]

DbOf(s) ==
    [base |-> [f \in FileSet |-> Expand(s, f)],
     map |-> [f \in FileSet |-> Traced(s, f)],
     defs |-> {[first |-> First(Expanded(s), p.chunk), last |-> End(Expanded(s), p.chunk)] :
                 p \in UNION {Range(project.parts[f]) : f \in FileSet}},
     snap |-> s]

NoRun == [pc |-> "idle", runs |-> 0, dry |-> FALSE, k |-> 1, base |-> <<>>,
          cur |-> <<>>, patches |-> <<>>, lines |-> <<>>, skipped |-> FALSE]

Init ==
    /\ project \in Projects
    /\ src = project.source
    /\ gen = [f \in FileSet |-> Expand(src, f)]
    /\ db = DbOf(src)
    /\ run = NoRun
    /\ edits = [gen |-> 0, src |-> 0]

-----------------------------------------------------------------------------
(* The user, and `wb-tangle`. *)

(* The ways to replace, add or remove one line of s, away from the lines   *)
(* in keep.                                                                *)
Edited(s, instead(_), new, keep) ==
    LET at == {j \in DOMAIN s : s[j] \notin keep}
    IN  UNION {{ReplaceAt(s, i, n) : n \in instead(s[i])} : i \in at}
        \cup {InsertAt(s, i, n) : i \in at, n \in new}
        \cup {RemoveAt(s, i) : i \in at}

EditGenerated(f) ==
    /\ edits.gen < project.edits.gen
    /\ \E g \in Edited(gen[f], Retyped, Added, {}) : gen' = [gen EXCEPT ![f] = g]
    /\ edits' = [edits EXCEPT !.gen = @ + 1]
    /\ UNCHANGED <<project, src, db, run>>

(* The lines with chunk markers or macro syntax stay. *)
EditSource ==
    /\ edits.src < project.edits.src
    /\ src' \in Edited(src, LAMBDA l : Written, Written,
                       Markers \cup {l \in Range(src) : HasSigil(l)})
    /\ edits' = [edits EXCEPT !.src = @ + 1]
    /\ UNCHANGED <<project, gen, db, run>>

(* A tangle that ends well: it refuses a file that is neither absent nor   *)
(* what it generates (module Tangle).                                      *)
Tangle ==
    /\ src # <<>> /\ Expansion(src).ok
    /\ \A f \in FileSet : gen[f] = Expand(src, f)
    /\ db' = DbOf(src)
    /\ UNCHANGED <<project, src, gen, run, edits>>
-----------------------------------------------------------------------------
(* The differences of two sequences. *)

In(s, S) == SelectSeq([i \in DOMAIN s |-> i], LAMBDA i : i \in S)
Kept(s, S) == LET at == In(s, S) IN [n \in DOMAIN at |-> s[at[n]]]

(* Two sets of positions of equal size that pair equal lines of b and c,   *)
(* as many as possible: what the `similar` crate finds to be unchanged.    *)
Matchings(b, c) ==
    LET pairs(n) == {m \in kSubset(n, DOMAIN b) \X kSubset(n, DOMAIN c) :
                        Kept(b, m[1]) = Kept(c, m[2])}
        sizes == 0..Min({Len(b), Len(c)})
    IN  pairs(CHOOSE n \in sizes :
                 pairs(n) # {} /\ \A l \in sizes : l > n => pairs(l) = {})

(* The hunks between the unchanged lines: olen lines of the old sequence,  *)
(* from position old on, become the lines new.                             *)
Hunks(b, c, m) ==
    LET I == <<0>> \o In(b, m[1]) \o <<Len(b) + 1>>
        J == <<0>> \o In(c, m[2]) \o <<Len(c) + 1>>
        gap(n) == [old |-> I[n] + 1, olen |-> I[n + 1] - I[n] - 1,
                   new |-> SubSeq(c, J[n] + 1, J[n + 1] - 1)]
    IN  SelectSeq([n \in 1..(Len(I) - 1) |-> gap(n)],
                  LAMBDA h : h.olen > 0 \/ h.new # <<>>)

(* A hunk can be traced when noweb_map knows its lines and, if it has any  *)
(* (resolve_contiguous_noweb_hunk), they follow each other in the source   *)
(* with one indentation.                                                   *)
Resolvable(map, h) ==
    IF h.olen > 0
    THEN /\ h.old + h.olen - 1 <= Len(map)
         /\ \A i \in h.old..(h.old + h.olen - 2) :
                map[i + 1] = [map[i] EXCEPT !.line = @ + 1]
    ELSE (IF h.old > 1 THEN h.old - 1 ELSE h.old) \in DOMAIN map

(* The entry of noweb_map a hunk is traced by: an insertion goes after the *)
(* line before it.                                                         *)
Entry(map, h) == IF h.olen = 0 /\ h.old > 1 THEN map[h.old - 1] ELSE map[h.old]

PatchAt(map, h) ==
    IF h.olen = 0 /\ h.old > 1 THEN Entry(map, h).line + 1 ELSE Entry(map, h).line

OneForOne(h) == h.olen = 1 /\ Len(h.new) = 1

(* strip_indent: a line that is not indented so is taken as it is. *)
Stripped(lines, indent) ==
    [i \in DOMAIN lines |->
        IF IsPrefix(indent, lines[i]) THEN SubSeq(lines[i], Len(indent) + 1, Len(lines[i]))
        ELSE lines[i]]

(* The change of one line is traced through the macros of the snapshot;    *)
(* any other hunk goes to the lines of noweb_map.  For the properties, a   *)
(* patch also says whether the edit has kept the indentation.              *)
PatchOf(b, h, hint) ==
    LET map == db.map[Files[run.k]]
        at == PatchAt(map, h)
        indent == Entry(map, h).indent
        old == Stripped(SubSeq(b, h.old, h.old + h.olen - 1), indent)
        new == Stripped(h.new, indent)
        source == IF OneForOne(h) THEN BestSource(db.snap, at, old[1], new[1], hint \ {0})
                  ELSE [kind |-> "Noweb", line |-> at]
    IN  source @@ [expanded |-> at, old |-> old, new |-> new,
                   kept |-> \A l \in Range(h.new) : IsPrefix(indent, l)]
-----------------------------------------------------------------------------
(* do_patch, on the lines of the source *)

(* The lines s has from position i on are exactly the lines l. *)
Holds(s, i, l) ==
    /\ i + Len(l) <= Len(s) + 1
    /\ SubSeq(s, i, i + Len(l) - 1) = l

(* The lines a patch puts into the source are those of its text: a text    *)
(* that ends with a blank line is read without it, and only the text of an *)
(* insertion is given an end of line more.                                 *)
NewLines(p) ==
    IF p.old # <<>> /\ p.new # <<>> /\ Last(p.new) = <<>> THEN Front(p.new) ELSE p.new

PutAt(w, i, p) ==
    [w EXCEPT !.lines = Splice(@, i, Len(p.old), NewLines(p)), !.applied = TRUE]

(* The new text is in its place: an empty one is in any.                   *)
AlreadyApplied(s, p) ==
    /\ p.old # <<>>
    /\ p.new \in {NewLines(p), << <<>> >>}
    /\ Holds(s, p.line, NewLines(p))

(* Plausible slips: the text at the traced place is not looked at, or what *)
(* is already there is taken for a conflict.                               *)
DoPatchBlindly(w, p) ==
    IF p.line + Len(p.old) > Len(w.lines) + 1 THEN [w EXCEPT !.skipped = TRUE]
    ELSE PutAt(w, p.line, p)

DoPatchOnce(w, p) ==
    IF Holds(w.lines, p.line, p.old) THEN PutAt(w, p.line, p)
    ELSE [w EXCEPT !.skipped = TRUE]

(* What one patch makes of the source lines w.lines and the two flags. *)
DoPatch(w, p) ==
    LET found == IF Len(p.old) = 1 THEN Nearby(w.lines, p.line, p.old[1], Window) ELSE {}
    IN  IF Holds(w.lines, p.line, p.old) THEN PutAt(w, p.line, p)
        ELSE IF AlreadyApplied(w.lines, p) THEN w
        ELSE IF Cardinality(found) = 1 THEN PutAt(w, CHOOSE j \in found : TRUE, p)
        ELSE [w EXCEPT !.skipped = TRUE]

PutCandidate(w, found) ==
    IF found = {} THEN [w EXCEPT !.skipped = TRUE]
    ELSE LET c == CHOOSE c \in found : TRUE
         IN  [w EXCEPT !.lines = ReplaceAt(@, c.line, c.text), !.applied = TRUE]

(* A line that macros make is searched for; values they compute stay.      *)
ApplyPatch(w, p) ==
    IF p.kind \in {"Noweb", "Literal", "MacroBodyLiteral"} THEN DoPatch(w, p)
    ELSE PutCandidate(w, IF p.kind = "Unpatchable" THEN {} ELSE Candidate(w.lines, db.defs, p))

(* The patches of one file one after the other, each at the place it was   *)
(* traced to before any of them was applied.                               *)
ApplyAll(w, patches) == FoldLeft(ApplyPatch, w, patches)
-----------------------------------------------------------------------------
(* The process; it may fail or be killed at any step. *)

Busy == {"read", "patch", "write", "fill", "baseline"}

Start(dry) ==
    /\ run.pc \notin Busy
    /\ run.runs < MaxRuns
    /\ run' = [NoRun EXCEPT !.pc = "read", !.dry = dry, !.base = db.base,
                            !.runs = run.runs + 1]
    /\ UNCHANGED <<project, src, gen, db, edits>>

(* On to the next file; the fields of the file just done are dropped. *)
NextFile ==
    run' = [NoRun EXCEPT
       !.pc = IF run.k = Len(Files) THEN "done" ELSE "read",
       !.dry = run.dry, !.base = run.base, !.runs = run.runs,
       !.k = IF run.k = Len(Files) THEN run.k ELSE run.k + 1]

File == Files[run.k]

SkipFile ==
    /\ run.pc = "read"
    /\ gen[File] = run.base[File]
    /\ NextFile
    /\ UNCHANGED <<project, src, gen, db, edits>>

(* The edited file is read and each hunk becomes a patch or is skipped. *)
ReadFile ==
    /\ run.pc = "read"
    /\ gen[File] # run.base[File]
    /\ \E m \in Matchings(run.base[File], gen[File]), hint \in Hints :
         LET hunks == Hunks(run.base[File], gen[File], m)
             traced == SelectSeq(hunks, LAMBDA h : Resolvable(db.map[File], h))
         IN  run' = [run EXCEPT
                !.pc = "patch",
                !.cur = gen[File],
                !.patches = [i \in DOMAIN traced |->
                                PatchOf(run.base[File], traced[i], {hint})],
                !.skipped = traced # hunks]
    /\ UNCHANGED <<project, src, gen, db, edits>>

AfterPatches(w) ==
    [run EXCEPT !.pc = IF w.applied /\ ~run.dry THEN "write" ELSE "baseline",
                !.lines = IF run.dry THEN src ELSE w.lines,
                !.skipped = w.skipped]

(* The source is read and patched in memory. *)
Patch ==
    /\ run.pc = "patch"
    /\ run' = AfterPatches(ApplyAll([lines |-> src, applied |-> FALSE,
                                     skipped |-> run.skipped], run.patches))
    /\ UNCHANGED <<project, src, gen, db, edits>>

(* The source cannot be read: nothing more is done, for any file. *)
PatchFails ==
    /\ run.pc = "patch"
    /\ run.patches # <<>>
    /\ run' = [NoRun EXCEPT !.pc = "failed", !.runs = run.runs]
    /\ UNCHANGED <<project, src, gen, db, edits>>

(* fs::write empties the source before it fills it: a run that ends in     *)
(* between leaves nothing of it.                                           *)
TruncateSource ==
    /\ run.pc = "write"
    /\ src' = <<>>
    /\ run' = [run EXCEPT !.pc = "fill"]
    /\ UNCHANGED <<project, gen, db, edits>>

WriteSource ==
    /\ run.pc = "fill"
    /\ src' = run.lines
    /\ run' = [run EXCEPT !.pc = "baseline"]
    /\ UNCHANGED <<project, gen, db, edits>>

(* The baseline moves only when every changed line was dealt with. *)
UpdateBaseline ==
    /\ run.pc = "baseline"
    /\ db' = IF run.dry \/ run.skipped THEN db
             ELSE [db EXCEPT !.base[File] = run.cur]
    /\ NextFile
    /\ UNCHANGED <<project, src, gen, edits>>

Crash ==
    /\ run.pc \in Busy
    /\ run' = [NoRun EXCEPT !.pc = "failed", !.runs = run.runs]
    /\ UNCHANGED <<project, src, gen, db, edits>>

Next ==
    \/ \E f \in FileSet : EditGenerated(f)
    \/ EditSource
    \/ Tangle
    \/ \E dry \in BOOLEAN : Start(dry)
    \/ SkipFile
    \/ ReadFile
    \/ Patch
    \/ PatchFails
    \/ TruncateSource
    \/ WriteSource
    \/ UpdateBaseline
    \/ Crash

Spec == Init /\ [][Next]_vars
-----------------------------------------------------------------------------
(* Properties. *)

Patched == run.pc = "patch" /\ run'.pc \in {"write", "baseline"} /\ ~run.dry

(* The places of the symbols in the lines of file f, in the source s. *)
Places(s, f) ==
    LET l == LinesOf(Expansion(s).out)  map == Traced(s, f)
    IN  [i \in DOMAIN map |-> l[map[i].line]]

(* The lines of the source that each line of file f comes from. *)
Origins(s, f) ==
    LET places == Places(s, f)
    IN  [i \in DOMAIN places |-> {p.line : p \in Range(places[i])}]

(* noweb_map and the snapshot still say where the lines of file f come     *)
(* from, and no tangle has replaced the baseline the process works with.   *)
Located(f) ==
    /\ src # <<>>
    /\ Origins(src, f) = Origins(db.snap, f)
    /\ Traced(src, f) = db.map[f]
    /\ IsInjective([i \in DOMAIN db.map[f] |-> db.map[f][i].line])
    /\ run.base[f] = db.base[f]

(* What is in the source of file f is in the file once: no macro is called *)
(* and no argument used twice.                                             *)
Once(f) ==
    LET all == FlattenSeq(Places(src, f))
    IN  \A i, j \in DOMAIN all :
            all[i].line = all[j].line /\ all[i].col = all[j].col => i = j

(* Line i of the expanded text ends where line i of the source ends.       *)
EndsInPlace(i) ==
    LET out == Expansion(src).out
        end == out[Ends(out)[i + 1]]
    IN  end.line = i /\ end.kind = "Literal"

(* A hunk that is not traced through macros has none to go through.        *)
InPlace(p) ==
    \/ p.kind # "Noweb"
    \/ IF p.old = <<>> THEN EndsInPlace(p.line - 1)
       ELSE \A i \in p.line..(p.line + Len(p.old) - 1) :
               EndsInPlace(i) /\ src[i] = Expanded(src)[i]

KeepsSize(p) == Len(p.new) = Len(p.old)

(* When apply-back is about to record an edited file as the new baseline,  *)
(* the source it writes generates exactly that file, through macros too:   *)
(* the edit is neither lost nor put in another place.  That is so if only  *)
(* the last patch changes the number of lines, what is changed is not used *)
(* twice, no line becomes blank, where do_patch would drop it, and the     *)
(* edit keeps the indentation that strip_indent takes away.                *)
RecordedIsGenerated ==
    [][(/\ Patched
        /\ ~run'.skipped
        /\ Located(File)
        /\ Once(File)
        /\ Expand(src, File) = run.base[File]
        /\ \A i \in DOMAIN run.patches :
              /\ InPlace(run.patches[i])
              /\ run.patches[i].kept
              /\ NewLines(run.patches[i]) = run.patches[i].new
              /\ i < Len(run.patches) => KeepsSize(run.patches[i]))
       => Expand(run'.lines, File) = run.cur]_vars

(* A run that was killed between writing the source and recording the      *)
(* baseline can be repeated: patches of lines that macros leave alone and  *)
(* that are traced to their own line are found to be applied already, and  *)
(* nothing is left to do by hand.                                          *)
RepeatIsHarmless ==
    [][(/\ Patched
        /\ Located(File)
        /\ Expand(src, File) = run.cur
        /\ Len(run.base[File]) = Len(run.cur)
        /\ \A p \in Range(run.patches) :
              KeepsSize(p) /\ p.kind = "Literal" /\ p.line = p.expanded)
       => run'.lines = src /\ run'.skipped = run.skipped]_vars

(* A line that the user has written into the source since the last tangle  *)
(* is never replaced or removed, however stale noweb_map is by then,       *)
(* unless it is a line of the baseline that was only indented otherwise.   *)
SourceEditSurvives ==
    [][\A u \in Written :
          Patched /\ Trimmed(u) \notin {Trimmed(l) : l \in Range(run.base[File])}
          => Len(SelectSeq(run'.lines, LAMBDA l : l = u))
                = Len(SelectSeq(src, LAMBDA l : l = u))]_vars

(* docs/architecture.md: after applying, apply-back updates the baselines  *)
(* so that the next run proceeds without a ModifiedExternally error.       *)
NextTangleProceeds ==
    [][(/\ run.pc = "baseline"
        /\ db'.base # db.base)
       => Expand(run.lines, File) = db'.base[File]]_vars
=============================================================================
