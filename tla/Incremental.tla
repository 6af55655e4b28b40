----------------------------- MODULE Incremental -----------------------------
(***************************************************************************)
(* Passes of wb-tangle one after the other over sources that change, with  *)
(* what a pass leaves out because it takes it for unchanged, what it       *)
(* writes through a formatter, and the coverage report that is made of its *)
(* chunk map.  Reading and expanding are those of Noweb.                   *)
(***************************************************************************)
EXTENDS Noweb, Coverage, Remap, TLC

CONSTANTS
    Settings(_),   \* what parser and formatter a project may have
    Projects,      \* what the sources may come to be
    Revisions(_),  \* what they may be changed to
    Reports(_),    \* the LCOV files made of what it generates
    Added,         \* a line that a formatter adds
    MaxPasses,     \* bound on the passes
    MaxTop         \* bound on the sources and sections a view is asked for

(* Whatever the user makes of the sources, they are sequences of lines, and *)
(* so are reports.                                                         *)
ASSUME ProjectsOK ==
    /\ Inputs \subseteq Projects
    /\ UNION {Revisions(t) : t \in Projects} \subseteq Projects
    /\ \A t \in Projects :
          /\ IsProject(t)
          /\ \A s \in Settings(t) : s.parser \in Formats
          /\ \A lcov \in Reports(t) :
                lcov \in Seq(Range(lcov)) /\ \A i \in DOMAIN lcov : IsLcovLine(lcov[i])

VARIABLES
    setting,  \* [parser, formatter] of the project
    pass,     \* the number of the pass
    force,    \* --force-generated
    skip,     \* the `@file` chunks the pass leaves out
    own,      \* the database of the pass: [maps, deps, written]
    db,       \* weaveback.db
    disk,     \* the generated files
    report    \* the coverage summary

incVars == <<texts, strict, pc, store, n, out, err,
             setting, pass, force, skip, own, db, disk, report>>

NoFiles == [x \in {} |-> <<>>]
With(f, x, v) == [y \in DOMAIN f \cup {x} |-> IF y = x THEN v ELSE f[y]]
OwnDb == [maps |-> NoFiles, deps |-> {}, written |-> {}]
NoDb == [present |-> FALSE, texts |-> <<>>, blocks |-> <<>>, defs |-> {}, deps |-> {},
         baselines |-> {}, maps |-> NoFiles]
NoReport == [records |-> 0, rows |-> <<>>, sources |-> NoFiles, unmapped |-> NoFiles,
             loads |-> {}, view |-> <<>>]

IncInit ==
    /\ Init
    /\ setting \in Settings(texts)
    /\ pass = 1
    /\ force = FALSE
    /\ skip = {}
    /\ own = OwnDb
    /\ db = NoDb
    /\ disk = NoFiles
    /\ report = NoReport
-----------------------------------------------------------------------------
(* compute_skip_set *)

BlocksOf(t) == SourceBlocks(t, setting.parser)
Hashes(t) == [k \in DOMAIN BlocksOf(t) |-> Content(t, BlocksOf(t)[k])]

(* set_source_blocks: the blocks of every source, by source and index. *)
AllHashes == [f \in DOMAIN texts |-> Hashes(texts[f])]

(* chunk_defs: the definitions that were closed. *)
ChunkDefs ==
    UNION {{[chunk |-> c, file |-> d.file, first |-> d.line, last |-> d.end] :
              d \in {x \in Range(store.defs[c]) : x.end # 0}} : c \in Names}

(* A block is compared with the block that had its index. *)
ChangedBlocks(f) ==
    {k \in DOMAIN BlocksOf(texts[f]) :
        \/ f \notin DOMAIN db.blocks
        \/ k \notin DOMAIN db.blocks[f]
        \/ db.blocks[f][k] # Hashes(texts[f])[k]}

\* A plausible slip: the definition must hold the whole block.
DefsWithin(f, b) ==
    {d \in db.defs : d.file = f /\ d.first <= b.first /\ d.last >= b.last}

(* query_chunk_defs_overlapping, with the lines of the new text among the  *)
(* definitions of the previous one.                                        *)
DefsOverlapping(f, b) ==
    {d \in db.defs : d.file = f /\ d.first <= b.last /\ d.last >= b.first}

DirtyAtFirst ==
    UNION {{d.chunk : d \in UNION {DefsOverlapping(f, BlocksOf(texts[f])[k]) :
                                      k \in ChangedBlocks(f)}} : f \in DOMAIN texts}

(* Everything that uses a dirty chunk is dirty. *)
DirtyChunks ==
    LET users(s) == s \cup {e[1] : e \in {x \in db.deps : x[2] \in s}}
        dirty[k \in Nat] == IF k = 0 THEN DirtyAtFirst ELSE users(dirty[k - 1])
    IN  dirty[Cardinality(Names)]

SkippedFiles ==
    IF ~db.present THEN {}
    ELSE {c \in Files : /\ \E d \in db.defs : d.chunk = c
                        /\ c \notin DirtyChunks
                        /\ c \in db.baselines
                        /\ c \in DOMAIN disk}

Reading ==
    /\ Read
    /\ UNCHANGED <<setting, pass, force, skip, own, db, disk, report>>

(* run_single_pass, before it writes. *)
StartPass ==
    /\ StartWriting
    /\ skip' = IF force THEN {} ELSE SkippedFiles
    /\ UNCHANGED <<setting, pass, force, own, db, disk, report>>
-----------------------------------------------------------------------------
(* write_files_incremental *)

(* The lines of a file as they are expanded, before any formatter. *)
Plainly(lines) == [i \in DOMAIN lines |-> [text |-> lines[i].text, form |-> 0]]

(* What the formatters do: leave out blank lines, change the white space   *)
(* of a line, add lines.                                                   *)
Format(formatter, x) ==
    LET squeezed == FlattenSeq([i \in DOMAIN x |-> IF x[i].text.blank THEN <<>> ELSE <<x[i]>>])
        added == [text |-> Added, form |-> 0]
    IN  CASE formatter = "squeeze" -> squeezed
          [] formatter = "indent" -> [i \in DOMAIN x |-> [x[i] EXCEPT !.form = i % 2]]
          [] formatter = "frame" ->
                <<added, added>> \o [i \in DOMAIN squeezed |-> [squeezed[i] EXCEPT !.form = i % 2]]
                          \o <<added>>
          [] OTHER -> x

(* normalize_trailing_whitespace: no blank lines at the end. *)
WithoutTrailingBlanks(x) ==
    LET keep == {i \in DOMAIN x : ~x[i].text.blank}
    IN  IF keep = {} THEN <<>> ELSE SubSeq(x, 1, Max(keep))

OnDisk(lines) == WithoutTrailingBlanks(Format(setting.formatter, Plainly(lines)))

EntryOf(lines, i, confidence) ==
    [chunk |-> lines[i].chunk, file |-> lines[i].file, line |-> lines[i].line,
     from |-> i, confidence |-> confidence]

PlainMap(lines) == [i \in DOMAIN lines |-> EntryOf(lines, i, "exact")]

(* The entries of the text that was written. *)
MapAfterFormat(lines, post, matching) ==
    IF post = Plainly(lines) THEN PlainMap(lines)
    ELSE LET to == Remapped(Plainly(lines), [i \in DOMAIN lines |-> lines[i].chunk],
                            post, matching)
         IN  [j \in DOMAIN to |-> EntryOf(lines, to[j].from, to[j].confidence)]

(* A file that is on disk with other content than the pass would write is  *)
(* refused: the database the writer looks in for a baseline is its own,    *)
(* empty one.                                                              *)
Refused(f, post) == ~force /\ f \in DOMAIN disk /\ disk[f] # post

(* A formatter that leaves nothing of a file has failed. *)
Emptied(lines) == lines # <<>> /\ Format(setting.formatter, Plainly(lines)) = <<>>

WriteError(f, lines) ==
    IF Emptied(lines) THEN "FormatterError"
    ELSE IF Refused(f, OnDisk(lines)) THEN "ModifiedExternally"
    ELSE "none"

(* set_chunk_deps: the edges of every source the new edges come from are   *)
(* deleted first.                                                          *)
AddDeps(old, new) == {e \in old : e[3] \notin {x[3] : x \in new}} \cup new

(* The loop of write_files_incremental for one file.  The map of a file    *)
(* that is left out is the one before the formatter.                       *)
WriteOutput ==
    /\ ExpandFile
    /\ UNCHANGED <<setting, pass, force, skip, db, report>>
    /\ IF pc' = "failed" THEN UNCHANGED <<own, disk>>
       ELSE LET o == Last(out')
                post == OnDisk(o.lines)
            IN  IF o.name \in skip
                THEN /\ own' = [own EXCEPT !.maps = With(@, o.name, PlainMap(o.lines)),
                                           !.deps = AddDeps(@, o.deps)]
                     /\ UNCHANGED disk
                ELSE /\ WriteError(o.name, o.lines) = "none"
                     /\ disk' = With(disk, o.name, post)
                     /\ \E m \in Matchings(Plainly(o.lines), post) :
                           own' = [own EXCEPT
                                     !.maps = With(@, o.name, MapAfterFormat(o.lines, post, m)),
                                     !.deps = AddDeps(@, o.deps),
                                     !.written = @ \cup {o.name}]

Refuse ==
    /\ pc = "expand"
    /\ n < Len(store.files)
    /\ LET f == store.files[n + 1]
           x == Expansion(f)
       IN  /\ x.err = "none"
           /\ f \notin skip
           /\ WriteError(f, x.lines) # "none"
           /\ err' = WriteError(f, x.lines)
    /\ pc' = "failed"
    /\ UNCHANGED <<texts, strict, store, n, out, setting, pass, force, skip, own, db, disk, report>>

(* The database of the pass is merged into weaveback.db.  Every row of a   *)
(* source that was read is replaced, and all sources are read, so only     *)
(* baselines are kept.  Block hashes are computed only where something may *)
(* be skipped.                                                             *)
FinishPass ==
    /\ Finish
    /\ db' = [present |-> TRUE, texts |-> texts, defs |-> ChunkDefs,
              blocks |-> IF force THEN NoFiles ELSE AllHashes,
              deps |-> own.deps, baselines |-> db.baselines \cup own.written,
              maps |-> own.maps]
    /\ UNCHANGED <<setting, pass, force, skip, own, disk, report>>
-----------------------------------------------------------------------------
(* wb-query coverage, after a pass.  A source is loaded if it has a        *)
(* snapshot in the database or can be read.                                *)
ReportOf(lcov, top, loads) ==
    LET s == CoverageSummary(LcovRecords(lcov), db.maps, [f \in loads |-> texts[f]])
    IN  [records |-> s.records, rows |-> s.rows, sources |-> s.sources,
         unmapped |-> s.unmapped, loads |-> loads, view |-> CoverageView(s, top, top)]

Cover ==
    /\ pc = "done"
    /\ report = NoReport
    /\ \E lcov \in Reports(texts), top \in 1..MaxTop, loads \in SUBSET DOMAIN texts :
          report' = ReportOf(lcov, top, loads)
    /\ UNCHANGED <<texts, strict, pc, store, n, out, err, setting, pass, force, skip, own, db, disk>>

(* The user changes the sources, may delete a generated file, and starts   *)
(* the next pass.                                                          *)
Revise ==
    /\ pc \in {"done", "failed"}
    /\ pass < MaxPasses
    /\ texts' \in Revisions(texts)
    /\ force' \in BOOLEAN
    /\ \E gone \in SUBSET DOMAIN disk :
          disk' = [f \in DOMAIN disk \ gone |-> disk[f]]
    /\ pass' = pass + 1
    /\ pc' = "read"
    /\ store' = EmptyStore
    /\ n' = 0
    /\ out' = <<>>
    /\ err' = "none"
    /\ skip' = {}
    /\ own' = OwnDb
    /\ report' = NoReport
    /\ UNCHANGED <<strict, setting, db>>

IncNext == Reading \/ StartPass \/ WriteOutput \/ Refuse \/ FinishPass \/ Cover \/ Revise

IncSpec == IncInit /\ [][IncNext]_incVars
-----------------------------------------------------------------------------
(* Properties *)

InCodeBlock(text, i) ==
    \E b \in Range(BlocksOf(text)) : b.type = "code" /\ i \in b.first..b.last

(* Below the header at line i and above the next one there is an end that  *)
(* is one only to the linter.                                              *)
LintClosesBelow(text, i) ==
    \E k \in DOMAIN text : /\ i < k /\ Says(text[k], LintCloses)
                           /\ \A j \in (i + 1)..k : text[j].kind # "open"

(* Above line i there are fences of two kinds, or one that is a fence only *)
(* to the linter or only to the block parser.                              *)
FencesDifferAbove(text, i) ==
    \E j, k \in 1..(i - 1) :
        /\ Says(text[j], Fences \cup LintFences) /\ Says(text[k], Fences \cup LintFences)
        /\ text[j] = text[k] => ~Says(text[j], Fences \cap LintFences)

(* The linter, the chunk store and the block parsers read a source each    *)
(* with rules of its own.  What the linter has nothing to say about, the   *)
(* others take as it does, except below a line that they read differently: *)
(* a definition that never ends for the chunk store holds an end that only *)
(* the linter sees, and a header that the block parser of AsciiDoc finds   *)
(* outside of every code block stands below fences that are not alike.     *)
LintedDefinitionsHold ==
    pc # "read" /\ setting.parser \in LintedFormats =>
        /\ \A c \in Names : \A d \in Range(store.defs[c]) :
              d.end = 0 /\ Unterminated(texts[d.file], LintCloses) = {} =>
                  LintClosesBelow(texts[d.file], d.line)
        /\ setting.parser # "other" =>
              \A f \in DOMAIN texts : \A i \in DOMAIN texts[f] :
                  texts[f][i].kind = "open" /\ OutsideFence(texts[f]) = {} =>
                      InCodeBlock(texts[f], i) \/ FencesDifferAbove(texts[f], i)

(* To the chunk store every definition has its end. *)
DefinitionsEnd(ts) == \A f \in DOMAIN ts : Unterminated(ts[f], {}) = {}

(* Both texts have the same headers and ends of chunks in the same places, *)
(* and the same number of lines.                                           *)
SamePlaces(old, new) ==
    /\ DOMAIN old = DOMAIN new
    /\ \A f \in DOMAIN old :
          /\ Len(old[f]) = Len(new[f])
          /\ \A i \in DOMAIN old[f] :
                {old[f][i].kind, new[f][i].kind} \cap {"open", "close"} # {} =>
                    old[f][i] = new[f][i]

(* The blocks hold every line of the definitions.  Outside of code blocks  *)
(* they need not: a blank line between two paragraphs is in none, and one  *)
(* that is moved changes no block.                                         *)
BlocksCover(text) ==
    LET open == OpenDefinition(text, {})
    IN  \A i \in DOMAIN text :
            open[i] # 0 => \E b \in Range(BlocksOf(text)) : i \in b.first..b.last

(* Since the last pass the headers and ends of chunks have stayed where    *)
(* they were; every definition has an end and lies in blocks, and none is  *)
(* replaced or ignored.                                                    *)
ChangedWithinChunks ==
    /\ db.present /\ SamePlaces(db.texts, texts) /\ DefinitionsEnd(texts)
    /\ \A f \in DOMAIN texts : BlocksCover(db.texts[f]) /\ BlocksCover(texts[f])
    /\ \A c \in Names : Headers(c) = Current(c)

(* A pass that is about to succeed leaves no generated file behind its     *)
(* sources, the files it skipped included, if the sources were changed     *)
(* only within chunks and between them.  When lines move, or definitions   *)
(* come and go, or a blank line is moved in a chunk outside of code blocks *)
(* it may: compute_skip_set takes the file for unchanged.  It may as well  *)
(* when a paragraph goes and the definition of a chunk becomes what the    *)
(* one that it replaces was, as its block then has the index that the      *)
(* other one had.                                                          *)
SkippedFilesAreFresh ==
    pc = "expand" /\ n = Len(store.files) /\ ChangedWithinChunks =>
        \A o \in Range(out) : disk[o.name] = OnDisk(o.lines)

Written == own.written \ skip

(* The map of a file that was written leads every line to the source: a    *)
(* line the formatter kept, or only gave other white space, to a line with *)
(* its text, no two of them to one line of the expansion, and a line it    *)
(* added to the place of a line beside it.                                 *)
MapFitsFormattedFile ==
    pc = "done" /\ Contiguous =>
        \A f \in Written :
            LET map == db.maps[f]
                found == {j \in DOMAIN map : map[j].confidence # "inferred"}
            IN  /\ found # {} => DOMAIN map = DOMAIN disk[f]
                /\ \A j \in found : texts[map[j].file][map[j].line] = disk[f][j].text
                /\ \A j, k \in found : map[j].from = map[k].from => j = k
                /\ \A j \in DOMAIN map \ found :
                      \E k \in found : map[k].from = map[j].from

(* Headings of one level only, which is the outermost level if there are   *)
(* lines above the first of them.                                          *)
Flat(text) ==
    LET headings == HeadingsIn(text, 1, Len(text))
    IN  /\ \A i, j \in headings : LevelAt(text, i) = LevelAt(text, j)
        /\ 1 \in headings \/ \A i \in headings : LevelAt(text, i) = 1

(* Where no section has sections below it, a covered line is reported in   *)
(* the section of the source line it comes from, whatever sections were    *)
(* looked up before it, in this source and in the others.                  *)
LinesUnderTheirSection ==
    \A r \in Range(report.rows) :
        Flat(texts[r.entry.file]) => r.titles = TitleChain(texts[r.entry.file], r.entry.line)

(* Every record is counted once: in one section of one source, or among    *)
(* the lines of its file that have no place, or have it in a source that   *)
(* cannot be loaded; the ranges of such a file hold those lines and no     *)
(* other.  What the view leaves out misses no more lines than what it      *)
(* shows.                                                                  *)
EveryRecordCounted ==
    LET total(s) == MapThenSumSet(LAMBDA x : s[x].counts.total, DOMAIN s)
        ranges(f) == report.unmapped[f].ranges
        missed(f) == report.sources[f].counts.missed
        shown == {v.file : v \in Range(report.view)}
    IN  /\ report.records = total(report.sources) + total(report.unmapped)
        /\ \A f \in DOMAIN report.sources :
              report.sources[f].counts.total = total(report.sources[f].sections)
        /\ \A f \in DOMAIN report.unmapped :
              LET spans == {r.start..r.end : r \in Range(ranges(f))}
              IN  /\ Cardinality(UNION spans) <= report.unmapped[f].counts.total
                  /\ \A k \in 2..Len(ranges(f)) : ranges(f)[k - 1].end + 1 < ranges(f)[k].start
                  /\ f \in DOMAIN db.maps =>
                        \A i \in UNION spans \cap DOMAIN db.maps[f] :
                            db.maps[f][i].file \notin report.loads
        /\ \A f \in DOMAIN report.sources \ shown, g \in shown : missed(f) <= missed(g)
=============================================================================
