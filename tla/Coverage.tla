------------------------------ MODULE Coverage ------------------------------
(***************************************************************************)
(* wb-query coverage: the line records of an LCOV file, which speak of     *)
(* generated files, are grouped by the literate source and the section     *)
(* that the chunk map traces each line to.                                 *)
(*                                                                         *)
(* A record is [file, line, hits]; entries gives a generated file and a    *)
(* line the chunk and the place in the sources, if there is one; sources   *)
(* are the texts of the literate sources that can be loaded, with the      *)
(* lines of Blocks.                                                        *)
(***************************************************************************)
EXTENDS Blocks

(* parse_lcov_records.  A line is "SF" (a file follows), "DA" (a record),  *)
(* "end" or "junk"; a record that belongs to no file is dropped.           *)
IsLcovLine(l) ==
    /\ l.kind \in {"SF", "DA", "end", "junk"}
    /\ l.kind = "DA" => l.line \in Nat /\ l.hits \in Nat

LcovLine(s, l) ==
    CASE l.kind = "SF" -> [s EXCEPT !.file = <<l.file>>]
      [] l.kind = "end" -> [s EXCEPT !.file = <<>>]
      [] l.kind = "DA" /\ s.file # <<>> ->
            [s EXCEPT !.records =
                Append(@, [file |-> s.file[1], line |-> l.line, hits |-> l.hits])]
      [] OTHER -> s

LcovRecords(lcov) ==
    LET s[i \in 0..Len(lcov)] ==
            IF i = 0 THEN [file |-> <<>>, records |-> <<>>] ELSE LcovLine(s[i - 1], lcov[i])
    IN  s[Len(lcov)].records
-----------------------------------------------------------------------------
(* The context of a source line *)

LevelAt(text, i) == Headings[text[i].name]
HeadingsIn(text, first, last) == {i \in first..last : i \in DOMAIN text /\ IsHeading(text[i])}
Anchor(text, i) == Min({i, Len(text)})

(* A section begins at the heading above the line and ends before the next *)
(* heading that is not deeper: it includes the sections below it.          *)
SectionRange(text, i) ==
    LET at == Anchor(text, i)
        above == HeadingsIn(text, 1, at)
        level == IF above = {} THEN 1 ELSE LevelAt(text, Max(above))
        next == {j \in HeadingsIn(text, at + 1, Len(text)) : LevelAt(text, j) <= level}
    IN  [first |-> IF above = {} THEN 1 ELSE Max(above),
         last |-> IF next = {} THEN Len(text) ELSE Min(next) - 1]

(* The headings a line stands under, from the outermost one. *)
TitleChain(text, i) ==
    LET above == HeadingsIn(text, 1, Anchor(text, i))
        chain == {j \in above : \A k \in above : k > j => LevelAt(text, k) > LevelAt(text, j)}
        order == SetToSortSeq(chain, <)
    IN  [k \in DOMAIN order |-> text[order[k]].name]
-----------------------------------------------------------------------------
(* build_coverage_summary *)

HasEntry(entries, r) == r.file \in DOMAIN entries /\ r.line \in DOMAIN entries[r.file]

(* A plausible slip: the range of another source is taken too. *)
CachedInAnyFile(cache, e) ==
    {k \in DOMAIN cache : cache[k].first <= e.line /\ e.line <= cache[k].last}

(* The sections looked up so far are kept, and the first one whose range   *)
(* holds a line is taken for the section of that line.                     *)
Cached(cache, e) ==
    {k \in DOMAIN cache : /\ cache[k].file = e.file
                          /\ cache[k].first <= e.line /\ e.line <= cache[k].last}

LookUp(sources, e) ==
    LET range == SectionRange(sources[e.file], e.line)
    IN  [file |-> e.file, first |-> range.first, last |-> range.last,
         titles |-> TitleChain(sources[e.file], e.line)]

(* A line whose source has to be looked at and cannot be loaded counts as  *)
(* one without a place.                                                    *)
HasContext(entries, sources, cache, r) ==
    /\ HasEntry(entries, r)
    /\ LET e == entries[r.file][r.line]
       IN  Cached(cache, e) # {} \/ e.file \in DOMAIN sources

Attribute(s, r, entries, sources) ==
    IF ~HasContext(entries, sources, s.cache, r) THEN [s EXCEPT !.unmapped = Append(@, r)]
    ELSE LET e == entries[r.file][r.line]
             found == Cached(s.cache, e)
             section == IF found = {} THEN LookUp(sources, e) ELSE s.cache[Min(found)]
         IN  [s EXCEPT !.cache = IF found = {} THEN Append(@, section) ELSE @,
                       !.rows = Append(@, [record |-> r, entry |-> e,
                                           titles |-> section.titles])]

Attributed(records, entries, sources) ==
    LET s[i \in 0..Len(records)] ==
            IF i = 0 THEN [cache |-> <<>>, rows |-> <<>>, unmapped |-> <<>>]
            ELSE Attribute(s[i - 1], records[i], entries, sources)
    IN  s[Len(records)]

(* A plausible slip: a record counts once for all its repetitions. *)
CountsOfSet(records) ==
    [total |-> Cardinality(Range(records)),
     covered |-> Cardinality({r \in Range(records) : r.hits > 0}),
     missed |-> Cardinality({r \in Range(records) : r.hits = 0})]

Counts(records) ==
    LET covered == Len(SelectSeq(records, LAMBDA r : r.hits > 0))
    IN  [total |-> Len(records), covered |-> covered, missed |-> Len(records) - covered]

RecordsOf(rows) == [k \in DOMAIN rows |-> rows[k].record]

(* The sections of the rows of one source, under their titles. *)
SectionSummaries(rows) ==
    [titles \in {r.titles : r \in Range(rows)} |->
        LET mine == SelectSeq(rows, LAMBDA r : r.titles = titles)
        IN  [counts |-> Counts(RecordsOf(mine)),
             chunks |-> {r.entry.chunk : r \in Range(mine)},
             lines |-> RecordsOf(mine)]]

SourceSummaries(rows) ==
    [f \in {r.entry.file : r \in Range(rows)} |->
        LET mine == SelectSeq(rows, LAMBDA r : r.entry.file = f)
        IN  [counts |-> Counts(RecordsOf(mine)),
             chunks |-> {r.entry.chunk : r \in Range(mine)},
             sections |-> SectionSummaries(mine)]]

(* compute_unmapped_ranges: the lines without a place, in ranges; of the   *)
(* records of one line the first one counts.                               *)
UnmappedRanges(records) ==
    LET lines == {r.line : r \in Range(records)}
        first(i) == SelectSeq(records, LAMBDA r : r.line = i)[1]
        starts == {i \in lines : i - 1 \notin lines}
        end(i) == Min({j \in lines : j >= i /\ j + 1 \notin lines})
        range(i) == [start |-> i, end |-> end(i),
                     missed |-> Cardinality({j \in i..end(i) : first(j).hits = 0})]
    IN  [k \in 1..Cardinality(starts) |-> range(SetToSortSeq(starts, <)[k])]

(* record_unattributed_line *)
UnmappedFiles(unmapped, entries) ==
    [f \in {r.file : r \in Range(unmapped)} |->
        LET mine == SelectSeq(unmapped, LAMBDA r : r.file = f)
            mapped == IF f \in DOMAIN entries THEN DOMAIN entries[f] ELSE {}
        IN  [counts |-> Counts(mine),
             mapped |-> IF mapped = {} THEN <<>> ELSE <<Min(mapped), Max(mapped)>>,
             ranges |-> UnmappedRanges(mine)]]

(* The summary; its sources and sections are listed with the one that has  *)
(* most lines missed first.                                                *)
MostMissedFirst(summaries) ==
    SetToSortSeq(DOMAIN summaries,
                 LAMBDA a, b : summaries[a].counts.missed > summaries[b].counts.missed)

CoverageSummary(records, entries, sources) ==
    LET s == Attributed(records, entries, sources)
    IN  [records |-> Len(records),
         rows |-> s.rows,
         sources |-> SourceSummaries(s.rows),
         unmapped |-> UnmappedFiles(s.unmapped, entries)]

(* build_coverage_summary_view: the first sources, each with its first     *)
(* sections.                                                               *)
FirstOf(seq, n) == SubSeq(seq, 1, Min({n, Len(seq)}))

CoverageView(summary, topSources, topSections) ==
    LET listed == FirstOf(MostMissedFirst(summary.sources), topSources)
    IN  [k \in DOMAIN listed |->
            [file |-> listed[k],
             sections |-> FirstOf(MostMissedFirst(summary.sources[listed[k]].sections),
                                  topSections)]]
=============================================================================
