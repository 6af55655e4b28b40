----------------------------- MODULE SourceEdit -----------------------------
(***************************************************************************)
(* Edits of the literate sources through wb-serve: `/__chunk` fills the    *)
(* editor panel of a page, `/__apply` saves it, `/__save_note` puts a note *)
(* behind a chunk.  Each request has a thread of its own and there is no   *)
(* lock; the lines of a chunk come from weaveback.db, which the last       *)
(* tangle wrote, its text comes from the source as it is now.              *)
(*                                                                         *)
(* A line is a record: it opens chunk n, closes one, refers to chunk n, is *)
(* the fence behind a listing, or is text.  What is typed into a panel, or *)
(* as a note, may be any lines.  A row of chunk_defs is taken for any      *)
(* definition of its chunk; the sources have no macros.                    *)
(***************************************************************************)
EXTENDS Naturals, FiniteSets, SequencesExt

CONSTANTS
    Files,     \* the sources of one directory
    Panels,    \* pages with an editor panel
    Target,    \* the file and the chunk that the panel of each page edits
    Root,      \* the `@file` chunk
    Inputs,    \* the texts at the start
    NewBodies, \* what is typed into a panel
    Notes,     \* what is typed as a note
    Frame,     \* the lines before a note, and those behind it
    Prose,     \* a line that the user adds at the top of a source
    Names      \* what lines name: chunks and wordings

Kinds == {"open", "close", "ref", "fence", "text"}
Line == [k : Kinds, n : Names]

ASSUME ConstantsOK ==
    /\ \A p \in Panels : Target[p].file \in Files
    /\ \A ts \in Inputs : ts \in [Files -> Seq(Line)]
    /\ \A body \in NewBodies \cup Notes : body \in Seq(Line)
    /\ {Frame, Prose} \subseteq {l \in Line : l.k = "text"}

VARIABLES
    texts,  \* the lines of each source
    known,  \* the text that each source's rows of chunk_defs come from
    panel,  \* the panel of each page with the thread that serves it
    edits,  \* bound: edits and tangles with other programs still to come
    saves   \* bound: the same of requests to save

sources == <<texts, known, edits>>
vars == <<texts, known, panel, edits, saves>>

NoRange == [from |-> 0, to |-> 0]
Blank == [pc |-> "closed", orig |-> <<>>, range |-> NoRange,
          kind |-> "none", base |-> <<>>, new |-> <<>>]

Init ==
    /\ texts \in Inputs
    /\ known = texts
    /\ panel = [p \in Panels |-> Blank]
-----------------------------------------------------------------------------
(* What the chunk store makes of a text.                                   *)

Opens(t, i) == t[i].k = "open"
Ends(t, i) == t[i].k \in {"open", "close"}

(* The line where the chunk that line i opens comes to an end, or none.    *)
EndOf(t, i) ==
    LET after == {j \in (i + 1)..Len(t) : Ends(t, j)}
    IN  {j \in after : \A m \in after : j <= m}

(* chunk_def_entries: the 1-based lines of the header and the close marker *)
(* of chunk c; a definition without a close marker has no row.             *)
Ranges(t, c) ==
    UNION {{[from |-> i, to |-> j] : j \in {x \in EndOf(t, i) : t[x].k = "close"}} :
              i \in {x \in DOMAIN t : Opens(t, x) /\ t[x].n = c}}

Inside(t, i, j) == i < j /\ \A e \in EndOf(t, i) : j < e

Refs(t) ==
    UNION {{<<t[i].n, t[j].n>> : j \in {x \in DOMAIN t : t[x].k = "ref" /\ Inside(t, i, x)}} :
              i \in {x \in DOMAIN t : Opens(t, x)}}

(* tangle_check: the `@file` chunk expands, that is, among the chunks it   *)
(* reaches there is no cycle; a chunk without a definition is empty.       *)
ExpandsAlong(edges) ==
    \E reached \in SUBSET ({Root} \cup {e[2] : e \in edges}) :
        /\ Root \in reached
        /\ \A e \in edges : e[1] \in reached => e[2] \in reached
        /\ \A S \in SUBSET reached \ {{}} :
              \E c \in S : \A d \in S : <<c, d>> \notin edges

Expands(ts) == ExpandsAlong(UNION {Refs(ts[f]) : f \in DOMAIN ts})
-----------------------------------------------------------------------------
(* source_edit.rs                                                          *)

InBounds(t, r) == r.from < Len(t) /\ r.to <= Len(t)

(* extract_chunk_body: the lines between the header and the close marker. *)
Extract(t, r) == SubSeq(t, r.from + 1, r.to - 1)

(* apply_chunk_edit *)
Apply(t, r, body) ==
    SubSeq(t, 1, r.from) \o body \o SubSeq(t, r.to, Len(t))

(* insert_note_into_source: behind the close marker and its fence. *)
NotePlace(t, r) == IF r.to < Len(t) /\ t[r.to + 1].k = "fence" THEN r.to + 1 ELSE r.to

WithNote(t, r, note) ==
    SubSeq(t, 1, NotePlace(t, r)) \o <<Frame>> \o note \o <<Frame>>
        \o SubSeq(t, NotePlace(t, r) + 1, Len(t))

(* The text that a save or a note of p writes. *)
Edited(p) ==
    IF panel[p].kind = "note"
    THEN WithNote(panel[p].base, panel[p].range, panel[p].new)
    ELSE Apply(panel[p].base, panel[p].range, panel[p].new)

Move(p, pc) == panel' = [panel EXCEPT ![p].pc = pc]

(* The answer to a request ends its thread: the panel is as it was. *)
Answer(p, pc) == panel' = [panel EXCEPT ![p] =
    [Blank EXCEPT !.pc = pc, !.orig = panel[p].orig]]

Text(p) == texts[Target[p].file]
Rows(p) == Ranges(known[Target[p].file], Target[p].chunk)

(* The look-up that begins each of the three requests. *)
LookUp(p, from, to) ==
    /\ panel[p].pc = from
    /\ \E r \in Rows(p) : panel' = [panel EXCEPT ![p].pc = to, ![p].range = r]
    /\ UNCHANGED sources

(* GET /__chunk.  An error leaves the panel as good as closed. *)
OpenPanel(p) == LookUp(p, "closed", "load") /\ UNCHANGED saves

LoadFails(p) ==
    /\ panel[p].pc = "load"
    /\ ~InBounds(Text(p), panel[p].range)
    /\ Answer(p, "closed")
    /\ UNCHANGED <<sources, saves>>

Load(p) ==
    /\ panel[p].pc = "load"
    /\ InBounds(Text(p), panel[p].range)
    /\ panel' = [panel EXCEPT ![p] =
           [Blank EXCEPT !.pc = "open",
                         !.orig = Extract(Text(p), panel[p].range)]]
    /\ UNCHANGED <<sources, saves>>

ClosePanel(p) ==
    /\ panel[p].pc = "open"
    /\ panel' = [panel EXCEPT ![p] = Blank]
    /\ UNCHANGED <<sources, saves>>

Asks == saves > 0 /\ saves' = saves - 1

(* POST /__apply *)
SaveLooksUp(p) == Asks /\ LookUp(p, "open", "compare")

(* A plausible slip: the body is not compared. *)
SameBodyUnchecked(p) == InBounds(Text(p), panel[p].range)

SameBody(p) ==
    /\ InBounds(Text(p), panel[p].range)
    /\ Extract(Text(p), panel[p].range) = panel[p].orig

SaveRefused(p) ==
    /\ panel[p].pc = "compare"
    /\ ~SameBody(p)
    /\ Answer(p, "open")
    /\ UNCHANGED <<sources, saves>>

SaveCompares(p) ==
    /\ panel[p].pc = "compare"
    /\ SameBody(p)
    /\ \E body \in NewBodies :
          panel' = [panel EXCEPT ![p].pc = "oracle",
                                 ![p].kind = "save",
                                 ![p].base = Text(p),
                                 ![p].new = body]
    /\ UNCHANGED <<sources, saves>>

(* A plausible slip: only the edited source is tangled for the check. *)
OracleAlone(p) == Expands([f \in {Target[p].file} |-> Edited(p)])

(* tangle_oracle: the other sources are read from the disk. *)
Oracle(p) == Expands([texts EXCEPT ![Target[p].file] = Edited(p)])

SaveFailsCheck(p) ==
    /\ panel[p].pc = "oracle"
    /\ ~Oracle(p)
    /\ Answer(p, "open")
    /\ UNCHANGED <<sources, saves>>

SavePassesCheck(p) ==
    /\ panel[p].pc = "oracle"
    /\ Oracle(p)
    /\ Move(p, "truncate")
    /\ UNCHANGED <<sources, saves>>

(* POST /__save_note.  A close marker beyond the text ends the thread.     *)
NoteLooksUp(p) == Asks /\ LookUp(p, "open", "note")

NotePanics(p) ==
    /\ panel[p].pc = "note"
    /\ panel[p].range.to > Len(Text(p))
    /\ Answer(p, "open")
    /\ UNCHANGED <<sources, saves>>

NoteReads(p) ==
    /\ panel[p].pc = "note"
    /\ panel[p].range.to <= Len(Text(p))
    /\ \E note \in Notes :
          panel' = [panel EXCEPT ![p].pc = "truncate",
                                 ![p].kind = "note",
                                 ![p].base = Text(p),
                                 ![p].new = note]
    /\ UNCHANGED <<sources, saves>>

(* fs::write empties the file and then writes it.  Where it cannot open    *)
(* the file nothing changes; where it fails later a part is written.       *)
OpenFails(p) ==
    /\ panel[p].pc = "truncate"
    /\ Answer(p, "open")
    /\ UNCHANGED <<sources, saves>>

Truncate(p) ==
    /\ panel[p].pc = "truncate"
    /\ texts' = [texts EXCEPT ![Target[p].file] = <<>>]
    /\ Move(p, "write")
    /\ UNCHANGED <<known, edits, saves>>

Write(p) ==
    /\ panel[p].pc = "write"
    /\ texts' = [texts EXCEPT ![Target[p].file] = Edited(p)]
    /\ panel' = [panel EXCEPT ![p] =
           [Blank EXCEPT !.pc = "open",
                         !.orig = IF panel[p].kind = "save"
                                  THEN panel[p].new ELSE panel[p].orig]]
    /\ UNCHANGED <<known, edits, saves>>

(* A line that is cut in two is left out. *)
Beginnings(t) == {SubSeq(t, 1, n) : n \in 0..Len(t)}

WriteFails(p) ==
    /\ panel[p].pc = "write"
    /\ \E t \in Beginnings(Edited(p)) :
          texts' = [texts EXCEPT ![Target[p].file] = t]
    /\ Answer(p, "open")
    /\ UNCHANGED <<known, edits, saves>>

WritesDisk(p) == Truncate(p) \/ Write(p) \/ WriteFails(p)

(* What the server does without being asked again: it reads sources. *)
ReadsDisk(p) ==
    \/ LoadFails(p) \/ Load(p) \/ SaveRefused(p) \/ SaveCompares(p)
    \/ SaveFailsCheck(p) \/ SavePassesCheck(p)
    \/ NotePanics(p) \/ NoteReads(p)
-----------------------------------------------------------------------------
(* The user adds a line at the top of a source, or deletes it. *)
UserEdits(f) ==
    /\ edits > 0
    /\ edits' = edits - 1
    /\ texts' = [texts EXCEPT ![f] = IF @ # <<>> /\ Head(@) = Prose
                                     THEN Tail(@) ELSE <<Prose>> \o @]
    /\ UNCHANGED <<known, panel, saves>>
=============================================================================
