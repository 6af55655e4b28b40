------------------------------- MODULE Blocks -------------------------------
(***************************************************************************)
(* The block parser of weaveback-tangle, which splits a source into blocks *)
(* whose hashes decide what an incremental pass may skip, and the linter   *)
(* rules of weaveback-api about chunk definitions and fences.              *)
(*                                                                         *)
(* A source is a sequence of the lines of Noweb.  A text line may be a     *)
(* fence, a heading, blank, or prose; the lines of a chunk are prose to    *)
(* this parser, and so is a preprocessor directive, which is masked.  The  *)
(* linter trims a line before it looks at it, and has a shorter list of    *)
(* fences: some lines are a fence, or an end of a chunk, to one of them    *)
(* and text to the other.                                                  *)
(***************************************************************************)
EXTENDS Naturals, FiniteSets, SequencesExt

CONSTANTS
    Fences,             \* what opens and closes a code block in AsciiDoc: four or
                        \* more of a sign, and blanks behind them
    Headings,           \* the text of headings, with their levels
    MarkdownFences, MarkdownHeadings,   \* both in Markdown
    LintFences,         \* the linter's fences: four of a sign, blanks around them
    LintCloses          \* the ends of chunks the linter sees and the chunk store
                        \* does not: a comment mark with blanks before it

(* A heading has a level: the number of its marks. *)
ASSUME HeadingLevels == \A h \in DOMAIN Headings : Headings[h] \in Nat \ {0}

IsText(l) == l.kind = "text"
IsBlank(l) == IsText(l) /\ l.blank
Says(l, names) == IsText(l) /\ ~IsBlank(l) /\ l.name \in names

IsHeading(l) == Says(l, DOMAIN Headings)

(* The readers of a source: what is a fence and a heading to each, and     *)
(* whether any fence ends a code block or only the one that began it.      *)
AsciiDoc == [fences |-> Fences, headings |-> DOMAIN Headings, anyEnds |-> FALSE]
LineScanner == [fences |-> Fences, headings |-> DOMAIN Headings, anyEnds |-> TRUE]
Markdown == [fences |-> MarkdownFences, headings |-> MarkdownHeadings, anyEnds |-> FALSE]
Linter == [fences |-> LintFences, headings |-> {}, anyEnds |-> TRUE]
-----------------------------------------------------------------------------
(* The line where the code block began that is open after line i, or 0.    *)
FenceAfter(text, reader, open, i) ==
    IF ~Says(text[i], reader.fences) THEN open
    ELSE IF open = 0 THEN i
    ELSE IF reader.anyEnds \/ text[open] = text[i] THEN 0
    ELSE open

OpenFence(text, reader) ==
    LET open[i \in 0..Len(text)] ==
            IF i = 0 THEN 0 ELSE FenceAfter(text, reader, open[i - 1], i)
    IN  open

(* What line i belongs to. *)
ClassOf(text, reader, open, i) ==
    IF open[i - 1] # 0 \/ open[i] # 0 THEN "code"
    ELSE IF Says(text[i], reader.headings) THEN "section"
    ELSE IF IsBlank(text[i]) THEN "none"
    ELSE "para"

(* A block begins at a fence, at a heading, and where prose begins. *)
BlockStarts(text, reader, open) ==
    {i \in DOMAIN text :
        LET class == ClassOf(text, reader, open, i)
        IN  \/ class = "section"
            \/ class = "code" /\ open[i - 1] = 0
            \/ class = "para" /\ (i = 1 \/ ClassOf(text, reader, open, i - 1) # "para")}

BlockEnd(text, reader, open, i) ==
    LET class == ClassOf(text, reader, open, i)
        last == {j \in i..Len(text) :
                    CASE class = "section" -> j = i
                      [] class = "code" -> open[j] = 0 \/ j = Len(text)
                      [] OTHER -> j = Len(text) \/ ClassOf(text, reader, open, j + 1) # "para"}
    IN  Min(last)

ScannedBlocks(text, reader) ==
    LET open == OpenFence(text, reader)
        starts == BlockStarts(text, reader, open)
        block(i) == [type |-> ClassOf(text, reader, open, i), first |-> i,
                     last |-> BlockEnd(text, reader, open, i)]
    IN  FlattenSeq([i \in DOMAIN text |-> IF i \in starts THEN <<block(i)>> ELSE <<>>])

WholeText(text) == <<[type |-> "text", first |-> 1, last |-> Max({1, Len(text)})]>>

(* What the parsers of AsciiDoc (acdc) and of Markdown (pulldown_cmark)    *)
(* find in these texts.                                                    *)
ParsedBlocks(text, reader) ==
    LET blocks == ScannedBlocks(text, reader)
    IN  IF blocks = <<>> THEN WholeText(text) ELSE blocks

HasUnclosedFence(text) == OpenFence(text, AsciiDoc)[Len(text)] # 0

(* parse_adoc_raw; parses says whether acdc accepts the document. *)
AdocBlocks(text, parses) ==
    IF HasUnclosedFence(text) \/ ~parses THEN ScannedBlocks(text, LineScanner)
    ELSE ParsedBlocks(text, AsciiDoc)

(* parse_source_blocks, for a format of sources. *)
Formats == {"adoc", "adoc not parsed", "markdown", "other"}
SourceBlocks(text, format) ==
    CASE format = "adoc" -> AdocBlocks(text, TRUE)
      [] format = "adoc not parsed" -> AdocBlocks(text, FALSE)
      [] format = "markdown" -> ParsedBlocks(text, Markdown)
      [] OTHER -> WholeText(text)

(* The hash of a block stands for its content. *)
Content(text, b) == SubSeq(text, b.first, Min({b.last, Len(text)}))
-----------------------------------------------------------------------------
(* The linter *)

(* lint_unterminated_chunk_definition: the line of the definition that is  *)
(* open after line i, whether or not the chunk store accepts it, or 0; and *)
(* with no closes of its own what is open to the chunk store.              *)
DefinitionAfter(text, closes, open, i) ==
    CASE text[i].kind = "open" -> i
      [] text[i].kind = "close" \/ Says(text[i], closes) -> 0
      [] OTHER -> open

OpenDefinition(text, closes) ==
    LET open[i \in 0..Len(text)] ==
            IF i = 0 THEN 0 ELSE DefinitionAfter(text, closes, open[i - 1], i)
    IN  open

\* A plausible slip: a definition that another one follows is not reported.
UnterminatedAtEnd(text, closes) == {OpenDefinition(text, closes)[Len(text)]} \ {0}

Unterminated(text, closes) ==
    LET open == OpenDefinition(text, closes)
    IN  {i \in DOMAIN text : text[i].kind = "open" /\ open[i - 1] # 0}
        \cup ({open[Len(text)]} \ {0})

(* lint_chunk_body_outside_fence: any fence ends or begins a block. *)
OutsideFence(text) ==
    LET open == OpenFence(text, Linter)
    IN  {i \in DOMAIN text : text[i].kind = "open" /\ open[i - 1] = 0}

(* The formats whose files the linter looks at: .adoc and .wvb, which is a *)
(* single block to the block parser.                                       *)
LintedFormats == Formats \ {"markdown"}
=============================================================================
