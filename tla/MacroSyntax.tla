---------------------------- MODULE MacroSyntax ----------------------------
(***************************************************************************)
(* From the text of a macro document to its syntax tree: what MacroReader  *)
(* reads, then the removal of comments and the classification of           *)
(* parameters (crates/weaveback-macro, parser/build.rs and strip.rs).      *)
(***************************************************************************)
EXTENDS MacroReader

CONSTANTS
    Sources,      \* texts to read
    Spellings,    \* records of a document and a text that spells it
    Unknown       \* the document of a text that is in Sources

ASSUME TextsOK ==
    /\ \A s \in Sources : s \in Seq(Symbols)
    /\ \A s \in Spellings : s.text \in Seq(Symbols)

VARIABLES
    document,   \* the document that the text spells (not in the code)
    tree

syntaxVars == <<readerVars, document, tree>>

----------------------------------------------------------------------------
(* The syntax tree *)

IsComment(node) == node.kind \in {"line comment", "comment"}
IsSkippable(node) == IsComment(node) \/ node.kind = "space"

\* Blanks go before a line comment, and before a comment that ends its line.
TakesBlanks(node) ==
    \/ node.kind = "line comment"
    \/ node.kind = "comment" /\ At(node.end) = Newline

\* The indices from which only spaces lead to such a comment.
BeforeComment(parts) ==
    {j \in DOMAIN parts : \E i \in DOMAIN parts :
        /\ j < i /\ TakesBlanks(parts[i])
        /\ \A k \in j + 1..i - 1 : parts[k].kind = "space"}

\* Where the token ends without its last blanks.
Trimmed(node) ==
    Max({j \in node.from..node.to - 1 : source[j] \notin Blanks} \cup {node.from - 1}) + 1

RECURSIVE Strip(_)
Strip(node) ==
    LET before == BeforeComment(node.parts)
        trim == [j \in DOMAIN node.parts |->
                   IF j \in before /\ node.parts[j].kind = "text"
                   THEN [node.parts[j] EXCEPT !.to = Trimmed(node.parts[j])]
                   ELSE node.parts[j]]
        kept == {j \in DOMAIN trim : ~(j \in before /\ trim[j].kind = "space")}
        order == SetToSortSeq(kept, <)
    IN  [node EXCEPT !.parts = [k \in DOMAIN order |-> Strip(trim[order[k]])]]

\* The tree that is evaluated: a leaf's name is its text, a macro's its name.
Tree(kind, name, parts) == [kind |-> kind, name |-> name, parts |-> parts]
TokenText(node) == SubSeq(source, node.from, node.to - 1)

\* The name of a parameter, if it starts with one and an equal sign, and
\* the index its value starts at.
AnalyzeParam(parts) ==
    LET solid == SetToSortSeq({j \in DOMAIN parts : ~IsSkippable(parts[j])}, <)
        named == /\ Len(solid) > 1
                 /\ parts[solid[1]].kind = "ident" /\ parts[solid[2]].kind = "equal"
        first == IF named THEN 3 ELSE 1
    IN  [name  |-> IF named THEN TokenText(parts[solid[1]]) ELSE <<>>,
         start |-> IF first \in DOMAIN solid THEN solid[first] ELSE Len(parts) + 1]

IsEmptyPositional(node) ==
    node.kind = "param" /\ node.name = <<>> /\ node.parts = <<>>

\* A plausible slip: every empty argument is dropped.
DropEmptyParams(nodes) == SelectSeq(nodes, LAMBDA node : ~IsEmptyPositional(node))

TrimTrailingEmptyParams(nodes) ==
    SubSeq(nodes, 1, Max({k \in DOMAIN nodes : ~IsEmptyPositional(nodes[k])} \cup {0}))

RECURSIVE CleanNode(_)
\* Comments are dropped, parameters classified, empty last ones dropped.
CleanNode(node) ==
    LET clean(parts) ==
            LET kept == SelectSeq(parts, LAMBDA part : ~IsComment(part))
            IN  [k \in DOMAIN kept |-> CleanNode(kept[k])]
    IN  CASE node.kind = "param" ->
               LET param == AnalyzeParam(node.parts)
               IN  Tree("param", param.name,
                        clean(SubSeq(node.parts, param.start, Len(node.parts))))
          [] node.kind = "macro" ->
               Tree("macro", Tag(node), TrimTrailingEmptyParams(clean(node.parts)))
          [] node.kind = "block" -> Tree("block", <<>>, clean(node.parts))
          [] node.kind \notin {"param", "macro", "block"} ->
               Tree(node.kind, TokenText(node), <<>>)

Build ==
    /\ Finish
    /\ tree' = CleanNode(Strip(FrameOnTop.node))
    /\ UNCHANGED document

----------------------------------------------------------------------------

NoText ==
    /\ source = <<>> /\ document = Unknown /\ tree = Unknown
    /\ stage = "none" /\ Untouched

SyntaxInit ==
    /\ \/ source \in Sources /\ document = Unknown
       \/ \E s \in Spellings : source = s.text /\ document = s.document
    /\ stage = "lex" /\ Untouched
    /\ tree = Unknown

SyntaxNext ==
    \/ ReadStep /\ UNCHANGED <<document, tree>>
    \/ Build

----------------------------------------------------------------------------
(* Properties *)

\* A text that spells a document, with comments, line breaks and trailing
\* commas where they mean nothing, is read as that document: a comment
\* takes only the blanks before it away, an empty argument stays where it
\* is, and names are told from values (build.rs, strip.rs).
ReadsBack ==
    document # Unknown =>
        stage # "refused" /\ (stage = "done" => tree = document)

=============================================================================
