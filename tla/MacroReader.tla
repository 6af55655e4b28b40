---------------------------- MODULE MacroReader ----------------------------
(***************************************************************************)
(* Reading the text of a macro document (lex_parse_content in              *)
(* crates/weaveback-macro): the lexer, a stack automaton over the text,    *)
(* and the parser, a second one over the tokens.                           *)
(*                                                                         *)
(* The text is a sequence of symbols: the sigil, the delimiters, blanks,   *)
(* letters and digits (which spell identifiers), anything else.  A token   *)
(* has a kind and the range from <= i < to of the text it stands for.  A   *)
(* node has the token it starts with and the position it ends at; the open *)
(* ones are a stack.  An error is the fact that there is one.              *)
(***************************************************************************)
EXTENDS Naturals, Sequences, FiniteSets, SequencesExt, FiniteSetsExt

VARIABLES
    source,
    lexer,      \* position, state stack, tokens, errors
    shapes,     \* the lexer's stack after each token (not in the code)
    parser,     \* index of the token to handle, stack of open nodes
    stage       \* "lex", "parse", "build", "done", "refused"; "none" without a text

readerVars == <<source, lexer, shapes, parser, stage>>

----------------------------------------------------------------------------
(* The text *)

Sigil == "%"
Newline == "\n"
Blanks == {" ", Newline}
Letters == {"a", "b"}
Digits == {"1"}
Comma == ","
Equals == "="
Paren == "("
EndParen == ")"
Brace == "{"
EndBrace == "}"
Bracket == "["
EndBracket == "]"
Brackets == {Paren, Brace, EndBrace, Bracket, EndBracket}
Symbols == Blanks \cup Letters \cup Digits \cup Brackets \cup
           {Sigil, EndParen, Comma, Equals, "/", "*", "-", "#", "."}

At(i) == IF i \in DOMAIN source THEN source[i] ELSE "eof"
EndOfText == Len(source) + 1
Spells(i, text) == \A k \in DOMAIN text : At(i + k - 1) = text[k]

\* The first position from i on with one of the symbols, or the end.
Find(symbols, i) == Min({j \in i..Len(source) : source[j] \in symbols} \cup {EndOfText})

\* Where the identifier at i ends; i itself if there is none.
IdentifierEnd(i) ==
    IF At(i) \in Letters THEN Find(Symbols \ (Letters \cup Digits), i) ELSE i

AfterLine(i) == Min({Find({Newline}, i) + 1, EndOfText})

----------------------------------------------------------------------------
(* The lexer *)

Token(kind, from, to) == [kind |-> kind, from |-> from, to |-> to]

\* A token and what it does: push a state, pop the one on top, or neither.
Piece(kind, to, do, state, wrong) ==
    [kind |-> kind, to |-> to, do |-> do, state |-> state, wrong |-> wrong]
Plain(kind, to)       == Piece(kind, to, "continue", "", FALSE)
Wrong(kind, to)       == Piece(kind, to, "continue", "", TRUE)
Opens(kind, to, state) == Piece(kind, to, "push", state, FALSE)
Exits(kind, to)       == Piece(kind, to, "pop", "", FALSE)
Closes(kind, to)      == Piece(kind, to, "pop", "", Len(lexer.stack) <= 1)

VarAfter(i) ==
    LET j == IdentifierEnd(i + 1)
    IN  IF j > i + 1 /\ At(j) = EndParen THEN Plain("Var", j + 1) ELSE Wrong("Text", j)

\* Comments, the doubled sigil, and a sigil that starts nothing.
AfterBareSigil(i) ==
    LET c == At(i)  d == At(i + 1)
    IN  CASE c = "/" /\ d = "*" -> Opens("CommentOpen", i + 2, "comment")
          [] c \in {"/", "-"} /\ d = c -> Plain("LineComment", AfterLine(i + 2))
          [] c \in {"/", "-"} /\ d # c /\ <<c, d>> # <<"/", "*">> -> Wrong("Text", i + 1)
          [] c = "#"   -> Plain("LineComment", AfterLine(i + 1))
          [] c = Sigil -> Plain("Special", i + 1)
          [] i = EndOfText -> Plain("Text", i)
          [] i < EndOfText /\ c \notin {"/", "-", "#", Sigil} -> Wrong("Text", i)

\* What the sigil before i starts: in a block and in the arguments of a macro.
AfterSigil(i) ==
    LET j == IdentifierEnd(i)    \* a tag or a name may come first
        c == At(j)
    IN  CASE c = Paren /\ j = i -> VarAfter(i)
          [] c = Paren /\ j > i -> Opens("Macro", j + 1, "macro")
          [] c = Brace -> Opens("BlockOpen", j + 1, "block")
          [] c = EndBrace -> Closes("BlockClose", j + 1)
          [] c = Bracket -> Opens("VerbatimOpen", j + 1, "verbatim")
          [] c = EndBracket -> Wrong("VerbatimClose", j + 1)
          [] c \notin Brackets /\ j > i -> Plain("Text", j)
          [] c \notin Brackets /\ j = i -> AfterBareSigil(i)

InBlock(i) ==
    IF At(i) = Sigil THEN AfterSigil(i + 1) ELSE Plain("Text", Find({Sigil}, i))

\* Only the brackets of verbatim blocks mean something in one.
InVerbatim(i) ==
    LET j == IdentifierEnd(i + 1)
    IN  CASE At(i) # Sigil -> Plain("Text", Find({Sigil}, i))
          [] At(i) = Sigil /\ At(j) = Bracket -> Opens("VerbatimOpen", j + 1, "verbatim")
          [] At(i) = Sigil /\ At(j) = EndBracket -> Closes("VerbatimClose", j + 1)
          [] At(i) = Sigil /\ At(j) \notin {Bracket, EndBracket} -> Plain("Text", j)

InMacro(i) ==
    LET c == At(i)
    IN  CASE c = EndParen -> Exits("CloseParen", i + 1)
          [] c = Comma -> Plain("Comma", i + 1)
          [] c = Equals -> Plain("Equal", i + 1)
          [] c \in Blanks -> Plain("Space", Find(Symbols \ Blanks, i))
          [] c = Sigil -> AfterSigil(i + 1)
          [] c \in Letters -> Plain("Ident", IdentifierEnd(i))
          [] OTHER -> Plain("Text", Find(Blanks \cup {EndParen, Comma, Equals, Sigil}, i))

\* The delimiter that a comment goes on to, or the end of the text.
CommentDelimiter(i) ==
    Min({j \in i..Len(source) : Spells(j, <<Sigil, "/", "*">>) \/ Spells(j, <<Sigil, "*", "/">>)}
        \cup {EndOfText})

\* A plausible slip: comments do not nest.
InFlatComment(i) ==
    LET j == CommentDelimiter(i)
    IN  CASE j > i -> IF j = EndOfText THEN Wrong("Text", j) ELSE Plain("Text", j)
          [] j = i /\ At(i + 1) = "/" -> Plain("CommentOpen", i + 3)
          [] j = i /\ At(i + 1) # "/" -> Exits("CommentClose", i + 3)

InComment(i) ==
    LET j == CommentDelimiter(i)
    IN  CASE j > i -> IF j = EndOfText THEN Wrong("Text", j) ELSE Plain("Text", j)
          [] j = i /\ At(i + 1) = "/" -> Opens("CommentOpen", i + 3, "comment")
          [] j = i /\ At(i + 1) # "/" -> Exits("CommentClose", i + 3)

TopState == Last(lexer.stack)

\* A state function that meets the end of the text leaves its state; that of
\* arguments complains.  One that has just been entered never runs.
Lex(piece) ==
    LET atEnd == piece.to = EndOfText /\ piece.do = "continue"
        after == CASE piece.do = "push" -> Append(lexer.stack, piece.state)
                   [] piece.do = "pop"  -> Front(lexer.stack)
                   [] OTHER -> lexer.stack
    IN  /\ stage = "lex" /\ lexer.pos < EndOfText /\ lexer.stack # <<>>
        /\ lexer' = [pos    |-> piece.to,
                     stack  |-> IF atEnd THEN Front(after) ELSE after,
                     tokens |-> Append(lexer.tokens, Token(piece.kind, lexer.pos, piece.to)),
                     wrong  |-> lexer.wrong \/ piece.wrong \/ (atEnd /\ TopState = "macro")]
        /\ shapes' = Append(shapes, after)
        /\ UNCHANGED <<source, parser, stage>>

LexBlock    == lexer.stack # <<>> /\ TopState = "block"    /\ Lex(InBlock(lexer.pos))
LexVerbatim == lexer.stack # <<>> /\ TopState = "verbatim" /\ Lex(InVerbatim(lexer.pos))
LexMacro    == lexer.stack # <<>> /\ TopState = "macro"    /\ Lex(InMacro(lexer.pos))
LexComment  == lexer.stack # <<>> /\ TopState = "comment"  /\ Lex(InComment(lexer.pos))

Unclosed == \E k \in 2..Len(lexer.stack) : lexer.stack[k] # "comment"

\* The end of the text, or more text after the root block was closed.  A
\* comment that ends with its opening is left for the parser to notice.
LexEnd ==
    /\ stage = "lex" /\ (lexer.pos = EndOfText \/ lexer.stack = <<>>)
    /\ LET wrong == lexer.wrong \/ lexer.pos < EndOfText \/ Unclosed
       IN  stage' = IF wrong THEN "refused" ELSE "parse"
    /\ UNCHANGED <<source, lexer, shapes, parser>>

----------------------------------------------------------------------------
(* The parser *)

\* end is set when the node is closed.
PNode(kind, from, to) ==
    [kind |-> kind, from |-> from, to |-> to, end |-> to, parts |-> <<>>]

Frame(state, node) == [state |-> state, node |-> node]
TokenNode(kind, token) == PNode(kind, token.from, token.to)

Root == Frame("block", PNode("block", 1, 1))
FrameOnTop == Last(parser.open)
Current == lexer.tokens[parser.at]

\* The tag of a block is what its token has between sigil and bracket.
Tag(node) == SubSeq(source, node.from + 1, node.to - 2)

AddChild(frames, node) ==
    [frames EXCEPT ![Len(frames)].node.parts = Append(@, node)]
PushNode(frames, state, node) == Append(frames, Frame(state, node))
\* close_top and the pop after it; a node joins its parent here.
CloseTop(frames, end) == AddChild(Front(frames), [Last(frames).node EXCEPT !.end = end])

Handle(state) ==
    /\ stage = "parse" /\ parser.at \in DOMAIN lexer.tokens
    /\ parser.open # <<>> /\ FrameOnTop.state = state
Becomes(frames) ==
    /\ parser' = [at |-> parser.at + 1, open |-> frames]
    /\ UNCHANGED <<source, lexer, shapes, stage>>
Refuse ==
    /\ stage' = "refused"
    /\ UNCHANGED <<source, lexer, shapes, parser>>

\* The close that each kind of block waits for; another one is text in it.
CloseOf == [block |-> "BlockClose", verbatim |-> "VerbatimClose"]

CloseBlock ==
    \E state \in DOMAIN CloseOf :
        /\ Handle(state) /\ Current.kind = CloseOf[state]
        /\ IF Tag(Current) # Tag(FrameOnTop.node)
           THEN Refuse
           ELSE Becomes(IF Len(parser.open) = 1 THEN <<>>
                        ELSE CloseTop(parser.open, Current.to))

NextParam ==
    /\ Handle("param") /\ Current.kind = "Comma"
    /\ Becomes(PushNode(CloseTop(parser.open, Current.from), "param",
                        TokenNode("param", Current)))

CloseMacro ==
    /\ Handle("param") /\ Current.kind = "CloseParen"
    /\ Becomes(CloseTop(CloseTop(parser.open, Current.to), Current.to))

ParamLeaf ==
    /\ Handle("param") /\ Current.kind \in {"Ident", "Space", "Equal"}
    /\ LET kind == [Ident |-> "ident", Space |-> "space", Equal |-> "equal"]
       IN  Becomes(AddChild(parser.open, TokenNode(kind[Current.kind], Current)))

\* In a comment only its end and a comment in it count.
InsideComment ==
    /\ Handle("comment")
    /\ Becomes(CASE Current.kind = "CommentClose" -> CloseTop(parser.open, Current.to)
                 [] Current.kind = "CommentOpen" ->
                       PushNode(parser.open, "comment", TokenNode("comment", Current))
                 [] Current.kind \notin {"CommentClose", "CommentOpen"} -> parser.open)

\* Tokens that no frame consumed.
Unconsumed ==
    \/ /\ \E state \in DOMAIN CloseOf : Handle(state) /\ Current.kind # CloseOf[state]
    \/ /\ Handle("param")
       /\ Current.kind \notin {"Comma", "CloseParen", "Ident", "Space", "Equal"}

OpenBlock ==
    /\ Unconsumed /\ Current.kind \in {"BlockOpen", "VerbatimOpen"}
    /\ LET state == IF Current.kind = "BlockOpen" THEN "block" ELSE "verbatim"
       IN  Becomes(PushNode(parser.open, state, TokenNode("block", Current)))

OpenMacro ==
    /\ Unconsumed /\ Current.kind = "Macro"
    /\ LET first == PNode("param", Current.from, Current.from)
       IN  Becomes(PushNode(PushNode(parser.open, "macro", TokenNode("macro", Current)),
                            "param", first))

OpenComment ==
    /\ Unconsumed /\ Current.kind = "CommentOpen"
    /\ Becomes(PushNode(parser.open, "comment", TokenNode("comment", Current)))

\* Variables, line comments, and anything else as text.
Leaf ==
    /\ Unconsumed
    /\ Current.kind \notin {"BlockOpen", "VerbatimOpen", "Macro", "CommentOpen"}
    /\ LET kind == CASE Current.kind = "Var" -> "var"
                     [] Current.kind = "LineComment" -> "line comment"
                     [] Current.kind \notin {"Var", "LineComment"} -> "text"
       IN  Becomes(AddChild(parser.open, TokenNode(kind, Current)))

\* Only the root may be open at the end.
ParseEnd ==
    /\ stage = "parse" /\ (parser.at = Len(lexer.tokens) + 1 \/ parser.open = <<>>)
    /\ stage' = IF Len(parser.open) = 1 THEN "build" ELSE "refused"
    /\ UNCHANGED <<source, lexer, shapes, parser>>

\* The tree is made of the root.
Finish ==
    /\ stage = "build" /\ stage' = "done"
    /\ UNCHANGED <<source, lexer, shapes, parser>>

----------------------------------------------------------------------------

Untouched ==
    /\ lexer = [pos |-> 1, stack |-> <<"block">>, tokens |-> <<>>, wrong |-> FALSE]
    /\ shapes = <<>>
    /\ parser = [at |-> 1, open |-> <<Root>>]

ReaderInit ==
    /\ source \in Seq(Symbols)
    /\ stage = "lex"
    /\ Untouched

ReadStep ==
    \/ LexBlock \/ LexVerbatim \/ LexMacro \/ LexComment \/ LexEnd
    \/ CloseBlock \/ NextParam \/ CloseMacro \/ ParamLeaf \/ InsideComment
    \/ OpenBlock \/ OpenMacro \/ OpenComment \/ Leaf \/ ParseEnd

ReaderNext == ReadStep \/ Finish

ReaderSpec == ReaderInit /\ [][ReaderNext]_readerVars

----------------------------------------------------------------------------
(* Properties *)

\* How many of the first k states are the arguments of a macro.
MacrosIn(states, k) == Cardinality({i \in 1..k : states[i] = "macro"})
Macros(states) == MacrosIn(states, Len(states))

OpenStates == [k \in DOMAIN parser.open |-> parser.open[k].state]

\* The parser has the lexer's states open, and in each macro a parameter.
Mirrors(open, shape) ==
    /\ Len(open) = Len(shape) + Macros(shape)
    /\ \A k \in DOMAIN shape :
          LET at == k + MacrosIn(shape, k - 1)
          IN  /\ open[at] = shape[k]
              /\ shape[k] = "macro" => open[at + 1] = "param"

\* The lexer's stack after the last token that the parser has handled.
Shape == IF parser.at = 1 THEN <<"block">> ELSE shapes[parser.at - 1]

\* The lexer decides by its own stack what a symbol means and the parser by
\* another one what a token closes.  Of a text the lexer accepts, the two
\* agree after every token, until a block's close inside the arguments of a
\* macro: the lexer leaves the arguments, the parser never does, and it
\* refuses the text at the end (sigil.rs, handlers.rs).  No text is accepted
\* that the two understood in different ways.
StacksAgree ==
    stage \in {"parse", "build"} =>
        /\ Mirrors(OpenStates, Shape) \/ Macros(OpenStates) > Macros(Shape)
        /\ stage = "build" => Mirrors(OpenStates, Shape)

=============================================================================
