--------------------------- MODULE MCMacroSyntax ---------------------------
(***************************************************************************)
(* Texts for MacroSyntax: sequences of pieces, alone and between           *)
(* delimiters, and documents spelled with comments, line breaks and commas *)
(* that mean nothing.                                                      *)
(***************************************************************************)
EXTENDS MacroSyntax

TextPieces ==
    {<<"%", "a", "(">>, <<"%", "{">>, <<"%", "a", "{">>, <<"%", "}">>, <<"%", "a", "}">>,
     <<"%", "[">>, <<"%", "]">>, <<"%", "b", "1", "]">>, <<"%", "/", "*">>, <<"%", "*", "/">>,
     <<"%", "/", "/", ".", "\n">>, <<"%", "(", "a", ")">>, <<"%">>, <<"%", "-">>,
     <<")">>, <<",">>, <<"=">>, <<" ">>, <<"a">>, <<".">>}

Contexts ==
    {<<(<<"%", "a", "{">>), (<<"%", "a", "}">>)>>,
     <<(<<"%", "b", "1", "[">>), (<<"%", "b", "1", "]">>)>>,
     <<(<<"%", "/", "*">>), (<<"%", "*", "/">>)>>}

Openings == {<<"%", "a", "(">>, <<"%", "{">>, <<"%", "}">>, <<"%", "[">>, <<"%", "/", "*">>}

MCSources ==
    {p \o q \o r : p \in TextPieces, q \in TextPieces, r \in TextPieces}
    \cup {<<"%", "b", "(">> \o p \o q \o r \o <<")">> :
             p \in Openings, q \in TextPieces, r \in TextPieces}
    \cup {c[1] \o p \o q \o c[2] : c \in Contexts, p \in TextPieces, q \in TextPieces}

Leaves == {Tree("text", <<".">>, <<>>), Tree("var", <<"%", "(", "a", ")">>, <<>>)}
Names == {Tree("ident", <<"a">>, <<>>)}
ParamTree(name, parts) == Tree("param", name, parts)
MacroTree(params) == Tree("macro", <<"b">>, params)
BlockTree(parts) == Tree("block", <<>>, parts)

Values == {<<>>} \cup {<<x>> : x \in Leaves \cup Names}
SmallParams == {ParamTree(n, v) : n \in {<<>>, <<"a">>}, v \in Values}
Lists(params) == {<<>>} \cup {<<p>> : p \in params} \cup
                 {<<p, q>> : p \in params, q \in params}
Written(params) == {l \in Lists(params) : l # <<>> => Last(l) # ParamTree(<<>>, <<>>)}

Inner == {MacroTree(l) : l \in Written(SmallParams)} \cup {BlockTree(<<x>>) : x \in Leaves}
LargeParams == SmallParams \cup
    {ParamTree(n, <<x>>) : n \in {<<>>, <<"a">>},
                       x \in {MacroTree(<<ParamTree(<<>>, <<y>>)>>) : y \in Names}
                             \cup {BlockTree(<<y>>) : y \in Leaves}}
Statements == Leaves \cup Inner \cup {MacroTree(l) : l \in Written(LargeParams)}

MCDocuments ==
    {BlockTree(<<x>>) : x \in Statements} \cup
    {BlockTree(<<x, MacroTree(l)>>) : x \in Leaves, l \in Written(SmallParams)} \cup
    {BlockTree(<<MacroTree(l), x>>) : x \in Leaves, l \in Written(SmallParams)}

\* What may stand before and after names and values, after the last argument,
\* and after a statement.
Noises ==
    [lead : {<<>>, <<"\n", "%", "#", ",", "\n">>, <<"%", "/", "*", ")", "%", "*", "/">>},
     last : {<<>>, <<",", " ">>},
     note : {<<>>, <<"%", "/", "/", "%", "{", "\n">>}]

RECURSIVE Spell(_, _)
Spell(node, noise) ==
    LET all == FoldLeft(LAMBDA text, part : text \o Spell(part, noise), <<>>, node.parts)
        statements ==
            FoldLeft(LAMBDA text, part :
                       text \o Spell(part, noise)
                            \o (IF part.kind = "text" /\ noise.note # <<>> THEN <<" ">> ELSE <<>>)
                            \o noise.note,
                     <<>>, node.parts)
        list == IF node.parts = <<>> THEN <<>>
                ELSE FoldLeft(LAMBDA text, part : text \o <<",">> \o Spell(part, noise),
                              Spell(node.parts[1], noise), Tail(node.parts))
        key == IF node.name = <<>> THEN <<>>
               ELSE noise.lead \o node.name \o noise.lead \o <<"=">>
    IN  CASE node.kind = "param" -> key \o noise.lead \o all
          [] node.kind = "macro" ->
               <<"%">> \o node.name \o <<"(">> \o list \o noise.last \o <<")">>
          [] node.kind = "block" -> <<"%", "{">> \o statements \o <<"%", "}">>
          [] OTHER -> node.name

\* The root block has no brackets.
SpellDocument(d, noise) ==
    LET text == Spell(d, noise) IN SubSeq(text, 3, Len(text) - 2)

MCSpellings == {[document |-> d, text |-> SpellDocument(d, noise)] :
                  d \in MCDocuments, noise \in Noises}
=============================================================================
