---------------------------- MODULE MCMacroPass ----------------------------
(***************************************************************************)
(* Small projects for MacroPass: a document of a few statements beside a   *)
(* library.                                                                *)
(***************************************************************************)
EXTENDS MacroPass

A == Param(<<Text("A")>>)
X == Param(<<Var("x")>>)
Id(name) == Param(<<Ident(name)>>)
Body(parts) == Param(<<Block(parts)>>)
P == Var("p")

Definitions ==
    {Call("def", <<Id("m"), Id("p"), Body(<<Text("<"), P, Text(">")>>)>>),
     Call("redef", <<Id("m"), Id("p"), Body(<<P, Var("x")>>)>>),
     Call("def", <<Id("m"), Id("p"), Id("q"),
                   Body(<<Var("q"), Call("if", <<Param(<<P>>), Param(<<P>>), X>>)>>)>>),
     Call("def", <<Id("m"), Id("p"),
                   Body(<<Call("set", <<Id("x"), Param(<<P, P>>)>>),
                          Call("def", <<Id("k"), A>>), Var("x")>>)>>),
     Call("def", <<Id("m"), Id("p"),
                   Body(<<Call("set", <<Id("x"), Param(<<P>>)>>),
                          Call("def", <<Id("k"), Id("p"), A>>),
                          Call("export", <<Id("x")>>), Call("export", <<Id("k")>>)>>)>>),
     Call("def", <<Id("m"), Id("p"), Body(<<Call("m", <<Param(<<P>>)>>)>>)>>),
     Call("pydef", <<Id("m"), Id("p"), Body(<<P>>)>>)}

Uses ==
    {Text("B"), Var("x"),
     Call("set", <<Id("x"), Param(<<Text("C"), Text("B")>>)>>),
     Call("alias", <<Id("m"), Id("m"), Named("x", <<Text("D")>>), Named("p", <<Text("D")>>)>>),
     Call("alias", <<Id("k"), Id("m"), Named("x", <<Text("E")>>)>>),
     Call("m", <<Param(<<Text("A"), Text("B")>>)>>),
     Call("m", <<Param(<<Text("A"), Var("x"), Call("m", <<X>>)>>)>>),
     Call("m", <<A, Named("q", <<Var("x")>>)>>),
     Call("k", <<A>>),
     Call("match", <<A, Param(<<Var("x")>>), Param(<<Text("(?P<x>.+)")>>),
                     Param(<<Call("m", <<X>>), Var("match_0")>>)>>),
     Call("eval", <<Id("m"), X>>),
     Call("if", <<Param(<<Call("eq", <<X, A>>)>>), A, Param(<<Call("m", <<A>>)>>)>>),
     Call("here", <<Id("m"), A>>),
     Call("import", <<Param(<<Text("lib")>>)>>)}

Libraries ==
    {Block(<<Text("L")>>),
     Block(<<Call("def", <<Id("k"), Id("p"), Body(<<Text("K"), P>>)>>),
             Call("set", <<Id("x"), A>>)>>),
     Block(<<Var("x")>>),
     Block(<<Call("include", <<Param(<<Text("doc")>>)>>)>>)}

MCLineEnds == {"C"}

MCFiles == <<"doc", "lib">>

Documents ==
    {Block(<<d, u, v>>) : d \in Definitions, u \in Uses, v \in Uses}
    \cup {Block(<<u, d, v>>) : d \in Definitions, u \in Uses, v \in Uses}

\* No document with a %here is included by another one.
MCProjects ==
    {p \in {[file \in {"doc", "lib"} |-> IF file = "doc" THEN d ELSE l] :
              d \in Documents, l \in Libraries} :
        Mentions(p["doc"], {"here"}) => ~Mentions(p["lib"], {"include"})}
MCInputs == {<<"doc">>, <<"lib", "doc">>}

MCProbes ==
    {Call("m", <<A>>), Call("m", <<X>>),
     Call("m", <<A, Named("q", <<Var("x"), Text("F")>>)>>),
     Call("m", <<Named("q", <<Text("F")>>), Named("p", <<Text("G")>>)>>),
     Call("k", <<A>>),
     Call("match", <<A, A, Param(<<Text("(?P<x>.+)")>>), X>>)}
=============================================================================
