---------------------------- MODULE MCApplyBack ----------------------------
(***************************************************************************)
(* Instances of ApplyBack for TLC: two chunks, the second used by both     *)
(* generated files, indented in one; and with a macro.                     *)
(***************************************************************************)
EXTENDS ApplyBack

MCDefOpen == "m" :> "%def(m, p, %{"
MCCallOpen == "m" :> "%m("
MCComputed == "%if(1, d)" :> "d"
MCOpen == [c |-> <<"<<c>>=">>, d |-> <<"<<d>>=">>]
MCClose == <<"@">>

(* Without macros. *)
PlainLines == << MCOpen["c"], <<"a1">>, <<"a2">>, MCClose, MCOpen["d"], <<"b1">>, MCClose >>
Part(c) == [chunk |-> c, indent |-> <<>>]
Indented(c) == [chunk |-> c, indent |-> <<Space>>]
BothChunks == [f |-> <<Part("c"), Indented("d")>>, g |-> <<Part("d")>>]

TwoFiles(ngen, nsrc) ==
    [source |-> PlainLines, files |-> <<"f", "g">>, parts |-> BothChunks,
     edits |-> [gen |-> ngen, src |-> nsrc]]
SecondChunk ==
    [source |-> PlainLines, files |-> <<"g">>, parts |-> [g |-> <<Indented("d")>>],
     edits |-> [gen |-> 2, src |-> 1]]
OneFile ==
    [source |-> PlainLines, files |-> <<"f">>, parts |-> [f |-> <<Part("c")>>],
     edits |-> [gen |-> 2, src |-> 0]]

(* With a macro of one line or several, called once or twice. *)
Def == MCDefOpen["m"]
CallOf(arg) == <<MCCallOpen["m"]>> \o arg \o <<CallClose>>
Block == << <<Def>>, <<"a", Param, "b">>, <<"c">>, <<DefClose>> >>
Line == << <<Def, "a", ".", Param, DefClose>> >>
Chunks(c, d) == << MCOpen["c"], c, MCClose, MCOpen["d"], d, <<"b">>, MCClose >>

WithMacro(source, ngen, nsrc) ==
    [source |-> source, files |-> <<"f">>, parts |-> [f |-> <<Part("c"), Part("d")>>],
     edits |-> [gen |-> ngen, src |-> nsrc]]

MacroProjects ==
    {WithMacro(Block \o Chunks(CallOf(<<"s", "t">>), <<"%if(1, d)", "c">>), 2, 0),
     WithMacro(Line \o Chunks(CallOf(<<"s", "t">>), <<"s", "t">>), 1, 1),
     WithMacro(Block \o Chunks(CallOf(<<"s", "t">>), <<"c">> \o CallOf(<<"s", "t">>)), 1, 0)}

MCAdded == {<<"n">>}
MCWritten == {<<"u">>, <<Space, "b1">>}

MCProjects == {TwoFiles(2, 0), TwoFiles(1, 1), SecondChunk} \cup MacroProjects
MCOneFile == {OneFile}

(* A line without macros becomes another one, the last one of the first    *)
(* chunk is made blank, that of the second indented otherwise; in a line   *)
(* of the other projects a letter is changed or added.                     *)
MCRetyped(line) ==
    LET other == {ReplaceAt(line, Len(line), "n")}
    IN  CASE line = <<"a2">> -> other \cup { <<>> }
          [] line = <<"b1">> -> other \cup {<<Space>> \o line}
          [] line = <<Space, "b1">> -> other \cup {Trimmed(line)}
          [] Trimmed(line) \in {<<"a1">>, <<"n">>, <<"u">>} -> other
          [] line # <<>> /\ Range(line) \cap {"a1", "a2", "b1", "u"} = {} /\ Trimmed(line) # <<"n">> ->
                {ReplaceAt(line, i, "n") : i \in {j \in DOMAIN line : line[j] \in {"a", "t", "c", "d"}}}
                    \cup {line \o <<"n">> : b \in {"b"} \cap Range(line)}
          [] OTHER -> {}
=============================================================================
