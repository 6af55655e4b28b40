---------------------------- MODULE MCChangePlan ----------------------------
(***************************************************************************)
(* Instances of ChangePlan for TLC: every plan of one or two edits of a    *)
(* source of five lines, the first two of which define a macro that the    *)
(* fourth calls; the macro processor is that of module MacroPatch.         *)
(***************************************************************************)
EXTENDS ChangePlan

Def == "%def(m, p, %{"
Call == "%m("

Macros ==
    INSTANCE MacroPatch WITH
        Letters <- {"a", "b", "c", "n", "u"},
        DefOpen <- [m |-> Def], CallOpen <- [m |-> Call], Computed <- <<>>

MCExpand(s) == [ok |-> Macros!Expansion(s).ok, lines |-> Macros!Expanded(s)]

(* `%m(` and `)` on lines of their own: a call of several lines. *)
Begin == <<Def, "b">>
Finish == <<"b", Macros!DefClose>>
Use == <<Call, Macros!CallClose>>

MCLines ==
    {Begin, Finish, Use, <<Call>>, <<Macros!CallClose>>, <<"a">>, <<"c">>, <<"n">>, <<"u">>}
MCTexts == { <<>>, <<"a">>, <<"b">>, <<"c">>, <<"n">>, <<"u">>}

Source == << Begin, Finish, <<"a">>, Use, <<"c">> >>

(* The expansion: a blank line, a, b, b, c. *)
OneEdit ==
    [lo : 0..5, hi : 3..6, new : { <<>>, << <<"n">> >>, << <<"n">>, Use >>, << <<Call>> >>},
     at : {0, 2, 3}, expected : {<<"a">>, <<"b">>, <<"n">>}]

Proposed == {<<e>> : e \in OneEdit} \cup
            {<<e, f>> : e \in {x \in OneEdit : /\ x.lo \in {1, 3} /\ x.hi = 3
                                            /\ x.at # 0 /\ x.expected # <<"a">>},
                        f \in {x \in OneEdit : x.lo # 0 /\ x.hi \in {3, 4, 5} /\ x.at # 0}}

MCUserLines == {<<"u">>}

(* What MacroPatch makes of these lines, it makes from their beginning. *)
ASSUME ExpandsInOrder(UNION {[1..n -> MCLines] : n \in 0..2})
=============================================================================
