------------------------------ MODULE MCMacro ------------------------------
(***************************************************************************)
(* The two halves of the macro processor for TLC: reading one text as a    *)
(* syntax tree, and the passes over a project of trees.  A behaviour is    *)
(* one or the other.                                                       *)
(***************************************************************************)
EXTENDS MCMacroPass, MCMacroSyntax

Reading    == disk = <<>> /\ Waiting /\ SyntaxInit
Evaluating == Init /\ NoText

MCInit == Reading \/ Evaluating

MCNext ==
    \/ stage # "none" /\ SyntaxNext /\ UNCHANGED vars
    \/ stage = "none" /\ Next /\ UNCHANGED syntaxVars

MCSpec == MCInit /\ [][MCNext]_<<vars, syntaxVars>>
=============================================================================
