------------------------------ MODULE MCTangle ------------------------------
(***************************************************************************)
(* Instances of Tangle for TLC.                                            *)
(***************************************************************************)
EXTENDS Tangle

CONSTANTS p1, p2, fa, fb, x, y, s1, s2, e1, t1

(* Two sources, each with one `@file` chunk; fb also uses chunk x of the   *)
(* other source.  Both files have the same stem, so they share t1.         *)
TwoDrivers == <<s1, s2>>
TwoSrcOf == [c \in Chunks |-> IF c = fb THEN s2 ELSE s1]
TwoRefs == [c \in Chunks |-> IF c = x THEN {} ELSE {x}]
TwoFiles == <<fa, fb>>

(* One source with two `@file` chunks, each with a chunk of its own. *)
OneDriver == <<s1>>
OneSrcOf == [c \in Chunks |-> s1]
OneRefs == [c \in Chunks |-> IF c = fa THEN {x} ELSE IF c = fb THEN {y} ELSE {}]

(* One source with one `@file` chunk and one chunk it uses. *)
OneFile == <<fa>>
SmallRefs == [c \in Chunks |-> IF c = fa THEN {x} ELSE {}]

SharedTmp == [f \in Files |-> t1]
=============================================================================
