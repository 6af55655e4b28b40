----------------------------- MODULE ChangePlan -----------------------------
(***************************************************************************)
(* A change plan of weaveback-agent-core: edits of literate source lines,  *)
(* each with an anchor that says what a line of the expanded text has to   *)
(* be afterwards.  A plan is previewed, then applied edit by edit, while   *)
(* the user may change the same source.                                    *)
(*                                                                         *)
(* All edits of a plan are in one source: edits of different sources never *)
(* meet.  The macro processor makes the lines of an expanded text of the   *)
(* whole source, or fails; noweb_map numbers them as they were at the last *)
(* tangle.                                                                 *)
(***************************************************************************)
EXTENDS Naturals, FiniteSets, SequencesExt

CONSTANTS
    Lines,        \* the lines of sources and of edits
    Texts,        \* the lines of expanded texts
    Expand(_),    \* what process_string makes of a source: [ok, lines]
    FirstSource,  \* the source, a sequence of lines
    Plans,        \* the plans an agent may propose
    UserLines,    \* lines the user types
    MaxUserEdits  \* bound on the edits the user makes

PlanEdit ==
    [lo : Nat, hi : Nat, new : Seq(Lines), at : Nat, expected : Texts]

ASSUME ConstantsOK ==
    /\ MaxUserEdits \in Nat
    /\ FirstSource \in Seq(Lines)
    /\ Plans \subseteq Seq(PlanEdit)
    /\ UserLines \subseteq Lines

VARIABLES
    src,        \* the source on disk
    plan,       \* the plan
    call,       \* the running preview or apply call
    previewed,  \* what the last preview said
    applied,    \* the edits of the last apply call that were written
    failed,     \* and those that were not
    cut,        \* the edits whose writing was cut off, by an error or a crash
    before,     \* the source when that call began
    userEdits   \* how often the user has changed the source

vars == <<src, plan, call, previewed, applied, failed, cut, before, userEdits>>

NoCall == [pc |-> "idle", kind |-> "none", i |-> 1, text |-> <<>>]

Init ==
    /\ src = FirstSource
    /\ plan \in Plans
    /\ call = NoCall
    /\ previewed = "no"
    /\ applied = {}
    /\ failed = {}
    /\ cut = {}
    /\ before = FirstSource
    /\ userEdits = 0

-----------------------------------------------------------------------------
(* validate_change_plan *)

Overlap(a, b) == a.lo <= b.lo /\ b.lo <= a.hi

(* A plausible slip: ranges that share one line are let through. *)
ValidWhenTouching(p) ==
    /\ p # <<>>
    /\ \A i \in DOMAIN p : p[i].lo # 0 /\ p[i].lo <= p[i].hi
    /\ \A i, j \in DOMAIN p : i # j =>
          ~(p[i].lo <= p[j].lo /\ p[j].lo < p[i].hi)

Valid(p) ==
    /\ p # <<>>
    /\ \A i \in DOMAIN p : p[i].lo # 0 /\ p[i].lo <= p[i].hi
    /\ \A i, j \in DOMAIN p : i # j => ~Overlap(p[i], p[j])

(* A plausible slip: the edits are applied from the top down. *)
TopDown(p) ==
    [k \in DOMAIN p |-> CHOOSE i \in DOMAIN p :
        Cardinality({j \in DOMAIN p : p[j].lo < p[i].lo}) = k - 1]

(* The edits that are applied before edit i: those further down; the edits *)
(* of a valid plan begin at different lines, so ties are never met.        *)
Below(p, i) ==
    {j \in DOMAIN p :
        \/ p[j].lo > p[i].lo
        \/ (p[j].lo = p[i].lo /\ p[j].hi > p[i].hi)
        \/ (p[j].lo = p[i].lo /\ p[j].hi = p[i].hi /\ j < i)}

(* sorted_plan_edit_ids: the edits from the bottom up.                     *)
Order(p) ==
    [k \in DOMAIN p |-> CHOOSE i \in DOMAIN p : Cardinality(Below(p, i)) = k - 1]

-----------------------------------------------------------------------------
(* apply_fix_impl *)

InRange(s, e) == e.lo <= Len(s) /\ e.hi <= Len(s)

Patched(s, e) == SubSeq(s, 1, e.lo - 1) \o e.new \o SubSeq(s, e.hi + 1, Len(s))

(* The anchor is looked up in noweb_map (no entry: at = 0), the patched    *)
(* text must have an expansion, and the line the anchor names must be the  *)
(* expected one in it.                                                     *)
Accepts(s, e) ==
    /\ e.at # 0
    /\ InRange(s, e)
    /\ Expand(Patched(s, e)).ok
    /\ e.at <= Len(Expand(Patched(s, e)).lines)
    /\ Expand(Patched(s, e)).lines[e.at] = e.expected

-----------------------------------------------------------------------------
Edit == Order(plan)[call.i]

NextEdit ==
    call' = IF call.i < Len(plan)
            THEN [call EXCEPT !.pc = "edit", !.i = @ + 1, !.text = <<>>]
            ELSE IF call.kind = "apply"
            THEN [call EXCEPT !.pc = "ended", !.text = <<>>]
            ELSE NoCall

StartPreview ==
    /\ call.pc = "idle"
    /\ IF Valid(plan)
       THEN /\ call' = [NoCall EXCEPT !.pc = "edit", !.kind = "preview"]
            /\ previewed' = "running"
       ELSE /\ previewed' = "refused"
            /\ UNCHANGED call
    /\ UNCHANGED <<src, plan, applied, failed, cut, before, userEdits>>

(* The first edit that is not accepted ends the preview. *)
PreviewEdit ==
    /\ call.pc = "edit" /\ call.kind = "preview"
    /\ IF Accepts(src, plan[Edit])
       THEN /\ NextEdit
            /\ previewed' = IF call.i = Len(plan) THEN "ok" ELSE previewed
       ELSE /\ call' = NoCall
            /\ previewed' = "refused"
    /\ UNCHANGED <<src, plan, applied, failed, cut, before, userEdits>>

(* An apply call validates again; it does not ask for a preview, and it is *)
(* made once: a plan is about the source as its author saw it.             *)
StartApply ==
    /\ call.pc = "idle"
    /\ Valid(plan)
    /\ call' = [NoCall EXCEPT !.pc = "edit", !.kind = "apply"]
    /\ before' = src
    /\ UNCHANGED <<src, plan, previewed, applied, failed, cut, userEdits>>

ApplyEdit ==
    /\ call.pc = "edit" /\ call.kind = "apply"
    /\ IF Accepts(src, plan[Edit])
       THEN /\ call' = [call EXCEPT !.pc = "write",
                                    !.text = Patched(src, plan[Edit])]
            /\ UNCHANGED failed
       ELSE /\ NextEdit
            /\ failed' = failed \cup {Edit}
    /\ UNCHANGED <<src, plan, previewed, applied, cut, before, userEdits>>

(* The file cannot be opened; the edits after this one are still tried. *)
OpenFails ==
    /\ call.pc = "write"
    /\ failed' = failed \cup {Edit}
    /\ NextEdit
    /\ UNCHANGED <<src, plan, previewed, applied, cut, before, userEdits>>

(* fs::write empties the file before it fills it. *)
Truncate ==
    /\ call.pc = "write"
    /\ src' = <<>>
    /\ call' = [call EXCEPT !.pc = "fill"]
    /\ UNCHANGED <<plan, previewed, applied, failed, cut, before, userEdits>>

WriteEdit ==
    /\ call.pc = "fill"
    /\ src' = call.text
    /\ applied' = applied \cup {Edit}
    /\ NextEdit
    /\ UNCHANGED <<plan, previewed, failed, cut, before, userEdits>>

(* The beginnings of a text: what is in a file that is not filled.  (A     *)
(* line that is cut in two is left out.)                                   *)
Beginnings(s) == {SubSeq(s, 1, n) : n \in 0..Len(s)}

(* A full disk: some of the text is written, and the next edit is tried. *)
WriteFails ==
    /\ call.pc = "fill"
    /\ src' \in Beginnings(call.text)
    /\ failed' = failed \cup {Edit}
    /\ cut' = cut \cup {Edit}
    /\ NextEdit
    /\ UNCHANGED <<plan, previewed, applied, before, userEdits>>

Crash ==
    /\ call.pc \in {"edit", "write"}
    /\ call' = IF call.kind = "apply" THEN [call EXCEPT !.pc = "ended"] ELSE NoCall
    /\ previewed' = IF call.kind = "preview" THEN "no" ELSE previewed
    /\ UNCHANGED <<src, plan, applied, failed, cut, before, userEdits>>

CrashInWrite ==
    /\ call.pc = "fill"
    /\ src' \in Beginnings(call.text)
    /\ cut' = cut \cup {Edit}
    /\ call' = [call EXCEPT !.pc = "ended"]
    /\ UNCHANGED <<plan, previewed, applied, failed, before, userEdits>>

(* The user changes, adds or removes a line. *)
UserEdit ==
    /\ userEdits < MaxUserEdits
    /\ \E i \in DOMAIN src, l \in UserLines :
          src' \in {ReplaceAt(src, i, l), InsertAt(src, i, l), RemoveAt(src, i)}
    /\ userEdits' = userEdits + 1
    /\ UNCHANGED <<plan, call, previewed, applied, failed, cut, before>>

Next ==
    \/ StartPreview
    \/ PreviewEdit
    \/ StartApply
    \/ ApplyEdit
    \/ OpenFails
    \/ Truncate
    \/ WriteEdit
    \/ WriteFails
    \/ Crash
    \/ CrashInWrite
    \/ UserEdit

Spec == Init /\ [][Next]_vars
-----------------------------------------------------------------------------
(* Properties. *)

(* Lines lo..hi of s become new for every edit in E, all numbered in s.    *)
AllPatched(s, E) ==
    LET starts(i) == {e \in E : e.lo = i}
        inside(i) == \E e \in E : e.lo <= i /\ i <= e.hi
        at(i) == IF starts(i) # {} THEN (CHOOSE e \in starts(i) : TRUE).new
                 ELSE IF inside(i) THEN <<>> ELSE <<s[i]>>
    IN  FlattenSeq([i \in DOMAIN s |-> at(i)])

(* Each edit of a plan names lines of the source as the agent saw it.      *)
(* Although every edit is written before the next one is tried, and edits  *)
(* change the number of lines, each lands on the lines it named, and those *)
(* that are refused leave no trace: the source is the one the call found   *)
(* with exactly the applied edits made, unless the user edits.  All that   *)
(* an error or a crash in the middle of writing costs is the end of the    *)
(* file: what is left is the beginning of what it would have been, also    *)
(* when edits further up are applied to that.                              *)
EditsLandOnTargets ==
    userEdits = 0 /\ call.kind = "apply" =>
        LET whole == AllPatched(before, {plan[i] : i \in applied \cup cut})
        IN  /\ IsPrefix(src, whole)
            /\ cut = {} /\ call.pc # "fill" => src = whole

(* The macro processor reads a text once, from its beginning: a beginning  *)
(* that it takes as a text of its own gives the first lines of any longer  *)
(* text it takes.                                                          *)
ExpandsInOrder(S) ==
    \A s, t \in S :
        LET x == Expand(s)
            y == Expand(s \o t)
        IN  x.ok /\ y.ok =>
                /\ Len(x.lines) \in Nat /\ Len(y.lines) \in Nat
                /\ Len(x.lines) <= Len(y.lines)
                /\ \A i \in 1..Len(x.lines) : y.lines[i] = x.lines[i]

(* An anchor that lies above or inside the new lines of its own edit, in a *)
(* beginning of the text that no macro call or definition goes beyond.     *)
AnchoredAbove(s, e) ==
    LET head == Expand(SubSeq(s, 1, e.lo - 1) \o e.new)
    IN  InRange(s, e) /\ head.ok /\ e.at <= Len(head.lines)

(* When a preview has accepted every edit on its own, and no anchor lies   *)
(* below its edit, applying the plan accepts every edit too, although each *)
(* is then checked in a text that the edits before it have changed: unless *)
(* the edits together make a text that cannot be expanded (one defines a   *)
(* macro no more that another one calls), or a write was cut off.          *)
PreviewedEditsApply ==
    [][(/\ previewed = "ok" /\ userEdits = 0 /\ cut = {}
        /\ call.pc = "edit" /\ call.kind = "apply"
        /\ \A i \in DOMAIN plan : AnchoredAbove(before, plan[i])
        /\ Expand(Patched(src, plan[Edit])).ok)
       => failed' = failed]_vars
=============================================================================
