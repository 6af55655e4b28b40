----------------------------- MODULE MacroPass -----------------------------
(***************************************************************************)
(* The macro side of a tangle pass (run_single_pass in                     *)
(* crates/weaveback-api/src/process/run.rs): choosing the drivers of a     *)
(* directory by a discovery pass, and evaluating the drivers one after     *)
(* another with one evaluator, while a trace (lookup/trace.rs) may         *)
(* evaluate any document with an evaluator of its own.  A live %here       *)
(* rewrites its document in either of them.                                *)
(***************************************************************************)
EXTENDS MacroEval

CONSTANTS
    Files,        \* the files of the directory, sorted
    Projects,     \* the possible documents: functions from files to documents
    Inputs,       \* the possible lists of files given instead of a directory
    Probes,       \* calls that the properties try in every state
    MaxPasses

ASSUME MacroPassOK ==
    /\ \A p \in Projects : DOMAIN p = Range(Files)
    /\ \A inputs \in Inputs : Range(inputs) \subseteq Range(Files)
    /\ MaxPasses \in Nat

VARIABLES
    disk,       \* the document of each file
    pc,         \* "idle", "discover", "evaluate", "failed"
    directory,  \* whether the pass was given a directory
    listed,     \* the files to discover in, or the drivers
    todo,       \* those of them that are left
    included,   \* the files some discovery found included
    evaluator,  \* the pass's evaluator, between two drivers
    expanded,   \* the text of each driver evaluated so far
    passes

vars == <<disk, pc, directory, listed, todo, included, evaluator, expanded, passes>>

\* The evaluator sees the disk; what is kept of it between steps does not.
Load(st) == [st EXCEPT !.disk = disk]
Unload(st) == [st EXCEPT !.disk = <<>>]

\* No pass has run yet.
Waiting ==
    /\ pc = "idle"
    /\ directory = FALSE
    /\ listed = <<>> /\ todo = <<>>
    /\ included = {}
    /\ evaluator = Fresh(<<>>)
    /\ expanded = <<>>
    /\ passes = 0

Init == disk \in Projects /\ Waiting

Start(files, fromDirectory) ==
    /\ pc \in {"idle", "failed"} /\ passes < MaxPasses
    /\ passes' = passes + 1
    /\ directory' = fromDirectory
    /\ pc' = IF fromDirectory THEN "discover" ELSE "evaluate"
    /\ listed' = files /\ todo' = files
    /\ included' = {}
    /\ evaluator' = Fresh(<<>>)
    /\ expanded' = <<>>
    /\ UNCHANGED disk

StartDirectory == Start(Files, TRUE)
StartInputs == \E inputs \in Inputs : Start(inputs, FALSE)

\* A plausible slip: a failed discovery counts every file as included.
IncludedInAll(r) == IF r.err = "" THEN r.st.found ELSE DOMAIN r.st.disk

\* Of a discovery that fails, the files found before the failure are dropped.
IncludedIn(r) == IF r.err = "" THEN r.st.found ELSE {}

Discover ==
    /\ pc = "discover" /\ todo # <<>>
    /\ LET discovering == [Fresh(disk) EXCEPT !.discovering = TRUE]
           r == ProcessString(Head(todo), discovering)
       IN  /\ included' = included \cup IncludedIn(r)
           /\ disk' = r.st.disk
    /\ todo' = Tail(todo)
    /\ UNCHANGED <<pc, directory, listed, evaluator, expanded, passes>>

ChooseDrivers ==
    /\ pc = "discover" /\ todo = <<>>
    /\ LET drivers == SelectSeq(listed, LAMBDA f : f \notin included)
       IN  listed' = drivers /\ todo' = drivers
    /\ pc' = "evaluate"
    /\ UNCHANGED <<disk, directory, included, evaluator, expanded, passes>>

EvaluateDriver ==
    /\ pc = "evaluate" /\ todo # <<>>
    /\ LET r == ProcessString(Head(todo), Load(evaluator))
       IN  /\ disk' = r.st.disk
           /\ evaluator' = Unload(r.st)
           /\ IF r.err # ""
              THEN pc' = "failed" /\ UNCHANGED <<todo, expanded>>
              ELSE /\ expanded' = Append(expanded, r.text)
                   /\ todo' = Tail(todo)
                   /\ pc' = IF Len(todo) = 1 THEN "idle" ELSE pc
    /\ UNCHANGED <<directory, listed, included, passes>>

\* Every file of the directory was included by another one.
NoDrivers ==
    /\ pc = "evaluate" /\ todo = <<>>
    /\ pc' = "idle"
    /\ UNCHANGED <<disk, directory, listed, todo, included, evaluator, expanded, passes>>

Trace(file) ==
    /\ disk' = ProcessStringPrecise(file, Fresh(disk)).st.disk
    /\ UNCHANGED <<pc, directory, listed, todo, included, evaluator, expanded, passes>>

Next ==
    \/ StartDirectory \/ StartInputs \/ Discover \/ ChooseDrivers
    \/ EvaluateDriver \/ NoDrivers
    \/ \E file \in Range(Files) : Trace(file)

Spec == Init /\ [][Next]_vars

----------------------------------------------------------------------------
(* Properties *)

MentionedIn(names) == \E file \in DOMAIN disk : Mentions(disk[file], names)

\* The scopes without the spans of their variables.
Erased(st) ==
    [i \in DOMAIN st.scopes |->
        [macros |-> st.scopes[i].macros,
         vars |-> [v \in DOMAIN st.scopes[i].vars |-> TextOf(st.scopes[i].vars[v])]]]

\* A trace explains the text that tangle generated: the plain and the
\* tracked evaluation of a document fail with the same error, produce the
\* same text, and leave the same scopes and files.  Two implementations of
\* dispatch, binding and scopes have to agree (macro_call.rs, evaluate.rs;
\* macro_call_to.rs, evaluate_to.rs); the scripts of %pydef are the
\* exception, the tracked one does not run them.
TwinsAgree ==
    ~MentionedIn({"pydef"}) =>
        \A file \in DOMAIN disk :
            LET plain == ProcessString(file, Fresh(disk))
                tracked == ProcessStringPrecise(file, Fresh(disk))
            IN  /\ tracked.err = plain.err
                /\ plain.err = "" =>
                    /\ TextOf(tracked.text) = plain.text
                    /\ Erased(tracked.st) = Erased(plain.st)
                    /\ tracked.st.disk = plain.st.disk

\* A piece that is k atoms behind its node is in a line that k atoms of the
\* same value are before.
Behind(pieces, i) ==
    LET k == pieces[i].span.off
        at(j) == pieces[j].span.at
    IN  \E first \in k + 1 .. i :
            /\ \A j \in first .. i : pieces[j].span = pieces[i].span
            /\ \A j \in first - k .. first : at(j) = at(i)
            /\ pieces[first - k].span.off = 0
            /\ k > 0 => at(i).kind = "var" /\ pieces[first - 1].atom \in LineEnds

\* Every piece of traced text has a span; one attributed to a token of text
\* is that token's text and stands exactly there, through any number of calls
\* that pass it on; and where only definitions and calls of user macros are
\* involved, every piece is attributed to the token that spells it.  What a
\* variable that %set gave a text of several lines is used for has its first
\* line at the use; the spans of its later lines lie behind the use by what
\* the value has before them, wherever that is in the source.
AttributionExact ==
    \A file \in DOMAIN disk :
        LET tracked == ProcessStringPrecise(file, Fresh(disk))
            onlyCalls == ~MentionedIn(Builtins \ {"def", "redef"})
        IN  \A i \in DOMAIN tracked.text :
                LET piece == tracked.text[i] IN
                /\ IsTraced(piece)
                /\ piece.span.kind \in {"Literal", "MacroBody"} \/ onlyCalls
                    => piece.span.at.kind \in {"text", "ident"}
                /\ piece.span.at.kind \in {"text", "ident"}
                    => piece.atom = piece.span.at.name /\ piece.span.off = 0
                /\ Behind(tracked.text, i)

RECURSIVE Substitute(_, _)
\* The body of a macro with texts in place of variables.
Substitute(node, texts) ==
    IF node.kind = "var" /\ node.name \in DOMAIN texts
    THEN Block([i \in DOMAIN texts[node.name] |-> Text(texts[node.name][i])])
    ELSE [node EXCEPT !.parts = [i \in DOMAIN @ |-> Substitute(@[i], texts)]]

ArgumentOf(call, mac, k) ==
    IF k \in DOMAIN call.parts /\ call.parts[k].name = "" THEN k
    ELSE CHOOSE j \in DOMAIN call.parts : call.parts[j].name = mac.params[k]

Stateful == {"set", "def", "redef", "pydef", "alias", "export", "match",
             "include", "import", "here"}

IsSubstitution(call, st) ==
    LET macros == VisibleMacros(st)
        mac == macros[call.name]
        args == EvaluateEach(call.parts, st)
        index(p) == CHOOSE k \in DOMAIN mac.params : mac.params[k] = p
        texts == [p \in Range(mac.params) |->
                    args.text[ArgumentOf(call, mac, index(p))]] @@ mac.frozen
        closed == [st EXCEPT !.scopes[Len(st.scopes)].vars = <<>>,
                             !.depth = @ + 1]
        result == EvaluateMacroCall(call, call.name, st)
        reference == Evaluate(Substitute(mac.body, texts), closed)
    IN  (/\ CallError(call, call.name, st) = "" /\ args.err = ""
         /\ ~mac.script /\ ~Mentions(mac.body, Stateful)
         /\ \A m \in DOMAIN macros : ~Mentions(macros[m].body, {"export", "here"}))
        => result.err = reference.err /\ result.text = reference.text

\* A call of a user macro is its body with the arguments' texts in place of
\* the parameters: arguments are expanded in the caller's scope before the
\* body is, by position or by name, they win over what an alias froze, and
\* nothing else of the caller's variables is visible in the body.
CallIsSubstitution ==
    ~evaluator.exit => \A call \in Probes : IsSubstitution(call, Load(evaluator))

\* A call leaves the caller's scopes as they were, the captures of %match
\* included, unless a macro exports: what its body sets or defines is gone.
CallsAreLocal ==
    LET st == Load(evaluator)
        exporting == \E i \in DOMAIN st.scopes : \E m \in DOMAIN st.scopes[i].macros :
                        Mentions(st.scopes[i].macros[m].body, {"export"})
    IN  ~exporting =>
            \A call \in Probes :
                LET r == EvaluateMacroCall(call, call.name, st)
                IN  r.err = "" => r.st.scopes = st.scopes

\* Between two drivers the evaluator is at the global frame with no call and
\* no include open; after a failure no call and no include stays open.
Balanced ==
    /\ evaluator.depth = 0 /\ evaluator.open = {}
    /\ pc # "failed" => Len(evaluator.scopes) = 1

\* A change of a document uses up a live %here of it: whatever is evaluated
\* again, by a discovery, a pass or a trace, is not carried out again.
HereIsUsedUp ==
    [][disk' # disk =>
        \E file \in DOMAIN disk :
            CountCalls(disk'[file], "here") < CountCalls(disk[file], "here")]_disk

IncludesLiterally(document, file) ==
    \E i \in DOMAIN document.parts :
        LET part == document.parts[i]
        IN  /\ part.kind = "macro" /\ part.name \in {"include", "import"}
            /\ part.parts = <<Param(<<Text(file)>>)>>

\* A directory pass that succeeds has evaluated every file of it, as a driver
\* or included by one, unless files include each other or %here stopped it.
NoFileLost ==
    pc = "idle" /\ directory /\ ~evaluator.exit =>
        \/ evaluator.sources = Range(Files)
        \/ \E cycle \in SUBSET included \ {{}} :
             \A b \in cycle : \E a \in cycle : IncludesLiterally(disk[a], b)

=============================================================================
