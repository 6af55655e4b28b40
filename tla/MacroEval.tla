----------------------------- MODULE MacroEval -----------------------------
(***************************************************************************)
(* The macro evaluator (crates/weaveback-macro/src/evaluator): the plain   *)
(* evaluation that tangle uses and the tracked one that traces use, over   *)
(* the same scopes.  A document is its syntax tree; the lexer and the      *)
(* parser are left out.                                                    *)
(*                                                                         *)
(* A node has a kind, a name and parts.  The text of a text or identifier  *)
(* node is one atom, its name; a token of several lines, whose lines the   *)
(* code gives spans of their own, is a node for each.  Text is a sequence  *)
(* of atoms; a tracked value is a sequence of pieces, each an atom with    *)
(* the span it comes from.  A span is a node, a distance behind the node's *)
(* position, in atoms of the value, and a kind: the code's src, pos and    *)
(* length say no more.  Adjacent ranges with one position and length are   *)
(* one range in the code.                                                  *)
(*                                                                         *)
(* Left out: the stores of Python, %env, the case conversions (which map a *)
(* text to a text), warnings, and the recorded places of definitions.      *)
(***************************************************************************)
EXTENDS Naturals, Sequences, FiniteSets, TLC, SequencesExt

CONSTANTS
    RecursionLimit,     \* config.recursion_limit
    LineEnds,           \* the atoms that end with a line end
    Untraced            \* the span of a piece without one

ASSUME LimitOK == RecursionLimit \in Nat \ {0}

----------------------------------------------------------------------------
(* Syntax trees *)

Node(kind, name, parts) == [kind |-> kind, name |-> name, parts |-> parts]
Text(atom)        == Node("text", atom, <<>>)
Ident(name)       == Node("ident", name, <<>>)
Var(name)         == Node("var", name, <<>>)
Block(parts)      == Node("block", "", parts)
Param(parts)      == Node("param", "", parts)
Named(key, parts) == Node("param", key, parts)
Call(name, params) == Node("macro", name, params)

RECURSIVE Mentions(_, _)
\* arg_contains_builtin_call, for any of the names.
Mentions(node, names) ==
    \/ node.kind = "macro" /\ node.name \in names
    \/ \E i \in DOMAIN node.parts : Mentions(node.parts[i], names)

RECURSIVE CountCalls(_, _)
CountCalls(node, name) ==
    FoldLeft(LAMBDA n, part : n + CountCalls(part, name),
             IF node.kind = "macro" /\ node.name = name THEN 1 ELSE 0,
             node.parts)

\* The identifier a parameter consists of, or "" if it is anything else.
SingleIdent(param) ==
    IF param.name = "" /\ Len(param.parts) = 1 /\ param.parts[1].kind = "ident"
    THEN param.parts[1].name
    ELSE ""

----------------------------------------------------------------------------
(* The evaluator's state *)

EmptyFrame == [vars |-> <<>>, macros |-> <<>>]

Fresh(disk) ==
    [scopes      |-> <<EmptyFrame>>,
     depth       |-> 0,
     open        |-> {},        \* open_includes
     exit        |-> FALSE,     \* early_exit
     discovering |-> FALSE,     \* dependency_discovery_active
     found       |-> {},        \* discovered_dependency_paths
     current     |-> "",        \* current_file
     sources     |-> {},        \* the files that were parsed
     disk        |-> disk]      \* what reading and %here see

Top(st) == Last(st.scopes)

Push(st, frame) == [st EXCEPT !.scopes = Append(@, frame)]
Pop(st) == IF Len(st.scopes) > 1 THEN [st EXCEPT !.scopes = Front(@)] ELSE st

\* The results of an evaluation.
Ok(st, text)  == [st |-> st, text |-> text, err |-> ""]
Fail(st, err) == [st |-> st, text |-> <<>>, err |-> err]

\* What follows a result, in the state it left; an error is passed on.
Then(r, Next(_, _)) == IF r.err # "" THEN r ELSE Next(r.st, r.text)

\* The texts of several nodes, each evaluated in the state the last one left.
InTurn(Eval(_, _), nodes, st) ==
    FoldLeft(LAMBDA r, node :
                 Then(r, LAMBDA s, texts :
                     Then(Eval(node, s), LAMBDA s1, text : Ok(s1, Append(texts, text)))),
             Ok(st, <<>>), nodes)

Pieces(text, span) == [i \in DOMAIN text |-> [atom |-> text[i], span |-> span]]
TextOf(pieces) == [i \in DOMAIN pieces |-> pieces[i].atom]

SetTracked(st, name, pieces) ==
    [st EXCEPT !.scopes[Len(st.scopes)].vars = (name :> pieces) @@ @]
SetVariable(st, name, text) == SetTracked(st, name, Pieces(text, Untraced))

\* A plausible slip: variables are looked up the way macros are.
VisibleVarsDynamic(st) ==
    LET Outward[i \in 0 .. Len(st.scopes)] ==
            IF i = 0 THEN <<>> ELSE st.scopes[i].vars @@ Outward[i - 1]
    IN  Outward[Len(st.scopes)]

\* Only the top frame's variables are visible ...
VisibleVars(st) == Top(st).vars

\* ... and the innermost binding of each macro.
VisibleMacros(st) ==
    LET Outward[i \in 0 .. Len(st.scopes)] ==
            IF i = 0 THEN <<>> ELSE st.scopes[i].macros @@ Outward[i - 1]
    IN  Outward[Len(st.scopes)]

InsertMacro(st, name, mac) ==
    [st EXCEPT !.scopes[Len(st.scopes)].macros = (name :> mac) @@ @]

DefineMacro(st, name, mac) ==
    IF name \in DOMAIN Top(st).macros
    THEN Fail(st, "InvalidUsage")
    ELSE Ok(InsertMacro(st, name, mac), <<>>)

RedefineMacro(st, name, mac) ==
    IF name \in DOMAIN Top(st).macros /\ Top(st).macros[name].constant
    THEN Fail(st, "InvalidUsage")
    ELSE Ok(InsertMacro(st, name, mac), <<>>)

----------------------------------------------------------------------------
(* Binding arguments *)

\* The parameter the i-th argument of a call binds.
ParamOf(mac, args, i) ==
    IF args[i].name = "" THEN mac.params[i] ELSE args[i].name

\* plan_macro_bindings with what surrounds it: the error of a call whose
\* arguments do not fit, or "".
BindingError(mac, args) ==
    LET positional == {i \in DOMAIN args : args[i].name = ""} IN
    IF \/ \E i \in DOMAIN args : Mentions(args[i], {"set"})
       \/ \E i \in positional : \E j \in 1 .. i - 1 : j \notin positional
       \/ Cardinality(positional) > Len(mac.params)
       \/ \E i \in DOMAIN args \ positional :
            \/ args[i].name \notin Range(mac.params)
            \/ \E j \in 1 .. i - 1 : ParamOf(mac, args, j) = args[i].name
    THEN "InvalidUsage"
    ELSE IF \E p \in Range(mac.params) :
                \A i \in DOMAIN args : ParamOf(mac, args, i) # p
         THEN "UnboundParameter"
         ELSE ""

Bindings(mac, args, values) ==
    [p \in Range(mac.params) |->
        values[CHOOSE i \in DOMAIN args : ParamOf(mac, args, i) = p]]

\* The variables of a callee's frame: parameters win over frozen arguments.
CalleeVars(frozen, bound) == bound @@ frozen

----------------------------------------------------------------------------
(* External: what a Python script computes, and regular expressions.       *)
(* A script's text becomes one more atom in front; the pattern AnyAsX      *)
(* matches every text and captures it as x; other patterns match           *)
(* themselves.                                                             *)

RunScript(text) == <<"py">> \o text

AnyAsX == <<"(?P<x>.+)">>
Matches(pattern, text) == pattern = text \/ (pattern = AnyAsX /\ text # <<>>)
Captures(pattern, text) ==
    ("match_0" :> text) @@ (IF pattern = AnyAsX THEN "x" :> text ELSE <<>>)

----------------------------------------------------------------------------
(* Plain evaluation *)

RECURSIVE Evaluate(_, _), EvaluateMacroCall(_, _, _), EvaluateBuiltin(_, _, _)

EvaluateEach(nodes, st) == InTurn(LAMBDA node, s : Evaluate(node, s), nodes, st)

EvaluateParts(parts, st) ==
    Then(EvaluateEach(parts, st), LAMBDA s, texts : Ok(s, FlattenSeq(texts)))

\* A plausible slip: a match removes its captures instead of restoring.
RestoreVarsRemoving(now, before, names) ==
    [v \in DOMAIN now \ names |-> now[v]]

RestoreVars(now, before, names) ==
    [v \in (DOMAIN now \ names) \cup (DOMAIN before \cap names) |->
        IF v \in names THEN before[v] ELSE now[v]]

EvaluateWithTemporaryVariables(bindings, node, st) ==
    LET bound == [v \in DOMAIN bindings |-> Pieces(bindings[v], Untraced)]
        Restored(r) ==
            [r EXCEPT !.st.scopes[Len(r.st.scopes)].vars =
                RestoreVars(@, Top(st).vars, DOMAIN bindings)]
    IN  Restored(Evaluate(node, [st EXCEPT !.scopes[Len(st.scopes)].vars = bound @@ @]))

BuiltinIf(parts, st) ==
    IF parts = <<>> THEN Ok(st, <<>>)
    ELSE Then(Evaluate(parts[1], st), LAMBDA s, cond :
             LET branch == IF cond # <<>> THEN 2 ELSE 3
             IN  IF branch \in DOMAIN parts THEN Evaluate(parts[branch], s)
                 ELSE Ok(s, <<>>))

RECURSIVE TryPairs(_, _, _, _)
\* builtin_match from the i-th part on, where the patterns and values are.
TryPairs(parts, i, value, st) ==
    IF i > Len(parts) THEN Evaluate(parts[2], st)
    ELSE Then(Evaluate(parts[i], st), LAMBDA s, pattern :
             IF Matches(pattern, value)
             THEN EvaluateWithTemporaryVariables(Captures(pattern, value), parts[i + 1], s)
             ELSE TryPairs(parts, i + 2, value, s))

BuiltinMatch(parts, st) ==
    IF Len(parts) < 2 \/ Len(parts) % 2 = 1 THEN Fail(st, "InvalidUsage")
    ELSE Then(Evaluate(parts[1], st), LAMBDA s, value : TryPairs(parts, 3, value, s))

\* eq, neq and not compare texts and answer "1" or nothing.
BuiltinPredicate(name, parts, st) ==
    LET Holds(texts) ==
            CASE name = "eq"  -> texts[1] = texts[2]
              [] name = "neq" -> texts[1] # texts[2]
              [] name = "not" -> \A i \in DOMAIN texts : texts[i] = <<>>
    IN  IF (name = "not" /\ Len(parts) > 1) \/ (name # "not" /\ Len(parts) # 2)
        THEN Fail(st, "InvalidUsage")
        ELSE Then(EvaluateEach(parts, st), LAMBDA s, texts :
                 Ok(s, IF Holds(texts) THEN <<"1">> ELSE <<>>))

BuiltinSet(parts, st) ==
    IF Len(parts) # 2 \/ SingleIdent(parts[1]) = "" THEN Fail(st, "InvalidUsage")
    ELSE Then(Evaluate(parts[2], st), LAMBDA s, text :
             Ok(SetVariable(s, SingleIdent(parts[1]), text), <<>>))

Builtins == {"def", "redef", "pydef", "set", "alias", "export", "if", "match",
             "eq", "neq", "not", "eval", "include", "import", "here"}

\* define_macro of builtins/definition.rs: def, redef and pydef.
BuiltinDef(name, parts, st) ==
    LET formals == [i \in 1 .. Len(parts) - 2 |-> SingleIdent(parts[i + 1])]
        new == SingleIdent(parts[1])
        mac == [name |-> new, params |-> formals, body |-> Last(parts),
                script |-> name = "pydef", constant |-> name # "redef",
                frozen |-> <<>>]
    IN  IF Len(parts) < 2 \/ new \in Builtins \cup {""} \/ "" \in Range(formals)
           \/ Cardinality(Range(formals)) # Len(formals)
        THEN Fail(st, "InvalidUsage")
        ELSE IF name = "redef" THEN RedefineMacro(st, new, mac)
        ELSE DefineMacro(st, new, mac)

BuiltinAlias(parts, st) ==
    LET new == SingleIdent(parts[1])
        source == SingleIdent(parts[2])
        keys == SubSeq(parts, 3, Len(parts))
        Overrides(texts) ==
            [k \in {keys[i].name : i \in DOMAIN keys} |->
                texts[CHOOSE i \in DOMAIN keys :
                        /\ keys[i].name = k
                        /\ \A j \in i + 1 .. Len(keys) : keys[j].name # k]]
        mac == VisibleMacros(st)[source]
    IN  IF \/ Len(parts) < 2
           \/ new \in Builtins \cup {""}
           \/ source \notin DOMAIN VisibleMacros(st)
           \/ \E i \in DOMAIN keys : keys[i].name = ""
        THEN Fail(st, "InvalidUsage")
        ELSE Then(EvaluateEach(keys, st), LAMBDA s, texts :
                 RedefineMacro(s, new,
                               [mac EXCEPT !.name = new, !.constant = FALSE,
                                           !.frozen = Overrides(texts) @@ @]))

\* One level up, whatever the parent frame already holds under the name.
BuiltinExport(parts, st) ==
    LET name == SingleIdent(parts[1])
        n == Len(st.scopes)
        Entry(map) == IF name \in DOMAIN map THEN name :> map[name] ELSE <<>>
    IN  IF Len(parts) # 1 \/ name = "" THEN Fail(st, "InvalidUsage")
        ELSE IF n = 1 THEN Ok(st, <<>>)
        ELSE Ok([st EXCEPT !.scopes[n - 1].vars = Entry(Top(st).vars) @@ @,
                           !.scopes[n - 1].macros = Entry(Top(st).macros) @@ @],
                <<>>)

\* A computed name that is more than one atom names no macro.
BuiltinEval(parts, st) ==
    IF parts = <<>> THEN Fail(st, "InvalidUsage")
    ELSE Then(Evaluate(parts[1], st), LAMBDA s, name :
             IF name = <<>> THEN Ok(s, <<>>)
             ELSE IF Len(name) > 1 THEN Fail(s, "UndefinedMacro")
             ELSE EvaluateMacroCall(Call(name[1], Tail(parts)), name[1], s))

DoInclude(file, st) ==
    IF file \notin DOMAIN st.disk THEN Fail(st, "IncludeNotFound")
    ELSE IF st.discovering THEN Ok([st EXCEPT !.found = @ \cup {file}], <<>>)
    ELSE IF file \in st.open THEN Fail(st, "CircularInclude")
    ELSE LET inner == [st EXCEPT !.open = @ \cup {file}, !.sources = @ \cup {file}]
         IN  [Evaluate(st.disk[file], inner) EXCEPT !.st.open = @ \ {file}]

BuiltinInclude(parts, st) ==
    IF parts = <<>> THEN Ok(st, <<>>)
    ELSE Then(Evaluate(parts[1], st), LAMBDA s, path :
             IF path = <<>> THEN Ok(s, <<>>)
             ELSE IF Len(path) > 1 THEN Fail(s, "IncludeNotFound")
             ELSE DoInclude(path[1], s))

BuiltinImport(parts, st) == [BuiltinInclude(parts, st) EXCEPT !.text = <<>>]

\* A plausible slip: the call that was carried out stays live.
PatchSourceLive(document, node, text) ==
    LET i == CHOOSE i \in DOMAIN document.parts : document.parts[i] = node
    IN  Block(SubSeq(document.parts, 1, i)
              \o [j \in DOMAIN text |-> Text(text[j])]
              \o SubSeq(document.parts, i + 1, Len(document.parts)))

\* modify_source for %here: the call is escaped and its expansion follows.
\* The call stands on a line of its own at the top level of the document,
\* and its expansion holds no sigil.
PatchSource(document, node, text) ==
    LET i == CHOOSE i \in DOMAIN document.parts : document.parts[i] = node
    IN  Block(SubSeq(document.parts, 1, i - 1)
              \o <<Text("%here")>>
              \o [j \in DOMAIN text |-> Text(text[j])]
              \o SubSeq(document.parts, i + 1, Len(document.parts)))

BuiltinHere(node, st) ==
    IF node.parts = <<>> THEN Ok(st, <<>>)
    ELSE Then(BuiltinEval(node.parts, st), LAMBDA s, text :
             IF s.current \notin DOMAIN s.disk THEN Fail(s, "IoError")
             ELSE Ok([s EXCEPT !.exit = TRUE,
                               !.disk[s.current] = PatchSource(@, node, text)],
                     <<>>))

EvaluateBuiltin(node, name, st) ==
    CASE name \in {"def", "redef", "pydef"} -> BuiltinDef(name, node.parts, st)
      [] name = "set"     -> BuiltinSet(node.parts, st)
      [] name = "alias"   -> BuiltinAlias(node.parts, st)
      [] name = "export"  -> BuiltinExport(node.parts, st)
      [] name = "if"      -> BuiltinIf(node.parts, st)
      [] name = "match"   -> BuiltinMatch(node.parts, st)
      [] name \in {"eq", "neq", "not"} -> BuiltinPredicate(name, node.parts, st)
      [] name = "eval"    -> BuiltinEval(node.parts, st)
      [] name = "include" -> BuiltinInclude(node.parts, st)
      [] name = "import"  -> BuiltinImport(node.parts, st)
      [] name = "here"    -> BuiltinHere(node, st)

\* What stops a call of a user macro before its arguments are evaluated.
CallError(node, name, st) ==
    IF st.depth >= RecursionLimit THEN "Runtime"
    ELSE IF name \notin DOMAIN VisibleMacros(st) THEN "UndefinedMacro"
    ELSE BindingError(VisibleMacros(st)[name], node.parts)

Enter(st, vars) ==
    [Push(st, [vars |-> vars, macros |-> <<>>]) EXCEPT !.depth = @ + 1]

\* A plausible slip: an error returns before the depth is restored.
LeaveDeep(r) ==
    [r EXCEPT !.st = IF r.err # "" THEN @ ELSE Pop([@ EXCEPT !.depth = @ - 1])]

\* After the body: the depth is restored, and an error leaves the frame behind.
Leave(r) ==
    LET back == [r.st EXCEPT !.depth = @ - 1]
    IN  [r EXCEPT !.st = IF r.err # "" THEN back ELSE Pop(back)]

EvaluateMacroCall(node, name, st) ==
    LET mac == VisibleMacros(st)[name]
        Untracked(vars) == [v \in DOMAIN vars |-> Pieces(vars[v], Untraced)]
        Vars(texts) == Untracked(CalleeVars(mac.frozen, Bindings(mac, node.parts, texts)))
    IN  IF name \in Builtins THEN EvaluateBuiltin(node, name, st)
        ELSE IF CallError(node, name, st) # "" THEN Fail(st, CallError(node, name, st))
        ELSE Then(EvaluateEach(node.parts, st), LAMBDA s, texts :
                 Then(Leave(Evaluate(mac.body, Enter(s, Vars(texts)))), LAMBDA s1, text :
                     Ok(s1, IF mac.script THEN RunScript(text) ELSE text)))

Evaluate(node, st) ==
    CASE st.exit -> Ok(st, <<>>)
      [] ~st.exit /\ node.kind \in {"text", "ident"} -> Ok(st, <<node.name>>)
      [] ~st.exit /\ node.kind = "var" ->
            IF node.name \in DOMAIN VisibleVars(st)
            THEN Ok(st, TextOf(VisibleVars(st)[node.name]))
            ELSE Fail(st, "UndefinedVariable")
      [] ~st.exit /\ node.kind = "macro" -> EvaluateMacroCall(node, node.name, st)
      [] ~st.exit /\ node.kind \in {"block", "param"} -> EvaluateParts(node.parts, st)

----------------------------------------------------------------------------
(* Tracked evaluation, with PreciseTracingOutput as its output *)

Span(node, kind) == [at |-> node, off |-> 0, kind |-> kind]

IsTraced(piece) == piece.span # Untraced

\* A plausible slip: an untracked variable is pushed without a span.
PushVariableUntracked(node, pieces) ==
    IF \A i \in DOMAIN pieces : ~IsTraced(pieces[i])
    THEN pieces
    ELSE SelectSeq(pieces, IsTraced)

\* What of a text stands before the line of its i-th atom.
LineOffset(text, i) ==
    Max({0} \cup {j \in 1 .. i - 1 : text[j] \in LineEnds})

\* An untracked variable is attributed to the place where it is used, each
\* line of its value as far behind it as the line is behind the value's
\* beginning; of a tracked one, the attributed ranges are replayed.
PushVariable(node, pieces) ==
    IF \A i \in DOMAIN pieces : ~IsTraced(pieces[i])
    THEN [i \in DOMAIN pieces |->
            [atom |-> pieces[i].atom,
             span |-> [Span(node, "VarBinding") EXCEPT
                         !.off = LineOffset(TextOf(pieces), i)]]]
    ELSE SelectSeq(pieces, IsTraced)

\* A plausible slip: the whole argument is attributed to its parameter node.
TagAsMacroArgCoarse(pieces, param) ==
    Pieces(TextOf(pieces), Span(param, "MacroArg"))

TagAsMacroArg(pieces, param) ==
    IF \A i \in DOMAIN pieces : ~IsTraced(pieces[i])
    THEN Pieces(TextOf(pieces), Span(param, "MacroArg"))
    ELSE [i \in DOMAIN pieces |->
            IF IsTraced(pieces[i]) THEN [pieces[i] EXCEPT !.span.kind = "MacroArg"]
            ELSE pieces[i]]

RECURSIVE EvaluateTo(_, _, _), EvaluateMacroCallTo(_, _, _)

\* The arguments of a call, evaluated in turn by evaluate_arg_to_traced.
EvaluateEachTo(nodes, st) ==
    InTurn(LAMBDA node, s :
               Then(EvaluateTo(node, "Literal", s), LAMBDA s1, pieces :
                   Ok(s1, TagAsMacroArg(pieces, node))),
           nodes, st)

\* Builtins take the plain path; the script of a pydef macro is not run.
EvaluateMacroCallTo(node, name, st) ==
    LET mac == VisibleMacros(st)[name]
        frozen == [v \in DOMAIN mac.frozen |->
                    Pieces(mac.frozen[v], Span(node, "VarBinding"))]
    IN  IF name \in Builtins
        THEN Then(EvaluateBuiltin(node, name, st), LAMBDA s, text :
                 Ok(s, Pieces(text, Span(node, "Computed"))))
        ELSE IF CallError(node, name, st) # "" THEN Fail(st, CallError(node, name, st))
        ELSE Then(EvaluateEachTo(node.parts, st), LAMBDA s, values :
                 Leave(EvaluateTo(mac.body, "MacroBody",
                         Enter(s, CalleeVars(frozen, Bindings(mac, node.parts, values))))))

\* `kind` is the kind of the context span that literal text inherits.
EvaluateTo(node, kind, st) ==
    CASE st.exit -> Ok(st, <<>>)
      [] ~st.exit /\ node.kind \in {"text", "ident"} ->
            Ok(st, Pieces(<<node.name>>, Span(node, kind)))
      [] ~st.exit /\ node.kind = "var" ->
            IF node.name \in DOMAIN VisibleVars(st)
            THEN Ok(st, PushVariable(node, VisibleVars(st)[node.name]))
            ELSE Fail(st, "UndefinedVariable")
      [] ~st.exit /\ node.kind = "macro" -> EvaluateMacroCallTo(node, node.name, st)
      [] ~st.exit /\ node.kind \in {"block", "param"} ->
            Then(InTurn(LAMBDA part, s : EvaluateTo(part, kind, s), node.parts, st),
                 LAMBDA s, values : Ok(s, FlattenSeq(values)))

----------------------------------------------------------------------------
(* Entry points *)

\* process_string: a document with several live %here calls is refused.
ProcessString(file, st) ==
    LET document == st.disk[file]
        reading == [st EXCEPT !.current = file, !.sources = @ \cup {file}]
    IN  IF CountCalls(document, "here") > 1
        THEN Fail([st EXCEPT !.sources = @ \cup {file}], "InvalidUsage")
        ELSE Evaluate(document, reading)

ProcessStringPrecise(file, st) ==
    LET document == st.disk[file]
        reading == [st EXCEPT !.current = file, !.sources = @ \cup {file}]
    IN  IF CountCalls(document, "here") > 1
        THEN Fail([st EXCEPT !.sources = @ \cup {file}], "InvalidUsage")
        ELSE EvaluateTo(document, "Literal", reading)
=============================================================================
