--------------------------------- MODULE Mcp ---------------------------------
(***************************************************************************)
(* The MCP server of weaveback: run_mcp reads one request per line from an *)
(* agent, handles it and writes the answer before it reads the next one.   *)
(* The lookups go through a language server (LspClient).  `wb-query lsp`   *)
(* (lsp_runner) makes one such lookup and ends; here it is an agent that   *)
(* asks once, where world.cli holds.                                       *)
(***************************************************************************)
EXTENDS LspClient

CONSTANT
    Worlds  \* installations with what agents ask there and servers do

VARIABLES
    asked,   \* the requests of the agent
    closed,  \* whether it has closed its end
    taken,   \* how many of them were read
    cur,     \* the request at hand
    answers

mcpVars == <<asked, closed, taken, cur, answers>>
vars == <<lspVars, mcpVars>>

NoRequest == [n |-> 0, pc |-> "idle", method |-> "none", srv |-> 0, value |-> "none", tag |-> 0]

Init ==
    /\ LspInit
    /\ world \in Worlds
    /\ faults = world.faults
    /\ asked = <<>> /\ closed = FALSE /\ taken = 0
    /\ cur = NoRequest
    /\ answers = <<>>

(* The agent: a request per line, without waiting for answers. *)
AgentAsks ==
    /\ ~closed /\ cur.pc # "exit" /\ Len(asked) < world.count
    /\ \E r \in world.requests : asked' = Append(asked, r)
    /\ UNCHANGED <<lspVars, closed, taken, cur, answers>>

AgentCloses ==
    /\ ~closed
    /\ closed' = TRUE
    /\ UNCHANGED <<lspVars, asked, taken, cur, answers>>
-----------------------------------------------------------------------------
(* What the handlers answer that need no language server.  A failing query *)
(* and an empty result are possible whenever weaveback.db is there.        *)

FromDb == IF world.db = "good" THEN {"ok", "error"} ELSE {"error"}

WithArgs(args, outcomes) == IF args = "good" THEN outcomes ELSE {"error"}

Trace(args) == IF args = "missing" THEN {"error"} ELSE FromDb
ApplyBack(args) == {"ok", "error"}
ApplyFix(args) == WithArgs(args, FromDb)
ChunkContext(args) == WithArgs(args, FromDb)
ListChunks(args) == FromDb
FindChunk(args) == WithArgs(args, FromDb)
Search(args) == WithArgs(args, FromDb)
ListTags(args) == FromDb
Coverage(args) == IF ~world.lcov \/ world.db # "good" THEN {"error"} ELSE {"ok"}

Lookups == {"definition", "references", "hover", "symbols", "diagnostics"}

(* Blank lines, what is not JSON, notifications and methods without an arm. *)
Ignored == {"blank", "notification", "unknown method"}

(* A line that is not UTF-8. *)
Unreadable == {"unreadable"}

AtOnce(r) ==
    CASE r.tool = "list"          -> {"ok"}
      [] r.tool = "trace"         -> Trace(r.args)
      [] r.tool = "apply_back"    -> ApplyBack(r.args)
      [] r.tool = "apply_fix"     -> ApplyFix(r.args)
      [] r.tool = "chunk_context" -> ChunkContext(r.args)
      [] r.tool = "list_chunks"   -> ListChunks(r.args)
      [] r.tool = "find_chunk"    -> FindChunk(r.args)
      [] r.tool = "search"        -> Search(r.args)
      [] r.tool = "list_tags"     -> ListTags(r.args)
      [] r.tool = "coverage"      -> Coverage(r.args)
      [] OTHER                    -> {"error"}

Answer(n, outcome, tag) ==
    answers' = Append(answers, [n |-> n, outcome |-> outcome, tag |-> tag])

Ignore ==
    /\ cur.pc = "idle" /\ taken < Len(asked)
    /\ asked[taken + 1].tool \in Ignored
    /\ taken' = taken + 1
    /\ UNCHANGED <<lspVars, asked, closed, cur, answers>>

AnswerAtOnce ==
    /\ cur.pc = "idle" /\ taken < Len(asked)
    /\ asked[taken + 1].tool \notin Ignored \cup Lookups \cup Unreadable
    /\ taken' = taken + 1
    /\ \E outcome \in AtOnce(asked[taken + 1]) : Answer(taken + 1, outcome, 0)
    /\ UNCHANGED <<lspVars, asked, closed, cur>>
-----------------------------------------------------------------------------
(* The lookups.  `wb-query lsp` opens weaveback.db before all else.        *)

RefuseLookup ==
    /\ cur.pc = "idle" /\ taken < Len(asked)
    /\ asked[taken + 1].tool \in Lookups
    /\ asked[taken + 1].args # "good" \/ (world.cli /\ world.db # "good")
    /\ taken' = taken + 1
    /\ Answer(taken + 1, "error", 0)
    /\ UNCHANGED <<lspVars, asked, closed, cur>>

BeginLookup ==
    /\ cur.pc = "idle" /\ taken < Len(asked)
    /\ asked[taken + 1].tool \in Lookups
    /\ asked[taken + 1].args = "good"
    /\ world.cli => world.db = "good"
    /\ taken' = taken + 1
    /\ cur' = [NoRequest EXCEPT !.n = taken + 1, !.pc = "client"]
    /\ UNCHANGED <<lspVars, asked, closed, answers>>

Tool == asked[cur.n].tool
Lang == asked[cur.n].lang

(* The lookup is over; the client stays in lsp_clients. *)
Conclude(outcome) ==
    /\ Answer(cur.n, outcome, cur.tag)
    /\ cur' = NoRequest
    /\ UNCHANGED <<asked, closed, taken>>

HasClient == table[Lang] # 0 /\ Alive(table[Lang])

(* get_or_spawn_lsp *)
NoClient ==
    /\ cur.pc = "client"
    /\ Lang \in Langs => ~HasClient /\ Lang \notin world.installed
    /\ Conclude("error")
    /\ UNCHANGED lspVars

UseClient ==
    /\ cur.pc = "client" /\ Lang \in Langs /\ HasClient
    /\ cur' = [cur EXCEPT !.pc = "call", !.srv = table[Lang]]
    /\ UNCHANGED <<lspVars, asked, closed, taken, answers>>

Spawn ==
    /\ cur.pc = "client" /\ Lang \in Langs /\ ~HasClient /\ Lang \in world.installed
    /\ \E s \in Fresh :
          /\ \A t \in Fresh : s <= t
          /\ servers' = [servers EXCEPT ![s] =
                [NoServer EXCEPT !.state = "alive", !.lang = Lang,
                                 !.in = <<[id |-> 1, tag |-> cur.n, method |-> "initialize"]>>]]
          /\ clients' = [clients EXCEPT ![s].next = @ + 1]
          /\ cur' = [cur EXCEPT !.pc = "read", !.method = "initialize", !.srv = s]
    /\ UNCHANGED <<table, faults, world, asked, closed, taken, answers>>

CallId == IF cur.method = "initialize" THEN 1 ELSE clients[cur.srv].next - 1

Read ==
    /\ cur.pc = "read"
    /\ ReadOther(cur.srv, CallId)
    /\ UNCHANGED <<table, faults, world, mcpVars>>

Return ==
    /\ cur.pc = "read"
    /\ \E o \in Outcome(cur.srv, CallId) :
          cur' = [cur EXCEPT !.pc = "got", !.value = o.value, !.tag = o.tag]
    /\ ReadLast(cur.srv)
    /\ UNCHANGED <<clients, table, faults, world, asked, closed, taken, answers>>

Initialized == cur.pc = "got" /\ cur.method = "initialize"

(* A plausible slip: the server that did not start well is left alone. *)
InitializeForgets ==
    /\ Initialized
    /\ cur.value = "failed" \/ ~Alive(cur.srv)
    /\ Conclude("error")
    /\ UNCHANGED lspVars

(* Also when the server is gone before it is told that all is well. *)
InitializeFails ==
    /\ Initialized
    /\ cur.value = "failed" \/ ~Alive(cur.srv)
    /\ servers' = Killed({cur.srv})
    /\ Conclude("error")
    /\ UNCHANGED <<clients, table, faults, world>>

InitializeEnds ==
    /\ Initialized
    /\ cur.value # "failed" /\ Alive(cur.srv)
    /\ servers' = Killed({table[Lang]} \ {0})
    /\ table' = [table EXCEPT ![Lang] = cur.srv]
    /\ cur' = [cur EXCEPT !.pc = "call", !.tag = 0]
    /\ UNCHANGED <<clients, faults, world, asked, closed, taken, answers>>

(* The diagnostics are those that were read so far; nothing is sent. *)
AskNothing ==
    /\ cur.pc = "call" /\ Tool = "diagnostics"
    /\ cur' = [cur EXCEPT !.pc = "got", !.method = Tool, !.value = "list"]
    /\ UNCHANGED <<lspVars, asked, closed, taken, answers>>

(* A plausible slip: the error is reported and the lookup begun again. *)
CallFailsAndRetries ==
    /\ cur.pc = "call" /\ Tool # "diagnostics"
    /\ ~Alive(cur.srv) \/ world.cli
    /\ Answer(cur.n, "error", cur.tag)
    /\ cur' = [cur EXCEPT !.pc = "client"]
    /\ UNCHANGED <<lspVars, asked, closed, taken>>

CallFails ==
    /\ cur.pc = "call" /\ Tool # "diagnostics"
    /\ ~Alive(cur.srv) \/ world.cli
    /\ Conclude("error")
    /\ UNCHANGED lspVars

AskServer ==
    /\ cur.pc = "call" /\ Tool # "diagnostics"
    /\ Call(cur.srv, Tool, cur.n)
    /\ cur' = [cur EXCEPT !.pc = "read", !.method = Tool]
    /\ UNCHANGED <<table, faults, world, asked, closed, taken, answers>>

(* nav.rs: what the tool makes of the server's result. *)
Parsed(tool, value) ==
    CASE value = "failed" -> "failed"
      [] tool = "definition" -> IF value \in {"location", "list"} THEN "found"
                                ELSE IF value = "remote" THEN "remote" ELSE "none"
      [] tool = "references" -> IF value \in {"null", "list", "empty"} THEN "found" ELSE "failed"
      [] tool = "hover" -> IF value = "null" THEN "none"
                           ELSE IF value = "hover" THEN "found" ELSE "failed"
      [] tool = "symbols" -> IF value \in {"null", "empty"} THEN "found" ELSE "failed"
      [] tool = "diagnostics" -> "found"

(* The answer of each handler, with weaveback.db to map what was found. *)
Definition(p) == IF p = "none" THEN {"ok"} ELSE IF p = "found" THEN FromDb ELSE {"error"}
References(p) ==
    IF p # "found" \/ world.db # "good" THEN {"error"}
    ELSE IF world.cli THEN {"ok", "error"} ELSE {"ok"}
Hover(p) == IF p = "none" \/ (p = "found" /\ world.db = "good") THEN {"ok"} ELSE {"error"}
Diagnostics(p) == IF world.db = "good" THEN {"ok"} ELSE {"error"}
Symbols(p) == IF p = "found" THEN {"ok"} ELSE {"error"}

Outcomes(tool, p) ==
    CASE tool = "definition"  -> Definition(p)
      [] tool = "references"  -> References(p)
      [] tool = "hover"       -> Hover(p)
      [] tool = "diagnostics" -> Diagnostics(p)
      [] tool = "symbols"     -> Symbols(p)

AnswerLookup ==
    /\ cur.pc = "got" /\ cur.method # "initialize"
    /\ \E outcome \in Outcomes(Tool, Parsed(Tool, cur.value)) : Conclude(outcome)
    /\ UNCHANGED lspVars

(* The end of the input, or of `wb-query lsp`: every client is dropped. *)
Exit ==
    /\ cur.pc = "idle" /\ taken = Len(asked)
    /\ closed \/ (world.cli /\ taken > 0)
    /\ servers' = Killed(Servers)
    /\ cur' = [cur EXCEPT !.pc = "exit"]
    /\ UNCHANGED <<clients, table, faults, world, asked, closed, taken, answers>>

(* A line that cannot be read ends the loop, whatever was asked after it.  *)
BreakOff ==
    /\ cur.pc = "idle" /\ taken < Len(asked)
    /\ asked[taken + 1].tool \in Unreadable
    /\ servers' = Killed(Servers)
    /\ cur' = [cur EXCEPT !.pc = "exit"]
    /\ UNCHANGED <<clients, table, faults, world, asked, closed, taken, answers>>

McpStep ==
    \/ Ignore \/ AnswerAtOnce \/ RefuseLookup \/ BeginLookup
    \/ NoClient \/ UseClient \/ Spawn
    \/ Read \/ Return \/ InitializeFails \/ InitializeEnds
    \/ AskNothing \/ CallFails \/ AskServer \/ AnswerLookup
    \/ Exit \/ BreakOff

LspStep(s) == ServerStep(s) /\ UNCHANGED mcpVars

Next ==
    \/ AgentAsks \/ AgentCloses
    \/ McpStep
    \/ \E s \in Servers : LspStep(s) \/ (ServerFault(s) /\ UNCHANGED mcpVars)

(* The loop goes on whenever it can; a server that is alive and does not   *)
(* wait for the client answers in the end.  The agent need not ask.        *)
Fairness ==
    /\ WF_vars(McpStep)
    /\ \A s \in Servers : WF_vars(LspStep(s))

Spec == Init /\ [][Next]_vars /\ Fairness
-----------------------------------------------------------------------------
(* Properties. *)

(* A request counts as served when it is no longer at hand. *)
AnyRequest == UNION {w.requests : w \in Worlds}
Service == INSTANCE RequestService WITH
    Requests <- AnyRequest,
    Silent   <- {r \in AnyRequest : r.tool \in Ignored},
    Verdicts <- {"ok", "error"},
    served   <- IF cur.n = 0 THEN taken ELSE taken - 1,
    replies  <- [i \in DOMAIN answers |-> [n |-> answers[i].n, outcome |-> answers[i].outcome]]

(* Whatever becomes of language servers and clients in between, the agent  *)
(* sees a sequential service: a failed lookup is a reply as well, none is  *)
(* lost, doubled or overtaken by a later one.                              *)
ServesInOrder == Service!ServiceSpec

(* What a lookup reports is what the server answered to that lookup, also  *)
(* after a call that failed with its answer still to come: as long as      *)
(* servers give no id of the client to requests of their own.              *)
AnswersFit ==
    world.ids \cap (1..(world.count + 1)) = {} =>
        \A i \in DOMAIN answers : answers[i].tag \in {0, answers[i].n}

(* No language server is started beside a living one of its language, none *)
(* is left behind when it fails to initialize or when the input ends.      *)
ServersAreKept ==
    /\ \A s, t \in Servers :
          Alive(s) /\ Alive(t) /\ servers[s].lang = servers[t].lang => s = t
    /\ \A s \in Servers : Alive(s) => s \in Range(table) \cup {cur.srv}
    /\ cur.pc = "exit" => \A s \in Servers : ~Alive(s)

Published(s) == {i \in DOMAIN servers[s].out : servers[s].out[i].kind = "publish"}

(* Of what a server published, all that the client does not keep is still  *)
(* in the pipe, and comes in order: a lookup drops none while it waits for *)
(* its answer or when nonsense makes it fail, no older list replaces a     *)
(* newer one, and a new server does not begin with the diagnostics of an   *)
(* old one.  It takes a server that ends its lines: what follows an        *)
(* unfinished one is skipped with it.                                      *)
NoDiagnosticsLost ==
    \A s \in Servers : Alive(s) /\ ~servers[s].torn =>
        /\ {servers[s].out[i].tag : i \in Published(s)} = (clients[s].diags + 1)..servers[s].pub
        /\ \A i, j \in Published(s) : i < j => servers[s].out[i].tag < servers[s].out[j].tag

(* A call to a server that waits for the client, or that has left a line   *)
(* unfinished, with which the answer may have been skipped.                *)
Hangs == cur.pc = "read" /\ (servers[cur.srv].waits \/ servers[cur.srv].torn)

Readable(n) == \A i \in 1..n : asked[i].tool \notin Unreadable

(* The agent never waits for ever for an answer that is due, unless a call *)
(* hangs for ever, or a line that cannot be read has ended the loop.       *)
EveryRequestAnswered ==
    \A n \in 1..MaxServers :
        []<>~Hangs => (n <= Len(asked) /\ Readable(n) ~> n <= taken /\ cur.n # n)
=============================================================================
