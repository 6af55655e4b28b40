------------------------------ MODULE McpProofs ------------------------------
(***************************************************************************)
(* The MCP server implements the sequential service of RequestService,     *)
(* keeps one server of a language at most, reports what was answered to    *)
(* the lookup, and loses no publication, whatever the language servers do, *)
(* for any languages, worlds and bounds.                                   *)
(***************************************************************************)
EXTENDS Mcp, TLAPS

Fields == {"n", "pc", "method", "srv", "value", "tag"}

(* A request at hand is the one taken last, and a lookup. *)
InHand ==
    /\ asked \in Seq(AnyRequest)
    /\ world \in Worlds
    /\ taken \in Nat /\ taken <= Len(asked)
    /\ DOMAIN cur = Fields
    /\ cur.n \in {0, taken}
    /\ cur.n = 0 <=> cur.pc \in {"idle", "exit"}
    /\ cur.n # 0 => asked[cur.n].tool \in Lookups
    /\ \E S : answers \in Seq(S)
-----------------------------------------------------------------------------
(* A sequence stays one, whatever is appended. *)
LEMMA AppendAnything ==
    ASSUME NEW S, NEW s \in Seq(S), NEW x
    PROVE  /\ Append(s, x) \in Seq(S \cup {x})
           /\ Len(Append(s, x)) = Len(s) + 1
           /\ \A i \in 1..Len(s) : Append(s, x)[i] = s[i]
           /\ Append(s, x)[Len(s) + 1] = x
           /\ DOMAIN Append(s, x) = 1..(Len(s) + 1)
<1>1. s \in Seq(S \cup {x})
  OBVIOUS
<1> QED
  BY <1>1

LEMMA OutcomesOfTools ==
    /\ \A r : AtOnce(r) \subseteq {"ok", "error"}
    /\ \A tool \in Lookups : \A p : Outcomes(tool, p) \subseteq {"ok", "error"}
<1> DEFINE Both == {"ok", "error"}
<1>1. {"ok"} \subseteq Both /\ {"error"} \subseteq Both /\ Both \subseteq Both
  OBVIOUS
<1>2. FromDb \subseteq Both
  BY <1>1 DEF FromDb
<1> HIDE DEF Both
<1>3. ASSUME NEW args PROVE WithArgs(args, FromDb) \subseteq Both
  BY <1>1, <1>2 DEF WithArgs
<1>4. ASSUME NEW args PROVE Trace(args) \subseteq Both /\ Coverage(args) \subseteq Both
  BY <1>1, <1>2 DEF Trace, Coverage
<1>5. ASSUME NEW r PROVE AtOnce(r) \subseteq Both
  <2>1. ApplyBack(r.args) \subseteq Both
    BY <1>1 DEF ApplyBack, Both
  <2>2. \A args : WithArgs(args, FromDb) \subseteq Both /\ Trace(args) \subseteq Both
                  /\ Coverage(args) \subseteq Both
    BY <1>3, <1>4
  <2> QED
    BY <1>1, <1>2, <2>1, <2>2, Zenon
    DEF AtOnce, ApplyFix, ChunkContext, ListChunks, FindChunk, Search, ListTags
<1>6. ASSUME NEW tool \in Lookups, NEW p PROVE Outcomes(tool, p) \subseteq Both
  <2>1. Definition(p) \subseteq Both /\ References(p) \subseteq Both
    BY <1>1, <1>2 DEF Definition, References, Both
  <2>2. Hover(p) \subseteq Both /\ Diagnostics(p) \subseteq Both /\ Symbols(p) \subseteq Both
    BY <1>1 DEF Hover, Diagnostics, Symbols
  <2> QED
    BY <2>1, <2>2, Zenon DEF Outcomes, Lookups
<1> QED
  BY <1>5, <1>6 DEF Both
-----------------------------------------------------------------------------
(* The steps of the service. *)

LEMMA NoFields == DOMAIN NoRequest = Fields /\ NoRequest.n = 0 /\ NoRequest.pc = "idle"
BY DEF NoRequest, Fields

(* What Conclude and Answer do to the replies. *)
Replies == [i \in DOMAIN answers |-> [n |-> answers[i].n, outcome |-> answers[i].outcome]]
Served == IF cur.n = 0 THEN taken ELSE taken - 1

LEMMA AnswerReplies ==
    ASSUME InHand, NEW n, NEW outcome, NEW tag, Answer(n, outcome, tag)
    PROVE  /\ Replies' = Append(Replies, [n |-> n, outcome |-> outcome])
           /\ \E S : answers' \in Seq(S)
<1> PICK S : answers \in Seq(S)
  BY DEF InHand
<1> DEFINE x == [n |-> n, outcome |-> outcome, tag |-> tag]
<1>1. answers' = Append(answers, x)
  BY DEF Answer
<1>2. /\ answers' \in Seq(S \cup {x})
      /\ \A i \in 1..Len(answers) : answers'[i] = answers[i]
      /\ answers'[Len(answers) + 1] = x
      /\ DOMAIN answers' = 1..(Len(answers) + 1)
  BY <1>1, AppendAnything
<1>3. Replies \in Seq({[n |-> answers[i].n, outcome |-> answers[i].outcome] : i \in DOMAIN answers})
  BY DEF Replies
<1>4. Len(Replies) = Len(answers) /\ DOMAIN Replies = 1..Len(answers)
  BY DEF Replies
<1> DEFINE y == [n |-> n, outcome |-> outcome]
<1> DEFINE T == {[n |-> answers[i].n, outcome |-> answers[i].outcome] : i \in DOMAIN answers}
<1>5. /\ Append(Replies, y) \in Seq(T \cup {y})
      /\ \A i \in 1..Len(Replies) : Append(Replies, y)[i] = Replies[i]
      /\ Append(Replies, y)[Len(Replies) + 1] = y
      /\ DOMAIN Append(Replies, y) = 1..(Len(Replies) + 1)
  BY <1>3, AppendAnything
<1>6. DOMAIN Replies' = DOMAIN answers'
  BY DEF Replies
<1>7. \A i \in DOMAIN answers' : Replies'[i] = [n |-> answers'[i].n, outcome |-> answers'[i].outcome]
  BY DEF Replies
<1>8. \A i \in DOMAIN answers' : Replies'[i] = Append(Replies, y)[i]
  BY <1>2, <1>4, <1>5, <1>7 DEF Replies
<1> QED
  BY <1>2, <1>4, <1>5, <1>6, <1>8 DEF Replies

LEMMA InitServes == Init => InHand /\ Service!ServiceInit
<1> SUFFICES ASSUME Init PROVE InHand /\ Service!ServiceInit
  OBVIOUS
<1>1. answers \in Seq({})
  BY DEF Init
<1>2. Replies = <<>>
  BY DEF Init, Replies
<1> QED
  BY <1>1, <1>2, NoFields DEF Init, InHand, Service!ServiceInit, Replies

(* What leaves requests and replies alone is no step of the service. *)
LEMMA KeepsHand ==
    ASSUME InHand, UNCHANGED <<asked, taken, answers, world>>,
           DOMAIN cur' = Fields, cur'.n = cur.n,
           cur'.pc \in {"idle", "exit"} <=> cur.pc \in {"idle", "exit"}
    PROVE  InHand' /\ UNCHANGED Service!serviceVars
BY DEF InHand, Service!serviceVars

LEMMA ServeStep ==
    ASSUME Served < Len(asked), Served' = Served + 1, asked' = asked,
           asked[Served + 1] \in AnyRequest,
           \/ asked[Served + 1].tool \in Ignored /\ Replies' = Replies
           \/ /\ asked[Served + 1].tool \notin Ignored
              /\ \E o \in {"ok", "error"} :
                    Replies' = Append(Replies, [n |-> Served + 1, outcome |-> o])
    PROVE  Service!Serve
BY DEF Service!Serve, Replies, Served

(* The end of a lookup serves its request. *)
LEMMA ConcludeServes ==
    ASSUME InHand, cur.n # 0, NEW outcome \in {"ok", "error"}, Conclude(outcome),
           world' = world
    PROVE  InHand' /\ Service!Serve
<1>1. Replies' = Append(Replies, [n |-> cur.n, outcome |-> outcome])
      /\ \E S : answers' \in Seq(S)
  BY AnswerReplies DEF Conclude
<1>2. cur.n = taken /\ taken > 0 /\ taken \in Nat /\ taken - 1 < Len(asked)
      /\ cur' = NoRequest /\ asked' = asked /\ taken' = taken
  BY DEF InHand, Conclude
<1>3. InHand'
  BY <1>1, <1>2, NoFields DEF InHand
<1>4. asked[taken] \in AnyRequest /\ asked[taken].tool \notin Ignored
  <2>1. asked[taken].tool \in Lookups
    BY <1>2 DEF InHand
  <2>2. asked[taken].tool \notin Ignored
    BY <2>1 DEF Lookups, Ignored
  <2> QED
    BY <1>2, <2>2 DEF InHand
<1>5. Served = taken - 1 /\ Served' = taken /\ Served + 1 = taken
  BY <1>2, NoFields DEF Served
<1> QED
  BY <1>1, <1>2, <1>3, <1>4, <1>5, ServeStep

(* So does an answer given at once, or none where none is due. *)
LEMMA TakeServes ==
    ASSUME InHand, cur.pc = "idle", taken < Len(asked), taken' = taken + 1,
           UNCHANGED <<asked, cur, world>>,
           \/ asked[taken + 1].tool \in Ignored /\ answers' = answers
           \/ /\ asked[taken + 1].tool \notin Ignored
              /\ \E outcome \in {"ok", "error"} : Answer(taken + 1, outcome, 0)
    PROVE  InHand' /\ Service!Serve
<1>1. cur.n = 0 /\ taken \in Nat /\ asked[taken + 1] \in AnyRequest
  BY DEF InHand
<1>2. Served = taken /\ Served' = taken + 1
  BY <1>1 DEF Served
<1>3. InHand' <=> \E S : answers' \in Seq(S)
  BY <1>1 DEF InHand
<1>4. CASE asked[taken + 1].tool \in Ignored /\ answers' = answers
  <2>1. Replies' = Replies
    BY <1>4 DEF Replies
  <2> QED
    BY <1>1, <1>2, <1>3, <1>4, <2>1, ServeStep DEF InHand
<1>5. CASE /\ asked[taken + 1].tool \notin Ignored
           /\ \E outcome \in {"ok", "error"} : Answer(taken + 1, outcome, 0)
  <2>1. PICK outcome \in {"ok", "error"} : Answer(taken + 1, outcome, 0)
    BY <1>5
  <2>2. Replies' = Append(Replies, [n |-> taken + 1, outcome |-> outcome])
        /\ \E S : answers' \in Seq(S)
    BY <2>1, AnswerReplies
  <2> QED
    BY <1>1, <1>2, <1>3, <1>5, <2>2, ServeStep
<1> QED
  BY <1>4, <1>5

LEMMA AskAsks == ASSUME InHand, AgentAsks PROVE InHand' /\ Service!Ask
<1>1. PICK r \in world.requests : asked' = Append(asked, r)
  BY DEF AgentAsks
<1>2. r \in AnyRequest
  BY DEF InHand, AnyRequest
<1>3. /\ asked' \in Seq(AnyRequest) /\ Len(asked') = Len(asked) + 1
      /\ \A i \in 1..Len(asked) : asked'[i] = asked[i]
  BY <1>1, <1>2 DEF InHand
<1>4. UNCHANGED <<lspVars, closed, taken, cur, answers>>
  BY DEF AgentAsks
<1>5. InHand'
  BY <1>3, <1>4 DEF InHand, lspVars
<1>6. UNCHANGED <<Served, Replies>>
  BY <1>4 DEF Served, Replies
<1> QED
  BY <1>1, <1>2, <1>5, <1>6 DEF Service!Ask, Served, Replies

(* What language servers do shows in no request and no reply. *)
LEMMA ServersAreUnseen ==
    ASSUME NEW s \in Servers, ServerStep(s) \/ ServerFault(s)
    PROVE  world' = world
BY DEF ServerStep, ServerFault, ServerAnswers, ServerPublishes, ServerAsks, ServerGarbles,
       ServerDies

LEMMA StepServes ==
    ASSUME InHand, McpStep
    PROVE  InHand' /\ (Service!Serve \/ UNCHANGED Service!serviceVars)
<1>1. CASE Ignore
  BY <1>1, TakeServes DEF Ignore, lspVars
<1>2. CASE AnswerAtOnce
  BY <1>2, TakeServes, OutcomesOfTools DEF AnswerAtOnce, lspVars
<1>3. CASE RefuseLookup
  <2>1. Lookups \cap Ignored = {}
    BY DEF Lookups, Ignored
  <2> QED
    BY <1>3, <2>1, TakeServes DEF RefuseLookup, lspVars
<1>4. CASE BeginLookup
  <2>1. Lookups \cap Ignored = {}
    BY DEF Lookups, Ignored
  <2>2. cur.n = 0 /\ DOMAIN cur' = Fields /\ cur'.n = taken + 1 /\ cur'.pc = "client"
    BY <1>4, NoFields DEF BeginLookup, InHand, Fields
  <2>3. InHand'
    BY <1>4, <2>1, <2>2 DEF BeginLookup, InHand, lspVars
  <2>4. UNCHANGED <<asked, Served, Replies>>
    BY <1>4, <2>2 DEF BeginLookup, Served, Replies, InHand
  <2> QED
    BY <2>3, <2>4 DEF Service!serviceVars, Served, Replies
<1>5. CASE NoClient
  BY <1>5, ConcludeServes DEF NoClient, lspVars, InHand
<1>6. CASE UseClient
  BY <1>6, KeepsHand DEF UseClient, lspVars, InHand, Fields
<1>7. CASE Spawn
  BY <1>7, KeepsHand DEF Spawn, InHand, Fields
<1>8. CASE Read
  BY <1>8, KeepsHand DEF Read, mcpVars, InHand
<1>9. CASE Return
  BY <1>9, KeepsHand DEF Return, InHand, Fields
<1>10. CASE InitializeFails
  BY <1>10, ConcludeServes DEF InitializeFails, Initialized, InHand
<1>11. CASE InitializeEnds
  BY <1>11, KeepsHand DEF InitializeEnds, Initialized, InHand, Fields
<1>12. CASE AskNothing
  BY <1>12, KeepsHand DEF AskNothing, lspVars, InHand, Fields
<1>13. CASE CallFails
  BY <1>13, ConcludeServes DEF CallFails, lspVars, InHand
<1>14. CASE AskServer
  BY <1>14, KeepsHand DEF AskServer, InHand, Fields
<1>15. CASE AnswerLookup
  <2>1. cur.n # 0 /\ world' = world
    BY <1>15 DEF AnswerLookup, InHand, lspVars
  <2>2. Tool \in Lookups
    BY <2>1 DEF Tool, InHand
  <2> QED
    BY <1>15, <2>1, <2>2, OutcomesOfTools, ConcludeServes DEF AnswerLookup
<1>16. CASE Exit \/ BreakOff
  BY <1>16, KeepsHand DEF Exit, BreakOff, InHand, Fields
<1> QED
  BY <1>1, <1>2, <1>3, <1>4, <1>5, <1>6, <1>7, <1>8, <1>9, <1>10, <1>11, <1>12, <1>13, <1>14,
     <1>15, <1>16 DEF McpStep

LEMMA NextServes ==
    InHand /\ [Next]_vars => InHand' /\ [Service!ServiceNext]_(Service!serviceVars)
<1> SUFFICES ASSUME InHand, [Next]_vars
             PROVE  InHand' /\ (Service!ServiceNext \/ UNCHANGED Service!serviceVars)
  OBVIOUS
<1>1. CASE AgentAsks
  BY <1>1, AskAsks DEF Service!ServiceNext
<1>2. CASE AgentCloses
  BY <1>2, KeepsHand DEF AgentCloses, lspVars, InHand
<1>3. CASE McpStep
  BY <1>3, StepServes DEF Service!ServiceNext
<1>4. CASE \E s \in Servers : LspStep(s) \/ (ServerFault(s) /\ UNCHANGED mcpVars)
  <2>1. UNCHANGED mcpVars /\ world' = world
    BY <1>4, ServersAreUnseen DEF LspStep
  <2> QED
    BY <2>1, KeepsHand DEF mcpVars, InHand
<1>5. CASE UNCHANGED vars
  BY <1>5, KeepsHand DEF vars, mcpVars, lspVars, InHand
<1> QED
  BY <1>1, <1>2, <1>3, <1>4, <1>5 DEF Next

(* An agent sees one sequential service: run_mcp reads a request, handles  *)
(* it and writes at most one answer before it reads the next, for any      *)
(* requests, any languages and whatever the language servers do.           *)
THEOREM ServedInOrder == Spec => ServesInOrder
<1>1. Init => InHand /\ Service!ServiceInit
  BY InitServes
<1>2. InHand /\ [Next]_vars => InHand' /\ [Service!ServiceNext]_(Service!serviceVars)
  BY NextServes
<1> QED
  BY <1>1, <1>2, PTL DEF Spec, ServesInOrder, Service!ServiceSpec
-----------------------------------------------------------------------------
(* The language servers. *)

ServerFields == DOMAIN NoServer

Starting == cur.pc \in {"read", "got"} /\ cur.method = "initialize"

(* Servers and the clients that are kept have their shapes. *)
Shapes ==
    /\ DOMAIN servers = Servers
    /\ \A s \in Servers : DOMAIN servers[s] = ServerFields
    /\ DOMAIN table = Langs
    /\ \A l \in Langs : table[l] # 0 => table[l] \in Servers /\ servers[table[l]].state # "none"

(* A living server is the one its language has, but for one that starts up *)
(* while its language has none alive.                                      *)
OneEachAlive ==
    /\ \A s \in Servers :
          Alive(s) => \/ servers[s].lang \in Langs /\ table[servers[s].lang] = s
                      \/ Starting /\ s = cur.srv
    /\ Starting => /\ Lang \in Langs /\ cur.srv \in Servers
                   /\ servers[cur.srv].state # "none" /\ servers[cur.srv].lang = Lang
                   /\ table[Lang] # 0 => ~Alive(table[Lang])
    /\ cur.pc = "exit" => \A s \in Servers : ~Alive(s)
    /\ cur.pc \in {"call", "read", "got"} => cur.srv \in Servers /\ cur.n # 0

KeptInv == InHand /\ Shapes /\ OneEachAlive

(* What happens to servers that are not started or taken over. *)
Ages ==
    /\ DOMAIN servers' = Servers
    /\ \A s \in Servers :
          /\ DOMAIN servers'[s] = ServerFields
          /\ servers'[s].lang = servers[s].lang
          /\ servers'[s].state = servers[s].state
             \/ (servers[s].state = "alive" /\ servers'[s].state = "dead")

LEMMA FieldsOfServers == ServerFields = {"state", "lang", "in", "out", "pub", "waits", "torn"}
BY DEF ServerFields, NoServer

LEMMA KilledAges == ASSUME Shapes, NEW S, servers' = Killed(S) PROVE Ages
BY FieldsOfServers DEF Shapes, Killed, Ages, Alive

LEMMA ReadAges ==
    ASSUME Shapes, NEW s \in Servers, NEW out, servers' = [servers EXCEPT ![s].out = out]
    PROVE  Ages
BY FieldsOfServers DEF Shapes, Ages

LEMMA StepAges ==
    ASSUME Shapes, NEW s \in Servers, ServerStep(s) \/ ServerFault(s)
    PROVE  Ages /\ table' = table
<1>1. table' = table
  BY DEF ServerStep, ServerFault, ServerAnswers, ServerPublishes, ServerAsks, ServerGarbles,
         ServerDies
<1>2. CASE ServerAnswers(s)
  BY <1>2, FieldsOfServers DEF ServerAnswers, Shapes, Ages
<1>3. CASE ServerPublishes(s)
  BY <1>3, FieldsOfServers DEF ServerPublishes, Shapes, Ages
<1>4. CASE ServerAsks(s)
  BY <1>4, FieldsOfServers DEF ServerAsks, Shapes, Ages
<1>5. CASE ServerGarbles(s)
  BY <1>5, FieldsOfServers DEF ServerGarbles, Shapes, Ages
<1>6. CASE ServerDies(s)
  BY <1>6, FieldsOfServers DEF ServerDies, Shapes, Ages, Alive
<1> QED
  BY <1>1, <1>2, <1>3, <1>4, <1>5, <1>6 DEF ServerStep, ServerFault

(* Nothing is lost by ageing while the request at hand stays. *)
LEMMA AgeingKeeps ==
    ASSUME KeptInv, Ages, UNCHANGED <<table, cur>>, cur.n # 0 => Lang' = Lang
    PROVE  Shapes' /\ OneEachAlive'
<1>1. Shapes'
  BY DEF KeptInv, Shapes, Ages
<1>2. Starting' = Starting /\ \A s \in Servers : Alive(s)' => Alive(s)
  BY DEF Starting, Ages, Alive, KeptInv, Shapes
<1>3. Starting => cur.n # 0
  BY DEF KeptInv, OneEachAlive, Starting
<1>4. \A l \in Langs : table[l] # 0 => table[l] \in Servers
  BY DEF KeptInv, Shapes
<1> QED
  BY <1>1, <1>2, <1>3, <1>4 DEF KeptInv, OneEachAlive, Ages

(* A step of the loop outside the start of a server, which kills at most.  *)
LEMMA QuietKeeps ==
    ASSUME KeptInv, Ages, table' = table, ~Starting, ~Starting', cur'.pc # "exit",
           cur'.pc \in {"call", "read", "got"} => cur'.srv \in Servers /\ cur'.n # 0
    PROVE  Shapes' /\ OneEachAlive'
<1>1. Shapes'
  BY DEF KeptInv, Shapes, Ages
<1>2. \A s \in Servers : Alive(s)' => Alive(s)
  BY DEF Ages, Alive, KeptInv, Shapes
<1> QED
  BY <1>1, <1>2 DEF KeptInv, OneEachAlive, Ages

LEMMA NothingAges == ASSUME Shapes, servers' = servers PROVE Ages
BY DEF Shapes, Ages

(* The languages of the registry are those a lookup may start a server of. *)
LEMMA SpawnKeeps == ASSUME KeptInv, Spawn PROVE Shapes' /\ OneEachAlive'
<1>1. PICK s \in Fresh :
        /\ servers' = [servers EXCEPT ![s] =
              [NoServer EXCEPT !.state = "alive", !.lang = Lang,
                               !.in = <<[id |-> 1, tag |-> cur.n, method |-> "initialize"]>>]]
        /\ cur' = [cur EXCEPT !.pc = "read", !.method = "initialize", !.srv = s]
  BY DEF Spawn
<1>2. /\ s \in Servers /\ servers[s].state = "none" /\ Lang \in Langs /\ table' = table
      /\ cur.pc = "client" /\ ~HasClient /\ asked' = asked
  BY DEF Spawn, Fresh
<1>3. /\ cur'.pc = "read" /\ cur'.method = "initialize" /\ cur'.srv = s /\ cur'.n = cur.n
      /\ cur.n # 0
  BY <1>1, <1>2 DEF KeptInv, InHand, Fields
<1>4. /\ DOMAIN servers' = Servers
      /\ servers'[s].state = "alive" /\ servers'[s].lang = Lang
      /\ DOMAIN servers'[s] = ServerFields
      /\ \A t \in Servers : t # s => servers'[t] = servers[t]
  BY <1>1, <1>2, FieldsOfServers DEF KeptInv, Shapes, NoServer
<1>5. \A l \in Langs : table[l] # s
  BY <1>2 DEF KeptInv, Shapes, Servers
<1>6. Shapes'
  BY <1>2, <1>4, <1>5 DEF KeptInv, Shapes
<1>7. Lang' = Lang /\ Starting' /\ ~Starting
  BY <1>2, <1>3 DEF Lang, Starting
<1>8. table[Lang] # 0 => table[Lang] \in Servers /\ table[Lang] # s /\ ~Alive(table[Lang])'
  <2>1. table[Lang] # 0 => table[Lang] \in Servers /\ table[Lang] # s
    BY <1>2, <1>5 DEF KeptInv, Shapes
  <2> QED
    BY <1>2, <1>4, <1>7, <2>1 DEF HasClient, Alive
<1>9. \A t \in Servers : Alive(t)' => t = s \/ (servers'[t].lang \in Langs /\ table'[servers'[t].lang] = t)
  BY <1>2, <1>4, <1>7 DEF KeptInv, OneEachAlive, Alive
<1> QED
  BY <1>2, <1>3, <1>4, <1>6, <1>7, <1>8, <1>9 DEF OneEachAlive

LEMMA InitializeEndsKeeps == ASSUME KeptInv, InitializeEnds PROVE Shapes' /\ OneEachAlive'
<1>1. /\ Starting /\ Alive(cur.srv) /\ servers' = Killed({table[Lang]} \ {0})
      /\ table' = [table EXCEPT ![Lang] = cur.srv]
      /\ cur'.pc = "call" /\ cur'.srv = cur.srv /\ cur'.n = cur.n
  BY DEF InitializeEnds, Initialized, Starting, KeptInv, InHand, Fields
<1>2. /\ Lang \in Langs /\ cur.srv \in Servers /\ servers[cur.srv].lang = Lang
      /\ table[Lang] # 0 => ~Alive(table[Lang])
      /\ servers[cur.srv].state # "none" /\ cur.n # 0
  BY <1>1 DEF KeptInv, OneEachAlive, Starting
<1>3. Ages
  BY <1>1, KilledAges DEF KeptInv
<1>4. \A l \in Langs : table'[l] = IF l = Lang THEN cur.srv ELSE table[l]
  BY <1>1, <1>2 DEF KeptInv, Shapes
<1>5. DOMAIN table' = Langs
  BY <1>1 DEF KeptInv, Shapes
<1>6. \A s \in Servers : servers[s].state # "none" => servers'[s].state # "none"
  BY <1>3 DEF Ages
<1>7. Shapes'
  BY <1>2, <1>3, <1>4, <1>5, <1>6 DEF KeptInv, Shapes, Ages
<1>8. \A t \in Servers : Alive(t)' => Alive(t) /\ servers'[t].lang = servers[t].lang
  BY <1>3 DEF Ages, Alive
<1>9. \A t \in Servers : Alive(t)' => servers'[t].lang \in Langs /\ table'[servers'[t].lang] = t
  <2> SUFFICES ASSUME NEW t \in Servers, Alive(t)'
               PROVE  servers'[t].lang \in Langs /\ table'[servers'[t].lang] = t
    OBVIOUS
  <2>1. Alive(t) /\ servers'[t].lang = servers[t].lang /\ t # 0
    BY <1>8 DEF Servers
  <2>2. CASE t = cur.srv
    BY <1>2, <1>4, <2>1, <2>2
  <2>3. CASE servers[t].lang \in Langs /\ table[servers[t].lang] = t
    <3>1. servers[t].lang # Lang
      BY <1>2, <2>1, <2>3
    <3> QED
      BY <1>4, <2>1, <2>3, <3>1
  <2> QED
    BY <2>1, <2>2, <2>3 DEF KeptInv, OneEachAlive
<1> QED
  BY <1>1, <1>2, <1>7, <1>9 DEF OneEachAlive, Starting

LEMMA StepKeeps == ASSUME KeptInv, McpStep PROVE Shapes' /\ OneEachAlive'
<1>0. Shapes /\ InHand
  BY DEF KeptInv
<1>1. servers' = servers => Ages
  BY <1>0, NothingAges
<1>2. /\ NoRequest.pc = "idle" /\ NoRequest.method = "none" /\ NoRequest.n = 0
      /\ DOMAIN cur = Fields
  BY <1>0 DEF NoRequest, InHand
<1>3. CASE Ignore \/ AnswerAtOnce \/ RefuseLookup
  BY <1>1, <1>3, QuietKeeps DEF Ignore, AnswerAtOnce, RefuseLookup, lspVars, Starting
<1>4. CASE BeginLookup
  <2>1. cur.pc = "idle" /\ cur'.pc = "client" /\ UNCHANGED <<servers, table>>
    BY <1>2, <1>4 DEF BeginLookup, lspVars, NoRequest
  <2> QED
    BY <1>1, <2>1, QuietKeeps DEF Starting
<1>5. CASE NoClient \/ CallFails \/ AnswerLookup
  <2>1. ~Starting /\ cur' = NoRequest /\ UNCHANGED <<servers, table>>
    BY <1>5 DEF NoClient, CallFails, AnswerLookup, Conclude, lspVars, Starting
  <2> QED
    BY <1>1, <1>2, <2>1, QuietKeeps DEF Starting
<1>6. CASE UseClient
  <2>1. cur.pc = "client" /\ cur'.pc = "call" /\ cur'.n = cur.n /\ cur.n # 0
        /\ cur'.srv \in Servers /\ UNCHANGED <<servers, table>>
    BY <1>0, <1>2, <1>6 DEF UseClient, lspVars, Fields, HasClient, Shapes, InHand
  <2> QED
    BY <1>1, <2>1, QuietKeeps DEF Starting
<1>7. CASE Spawn
  BY <1>7, SpawnKeeps
<1>8. CASE Read
  <2>1. cur.pc = "read" /\ cur' = cur /\ asked' = asked /\ table' = table
        /\ cur.srv \in Servers
    BY <1>8 DEF Read, mcpVars, KeptInv, OneEachAlive
  <2>2. Ages /\ Lang' = Lang
    BY <1>0, <1>8, <2>1, ReadAges DEF Read, ReadOther, Lang
  <2> QED
    BY <2>1, <2>2, AgeingKeeps
<1>9. CASE Return
  <2>1. /\ cur.pc = "read" /\ cur'.pc = "got" /\ cur'.srv = cur.srv /\ cur'.n = cur.n
        /\ cur'.method = cur.method /\ asked' = asked /\ table' = table
        /\ cur.srv \in Servers
    BY <1>2, <1>9 DEF Return, KeptInv, OneEachAlive, Fields
  <2>2. Ages
    BY <1>0, <1>9, <2>1, ReadAges DEF Return, ReadLast
  <2>3. Lang' = Lang /\ Starting' = Starting
    BY <2>1 DEF Lang, Starting
  <2>4. Shapes'
    BY <1>0, <2>1, <2>2 DEF Shapes, Ages
  <2>5. \A s \in Servers : Alive(s)' => Alive(s)
    BY <2>2 DEF Ages, Alive
  <2>6. table[Lang] # 0 /\ Lang \in Langs => table[Lang] \in Servers
    BY <1>0 DEF Shapes
  <2> QED
    BY <2>1, <2>2, <2>3, <2>4, <2>5, <2>6 DEF KeptInv, OneEachAlive, Ages, Alive
<1>10. CASE InitializeFails
  <2>1. Starting /\ servers' = Killed({cur.srv}) /\ table' = table /\ cur' = NoRequest
    BY <1>10 DEF InitializeFails, Initialized, Starting, Conclude
  <2>2. Ages
    BY <1>0, <2>1, KilledAges
  <2>3. Shapes' /\ ~Starting'
    BY <1>0, <1>2, <2>1, <2>2 DEF Shapes, Ages, Starting
  <2>4. \A s \in Servers : s = cur.srv => ~Alive(s)'
    BY <1>0, <2>1, FieldsOfServers DEF Killed, Alive, Shapes
  <2>5. \A s \in Servers : Alive(s)' => Alive(s) /\ servers'[s].lang = servers[s].lang
    BY <2>2 DEF Ages, Alive
  <2> QED
    BY <1>2, <2>1, <2>3, <2>4, <2>5 DEF KeptInv, OneEachAlive
<1>11. CASE InitializeEnds
  BY <1>11, InitializeEndsKeeps
<1>12. CASE AskNothing \/ AskServer
  <2>1. cur.pc = "call" /\ cur.srv \in Servers /\ cur.n # 0 /\ ~Starting
    BY <1>12 DEF AskNothing, AskServer, KeptInv, OneEachAlive, Starting
  <2>2. Tool # "initialize"
    BY <1>0, <2>1 DEF Tool, InHand, Lookups
  <2>3. cur'.pc \in {"got", "read"} /\ cur'.n = cur.n /\ cur'.srv = cur.srv
        /\ cur'.method = Tool /\ table' = table
    BY <1>2, <1>12 DEF AskNothing, AskServer, lspVars, Fields
  <2>4. Ages
    BY <1>0, <1>1, <1>12, <2>1, FieldsOfServers
    DEF AskNothing, AskServer, lspVars, Call, Ages, Shapes
  <2> QED
    BY <2>1, <2>2, <2>3, <2>4, QuietKeeps DEF Starting
<1>13. CASE Exit \/ BreakOff
  <2>1. Ages /\ \A s \in Servers : ~Alive(s)'
    BY <1>0, <1>13, KilledAges, FieldsOfServers DEF Exit, BreakOff, Killed, Alive, Shapes
  <2>2. cur'.pc = "exit" /\ table' = table
    BY <1>2, <1>13 DEF Exit, BreakOff, Fields
  <2>3. Shapes'
    BY <1>0, <2>1, <2>2 DEF Shapes, Ages
  <2> QED
    BY <2>1, <2>2, <2>3 DEF OneEachAlive, Starting
<1> QED
  BY <1>3, <1>4, <1>5, <1>6, <1>7, <1>8, <1>9, <1>10, <1>11, <1>12, <1>13 DEF McpStep

LEMMA NextKeeps == KeptInv /\ [Next]_vars => KeptInv'
<1> SUFFICES ASSUME KeptInv, [Next]_vars PROVE Shapes' /\ OneEachAlive'
  BY NextServes DEF KeptInv
<1>0. Shapes /\ InHand
  BY DEF KeptInv
<1>1. CASE McpStep
  BY <1>1, StepKeeps
<1>2. CASE \E s \in Servers : LspStep(s) \/ (ServerFault(s) /\ UNCHANGED mcpVars)
  <2>1. UNCHANGED mcpVars /\ Ages /\ table' = table
    BY <1>0, <1>2, StepAges DEF LspStep
  <2> QED
    BY <2>1, AgeingKeeps DEF mcpVars, Lang
<1>3. CASE AgentAsks
  <2>1. PICK r \in world.requests : asked' = Append(asked, r)
    BY <1>3 DEF AgentAsks
  <2>2. asked' \in Seq(AnyRequest \cup {r}) /\ \A i \in 1..Len(asked) : asked'[i] = asked[i]
    BY <1>0, <2>1 DEF InHand
  <2>3. cur.n # 0 => cur.n \in 1..Len(asked)
    BY <1>0 DEF InHand
  <2>4. UNCHANGED <<servers, table, cur>>
    BY <1>3 DEF AgentAsks, lspVars
  <2> QED
    BY <1>0, <2>2, <2>3, <2>4, NothingAges, AgeingKeeps DEF Lang
<1>4. CASE AgentCloses \/ UNCHANGED vars
  <2>1. UNCHANGED <<servers, table, cur, asked>>
    BY <1>4 DEF AgentCloses, lspVars, mcpVars, vars
  <2> QED
    BY <1>0, <2>1, NothingAges, AgeingKeeps DEF Lang
<1> QED
  BY <1>1, <1>2, <1>3, <1>4 DEF Next

(* Language servers are kept: of each language at most one is alive, it is *)
(* the one of lsp_clients or the one that starts up, and none outlives the *)
(* server's input; for any languages, agents and number of restarts.       *)
THEOREM ServersKept == Spec => []ServersAreKept
<1>1. Init => KeptInv
  <2> SUFFICES ASSUME Init PROVE Shapes /\ OneEachAlive
    BY InitServes DEF KeptInv
  <2>1. Shapes
    BY DEF Init, LspInit, Shapes, ServerFields
  <2>2. \A s \in Servers : ~Alive(s)
    BY DEF Init, LspInit, Alive, NoServer
  <2> QED
    BY <2>1, <2>2 DEF Init, OneEachAlive, Starting, NoRequest
<1>2. KeptInv /\ [Next]_vars => KeptInv'
  BY NextKeeps
<1>3. KeptInv => ServersAreKept
  <2> SUFFICES ASSUME KeptInv PROVE ServersAreKept
    OBVIOUS
  <2>1. ASSUME NEW s \in Servers, NEW t \in Servers, Alive(s), Alive(t),
               servers[s].lang = servers[t].lang
        PROVE  s = t
    <3>1. Starting /\ s = cur.srv /\ servers[t].lang \in Langs /\ table[servers[t].lang] = t => FALSE
      BY <2>1 DEF KeptInv, OneEachAlive, Servers
    <3>2. Starting /\ t = cur.srv /\ servers[s].lang \in Langs /\ table[servers[s].lang] = s => FALSE
      BY <2>1 DEF KeptInv, OneEachAlive, Servers
    <3> QED
      BY <2>1, <3>1, <3>2 DEF KeptInv, OneEachAlive
  <2>2. \A s \in Servers : Alive(s) => s \in Range(table) \cup {cur.srv}
    BY DEF KeptInv, OneEachAlive, Shapes, Range
  <2> QED
    BY <2>1, <2>2 DEF ServersAreKept, KeptInv, OneEachAlive
<1> QED
  BY <1>1, <1>2, <1>3, PTL DEF Spec

-----------------------------------------------------------------------------
(* Answers, and the publications of the language servers *)
-----------------------------------------------------------------------------
(* Answers.                                                                *)

Awaits(s) == cur.pc = "read" /\ cur.srv = s

(* A request or an answer under way has an id that the client has given;   *)
(* the id of the call that the client waits for is that of no other.       *)
Fits(m, s) ==
    /\ m.id \in 1..(clients[s].next - 1)
    /\ Awaits(s) /\ m.id = clients[s].next - 1 => m.tag = cur.n

Expected(m, s) ==
    /\ m.kind = "answer" => Fits(m, s)
    /\ m.kind = "ask" => m.id \in world.ids

Mail ==
    \A s \in Servers :
        /\ \E S : servers[s].in \in Seq(S)
        /\ \E S : servers[s].out \in Seq(S)
        /\ \A i \in DOMAIN servers[s].in : Fits(servers[s].in[i], s)
        /\ \A i \in DOMAIN servers[s].out : Expected(servers[s].out[i], s)

(* Each request of the agent makes at most one call to one server, after   *)
(* that which initializes it.                                              *)
Counted ==
    /\ Len(asked) <= world.count
    /\ DOMAIN clients = Servers
    /\ \A s \in Servers :
          /\ DOMAIN clients[s] = {"next", "diags", "mid"}
          /\ clients[s].next \in Nat \ {0}
          /\ clients[s].next <= taken + 2
          /\ cur.pc \in {"client", "call"} \/ Starting => clients[s].next <= taken + 1
          /\ Awaits(s) => clients[s].next > 1
          /\ Awaits(s) /\ Starting => clients[s].next = 2
          /\ servers[s].state = "none" =>
                clients[s].next = 1 /\ servers[s].in = <<>> /\ servers[s].out = <<>>

Tagged ==
    /\ cur.tag \in {0, cur.n}
    /\ \A i \in DOMAIN answers : answers[i].tag \in {0, answers[i].n}

(* Servers give no id of the client to requests of their own. *)
OwnIds == world.ids \cap (1..(world.count + 1)) = {}

FitInv == KeptInv /\ Mail /\ Counted /\ (OwnIds => Tagged)
-----------------------------------------------------------------------------
(* Sequences of anything. *)

LEMMA TailOf ==
    ASSUME NEW S, NEW q \in Seq(S), q # <<>>
    PROVE  /\ Tail(q) \in Seq(S)
           /\ \A i \in DOMAIN Tail(q) : i + 1 \in DOMAIN q /\ Tail(q)[i] = q[i + 1]
OBVIOUS

LEMMA AppendOf ==
    ASSUME NEW S, NEW q \in Seq(S), NEW x
    PROVE  /\ Append(q, x) \in Seq(S \cup {x})
           /\ \A i \in DOMAIN Append(q, x) :
                 (i \in DOMAIN q /\ Append(q, x)[i] = q[i]) \/ Append(q, x)[i] = x
BY AppendAnything
-----------------------------------------------------------------------------
(* What most steps do to the pipes: messages are read, written or dropped, *)
(* and no call is made.                                                    *)

PartOf(q, r) == \A i \in DOMAIN q : \E j \in DOMAIN r : q[i] = r[j]

Flows ==
    \A s \in Servers :
        /\ \E S : servers'[s].in \in Seq(S)
        /\ \E S : servers'[s].out \in Seq(S)
        /\ PartOf(servers'[s].in, servers[s].in)
        /\ \A i \in DOMAIN servers'[s].out :
              \/ \E j \in DOMAIN servers[s].out : servers'[s].out[i] = servers[s].out[j]
              \/ Expected(servers'[s].out[i], s)
        /\ servers'[s].state = "none" => servers'[s] = servers[s]

KeepsIds ==
    /\ DOMAIN clients' = Servers
    /\ \A s \in Servers :
          DOMAIN clients'[s] = {"next", "diags", "mid"} /\ clients'[s].next = clients[s].next

LEMMA FlowsFit ==
    ASSUME Mail, Flows, KeepsIds, world' = world,
           \A s \in Servers : Awaits(s)' => Awaits(s) /\ cur'.n = cur.n
    PROVE  Mail'
<1>1. ASSUME NEW s \in Servers, NEW i \in DOMAIN servers'[s].in
      PROVE  Fits(servers[s].in[i], s)'
  <2>1. PICK j \in DOMAIN servers[s].in : servers'[s].in[i] = servers[s].in[j]
    BY <1>1 DEF Flows, PartOf
  <2>2. Fits(servers[s].in[j], s)
    BY <1>1, <2>1 DEF Mail
  <2> QED
    BY <1>1, <2>1, <2>2 DEF Fits, KeepsIds
<1>2. ASSUME NEW s \in Servers, NEW i \in DOMAIN servers'[s].out
      PROVE  Expected(servers[s].out[i], s)'
  <2>1. Expected(servers'[s].out[i], s)
    BY <1>2 DEF Flows, Mail
  <2> QED
    BY <1>2, <2>1 DEF Expected, Fits, KeepsIds
<1> QED
  BY <1>1, <1>2 DEF Mail, Flows

LEMMA FlowsCount ==
    ASSUME Counted, Flows, KeepsIds, world' = world, InHand,
           Len(asked') <= world.count,
           taken' = taken \/ taken' = taken + 1,
           \A s \in Servers : Awaits(s)' => Awaits(s),
           Starting' => Starting,
           cur'.pc \in {"client", "call"} =>
               cur.pc \in {"client", "call"} \/ Starting \/ taken' = taken + 1
    PROVE  Counted'
BY DEF Counted, Flows, KeepsIds, InHand

LEMMA NothingFlows == ASSUME Mail, servers' = servers PROVE Flows
BY DEF Mail, Flows, PartOf

LEMMA NoIdsGiven == ASSUME Counted, clients' = clients PROVE KeepsIds
BY DEF Counted, KeepsIds

LEMMA KilledFlows == ASSUME Mail, Shapes, NEW K, servers' = Killed(K) PROVE Flows
<1>1. ASSUME NEW s \in Servers
      PROVE  \/ servers'[s] = servers[s]
             \/ /\ servers'[s].in = <<>> /\ servers'[s].out = servers[s].out
                /\ servers'[s].state = "dead"
  BY FieldsOfServers DEF Killed, Shapes
<1>2. <<>> \in Seq({}) /\ DOMAIN <<>> = {}
  OBVIOUS
<1> QED
  BY <1>1, <1>2 DEF Mail, Flows, PartOf

(* One server's pipes change. *)
LEMMA PipesFlow ==
    ASSUME Mail, NEW s \in Servers, DOMAIN servers' = Servers,
           \A t \in Servers : t # s => servers'[t] = servers[t],
           servers'[s].state # "none",
           \/ servers'[s].in \in {servers[s].in, <<>>}
           \/ servers[s].in # <<>> /\ servers'[s].in = Tail(servers[s].in),
           \/ servers'[s].out = servers[s].out
           \/ servers[s].out # <<>> /\ servers'[s].out = Tail(servers[s].out)
           \/ \E m : Expected(m, s) /\ servers'[s].out = Append(servers[s].out, m)
    PROVE  Flows
<1> PICK S, T : servers[s].in \in Seq(S) /\ servers[s].out \in Seq(T)
  BY DEF Mail
<1>1. /\ \E R : servers'[s].in \in Seq(R)
      /\ PartOf(servers'[s].in, servers[s].in)
  <2>1. CASE servers'[s].in = servers[s].in
    BY <2>1 DEF PartOf
  <2>2. CASE servers[s].in # <<>> /\ servers'[s].in = Tail(servers[s].in)
    <3>1. servers'[s].in \in Seq(S)
      BY <2>2, TailOf
    <3>2. \A i \in DOMAIN servers'[s].in :
             i + 1 \in DOMAIN servers[s].in /\ servers'[s].in[i] = servers[s].in[i + 1]
      BY <2>2, TailOf
    <3> QED
      BY <3>1, <3>2 DEF PartOf
  <2>3. CASE servers'[s].in = <<>>
    <3>1. <<>> \in Seq({}) /\ DOMAIN <<>> = {}
      OBVIOUS
    <3> QED
      BY <2>3, <3>1 DEF PartOf
  <2> QED
    BY <2>1, <2>2, <2>3
<1>2. /\ \E R : servers'[s].out \in Seq(R)
      /\ \A i \in DOMAIN servers'[s].out :
            \/ \E j \in DOMAIN servers[s].out : servers'[s].out[i] = servers[s].out[j]
            \/ Expected(servers'[s].out[i], s)
  <2>1. CASE servers'[s].out = servers[s].out
    BY <2>1
  <2>2. CASE servers[s].out # <<>> /\ servers'[s].out = Tail(servers[s].out)
    <3>1. servers'[s].out \in Seq(T)
      BY <2>2, TailOf
    <3>2. \A i \in DOMAIN servers'[s].out :
             i + 1 \in DOMAIN servers[s].out /\ servers'[s].out[i] = servers[s].out[i + 1]
      BY <2>2, TailOf
    <3> QED
      BY <3>1, <3>2
  <2>3. CASE \E m : Expected(m, s) /\ servers'[s].out = Append(servers[s].out, m)
    <3>1. PICK m : Expected(m, s) /\ servers'[s].out = Append(servers[s].out, m)
      BY <2>3
    <3>2. /\ servers'[s].out \in Seq(T \cup {m})
          /\ \A i \in DOMAIN servers'[s].out :
                \/ i \in DOMAIN servers[s].out /\ servers'[s].out[i] = servers[s].out[i]
                \/ servers'[s].out[i] = m
      BY <3>1, AppendOf
    <3> QED
      BY <3>1, <3>2
  <2> QED
    BY <2>1, <2>2, <2>3
<1> QED
  BY <1>1, <1>2 DEF Flows, Mail, PartOf

LEMMA ServerFlows ==
    ASSUME Mail, Shapes, NEW s \in Servers, ServerStep(s) \/ ServerFault(s)
    PROVE  Flows /\ clients' = clients /\ world' = world
<1>0. /\ DOMAIN servers = Servers /\ Alive(s) /\ servers[s].state = "alive"
      /\ DOMAIN servers[s] = {"state", "lang", "in", "out", "pub", "waits", "torn"}
      /\ clients' = clients /\ world' = world
  BY FieldsOfServers
  DEF Shapes, ServerStep, ServerFault, ServerAnswers, ServerPublishes, ServerAsks,
      ServerGarbles, ServerDies, Alive
<1>1. CASE ServerAnswers(s)
  <2>1. PICK v : LET m == Head(servers[s].in)
                 IN  servers' = [servers EXCEPT ![s].in = Tail(@),
                        ![s].out = Append(@, Message("answer", m.id, m.tag, v))]
    BY <1>1 DEF ServerAnswers
  <2> DEFINE m == Head(servers[s].in)
             n == Message("answer", m.id, m.tag, v)
  <2>2. servers[s].in # <<>> /\ m = servers[s].in[1] /\ 1 \in DOMAIN servers[s].in
    BY <1>1 DEF ServerAnswers, Mail
  <2>3. Fits(m, s)
    BY <2>2 DEF Mail
  <2>4. n.kind = "answer" /\ n.id = m.id /\ n.tag = m.tag
    BY DEF Message
  <2>5. Expected(n, s)
    BY <2>3, <2>4 DEF Expected, Fits
  <2>6. /\ servers'[s].in = Tail(servers[s].in)
        /\ servers'[s].out = Append(servers[s].out, n)
        /\ servers'[s].state = "alive" /\ DOMAIN servers' = Servers
        /\ \A t \in Servers : t # s => servers'[t] = servers[t]
    BY <1>0, <2>1
  <2> HIDE DEF n, m
  <2> QED
    BY <1>0, <2>2, <2>5, <2>6, PipesFlow
<1>2. CASE ServerPublishes(s) \/ ServerGarbles(s)
  <2>1. PICK m : /\ m.kind \in {"publish"} \cup Nonsense
                 /\ servers'[s].out = Append(servers[s].out, m)
                 /\ servers'[s].in = servers[s].in
                 /\ servers'[s].state = "alive" /\ DOMAIN servers' = Servers
                 /\ \A t \in Servers : t # s => servers'[t] = servers[t]
    <3>1. CASE ServerPublishes(s)
      <4> DEFINE p == Message("publish", 0, servers[s].pub + 1, "null")
      <4>1. p.kind = "publish"
        BY DEF Message
      <4>2. servers' = [servers EXCEPT ![s].pub = @ + 1, ![s].out = Append(@, p)]
        BY <3>1 DEF ServerPublishes
      <4> HIDE DEF p
      <4> QED
        BY <1>0, <4>1, <4>2
    <3>2. CASE ServerGarbles(s)
      <4>1. PICK k \in Nonsense :
              servers' = [servers EXCEPT ![s].out = Append(@, Message(k, 0, 0, "null")),
                                         ![s].torn = @ \/ k = "text"]
        BY <3>2 DEF ServerGarbles
      <4> DEFINE g == Message(k, 0, 0, "null")
      <4>2. g.kind = k
        BY DEF Message
      <4>3. servers' = [servers EXCEPT ![s].out = Append(@, g), ![s].torn = @ \/ k = "text"]
        BY <4>1
      <4> HIDE DEF g
      <4> QED
        BY <1>0, <4>2, <4>3
    <3> QED
      BY <1>2, <3>1, <3>2
  <2>2. Expected(m, s)
    BY <2>1 DEF Expected, Nonsense
  <2> QED
    BY <1>0, <2>1, <2>2, PipesFlow
<1>3. CASE ServerAsks(s)
  <2>1. PICK id \in world.ids :
          servers' = [servers EXCEPT ![s].out = Append(@, Message("ask", id, 0, "null")),
                                     ![s].waits = world.waits]
    BY <1>3 DEF ServerAsks
  <2> DEFINE n == Message("ask", id, 0, "null")
  <2>2. n.kind = "ask" /\ n.id = id
    BY DEF Message
  <2>3. Expected(n, s)
    BY <2>2 DEF Expected
  <2>4. /\ servers'[s].out = Append(servers[s].out, n)
        /\ servers'[s].in = servers[s].in
        /\ servers'[s].state = "alive" /\ DOMAIN servers' = Servers
        /\ \A t \in Servers : t # s => servers'[t] = servers[t]
    BY <1>0, <2>1
  <2> HIDE DEF n
  <2> QED
    BY <1>0, <2>3, <2>4, PipesFlow
<1>4. CASE ServerDies(s)
  <2>1. /\ servers'[s].in = <<>> /\ servers'[s].out = servers[s].out
        /\ servers'[s].state = "dead" /\ DOMAIN servers' = Servers
        /\ \A t \in Servers : t # s => servers'[t] = servers[t]
    BY <1>0, <1>4 DEF ServerDies
  <2> QED
    BY <1>0, <2>1, PipesFlow
<1> QED
  BY <1>0, <1>1, <1>2, <1>3, <1>4 DEF ServerStep, ServerFault
-----------------------------------------------------------------------------
(* The steps of the loop. *)

LEMMA QuietFits ==
    ASSUME FitInv, Flows, clients' = clients, world' = world, asked' = asked,
           taken' = taken \/ taken' = taken + 1, cur'.pc # "read", ~Starting',
           cur'.pc \in {"client", "call"} =>
               cur.pc \in {"client", "call"} \/ Starting \/ taken' = taken + 1
    PROVE  Mail' /\ Counted'
<1>1. KeepsIds /\ InHand /\ Mail /\ Counted
  BY NoIdsGiven DEF FitInv, KeptInv
<1>2. \A s : ~Awaits(s)'
  BY DEF Awaits
<1>3. Mail'
  BY <1>1, <1>2, FlowsFit
<1>4. Len(asked') <= world.count
  BY <1>1 DEF Counted
<1> QED
  BY <1>1, <1>2, <1>3, <1>4, FlowsCount

LEMMA TagsStay ==
    ASSUME InHand, Tagged, cur'.tag \in {0, cur'.n}, answers' = answers
    PROVE  Tagged'
BY DEF Tagged

LEMMA TagAdded ==
    ASSUME InHand, Tagged, cur'.tag \in {0, cur'.n}, NEW n, NEW outcome, NEW tag \in {0, n},
           Answer(n, outcome, tag)
    PROVE  Tagged'
<1> PICK S : answers \in Seq(S)
  BY DEF InHand
<1> DEFINE x == [n |-> n, outcome |-> outcome, tag |-> tag]
<1>1. x.tag \in {0, x.n}
  OBVIOUS
<1>2. answers' = Append(answers, x)
  BY DEF Answer
<1> HIDE DEF x
<1>3. \A i \in DOMAIN answers' :
         (i \in DOMAIN answers /\ answers'[i] = answers[i]) \/ answers'[i] = x
  BY <1>2, AppendOf
<1> QED
  BY <1>1, <1>3 DEF Tagged

LEMMA SpawnFits == ASSUME FitInv, Spawn PROVE Mail' /\ Counted' /\ (Tagged => Tagged')
<1>0. Mail /\ Counted /\ Shapes /\ OneEachAlive /\ InHand
  BY DEF FitInv, KeptInv
<1> DEFINE m == [id |-> 1, tag |-> cur.n, method |-> "initialize"]
<1>1. PICK s \in Fresh :
        /\ servers' = [servers EXCEPT ![s] =
              [NoServer EXCEPT !.state = "alive", !.lang = Lang, !.in = <<m>>]]
        /\ clients' = [clients EXCEPT ![s].next = @ + 1]
        /\ cur' = [cur EXCEPT !.pc = "read", !.method = "initialize", !.srv = s]
  BY DEF Spawn
<1>2. /\ s \in Servers /\ servers[s].state = "none" /\ cur.pc = "client"
      /\ UNCHANGED <<world, asked, taken, answers>>
  BY DEF Spawn, Fresh
<1>3. /\ cur'.pc = "read" /\ cur'.srv = s /\ cur'.n = cur.n /\ cur'.tag = cur.tag
      /\ cur'.method = "initialize" /\ cur.n = taken /\ taken \in Nat /\ taken # 0
  BY <1>0, <1>1, <1>2 DEF InHand, Fields
<1>4. /\ clients'[s].next = 2 /\ DOMAIN clients' = Servers
      /\ \A t \in Servers : DOMAIN clients'[t] = {"next", "diags", "mid"}
      /\ \A t \in Servers : t # s => clients'[t] = clients[t]
  BY <1>0, <1>1, <1>2 DEF Counted
<1>5. /\ servers'[s].in = <<m>> /\ servers'[s].out = <<>> /\ servers'[s].state = "alive"
      /\ \A t \in Servers : t # s => servers'[t] = servers[t]
  BY <1>0, <1>1, <1>2 DEF Shapes, NoServer
<1>6. \A t : Awaits(t)' <=> t = s
  BY <1>3 DEF Awaits
<1>7. m.id = 1 /\ m.tag = cur.n
  OBVIOUS
<1>8. <<m>> \in Seq({m}) /\ DOMAIN <<m>> = {1} /\ <<m>>[1] = m
      /\ <<>> \in Seq({}) /\ DOMAIN <<>> = {}
  OBVIOUS
<1> HIDE DEF m
<1>9. ASSUME NEW t \in Servers, t # s, NEW x
      PROVE  Fits(x, t) => x.id \in 1..(clients'[t].next - 1)
  BY <1>4, <1>9 DEF Fits
<1>10. Mail'
  <2>1. ASSUME NEW t \in Servers, NEW i \in DOMAIN servers'[t].in
        PROVE  Fits(servers[t].in[i], t)'
    <3>1. CASE t = s
      BY <1>3, <1>4, <1>5, <1>7, <1>8, <2>1, <3>1 DEF Fits
    <3>2. CASE t # s
      BY <1>0, <1>5, <1>6, <1>9, <2>1, <3>2 DEF Fits, Mail
    <3> QED
      BY <3>1, <3>2
  <2>2. ASSUME NEW t \in Servers, NEW i \in DOMAIN servers'[t].out
        PROVE  Expected(servers[t].out[i], t)'
    <3>1. t # s
      BY <1>5, <1>8, <2>2
    <3>2. Expected(servers[t].out[i], t) /\ servers'[t].out = servers[t].out
      BY <1>0, <1>5, <2>2, <3>1 DEF Mail
    <3> QED
      BY <1>2, <1>6, <1>9, <3>1, <3>2 DEF Expected, Fits
  <2>3. ASSUME NEW t \in Servers
        PROVE  (\E S : servers'[t].in \in Seq(S)) /\ (\E S : servers'[t].out \in Seq(S))
    BY <1>0, <1>5, <1>8 DEF Mail
  <2> QED
    BY <2>1, <2>2, <2>3 DEF Mail
<1>11. Counted'
  BY <1>0, <1>2, <1>3, <1>4, <1>5, <1>6 DEF Counted, Starting
<1> QED
  BY <1>0, <1>2, <1>3, <1>10, <1>11 DEF Tagged

LEMMA AskServerFits == ASSUME FitInv, AskServer PROVE Mail' /\ Counted' /\ (Tagged => Tagged')
<1>0. Mail /\ Counted /\ Shapes /\ OneEachAlive /\ InHand
  BY DEF FitInv, KeptInv
<1> DEFINE s == cur.srv
           m == [id |-> clients[s].next, tag |-> cur.n, method |-> Tool]
<1>1. /\ cur.pc = "call" /\ s \in Servers /\ cur.n # 0 /\ Alive(s)
      /\ servers' = [servers EXCEPT ![s].in = Append(@, m)]
      /\ clients' = [clients EXCEPT ![s].next = @ + 1]
      /\ UNCHANGED <<world, asked, taken, answers>>
      /\ cur' = [cur EXCEPT !.pc = "read", !.method = Tool]
  BY <1>0 DEF AskServer, Call, OneEachAlive
<1>2. /\ cur'.pc = "read" /\ cur'.srv = s /\ cur'.n = cur.n /\ cur'.tag = cur.tag
      /\ cur'.method = Tool /\ Tool # "initialize"
  BY <1>0, <1>1 DEF InHand, Fields, Tool, Lookups
<1>3. /\ clients'[s].next = clients[s].next + 1 /\ DOMAIN clients' = Servers
      /\ \A t \in Servers : DOMAIN clients'[t] = {"next", "diags", "mid"}
      /\ \A t \in Servers : t # s => clients'[t] = clients[t]
  BY <1>0, <1>1 DEF Counted
<1>4. /\ servers'[s].in = Append(servers[s].in, m) /\ servers'[s].out = servers[s].out
      /\ servers'[s].state = servers[s].state /\ servers[s].state = "alive"
      /\ \A t \in Servers : t # s => servers'[t] = servers[t]
  BY <1>0, <1>1, FieldsOfServers DEF Shapes, Alive
<1>5. \A t : Awaits(t)' <=> t = s
  BY <1>2 DEF Awaits
<1>6. m.id = clients[s].next /\ m.tag = cur.n
  OBVIOUS
<1>7. PICK S : servers[s].in \in Seq(S)
  BY <1>0, <1>1 DEF Mail
<1> HIDE DEF m
<1>8. /\ servers'[s].in \in Seq(S \cup {m})
      /\ \A i \in DOMAIN servers'[s].in :
            (i \in DOMAIN servers[s].in /\ servers'[s].in[i] = servers[s].in[i])
            \/ servers'[s].in[i] = m
  BY <1>4, <1>7, AppendOf
<1> HIDE DEF s
<1>9. ASSUME NEW t \in Servers, NEW x, Fits(x, t)
      PROVE  /\ x.id \in 1..(clients'[t].next - 1)
             /\ t = s => x.id # clients'[t].next - 1
  <2>1. clients[t].next \in Nat \ {0} /\ x.id \in 1..(clients[t].next - 1)
    BY <1>0, <1>9 DEF Fits, Counted
  <2> QED
    BY <1>3, <2>1
<1>10. Mail'
  <2>1. ASSUME NEW t \in Servers, NEW i \in DOMAIN servers'[t].in
        PROVE  Fits(servers[t].in[i], t)'
    <3>1. CASE t = s /\ servers'[t].in[i] = m
      <4>1. clients[s].next \in Nat \ {0}
        BY <1>0, <2>1, <3>1 DEF Counted
      <4> QED
        BY <1>2, <1>3, <1>6, <3>1, <4>1 DEF Fits
    <3>2. CASE i \in DOMAIN servers[t].in /\ servers'[t].in[i] = servers[t].in[i]
      <4>1. Fits(servers[t].in[i], t)
        BY <1>0, <2>1, <3>2 DEF Mail
      <4> QED
        BY <1>5, <1>9, <2>1, <3>2, <4>1 DEF Fits
    <3> QED
      BY <1>4, <1>8, <2>1, <3>1, <3>2
  <2>2. ASSUME NEW t \in Servers, NEW i \in DOMAIN servers'[t].out
        PROVE  Expected(servers[t].out[i], t)'
    <3>1. Expected(servers[t].out[i], t) /\ servers'[t].out = servers[t].out
      BY <1>0, <1>4, <2>2 DEF Mail
    <3> QED
      BY <1>1, <1>5, <1>9, <2>2, <3>1 DEF Expected, Fits
  <2>3. ASSUME NEW t \in Servers
        PROVE  (\E T : servers'[t].in \in Seq(T)) /\ (\E T : servers'[t].out \in Seq(T))
    BY <1>0, <1>4, <1>8 DEF Mail
  <2> QED
    BY <2>1, <2>2, <2>3 DEF Mail
<1>11. Counted'
  <2>1. s \in Servers
    BY <1>1 DEF s
  <2> QED
    BY <1>0, <1>1, <1>2, <1>3, <1>4, <1>5, <2>1 DEF Counted, Starting, InHand
<1> QED
  BY <1>1, <1>2, <1>10, <1>11 DEF Tagged

(* A message that is read on the way changes nothing of what is awaited. *)
LEMMA ReadFits == ASSUME FitInv, Read PROVE Mail' /\ Counted' /\ (Tagged => Tagged')
<1>0. Mail /\ Counted /\ Shapes /\ OneEachAlive /\ InHand
  BY DEF FitInv, KeptInv
<1> DEFINE s == cur.srv
<1>1. /\ cur.pc = "read" /\ s \in Servers /\ servers[s].out # <<>>
      /\ servers' = [servers EXCEPT ![s].out = Tail(@)]
      /\ clients' = Noted(s, Head(servers[s].out))
      /\ UNCHANGED <<world, asked, taken, cur, answers>>
  BY <1>0 DEF Read, ReadOther, mcpVars, OneEachAlive
<1>2. servers[s].state # "none"
  BY <1>0, <1>1 DEF Counted
<1>3. /\ DOMAIN servers' = Servers
      /\ servers'[s].out = Tail(servers[s].out) /\ servers'[s].in = servers[s].in
      /\ servers'[s].state = servers[s].state
      /\ \A t \in Servers : t # s => servers'[t] = servers[t]
  BY <1>0, <1>1, FieldsOfServers DEF Shapes
<1>4. KeepsIds
  BY <1>0, <1>1 DEF KeepsIds, Noted, Skipped, Counted
<1> HIDE DEF s
<1>5. Flows
  BY <1>0, <1>1, <1>2, <1>3, PipesFlow
<1>6. Mail'
  BY <1>0, <1>1, <1>4, <1>5, FlowsFit DEF Awaits
<1>7. Counted'
  <2>1. Len(asked') <= world.count
    BY <1>0, <1>1 DEF Counted
  <2>2. (\A t \in Servers : Awaits(t)' => Awaits(t)) /\ (Starting' => Starting)
    BY <1>1 DEF Awaits, Starting
  <2> QED
    BY <1>0, <1>1, <1>4, <1>5, <2>1, <2>2, FlowsCount
<1>8. Tagged => Tagged'
  BY <1>1 DEF Tagged
<1> QED
  BY <1>6, <1>7, <1>8

(* The message that ends the call is the answer to it. *)
LEMMA OutcomeFits ==
    ASSUME FitInv, OwnIds, world.count \in Nat, cur.pc = "read",
           NEW o \in Outcome(cur.srv, CallId)
    PROVE  o.tag \in {0, cur.n}
<1>0. Mail /\ Counted /\ OneEachAlive /\ InHand
  BY DEF FitInv, KeptInv
<1> DEFINE s == cur.srv
           m == Head(servers[s].out)
<1>1. s \in Servers /\ Awaits(s)
  BY <1>0 DEF OneEachAlive, Awaits
<1>2. \/ o.tag = 0
      \/ servers[s].out # <<>> /\ IsAnswer(m, CallId) /\ o.tag = m.tag
  BY DEF Outcome, Failed, Result, Ends
<1>3. CASE servers[s].out # <<>> /\ IsAnswer(m, CallId) /\ o.tag = m.tag
  <2>1. m = servers[s].out[1] /\ 1 \in DOMAIN servers[s].out
    BY <1>0, <1>1, <1>3 DEF Mail
  <2>2. Expected(m, s)
    BY <1>0, <1>1, <2>1 DEF Mail
  <2>3. /\ clients[s].next \in Nat /\ clients[s].next > 1
        /\ clients[s].next <= world.count + 2
    BY <1>0, <1>1 DEF Counted, InHand
  <2>4. CallId = clients[s].next - 1
    BY <1>0, <1>1, <2>3 DEF CallId, Counted, Starting
  <2>5. m.id = clients[s].next - 1 /\ m.kind \in {"answer", "ask"}
    BY <1>3, <2>4 DEF IsAnswer
  <2>6. m.id \in 1..(world.count + 1)
    BY <2>3, <2>5
  <2>7. m.kind = "answer"
    BY <2>2, <2>5, <2>6 DEF Expected, OwnIds
  <2> QED
    BY <1>1, <1>3, <2>2, <2>5, <2>7 DEF Expected, Fits
<1> QED
  BY <1>2, <1>3

LEMMA ReturnFits ==
    ASSUME FitInv, world.count \in Nat, Return
    PROVE  Mail' /\ Counted' /\ (OwnIds /\ Tagged => Tagged')
<1>0. Mail /\ Counted /\ Shapes /\ OneEachAlive /\ InHand
  BY DEF FitInv, KeptInv
<1> DEFINE s == cur.srv
<1>1. PICK o \in Outcome(cur.srv, CallId) :
        cur' = [cur EXCEPT !.pc = "got", !.value = o.value, !.tag = o.tag]
  BY DEF Return
<1>2. /\ cur.pc = "read" /\ s \in Servers
      /\ servers' = [servers EXCEPT ![s].out = IF @ = <<>> THEN @ ELSE Tail(@)]
      /\ UNCHANGED <<clients, world, asked, taken, answers>>
  BY <1>0 DEF Return, ReadLast, OneEachAlive
<1>3. cur'.pc = "got" /\ cur'.tag = o.tag /\ cur'.n = cur.n /\ cur'.method = cur.method
  BY <1>0, <1>1 DEF InHand, Fields
<1>4. servers[s].state # "none"
  BY <1>0, <1>2 DEF Counted, Awaits
<1>5. /\ DOMAIN servers' = Servers
      /\ servers'[s].out = IF servers[s].out = <<>> THEN <<>> ELSE Tail(servers[s].out)
      /\ servers'[s].in = servers[s].in /\ servers'[s].state = servers[s].state
      /\ \A t \in Servers : t # s => servers'[t] = servers[t]
  BY <1>0, <1>2, FieldsOfServers DEF Shapes
<1> HIDE DEF s
<1>6. Flows
  BY <1>0, <1>2, <1>4, <1>5, PipesFlow
<1>7. KeepsIds /\ (\A t : ~Awaits(t)') /\ (Starting' => Starting)
  BY <1>0, <1>2, <1>3, NoIdsGiven DEF Awaits, Starting
<1>8. Mail'
  BY <1>0, <1>2, <1>6, <1>7, FlowsFit
<1>9. Counted'
  <2>1. Len(asked') <= world.count
    BY <1>0, <1>2 DEF Counted
  <2> QED
    BY <1>0, <1>2, <1>3, <1>6, <1>7, <2>1, FlowsCount
<1>10. OwnIds /\ Tagged => Tagged'
  <2> SUFFICES ASSUME OwnIds, Tagged PROVE Tagged'
    OBVIOUS
  <2>1. cur'.tag \in {0, cur'.n}
    BY <1>2, <1>3, OutcomeFits
  <2> QED
    BY <1>0, <1>2, <2>1, TagsStay
<1> QED
  BY <1>8, <1>9, <1>10

(* The end of a lookup, whatever becomes of servers. *)
LEMMA ConcludeFits ==
    ASSUME FitInv, Flows, NEW outcome, Conclude(outcome), clients' = clients, world' = world
    PROVE  Mail' /\ Counted' /\ (Tagged => Tagged')
<1>1. /\ cur' = NoRequest /\ asked' = asked /\ taken' = taken
      /\ Answer(cur.n, outcome, cur.tag)
  BY DEF Conclude
<1>2. NoRequest.pc = "idle" /\ NoRequest.method = "none" /\ NoRequest.tag = 0
  BY DEF NoRequest
<1>3. Mail' /\ Counted'
  BY <1>1, <1>2, QuietFits DEF Starting
<1>4. ASSUME Tagged PROVE Tagged'
  <2>1. cur.tag \in {0, cur.n}
    BY <1>4 DEF Tagged
  <2> QED
    BY <1>1, <1>2, <1>4, <2>1, TagAdded DEF FitInv, KeptInv
<1> QED
  BY <1>3, <1>4

LEMMA StepFits ==
    ASSUME FitInv, world.count \in Nat, McpStep
    PROVE  Mail' /\ Counted' /\ (OwnIds /\ Tagged => Tagged')
<1>0. Mail /\ Counted /\ Shapes /\ OneEachAlive /\ InHand /\ DOMAIN cur = Fields
  BY DEF FitInv, KeptInv, InHand
<1>1. servers' = servers => Flows
  BY <1>0, NothingFlows
<1>2. CASE Ignore \/ AnswerAtOnce \/ RefuseLookup
  <2>1. /\ cur.pc = "idle" /\ taken' = taken + 1
        /\ UNCHANGED <<servers, clients, world, asked, cur>>
    BY <1>2 DEF Ignore, AnswerAtOnce, RefuseLookup, lspVars
  <2>2. Mail' /\ Counted'
    BY <1>1, <2>1, QuietFits DEF Starting
  <2>3. ASSUME Tagged PROVE Tagged'
    <3>1. cur'.tag \in {0, cur'.n}
      BY <2>1, <2>3 DEF Tagged
    <3>2. answers' = answers \/ \E o : Answer(taken + 1, o, 0)
      BY <1>2 DEF Ignore, AnswerAtOnce, RefuseLookup
    <3> QED
      BY <1>0, <2>3, <3>1, <3>2, TagsStay, TagAdded
  <2> QED
    BY <2>2, <2>3
<1>3. CASE BeginLookup
  <2>1. /\ cur'.pc = "client" /\ cur'.tag = 0 /\ taken' = taken + 1
        /\ UNCHANGED <<servers, clients, world, asked, answers>>
    BY <1>3 DEF BeginLookup, NoRequest, lspVars
  <2>2. Mail' /\ Counted'
    BY <1>1, <2>1, QuietFits DEF Starting
  <2> QED
    BY <1>0, <2>1, <2>2, TagsStay
<1>4. CASE NoClient \/ CallFails \/ AnswerLookup
  <2>1. UNCHANGED <<servers, clients, world>> /\ \E outcome : Conclude(outcome)
    BY <1>4 DEF NoClient, CallFails, AnswerLookup, lspVars
  <2> QED
    BY <1>1, <2>1, ConcludeFits
<1>5. CASE UseClient
  <2>1. /\ cur.pc = "client" /\ cur'.pc = "call" /\ cur'.tag = cur.tag /\ cur'.n = cur.n
        /\ UNCHANGED <<servers, clients, world, asked, taken, answers>>
    BY <1>0, <1>5 DEF UseClient, Fields, lspVars
  <2>2. Mail' /\ Counted'
    BY <1>1, <2>1, QuietFits DEF Starting
  <2> QED
    BY <2>1, <2>2 DEF Tagged
<1>6. CASE Spawn
  BY <1>6, SpawnFits
<1>7. CASE Read
  BY <1>7, ReadFits
<1>8. CASE Return
  BY <1>8, ReturnFits
<1>9. CASE InitializeFails
  <2>1. clients' = clients /\ world' = world /\ servers' = Killed({cur.srv}) /\ Conclude("error")
    BY <1>9 DEF InitializeFails
  <2> QED
    BY <1>0, <2>1, KilledFlows, ConcludeFits
<1>10. CASE InitializeEnds
  <2>1. /\ Starting /\ cur'.pc = "call" /\ cur'.tag = 0
        /\ UNCHANGED <<clients, world, asked, taken, answers>>
        /\ servers' = Killed({table[Lang]} \ {0})
    BY <1>0, <1>10 DEF InitializeEnds, Initialized, Starting, Fields
  <2>2. Flows
    BY <1>0, <2>1, KilledFlows
  <2>3. Mail' /\ Counted'
    BY <2>1, <2>2, QuietFits DEF Starting
  <2> QED
    BY <1>0, <2>1, <2>3, TagsStay
<1>11. CASE AskNothing
  <2>1. /\ cur.pc = "call" /\ cur'.pc = "got" /\ cur'.method = Tool /\ cur'.n = cur.n
        /\ cur'.tag = cur.tag /\ Tool = "diagnostics"
        /\ UNCHANGED <<servers, clients, world, asked, taken, answers>>
    BY <1>0, <1>11 DEF AskNothing, Fields, lspVars
  <2>2. Mail' /\ Counted'
    BY <1>1, <2>1, QuietFits DEF Starting
  <2> QED
    BY <2>1, <2>2 DEF Tagged
<1>12. CASE AskServer
  BY <1>12, AskServerFits
<1>13. CASE Exit \/ BreakOff
  <2>1. /\ cur'.pc = "exit" /\ cur'.tag = cur.tag /\ cur'.n = cur.n
        /\ UNCHANGED <<clients, world, asked, taken, answers>>
        /\ servers' = Killed(Servers)
    BY <1>0, <1>13 DEF Exit, BreakOff, Fields
  <2>2. Flows
    BY <1>0, <2>1, KilledFlows
  <2>3. Mail' /\ Counted'
    BY <2>1, <2>2, QuietFits DEF Starting
  <2> QED
    BY <2>1, <2>3 DEF Tagged
<1> QED
  BY <1>2, <1>3, <1>4, <1>5, <1>6, <1>7, <1>8, <1>9, <1>10, <1>11, <1>12, <1>13 DEF McpStep

LEMMA NextFits ==
    ASSUME FitInv, world.count \in Nat, [Next]_vars
    PROVE  FitInv'
<1>0. Mail /\ Counted /\ Shapes /\ InHand /\ KeptInv
  BY DEF FitInv, KeptInv
<1>1. KeptInv'
  BY <1>0, NextKeeps
<1>2. world' = world
  BY ServersAreUnseen
  DEF Next, McpStep, LspStep, Ignore, AnswerAtOnce, RefuseLookup, BeginLookup, NoClient,
      UseClient, Spawn, Read, Return, InitializeFails, InitializeEnds, AskNothing, CallFails,
      AskServer, AnswerLookup, Exit, BreakOff, AgentAsks, AgentCloses, vars, lspVars
<1>3. Mail' /\ Counted' /\ (OwnIds /\ Tagged => Tagged')
  <2>1. CASE McpStep
    BY <2>1, StepFits
  <2>2. ASSUME UNCHANGED <<clients, world, taken, cur, answers>>, Flows,
               Len(asked') <= world.count
        PROVE  Mail' /\ Counted' /\ (OwnIds /\ Tagged => Tagged')
    <3>1. (\A s : Awaits(s)' => Awaits(s)) /\ (Starting' => Starting)
      BY <2>2 DEF Awaits, Starting
    <3>2. KeepsIds
      BY <1>0, <2>2, NoIdsGiven
    <3>3. Mail'
      BY <1>0, <2>2, <3>1, <3>2, FlowsFit
    <3>4. Counted'
      BY <1>0, <2>2, <3>1, <3>2, FlowsCount
    <3> QED
      BY <2>2, <3>3, <3>4 DEF Tagged
  <2>3. CASE \E s \in Servers : LspStep(s) \/ (ServerFault(s) /\ UNCHANGED mcpVars)
    <3>1. PICK s \in Servers : ServerStep(s) \/ ServerFault(s)
      BY <2>3 DEF LspStep
    <3>2. UNCHANGED mcpVars
      BY <2>3 DEF LspStep
    <3>3. Flows /\ clients' = clients
      BY <1>0, <3>1, ServerFlows
    <3> QED
      BY <1>0, <1>2, <2>2, <3>2, <3>3 DEF mcpVars, Counted
  <2>4. CASE AgentAsks
    <3>1. UNCHANGED <<servers, clients, taken, cur, answers>> /\ Len(asked) < world.count
          /\ \E r : asked' = Append(asked, r)
      BY <2>4 DEF AgentAsks, lspVars
    <3>2. Len(asked') <= world.count
      BY <1>0, <3>1 DEF InHand
    <3> QED
      BY <1>0, <1>2, <2>2, <3>1, <3>2, NothingFlows
  <2>5. CASE AgentCloses \/ UNCHANGED vars
    <3>1. UNCHANGED <<servers, clients, taken, cur, answers, asked>>
      BY <2>5 DEF AgentCloses, lspVars, mcpVars, vars
    <3> QED
      BY <1>0, <1>2, <2>2, <3>1, NothingFlows DEF Counted
  <2> QED
    BY <2>1, <2>3, <2>4, <2>5 DEF Next
<1> QED
  BY <1>1, <1>2, <1>3 DEF FitInv, OwnIds

(* What a lookup reports is what the server answered to that lookup, also  *)
(* after calls that failed with their answer still to come: read_response  *)
(* takes the answer with the id of the call, and no two calls of a client  *)
(* have the same; for any languages, requests, faults and restarts.        *)
THEOREM AnswersMatch ==
    ASSUME \A w \in Worlds : w.count \in Nat
    PROVE  Spec => []AnswersFit
<1>1. Init => FitInv
  <2> SUFFICES ASSUME Init PROVE FitInv
    OBVIOUS
  <2>1. KeptInv
    <3>1. Shapes
      BY DEF Init, LspInit, Shapes, ServerFields
    <3>2. \A s \in Servers : ~Alive(s)
      BY DEF Init, LspInit, Alive, NoServer
    <3> QED
      BY <3>1, <3>2, InitServes DEF KeptInv, Init, OneEachAlive, Starting, NoRequest
  <2>2. <<>> \in Seq({}) /\ DOMAIN <<>> = {} /\ Len(<<>>) = 0
    OBVIOUS
  <2>3. \A s \in Servers : /\ servers[s].in = <<>> /\ servers[s].out = <<>>
                            /\ clients[s].next = 1 /\ DOMAIN clients[s] = {"next", "diags", "mid"}
    BY DEF Init, LspInit, NoServer, NewClient
  <2>4. Mail
    BY <2>2, <2>3 DEF Mail
  <2>5. world.count \in Nat /\ taken = 0 /\ asked = <<>> /\ answers = <<>>
        /\ cur.pc = "idle" /\ cur.tag = 0 /\ DOMAIN clients = Servers
    BY DEF Init, LspInit, NoRequest
  <2>6. Counted
    BY <2>2, <2>3, <2>5 DEF Counted, Awaits, Starting
  <2>7. Tagged
    BY <2>2, <2>5 DEF Tagged
  <2> QED
    BY <2>1, <2>4, <2>6, <2>7 DEF FitInv
<1>2. FitInv /\ [Next]_vars => FitInv'
  <2> SUFFICES ASSUME FitInv, [Next]_vars PROVE FitInv'
    OBVIOUS
  <2>1. world.count \in Nat
    BY DEF FitInv, KeptInv, InHand
  <2> QED
    BY <2>1, NextFits
<1>3. FitInv => AnswersFit
  BY DEF FitInv, Tagged, OwnIds, AnswersFit
<1> QED
  BY <1>1, <1>2, <1>3, PTL DEF Spec
-----------------------------------------------------------------------------
(* Diagnostics.                                                            *)


Publications(q) == {i \in DOMAIN q : q[i].kind = "publish"}

(* A pipe of which the client has kept the publications up to the d-th,    *)
(* while the server has sent p of them: it holds the rest, in order, and   *)
(* no unfinished line.                                                     *)
Pipe(q, d, p) ==
    /\ \E S : q \in Seq(S)
    /\ \A i \in DOMAIN q : q[i].kind # "text"
    /\ d \in Nat /\ p \in Nat /\ d <= p
    /\ {q[i].tag : i \in Publications(q)} = (d + 1)..p
    /\ \A i, j \in Publications(q) : i < j => q[i].tag < q[j].tag

(* A client that is not in the middle of a line, with such a pipe. *)
Whole(s) == ~clients[s].mid /\ Pipe(servers[s].out, clients[s].diags, servers[s].pub)

Pipes ==
    /\ DOMAIN clients = Servers
    /\ \A s \in Servers :
          /\ DOMAIN clients[s] = {"next", "diags", "mid"}
          /\ servers[s].torn \/ Whole(s)
          /\ servers[s].state = "none" =>
                servers[s].out = <<>> /\ clients[s].diags = 0 /\ ~clients[s].mid

DiagInv == KeptInv /\ Pipes
-----------------------------------------------------------------------------
(* What happens to one pipe. *)

LEMMA EmptyPipe == Pipe(<<>>, 0, 0)
<1>1. <<>> \in Seq({}) /\ Publications(<<>>) = {}
  BY DEF Publications
<1> QED
  BY <1>1 DEF Pipe

LEMMA PipeGrows ==
    ASSUME NEW q, NEW d, NEW p, Pipe(q, d, p), NEW m
    PROVE  /\ m.kind = "publish" /\ m.tag = p + 1 => Pipe(Append(q, m), d, p + 1)
           /\ m.kind \notin {"publish", "text"} => Pipe(Append(q, m), d, p)
<1> PICK S : q \in Seq(S)
  BY DEF Pipe
<1> DEFINE r == Append(q, m)
<1>1. /\ r \in Seq(S \cup {m})
      /\ \A i \in 1..Len(q) : r[i] = q[i]
      /\ r[Len(q) + 1] = m
      /\ DOMAIN r = 1..(Len(q) + 1)
  BY AppendAnything
<1>2. DOMAIN q = 1..Len(q) /\ Len(q) \in Nat
  OBVIOUS
<1> HIDE DEF r
<1>0. ASSUME m.kind # "text" PROVE \A i \in DOMAIN r : r[i].kind # "text"
  BY <1>0, <1>1, <1>2 DEF Pipe
<1>3. CASE m.kind \notin {"publish", "text"}
  <2>1. Publications(r) = Publications(q)
    BY <1>1, <1>2, <1>3 DEF Publications
  <2>2. \A i \in Publications(q) : r[i] = q[i]
    BY <1>1, <1>2 DEF Publications
  <2>3. {r[i].tag : i \in Publications(r)} = {q[i].tag : i \in Publications(q)}
    BY <2>1, <2>2
  <2> QED
    BY <1>0, <1>1, <1>3, <2>1, <2>2, <2>3 DEF Pipe, r
<1>4. CASE m.kind = "publish" /\ m.tag = p + 1
  <2>1. Publications(r) = Publications(q) \cup {Len(q) + 1}
    BY <1>1, <1>2, <1>4 DEF Publications
  <2>2. \A i \in Publications(q) : r[i] = q[i] /\ i \in 1..Len(q)
    BY <1>1, <1>2 DEF Publications
  <2>3. {r[i].tag : i \in Publications(r)} = {q[i].tag : i \in Publications(q)} \cup {p + 1}
    BY <1>1, <1>4, <2>1, <2>2
  <2>4. (d + 1)..p \cup {p + 1} = (d + 1)..(p + 1) /\ d <= p + 1 /\ p + 1 \in Nat
    BY DEF Pipe
  <2>5. ASSUME NEW i \in Publications(r), NEW j \in Publications(r), i < j
        PROVE  r[i].tag < r[j].tag
    <3>1. i \in Publications(q)
      BY <1>2, <2>1, <2>2, <2>5
    <3>2. CASE j \in Publications(q)
      BY <2>2, <2>5, <3>1, <3>2 DEF Pipe
    <3>3. CASE j = Len(q) + 1
      <4>1. q[i].tag \in (d + 1)..p
        BY <3>1 DEF Pipe
      <4> QED
        BY <1>1, <1>4, <2>2, <3>1, <3>3, <4>1 DEF Pipe
    <3> QED
      BY <2>1, <3>2, <3>3
  <2> QED
    BY <1>0, <1>1, <1>4, <2>3, <2>4, <2>5 DEF Pipe, r
<1> QED
  BY <1>3, <1>4

LEMMA PipeIsRead ==
    ASSUME NEW q, NEW d, NEW p, Pipe(q, d, p), q # <<>>
    PROVE  /\ Head(q).kind # "text"
           /\ Head(q).kind = "publish" => Pipe(Tail(q), Head(q).tag, p)
           /\ Head(q).kind # "publish" => Pipe(Tail(q), d, p)
<1> PICK S : q \in Seq(S)
  BY DEF Pipe
<1> DEFINE r == Tail(q)
<1>1. /\ r \in Seq(S)
      /\ DOMAIN r = 1..(Len(q) - 1)
      /\ \A i \in DOMAIN r : r[i] = q[i + 1]
      /\ Head(q) = q[1] /\ DOMAIN q = 1..Len(q) /\ Len(q) \in Nat /\ 1 \in DOMAIN q
  OBVIOUS
<1> HIDE DEF r
<1>0. Head(q).kind # "text" /\ \A i \in DOMAIN r : r[i].kind # "text"
  BY <1>1 DEF Pipe
<1>2. \A i \in Publications(r) : i + 1 \in Publications(q) /\ i \in Nat /\ r[i].tag = q[i + 1].tag
  BY <1>1 DEF Publications
<1>3. \A i \in Publications(q) : i = 1 \/ (i > 1 /\ i - 1 \in Publications(r) /\ i \in Nat)
  BY <1>1 DEF Publications
<1>4. \A i, j \in Publications(r) : i < j => r[i].tag < r[j].tag
  BY <1>2 DEF Pipe
<1>5. {q[i].tag : i \in Publications(q) \ {1}} = {r[i].tag : i \in Publications(r)}
  <2>1. ASSUME NEW i \in Publications(q) \ {1}
        PROVE  \E j \in Publications(r) : q[i].tag = r[j].tag
    <3>1. i - 1 \in Publications(r) /\ (i - 1) + 1 = i
      BY <1>3, <2>1
    <3> QED
      BY <1>2, <3>1
  <2>2. ASSUME NEW j \in Publications(r)
        PROVE  \E i \in Publications(q) \ {1} : q[i].tag = r[j].tag
    <3>1. j + 1 \in Publications(q) \ {1}
      BY <1>1, <1>2 DEF Publications
    <3> QED
      BY <1>2, <3>1
  <2> QED
    BY <2>1, <2>2
<1>6. CASE Head(q).kind # "publish"
  <2>1. 1 \notin Publications(q)
    BY <1>1, <1>6 DEF Publications
  <2>2. {r[i].tag : i \in Publications(r)} = (d + 1)..p
    BY <1>5, <2>1 DEF Pipe
  <2> QED
    BY <1>0, <1>1, <1>4, <1>6, <2>2 DEF Pipe, r
<1>7. CASE Head(q).kind = "publish"
  <2> DEFINE t == q[1].tag
  <2>1. 1 \in Publications(q)
    BY <1>1, <1>7 DEF Publications
  <2>2. t \in (d + 1)..p
    BY <2>1 DEF Pipe
  <2>3. \A i \in Publications(q) \ {1} : t < q[i].tag
    BY <1>3, <2>1 DEF Pipe
  <2>4. t = d + 1
    <3>0. d + 1 \in {q[i].tag : i \in Publications(q)}
      <4>1. d + 1 \in (d + 1)..p
        BY <2>2 DEF Pipe
      <4> QED
        BY <4>1 DEF Pipe
    <3>1. PICK i \in Publications(q) : q[i].tag = d + 1
      BY <3>0
    <3> QED
      BY <2>2, <2>3, <3>1 DEF Pipe
  <2>5. {q[i].tag : i \in Publications(q) \ {1}} = (t + 1)..p
    <3>1. \A n : n \in {q[i].tag : i \in Publications(q) \ {1}} <=> n \in (d + 1)..p /\ n # t
      BY <2>1, <2>2, <2>3 DEF Pipe
    <3>2. \A n : n \in (d + 1)..p /\ n # d + 1 <=> n \in (d + 2)..p
      BY DEF Pipe
    <3>3. t + 1 = d + 2
      BY <2>4 DEF Pipe
    <3> QED
      BY <2>4, <3>1, <3>2, <3>3
  <2>6. {r[i].tag : i \in Publications(r)} = (t + 1)..p /\ t \in Nat /\ t <= p
    BY <1>5, <2>2, <2>5 DEF Pipe
  <2> QED
    BY <1>0, <1>1, <1>4, <1>7, <2>6 DEF Pipe, r
<1> QED
  BY <1>0, <1>6, <1>7
-----------------------------------------------------------------------------
(* What happens to all pipes. *)

(* Most steps change at most one pipe, and the state of no other server.   *)
LEMMA OnePipe ==
    ASSUME Pipes, NEW s \in Servers, DOMAIN clients' = Servers,
           \A t \in Servers : DOMAIN clients'[t] = {"next", "diags", "mid"},
           \A t \in Servers : t # s =>
               /\ servers'[t] = servers[t] /\ clients'[t].diags = clients[t].diags
               /\ clients'[t].mid = clients[t].mid,
           servers'[s].state # "none",
           servers'[s].torn \/ Whole(s)'
    PROVE  Pipes'
BY DEF Pipes, Whole

(* Killing a server leaves what it sent. *)
LEMMA KilledPipes ==
    ASSUME Pipes, Shapes, NEW K, servers' = Killed(K), clients' = clients
    PROVE  Pipes'
<1>1. \A s \in Servers : /\ servers'[s].out = servers[s].out
                         /\ servers'[s].pub = servers[s].pub
                         /\ servers'[s].torn = servers[s].torn
                         /\ servers'[s].state = "none" => servers[s].state = "none"
  BY FieldsOfServers DEF Killed, Shapes
<1> QED
  BY <1>1 DEF Pipes, Whole

LEMMA SamePipes == ASSUME Pipes, UNCHANGED <<servers, clients>> PROVE Pipes'
BY DEF Pipes, Whole

LEMMA ServerPipes ==
    ASSUME Pipes, Shapes, NEW s \in Servers, ServerStep(s) \/ ServerFault(s)
    PROVE  Pipes'
<1>0. /\ DOMAIN servers = Servers /\ servers[s].state = "alive" /\ clients' = clients
      /\ DOMAIN servers[s] = {"state", "lang", "in", "out", "pub", "waits", "torn"}
      /\ servers[s].torn \/ Whole(s)
      /\ DOMAIN clients = Servers /\ \A t \in Servers : DOMAIN clients[t] = {"next", "diags", "mid"}
  BY FieldsOfServers
  DEF Shapes, Pipes, ServerStep, ServerFault, ServerAnswers, ServerPublishes, ServerAsks,
      ServerGarbles, ServerDies, Alive
<1>1. CASE ServerPublishes(s)
  <2> DEFINE m == Message("publish", 0, servers[s].pub + 1, "null")
  <2>1. m.kind = "publish" /\ m.tag = servers[s].pub + 1
    BY DEF Message
  <2>2. servers' = [servers EXCEPT ![s].pub = @ + 1, ![s].out = Append(@, m)]
    BY <1>1 DEF ServerPublishes
  <2> HIDE DEF m
  <2>3. /\ servers'[s].out = Append(servers[s].out, m)
        /\ servers'[s].pub = servers[s].pub + 1 /\ servers'[s].state = "alive"
        /\ servers'[s].torn = servers[s].torn
        /\ \A t \in Servers : t # s => servers'[t] = servers[t]
    BY <1>0, <2>2
  <2>4. Whole(s) => Pipe(Append(servers[s].out, m), clients[s].diags, servers[s].pub + 1)
    BY <2>1, PipeGrows DEF Whole
  <2>5. servers'[s].torn \/ Whole(s)'
    BY <1>0, <2>3, <2>4 DEF Whole
  <2> QED
    BY <1>0, <2>3, <2>5, OnePipe
<1>2. CASE ServerAnswers(s) \/ ServerAsks(s) \/ ServerGarbles(s)
  <2> DEFINE Sends(m) ==
               /\ m.kind # "publish"
               /\ m.kind = "text" \/ servers[s].torn => servers'[s].torn
               /\ servers'[s].out = Append(servers[s].out, m)
               /\ servers'[s].pub = servers[s].pub /\ servers'[s].state = "alive"
               /\ \A t \in Servers : t # s => servers'[t] = servers[t]
  <2>1. PICK m : Sends(m)
    <3>1. CASE ServerAnswers(s)
      <4>1. PICK v : LET q == Head(servers[s].in)
                     IN  servers' = [servers EXCEPT ![s].in = Tail(@),
                            ![s].out = Append(@, Message("answer", q.id, q.tag, v))]
        BY <3>1 DEF ServerAnswers
      <4> DEFINE m == Message("answer", Head(servers[s].in).id, Head(servers[s].in).tag, v)
      <4>2. m.kind \notin {"publish", "text"}
        BY DEF Message
      <4>3. servers' = [servers EXCEPT ![s].in = Tail(@), ![s].out = Append(@, m)]
        BY <4>1
      <4> HIDE DEF m
      <4>4. Sends(m)
        BY <1>0, <4>2, <4>3
      <4> QED
        BY <4>4
    <3>2. CASE ServerAsks(s)
      <4>1. PICK id \in world.ids :
              servers' = [servers EXCEPT ![s].out = Append(@, Message("ask", id, 0, "null")),
                                         ![s].waits = world.waits]
        BY <3>2 DEF ServerAsks
      <4> DEFINE m == Message("ask", id, 0, "null")
      <4>2. m.kind \notin {"publish", "text"}
        BY DEF Message
      <4>3. servers' = [servers EXCEPT ![s].out = Append(@, m), ![s].waits = world.waits]
        BY <4>1
      <4> HIDE DEF m
      <4>4. Sends(m)
        BY <1>0, <4>2, <4>3
      <4> QED
        BY <4>4
    <3>3. CASE ServerGarbles(s)
      <4>1. PICK k \in Nonsense :
              servers' = [servers EXCEPT ![s].out = Append(@, Message(k, 0, 0, "null")),
                                         ![s].torn = @ \/ k = "text"]
        BY <3>3 DEF ServerGarbles
      <4> DEFINE m == Message(k, 0, 0, "null")
      <4>2. m.kind = k /\ m.kind # "publish"
        BY DEF Message, Nonsense
      <4>3. servers' = [servers EXCEPT ![s].out = Append(@, m), ![s].torn = @ \/ k = "text"]
        BY <4>1
      <4> HIDE DEF m
      <4>4. Sends(m)
        BY <1>0, <4>2, <4>3
      <4> QED
        BY <4>4
    <3> QED
      BY <1>2, <3>1, <3>2, <3>3
  <2>2. Whole(s) /\ m.kind # "text" =>
            Pipe(Append(servers[s].out, m), clients[s].diags, servers[s].pub)
    BY <2>1, PipeGrows DEF Whole
  <2>3. servers'[s].torn \/ Whole(s)'
    BY <1>0, <2>1, <2>2 DEF Whole
  <2> QED
    BY <1>0, <2>1, <2>3, OnePipe
<1>3. CASE ServerDies(s)
  <2>1. /\ servers'[s].out = servers[s].out /\ servers'[s].pub = servers[s].pub
        /\ servers'[s].state = "dead" /\ servers'[s].torn = servers[s].torn
        /\ \A t \in Servers : t # s => servers'[t] = servers[t]
    BY <1>0, <1>3 DEF ServerDies
  <2>2. servers'[s].torn \/ Whole(s)'
    BY <1>0, <2>1 DEF Whole
  <2> QED
    BY <1>0, <2>1, <2>2, OnePipe
<1> QED
  BY <1>1, <1>2, <1>3 DEF ServerStep, ServerFault

(* A lookup that waits keeps the publications that come before its answer. *)
LEMMA ReadPipes == ASSUME KeptInv, Pipes, Read PROVE Pipes'
<1> PICK s : s = cur.srv
  OBVIOUS
<1> DEFINE m == Head(servers[s].out)
<1>1. /\ s \in Servers /\ DOMAIN servers = Servers /\ servers[s].out # <<>>
      /\ DOMAIN servers[s] = {"state", "lang", "in", "out", "pub", "waits", "torn"}
      /\ ~Ends(s, m, CallId) /\ clients' = Noted(s, m)
      /\ servers' = [servers EXCEPT ![s].out = Tail(@)]
  BY FieldsOfServers DEF Read, ReadOther, KeptInv, OneEachAlive, Shapes
<1>2. /\ servers[s].torn \/ Whole(s)
      /\ DOMAIN clients = Servers /\ \A t \in Servers : DOMAIN clients[t] = {"next", "diags", "mid"}
      /\ servers[s].state # "none"
  BY <1>1 DEF Pipes
<1>3. /\ servers'[s].out = Tail(servers[s].out) /\ servers'[s].pub = servers[s].pub
      /\ servers'[s].state # "none" /\ servers'[s].torn = servers[s].torn
      /\ \A t \in Servers : t # s => servers'[t] = servers[t]
  BY <1>1, <1>2
<1> HIDE DEF m
<1>4. /\ DOMAIN clients' = Servers
      /\ \A t \in Servers : DOMAIN clients'[t] = {"next", "diags", "mid"}
      /\ \A t \in Servers :
            t # s => clients'[t].diags = clients[t].diags /\ clients'[t].mid = clients[t].mid
  BY <1>1, <1>2 DEF Noted, Skipped
<1>5. ASSUME Whole(s) PROVE Whole(s)'
  <2>1. /\ m.kind # "text" /\ ~clients[s].mid
        /\ m.kind = "publish" => Pipe(Tail(servers[s].out), m.tag, servers[s].pub)
        /\ m.kind # "publish" => Pipe(Tail(servers[s].out), clients[s].diags, servers[s].pub)
    BY <1>1, <1>5, PipeIsRead DEF m, Whole
  <2>2. /\ ~clients'[s].mid
        /\ clients'[s].diags = IF m.kind = "publish" THEN m.tag ELSE clients[s].diags
    BY <1>1, <1>2, <2>1 DEF Noted
  <2> QED
    <3>1. Pipe(servers'[s].out, clients'[s].diags, servers'[s].pub)
      BY <1>3, <2>1, <2>2
    <3> QED
      BY <2>2, <3>1 DEF Whole
<1> QED
  BY <1>1, <1>2, <1>3, <1>4, <1>5, OnePipe

(* What ends a call is no publication. *)
LEMMA ReturnPipes == ASSUME KeptInv, Pipes, Return PROVE Pipes'
<1> PICK s : s = cur.srv
  OBVIOUS
<1> DEFINE m == Head(servers[s].out)
<1>1. /\ s \in Servers /\ DOMAIN servers = Servers /\ clients' = clients
      /\ DOMAIN servers[s] = {"state", "lang", "in", "out", "pub", "waits", "torn"}
      /\ servers' = [servers EXCEPT ![s].out = IF @ = <<>> THEN @ ELSE Tail(@)]
  BY FieldsOfServers DEF Return, ReadLast, KeptInv, OneEachAlive, Shapes
<1>2. /\ servers[s].torn \/ Whole(s)
      /\ DOMAIN clients = Servers /\ \A t \in Servers : DOMAIN clients[t] = {"next", "diags", "mid"}
  BY <1>1 DEF Pipes
<1>3. CASE servers[s].out = <<>>
  <2>1. /\ DOMAIN servers' = Servers
        /\ \A t \in Servers : /\ servers'[t].out = servers[t].out
                              /\ servers'[t].pub = servers[t].pub
                              /\ servers'[t].torn = servers[t].torn
                              /\ servers'[t].state = servers[t].state
    BY <1>1, <1>3
  <2> QED
    BY <1>1, <2>1 DEF Pipes, Whole
<1>4. CASE servers[s].out # <<>>
  <2>1. m.kind # "publish"
    <3>1. PICK o : o \in Outcome(s, CallId)
      BY DEF Return
    <3>2. Ends(s, m, CallId)
      BY <1>4, <3>1, Zenon DEF Outcome
    <3> QED
      BY <3>2 DEF Ends, IsAnswer
  <2>2. servers[s].state # "none"
    BY <1>1, <1>4 DEF Pipes
  <2>3. /\ servers'[s].out = Tail(servers[s].out) /\ servers'[s].pub = servers[s].pub
        /\ servers'[s].state # "none" /\ servers'[s].torn = servers[s].torn
        /\ \A t \in Servers : t # s => servers'[t] = servers[t]
    BY <1>1, <1>4, <2>2
  <2>4. Whole(s) => Pipe(Tail(servers[s].out), clients[s].diags, servers[s].pub)
    BY <1>4, <2>1, PipeIsRead DEF Whole
  <2>5. servers'[s].torn \/ Whole(s)'
    BY <1>1, <1>2, <2>3, <2>4 DEF Whole
  <2> HIDE DEF m
  <2> QED
    BY <1>1, <1>2, <2>3, <2>5, OnePipe
<1> QED
  BY <1>3, <1>4

(* A new server has published nothing, and its client keeps nothing yet. *)
LEMMA SpawnPipes == ASSUME KeptInv, Pipes, Spawn PROVE Pipes'
<1>1. PICK s \in Fresh :
        /\ servers' = [servers EXCEPT ![s] =
              [NoServer EXCEPT !.state = "alive", !.lang = Lang,
                               !.in = <<[id |-> 1, tag |-> cur.n, method |-> "initialize"]>>]]
        /\ clients' = [clients EXCEPT ![s].next = @ + 1]
  BY DEF Spawn
<1>2. s \in Servers /\ servers[s].state = "none" /\ DOMAIN servers = Servers
  BY DEF Fresh, KeptInv, Shapes
<1>3. /\ servers'[s].state = "alive" /\ servers'[s].out = <<>> /\ servers'[s].pub = 0
      /\ \A t \in Servers : t # s => servers'[t] = servers[t]
  BY <1>1, <1>2 DEF NoServer
<1>4. /\ DOMAIN clients = Servers /\ \A t \in Servers : DOMAIN clients[t] = {"next", "diags", "mid"}
      /\ clients[s].diags = 0 /\ ~clients[s].mid
  BY <1>2 DEF Pipes
<1>5. /\ DOMAIN clients' = Servers
      /\ \A t \in Servers : /\ DOMAIN clients'[t] = {"next", "diags", "mid"}
                            /\ clients'[t].diags = clients[t].diags
                            /\ clients'[t].mid = clients[t].mid
  BY <1>1, <1>2, <1>4
<1>6. Whole(s)'
  BY <1>2, <1>3, <1>4, <1>5, EmptyPipe DEF Whole
<1> QED
  BY <1>2, <1>3, <1>5, <1>6, OnePipe

(* A request goes the other way. *)
LEMMA AskServerPipes == ASSUME KeptInv, Pipes, AskServer PROVE Pipes'
<1> DEFINE s == cur.srv
<1>1. /\ s \in Servers /\ DOMAIN servers = Servers
      /\ DOMAIN servers[s] = {"state", "lang", "in", "out", "pub", "waits", "torn"}
      /\ servers' = [servers EXCEPT ![s].in =
                        Append(@, [id |-> clients[s].next, tag |-> cur.n, method |-> Tool])]
      /\ clients' = [clients EXCEPT ![s].next = @ + 1]
  BY FieldsOfServers DEF AskServer, Call, KeptInv, OneEachAlive, Shapes
<1>2. \A t \in Servers : /\ servers'[t].out = servers[t].out
                         /\ servers'[t].pub = servers[t].pub
                         /\ servers'[t].torn = servers[t].torn
                         /\ servers'[t].state = servers[t].state
  BY <1>1
<1>3. /\ DOMAIN clients' = Servers
      /\ \A t \in Servers : /\ DOMAIN clients'[t] = {"next", "diags", "mid"}
                            /\ clients'[t].diags = clients[t].diags
                            /\ clients'[t].mid = clients[t].mid
  BY <1>1 DEF Pipes
<1> QED
  BY <1>2, <1>3 DEF Pipes, Whole
-----------------------------------------------------------------------------
(* Every step, and the theorem. *)

LEMMA NextPipes == DiagInv /\ [Next]_vars => DiagInv'
<1> SUFFICES ASSUME DiagInv, [Next]_vars PROVE Pipes'
  BY NextKeeps DEF DiagInv
<1>0. KeptInv /\ Pipes /\ Shapes
  BY DEF DiagInv, KeptInv
<1>1. CASE McpStep
  <2>1. CASE UNCHANGED <<servers, clients>>
    BY <1>0, <2>1, SamePipes
  <2>2. CASE \E K : servers' = Killed(K) /\ clients' = clients
    BY <1>0, <2>2, KilledPipes
  <2>3. CASE Spawn
    BY <1>0, <2>3, SpawnPipes
  <2>4. CASE Read
    BY <1>0, <2>4, ReadPipes
  <2>5. CASE Return
    BY <1>0, <2>5, ReturnPipes
  <2>6. CASE AskServer
    BY <1>0, <2>6, AskServerPipes
  <2>7. CASE \/ Ignore \/ AnswerAtOnce \/ RefuseLookup \/ BeginLookup
             \/ NoClient \/ UseClient \/ AskNothing \/ CallFails \/ AnswerLookup
    BY <2>1, <2>7
    DEF Ignore, AnswerAtOnce, RefuseLookup, BeginLookup, NoClient, UseClient, AskNothing,
        CallFails, AnswerLookup, lspVars
  <2>8. CASE InitializeFails \/ InitializeEnds \/ Exit \/ BreakOff
    BY <2>2, <2>8 DEF InitializeFails, InitializeEnds, Exit, BreakOff
  <2> QED
    BY <1>1, <2>3, <2>4, <2>5, <2>6, <2>7, <2>8 DEF McpStep
<1>2. CASE \E s \in Servers : LspStep(s) \/ (ServerFault(s) /\ UNCHANGED mcpVars)
  BY <1>0, <1>2, ServerPipes DEF LspStep
<1>3. CASE AgentAsks \/ AgentCloses \/ UNCHANGED vars
  BY <1>0, <1>3, SamePipes DEF AgentAsks, AgentCloses, lspVars, vars
<1> QED
  BY <1>1, <1>2, <1>3 DEF Next

(* Of what a language server publishes, everything that its client does    *)
(* not keep is still to be read, in the order in which it was published:   *)
(* whichever calls end, wait or fail over nonsense in between, and however *)
(* often servers die and are started again, as long as the server itself   *)
(* has left no line unfinished.                                            *)
THEOREM DiagnosticsKept == Spec => []NoDiagnosticsLost
<1>1. Init => DiagInv
  <2> SUFFICES ASSUME Init PROVE Shapes /\ OneEachAlive /\ Pipes
    BY InitServes DEF DiagInv, KeptInv
  <2>1. Shapes
    BY DEF Init, LspInit, Shapes, ServerFields
  <2>2. \A s \in Servers : ~Alive(s)
    BY DEF Init, LspInit, Alive, NoServer
  <2>3. OneEachAlive
    BY <2>2 DEF Init, OneEachAlive, Starting, NoRequest
  <2>4. Pipes
    BY EmptyPipe DEF Init, LspInit, Pipes, Whole, NoServer, NewClient
  <2> QED
    BY <2>1, <2>3, <2>4
<1>2. DiagInv /\ [Next]_vars => DiagInv'
  BY NextPipes
<1>3. DiagInv => NoDiagnosticsLost
  BY DEF DiagInv, Pipes, Whole, Pipe, NoDiagnosticsLost, Published, Publications
<1> QED
  BY <1>1, <1>2, <1>3, PTL DEF Spec
=============================================================================
