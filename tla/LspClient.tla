------------------------------ MODULE LspClient ------------------------------
(***************************************************************************)
(* The client that weaveback keeps for a language server, and the servers. *)
(* A server is a process with a pipe in each direction.  The client writes *)
(* one request at a time and reads until the answer with its id comes;     *)
(* there is no timeout.  Servers answer in order and may also publish      *)
(* diagnostics, ask something themselves, print nonsense, or die.          *)
(* A message is a line with its length, a blank line and a body without a  *)
(* line end: the client tells messages apart by these alone.               *)
(*                                                                         *)
(* A client and its server share an index: a client is never given another *)
(* server, and the server is killed when the client is dropped.            *)
(***************************************************************************)
EXTENDS Naturals, FiniteSets, SequencesExt

CONSTANTS
    Langs,      \* the languages of weaveback_lsp's registry
    NoLang,     \* the language of any other file extension
    MaxServers  \* bound: processes that are started

ASSUME LspConstantsOK ==
    /\ NoLang \notin Langs
    /\ MaxServers \in Nat \ {0}

Servers == 1..MaxServers

VARIABLES
    servers,  \* process: state, what is under way from and to its client,
              \* its publications, whether it waits for an answer, whether
              \* it ever left a line unfinished
    clients,  \* the id of the client's next request, the diagnostics it read,
              \* whether it is in the middle of a line
    table,    \* lsp_clients: the client of each language, 0 for none
    faults,   \* bound: what servers may still do besides answering
    world     \* what the servers are like

lspVars == <<servers, clients, table, faults, world>>

NoServer == [state |-> "none", lang |-> NoLang, in |-> <<>>, out |-> <<>>,
             pub |-> 0, waits |-> FALSE, torn |-> FALSE]
NewClient == [next |-> 1, diags |-> 0, mid |-> FALSE]

(* world.ids: the ids that servers give to their requests; world.waits:    *)
(* then they wait for the answer, and the client never gives one.          *)
LspInit ==
    /\ servers = [s \in Servers |-> NoServer]
    /\ clients = [s \in Servers |-> NewClient]
    /\ table = [l \in Langs |-> 0]

Alive(s) == servers[s].state = "alive"
-----------------------------------------------------------------------------
(* Servers, as the client has to expect them.                              *)

Values(method) ==
    CASE method = "initialize" -> {"capabilities", "error"}
      [] method = "definition" -> {"null", "location", "remote", "list", "empty", "links", "error"}
      [] method = "references" -> {"null", "list", "empty", "error"}
      [] method = "hover"      -> {"null", "hover", "error"}
      [] method = "symbols"    -> {"null", "empty", "list", "error"}

Message(kind, id, tag, value) == [kind |-> kind, id |-> id, tag |-> tag, value |-> value]

ServerAnswers(s) ==
    /\ Alive(s) /\ servers[s].in # <<>> /\ ~servers[s].waits
    /\ \E m \in {Head(servers[s].in)} : \E v \in Values(m.method) :
          servers' = [servers EXCEPT ![s].in = Tail(@),
                                     ![s].out = Append(@, Message("answer", m.id, m.tag, v))]
    /\ UNCHANGED <<clients, table, faults, world>>

Happens(f) == f \in faults /\ faults' = faults \ {f}

ServerPublishes(s) ==
    /\ Alive(s)
    /\ \E f \in {"publish", "publish again"} : Happens(f)
    /\ servers' = [servers EXCEPT ![s].pub = @ + 1,
                                  ![s].out = Append(@, Message("publish", 0, servers[s].pub + 1, "null"))]
    /\ UNCHANGED <<clients, table, world>>

ServerAsks(s) ==
    /\ Alive(s) /\ Happens("ask")
    /\ \E id \in world.ids :
          servers' = [servers EXCEPT ![s].out = Append(@, Message("ask", id, 0, "null")),
                                     ![s].waits = world.waits]
    /\ UNCHANGED <<clients, table, world>>

(* A line that is no header; a header whose length is no number; a message *)
(* whose body is not JSON; text that does not end its line.                *)
Nonsense == {"line", "header", "frame", "text"}

ServerGarbles(s) ==
    /\ Alive(s)
    /\ \E k \in Nonsense :
          /\ Happens(k)
          /\ servers' = [servers EXCEPT ![s].out = Append(@, Message(k, 0, 0, "null")),
                                        ![s].torn = @ \/ k = "text"]
    /\ UNCHANGED <<clients, table, world>>

ServerDies(s) ==
    /\ Alive(s) /\ Happens("die")
    /\ servers' = [servers EXCEPT ![s].state = "dead", ![s].in = <<>>]
    /\ UNCHANGED <<clients, table, world>>

ServerStep(s) == ServerAnswers(s)

ServerFault(s) ==
    ServerPublishes(s) \/ ServerAsks(s) \/ ServerGarbles(s) \/ ServerDies(s)
-----------------------------------------------------------------------------
(* The client.                                                             *)

Fresh == {s \in Servers : servers[s].state = "none"}

(* drop: the process is killed. *)
Killed(S) ==
    [s \in Servers |-> IF s \in S /\ Alive(s)
                       THEN [servers[s] EXCEPT !.state = "dead", !.in = <<>>]
                       ELSE servers[s]]

(* call, as far as it writes: to a server that is gone it fails. *)
Call(s, method, tag) ==
    /\ Alive(s)
    /\ servers' = [servers EXCEPT ![s].in =
                      Append(@, [id |-> clients[s].next, tag |-> tag, method |-> method])]
    /\ clients' = [clients EXCEPT ![s].next = @ + 1]

(* In the middle of a line all is skipped up to its end.  The body of a    *)
(* message has none: the next header goes with it.                         *)
Skipped(s, m) == [clients EXCEPT ![s].mid = m.kind \notin {"line", "header"}]

(* A plausible slip: what is not the answer is skipped. *)
SkipNoted(s, m) == IF clients[s].mid \/ m.kind = "text" THEN Skipped(s, m) ELSE clients

(* What is not the answer: publications are kept, by file. *)
Noted(s, m) ==
    IF clients[s].mid \/ m.kind = "text" THEN Skipped(s, m)
    ELSE IF m.kind = "publish" THEN [clients EXCEPT ![s].diags = m.tag] ELSE clients

(* A plausible slip: the first answer that comes is taken. *)
AnyAnswer(m, id) == m.kind = "answer"

IsAnswer(m, id) == m.kind \in {"answer", "ask"} /\ m.id = id

(* What ends a call: an error, or what has its id. *)
Ends(s, m, id) == ~clients[s].mid /\ (m.kind \in {"header", "frame"} \/ IsAnswer(m, id))

(* read_response, one turn of its loop: id is the one of the call.         *)
ReadOther(s, id) ==
    /\ servers[s].out # <<>>
    /\ \E m \in {Head(servers[s].out)} : ~Ends(s, m, id) /\ clients' = Noted(s, m)
    /\ servers' = [servers EXCEPT ![s].out = Tail(@)]

Failed == [value |-> "failed", tag |-> 0]

Result(m) ==
    IF m.kind \in {"header", "frame"} THEN Failed
    ELSE [value |-> IF m.value = "error" THEN "failed" ELSE m.value, tag |-> m.tag]

(* A plausible slip: the end of the server's output is not noticed. *)
OutcomeWithoutEof(s, id) ==
    IF servers[s].out = <<>> THEN {}
    ELSE {Result(m) : m \in {m \in {Head(servers[s].out)} : Ends(s, m, id)}}

(* The call ends with a value, `failed` for an error. *)
Outcome(s, id) ==
    IF servers[s].out = <<>> THEN IF Alive(s) THEN {} ELSE {Failed}
    ELSE {Result(m) : m \in {m \in {Head(servers[s].out)} : Ends(s, m, id)}}

ReadLast(s) ==
    servers' = [servers EXCEPT ![s].out = IF @ = <<>> THEN @ ELSE Tail(@)]
=============================================================================
