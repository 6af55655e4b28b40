------------------------------ MODULE MCServe ------------------------------
(***************************************************************************)
(* The two halves of wb-serve for TLC: the edits and rebuilds of the       *)
(* sources, and live reload, with a tab beside a stream or two streams.  A *)
(* behaviour is one or the other.                                          *)
(*                                                                         *)
(* Chunk c of source A refers to nothing at first, d of A is beside it,    *)
(* and the root in B refers to c: a body that refers to the root closes a  *)
(* cycle that only a check with both sources sees, and so does a note.     *)
(***************************************************************************)
EXTENDS Serve, LiveReload

CONSTANTS b1, s1, s2

VARIABLE half

Open(c) == [k |-> "open", n |-> c]
Close == [k |-> "close", n |-> ""]
Ref(c) == [k |-> "ref", n |-> c]
Txt(x) == [k |-> "text", n |-> x]

MCFiles == {"A", "B"}
MCPanels == {"p", "q"}
MCTarget == [p |-> [file |-> "A", chunk |-> "c"], q |-> [file |-> "A", chunk |-> "d"]]
MCRoot == "root"

MCInputs ==
    {[A |-> <<Open("c"), Txt("x"), Close, [k |-> "fence", n |-> ""],
              Open("d"), Txt("y"), Close>>,
      B |-> <<Open("root"), Ref("c"), Close>>]}

MCNewBodies == {<<Txt("y")>>, <<Ref("root"), Close, Open("d")>>}
MCNotes == {<<Open("c"), Ref("root"), Close>>}

Tools(w, o, a, t) == [watch |-> w, opens |-> o, adocs |-> a, theme |-> t]

Nothing == [tools |-> Tools(FALSE, FALSE, FALSE, FALSE), noise |-> {}, edits |-> 0, saves |-> 0]

(* Many edits without the watcher, fewer with it. *)
MCSetups ==
    {Nothing,
     [tools |-> Tools(FALSE, FALSE, TRUE, TRUE), noise |-> {}, edits |-> 1, saves |-> 2],
     [tools |-> Tools(TRUE, TRUE, TRUE, TRUE), noise |-> {}, edits |-> 0, saves |-> 1]}
    \cup [tools : {Tools(TRUE, FALSE, TRUE, TRUE), Tools(TRUE, TRUE, TRUE, TRUE),
                   Tools(TRUE, TRUE, TRUE, FALSE), Tools(TRUE, TRUE, FALSE, TRUE)},
          noise : {{"theme", "other", "error"}}, edits : {1}, saves : {0}]

MCFrame == Txt("note")
MCProse == Txt("prose")
MCNames == {"root", "c", "d", "x", "y", "note", "prose", ""}

-----------------------------------------------------------------------------
MCSessions == {{}, {b1}, {b1, s1}, {s1, s2}}

Nobody == client = [s \in Streams |-> "gone"] /\ \A t \in Tabs : tab[t].pc = "closed"

MCInit ==
    /\ ServeInit /\ ReloadInit
    /\ \/ half = "sources" /\ Nobody /\ tools # Nothing.tools
       \/ half = "reload" /\ ~Nobody /\ edits = 0 /\ tools = Nothing.tools

MCNext ==
    \/ half = "sources" /\ Next /\ UNCHANGED <<reloadVars, half>>
    \/ half = "reload" /\ ReloadNext /\ UNCHANGED <<serveVars, half>>

MCSpec ==
    /\ MCInit /\ [][MCNext]_<<serveVars, reloadVars, half>>
    /\ Fairness /\ ReloadFairness
=============================================================================
