-------------------------------- MODULE MCMcp --------------------------------
(* Worlds: one where agents ask everything once; some where lookups follow  *)
(* each other while servers misbehave; one for `wb-query lsp`.              *)
EXTENDS Mcp

Request(tools, args, langs) == [tool : tools, args : args, lang : langs]

Plain == {"list", "trace", "apply_back", "apply_fix", "chunk_context", "list_chunks",
          "find_chunk", "search", "list_tags", "coverage", "no such tool"}

W(faultSet, requests, n) ==
    [ids |-> {99}, waits |-> FALSE, db |-> "good", lcov |-> TRUE, cli |-> FALSE,
     installed |-> {"rust"}, faults |-> faultSet, requests |-> requests, count |-> n]

OneEach ==
    Request(Plain \cup Ignored \cup Unreadable, {"missing", "bad", "good"}, {"none"})
    \cup Request(Lookups, {"missing", "good"}, {"rust", "none"})

Some(tools) == Request(tools, {"good"}, {"rust"})

MCWorlds ==
    {W({}, OneEach, 1),
     [W({}, OneEach, 1) EXCEPT !.db = "missing", !.installed = {}],
     [W({}, OneEach, 1) EXCEPT !.db = "unreadable", !.lcov = FALSE],
     W({}, Some({"definition", "list"} \cup Unreadable), 3),
     W({"die", "header"}, Some({"definition", "hover"}), 3),
     W({"publish", "publish again", "frame"}, Some({"definition", "diagnostics"}), 2),
     W({"publish", "header", "text"}, Some({"definition"}), 2),
     W({"text", "line", "die"}, Some({"symbols"}), 2),
     [W({"ask"}, Some({"definition"}), 3) EXCEPT !.waits = TRUE],
     [W({"ask", "die"}, Some({"references"}) \cup Request({"blank"}, {"good"}, {"none"}), 2)
         EXCEPT !.ids = {0, 1, 2}],
     [W({"die"}, Some({"definition", "references"}), 1) EXCEPT !.cli = TRUE]}
=============================================================================
