---------------------------- MODULE SourceWatcher ----------------------------
(***************************************************************************)
(* `wb-serve --watch`: a thread that waits for file events of the project, *)
(* lets them settle and then runs a rebuild: tangle, the theme, the docs.  *)
(* Events that arrive meanwhile wait in the channel.                       *)
(*                                                                         *)
(* A rebuild tangles by running the server's own program with `tangle`.    *)
(* wb-serve, the only program with this server, has no such command: that  *)
(* step fails, reads nothing, and ends the rebuild.                        *)
(***************************************************************************)
EXTENDS Naturals, FiniteSets

VARIABLES
    chan,   \* the kinds of event in the channel
    watch,  \* the thread: pc and what the burst asks for
    stale,  \* whether the docs and the theme are behind their sources: "no",
            \* "yes", or "read" while a build that has read them goes on
    tools,  \* what the installation is like
    noise   \* bound: what else is still to happen, once each

watcherVars == <<chan, watch, stale, tools, noise>>

Events == {"adoc", "theme", "other", "error"}
Idle == [pc |-> "recv", tangle |-> FALSE, theme |-> FALSE]

(* tools.watch: the server runs with --watch.                              *)
(* tools.opens: the system reports that files are opened, as inotify does. *)
(* tools.adocs: the sources are *.adoc files, which docgen renders; the    *)
(* watcher does not look for other literate sources.                       *)
(* tools.theme: the sources of the theme compile.                          *)
WatcherInit ==
    /\ chan = {}
    /\ watch = Idle
    /\ stale = [docs |-> "no", theme |-> "no"]

(* A file is written, or opened to be read, by whatever program. *)
Seen(e) == IF tools.watch THEN chan \cup {e} ELSE chan
SeenOpen(e) == IF tools.opens THEN Seen(e) ELSE chan

SourceKind == IF tools.adocs THEN "adoc" ELSE "other"

(* A source was written; it was read. *)
SourceChanged ==
    /\ chan' = Seen(SourceKind)
    /\ stale' = [stale EXCEPT !.docs = IF tools.adocs THEN "yes" ELSE @]
    /\ UNCHANGED <<watch, tools, noise>>

SourceOpened ==
    /\ chan' = SeenOpen(SourceKind)
    /\ UNCHANGED <<watch, stale, tools, noise>>

(* The user edits a source of the theme; another file of the project is    *)
(* written; notify reports an error.                                       *)
ThemeEdited ==
    /\ tools.watch /\ "theme" \in noise
    /\ noise' = noise \ {"theme"}
    /\ chan' = Seen("theme")
    /\ stale' = [stale EXCEPT !.theme = "yes"]
    /\ UNCHANGED <<watch, tools>>

OtherEvent ==
    /\ tools.watch
    /\ \E e \in noise \ {"theme"} : noise' = noise \ {e} /\ chan' = Seen(e)
    /\ UNCHANGED <<watch, stale, tools>>
-----------------------------------------------------------------------------
(* A plausible slip: what the burst asks for is what its last event does. *)
NoticeLast(e) ==
    /\ chan' = chan \ {e}
    /\ watch' = [watch EXCEPT !.tangle = e = "adoc", !.theme = e = "theme"]
    /\ UNCHANGED <<stale, tools, noise>>

Notice(e) ==
    /\ chan' = chan \ {e}
    /\ watch' = [watch EXCEPT !.tangle = @ \/ e = "adoc", !.theme = @ \/ e = "theme"]
    /\ UNCHANGED <<stale, tools, noise>>

(* The first event begins a burst ... *)
FirstEvent ==
    /\ watch.pc = "recv"
    /\ \E e \in chan :
          /\ chan' = chan \ {e}
          /\ watch' = [pc |-> "settle", tangle |-> e = "adoc", theme |-> e = "theme"]
    /\ UNCHANGED <<stale, tools, noise>>

NextEvent ==
    /\ watch.pc = "settle"
    /\ \E e \in chan \ {"error"} : Notice(e)

(* A plausible slip: a theme edit is taken for the only one. *)
BurstOverTheme(w) ==
    [w EXCEPT !.pc = IF w.theme THEN "theme" ELSE IF w.tangle THEN "tangle" ELSE "recv"]

(* ... which ends when nothing comes for a while, or with an error. *)
BurstOver(w) ==
    [w EXCEPT !.pc = IF w.tangle THEN "tangle" ELSE IF w.theme THEN "theme" ELSE "recv"]

Settle ==
    /\ watch.pc = "settle"
    /\ chan = {} \/ "error" \in chan
    /\ chan' = chan \ {"error"}
    /\ watch' = BurstOver(watch)
    /\ UNCHANGED <<stale, tools, noise>>

(* run_rebuild *)

TangleFails ==
    /\ watch.pc = "tangle"
    /\ watch' = Idle
    /\ UNCHANGED <<chan, stale, tools, noise>>

(* A build reads its sources at its start. *)
BuildStarts(what, from, to, e) ==
    /\ watch.pc = from
    /\ watch' = [watch EXCEPT !.pc = to]
    /\ stale' = [stale EXCEPT ![what] = IF @ = "yes" THEN "read" ELSE @]
    /\ chan' = SeenOpen(e)
    /\ UNCHANGED <<tools, noise>>

BuildEnds(what, from, to) ==
    /\ watch.pc = from
    /\ watch' = to
    /\ stale' = [stale EXCEPT ![what] = IF @ = "read" THEN "no" ELSE @]
    /\ UNCHANGED <<chan, tools, noise>>

StartTheme == BuildStarts("theme", "theme", "building", "theme")

ThemeFails ==
    /\ watch.pc = "building"
    /\ ~tools.theme
    /\ watch' = Idle
    /\ stale' = [stale EXCEPT !.theme = IF @ = "read" THEN "yes" ELSE @]
    /\ UNCHANGED <<chan, tools, noise>>

ThemeBuilt ==
    /\ tools.theme
    /\ BuildEnds("theme", "building", [watch EXCEPT !.pc = "docs"])

(* docgen reads what it renders; it writes below docs/html, where events   *)
(* are ignored.                                                            *)
StartDocs == BuildStarts("docs", "docs", "rendering", SourceKind)

DocsRendered == BuildEnds("docs", "rendering", Idle)
=============================================================================
