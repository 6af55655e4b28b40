-------------------------------- MODULE Serve --------------------------------
(***************************************************************************)
(* The parts of wb-serve that concern the sources: their edits from the    *)
(* browser (SourceEdit) and the rebuilds of `--watch` (SourceWatcher).  A  *)
(* write of a source is an event for the watcher; on systems that report   *)
(* it, so is reading one.                                                  *)
(***************************************************************************)
EXTENDS SourceEdit, SourceWatcher

CONSTANT
    Setups  \* installations, each with the edits, saves and noise it meets

serveVars == <<vars, watcherVars>>

ServeInit ==
    /\ Init
    /\ WatcherInit
    /\ \E s \in Setups :
          tools = s.tools /\ noise = s.noise /\ edits = s.edits /\ saves = s.saves

(* `just tangle` in another terminal: it writes weaveback.db. *)
UserTangles ==
    /\ edits > 0 /\ Expands(texts)
    /\ edits' = edits - 1
    /\ known' = texts
    /\ UNCHANGED <<texts, panel, saves>>
    /\ SourceOpened

WatcherStep ==
    \/ FirstEvent \/ NextEvent \/ Settle
    \/ TangleFails \/ StartTheme \/ ThemeFails \/ ThemeBuilt
    \/ StartDocs \/ DocsRendered

Handler(p) ==
    \/ ReadsDisk(p) /\ SourceOpened
    \/ WritesDisk(p) /\ SourceChanged
    \/ OpenFails(p) /\ UNCHANGED watcherVars

Next ==
    \/ WatcherStep /\ UNCHANGED vars
    \/ UserTangles
    \/ \E p \in Panels :
          \/ Handler(p)
          \/ /\ OpenPanel(p) \/ ClosePanel(p) \/ SaveLooksUp(p) \/ NoteLooksUp(p)
             /\ UNCHANGED watcherVars
    \/ \E f \in Files : UserEdits(f) /\ SourceChanged
    \/ (ThemeEdited \/ OtherEvent) /\ UNCHANGED vars

(* The threads of the server go on whenever they can; the user and the     *)
(* pages need not do anything.                                             *)
Fairness ==
    /\ WF_serveVars(WatcherStep /\ UNCHANGED vars)
    /\ \A p \in Panels : WF_serveVars(Handler(p))

Spec == ServeInit /\ [][Next]_serveVars /\ Fairness
-----------------------------------------------------------------------------
(* Properties. *)

(* The lines of body stand in one place of the text. *)
Once(t, body) ==
    /\ body # <<>>
    /\ Cardinality({i \in 1..(Len(t) - Len(body) + 1) :
                          SubSeq(t, i, i + Len(body) - 1) = body}) = 1

Bodies(t, c) == {Extract(t, r) : r \in Ranges(t, c)}

Named(t) == {l.n : l \in {x \in Range(t) : x.k = "open"}}

(* p is about to write, and nobody wrote since it read. *)
AboutToWrite(p) ==
    /\ panel[p].pc = "truncate" /\ panel'[p].pc = "write"
    /\ panel[p].base = Text(p)

(* A save, of whatever lines, replaces the body of the chunk it names and  *)
(* nothing else, although its line range may come from a text of long ago, *)
(* when the chunk still has the body that the panel shows and no other     *)
(* place has the same lines.  A note, of whatever lines, behind a chunk    *)
(* whose range is up to date changes no chunk but those it has headers of. *)
EditsStayInTheirChunk ==
    [][\A p \in Panels : AboutToWrite(p) =>
          LET c == Target[p].chunk IN
          /\ /\ panel[p].kind = "save"
             /\ panel[p].orig \in Bodies(Text(p), c) /\ Once(Text(p), panel[p].orig)
             => \E r \in Ranges(Text(p), c) : Edited(p) = Apply(Text(p), r, panel[p].new)
          /\ panel[p].kind = "note" /\ panel[p].range \in Ranges(Text(p), c) =>
                \A d \in Named(Text(p)) \ Named(panel[p].new) :
                    Bodies(Edited(p), d) = Bodies(Text(p), d)]_serveVars

(* p's save is over, written in full or in part. *)
SaveOver(p) ==
    /\ panel[p].pc = "write" /\ panel[p].kind = "save"
    /\ panel'[p].pc = "open"

(* While only one source is edited from the browser, a save leaves sources *)
(* that expand: the check against the other sources is still good when the *)
(* save is written, over other saves and over notes that broke the source  *)
(* meanwhile, where a stale range made it change the wrong lines, and when *)
(* only a part of it could be written.                                     *)
SavesExpand ==
    [][\A p \in Panels : SaveOver(p) => Expands(texts')]_serveVars

(* Panels are opened for ever.  Where opening a file is an event, a burst  *)
(* may then never end.                                                     *)
ReadingGoesOn == \E p \in Panels : []<>(panel[p].pc = "load")

(* A rebuild does not set off another one for ever: once the edits and the *)
(* requests stop, the watcher comes to rest.  Where files that are opened  *)
(* are events, what a rebuild reads sets off the next one; but one that    *)
(* reaches the sources makes the next one end with the tangle.             *)
RebuildsEnd ==
    (tools.opens => tools.theme /\ tools.adocs) =>
        <>[](watch.pc = "recv" /\ chan = {}) \/ ReadingGoesOn

(* An edit of the theme is built, also one that comes in the middle of a   *)
(* rebuild, among other events or before an error: unless an event of a    *)
(* source comes in the same burst.                                         *)
ThemeIsBuilt ==
    \/ tools.theme /\ "theme" \in chan ~> stale.theme = "no" \/ watch.tangle
    \/ ReadingGoesOn

(* Edits of sources trigger tangle and docs (project/project.adoc:260): a  *)
(* change of a source is in the docs in the end.                           *)
DocsFollowSources ==
    \/ tools.watch /\ tools.adocs /\ stale.docs = "yes" ~> stale.docs = "no"
    \/ ReadingGoesOn
=============================================================================
