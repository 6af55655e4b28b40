----------------------------- MODULE LiveReload -----------------------------
(***************************************************************************)
(* wb-serve's live reload: a watcher thread turns file events under        *)
(* docs/html into a version counter, which the pages poll, and into        *)
(* signals on the bounded channels of the `/__events` streams.             *)
(*                                                                         *)
(* The watcher sends while it holds the lock of the list of channels, and  *)
(* its sends block; a new stream registers under the same lock.            *)
(***************************************************************************)
EXTENDS Integers, SequencesExt

CONSTANTS
    Tabs,       \* browser tabs with a page that polls /__version
    Streams,    \* clients of /__events
    Sessions,   \* which tabs and clients there are
    ChanCap,    \* capacity of a stream's channel (4 in the code)
    SockCap,    \* frames the connection holds before a write blocks
    MaxWrites   \* bound: how often docs/html is written

ASSUME ReloadConstantsOK ==
    /\ {ChanCap, SockCap} \subseteq Nat \ {0}
    /\ MaxWrites \in Nat
    /\ Tabs \cap Streams = {}
    /\ \A c \in Sessions : c \subseteq Tabs \cup Streams

VARIABLES
    html,     \* how often docs/html has been written, its ETag, whether
              \* writes may come within a second and leave the size alone,
              \* and whether the system reports that files are opened
    events,   \* file events the watcher has not received yet
    version,  \* the reload version
    senders,  \* the list behind the lock, in registration order
    watcher,  \* the watcher thread; it holds the lock when pc = "send"
    signals,  \* what is in the channel of each stream
    stream,   \* the handler thread of each stream
    client,   \* whether the client of each stream is connected
    sock,     \* the frames on each connection
    fresh,    \* whether each stream's client shows the current html
    tab       \* each tab: its script, the page it shows and the page's ETag

server == <<version, senders, watcher, signals, stream>>
reloadVars == <<html, events, server, client, sock, fresh, tab>>

None == -1

ReloadInit ==
    /\ html \in [n : {0}, tag : {0}, coarse : BOOLEAN, opens : BOOLEAN]
    /\ events = 0
    /\ version = 0
    /\ senders = <<>>
    /\ watcher = [pc |-> "recv", i |-> 1]
    /\ signals = [s \in Streams |-> 0]
    /\ stream = [s \in Streams |-> "none"]
    /\ sock = [s \in Streams |-> <<>>]
    /\ fresh = [s \in Streams |-> TRUE]
    /\ \E present \in Sessions :
          /\ html.coarse \/ html.opens => present # {} /\ present \subseteq Tabs
          /\ client = [s \in Streams |-> IF s \in present THEN "out" ELSE "gone"]
          /\ tab = [t \in Tabs |->
                [pc |-> IF t \in present THEN "open" ELSE "closed",
                 seen |-> None, got |-> None, shown |-> 0, tag |-> 0, new |-> 0]]

-----------------------------------------------------------------------------
(* docgen, outside of the server, writes docs/html; the kernel notices. *)

WriteHtml ==
    /\ html.n < MaxWrites
    /\ \E tag \in {html.tag + 1} \cup (IF html.coarse THEN {html.tag} ELSE {}) :
          html' = [html EXCEPT !.n = @ + 1, !.tag = tag]
    /\ events' = events + 1
    /\ fresh' = [s \in Streams |-> FALSE]
    /\ UNCHANGED <<server, client, sock, tab>>

-----------------------------------------------------------------------------
(* The watcher thread. *)

Receive ==
    /\ watcher.pc = "recv"
    /\ events > 0
    /\ events' = events - 1
    /\ version' = version + 1
    /\ watcher' = [watcher EXCEPT !.pc = "lock"]
    /\ UNCHANGED <<html, senders, signals, stream, client, sock, fresh, tab>>

Lock ==
    /\ watcher.pc = "lock"
    /\ watcher' = [pc |-> "send", i |-> 1]
    /\ UNCHANGED <<html, events, version, senders, signals, stream,
                   client, sock, fresh, tab>>

Sending == watcher.pc = "send" /\ watcher.i <= Len(senders)

(* The channel of the stream that retain is at was dropped. *)
SendFails ==
    /\ Sending
    /\ stream[senders[watcher.i]] = "dropped"
    /\ senders' = RemoveAt(senders, watcher.i)
    /\ UNCHANGED <<html, events, version, watcher, signals, stream,
                   client, sock, fresh, tab>>

(* A plausible slip: try_send in retain, a full channel is an error too. *)
SendOrForget ==
    /\ Sending
    /\ LET s == senders[watcher.i]
       IN  /\ stream[s] # "dropped"
           /\ IF signals[s] < ChanCap
              THEN /\ signals' = [signals EXCEPT ![s] = @ + 1]
                   /\ watcher' = [watcher EXCEPT !.i = @ + 1]
                   /\ UNCHANGED senders
              ELSE /\ senders' = RemoveAt(senders, watcher.i)
                   /\ UNCHANGED <<signals, watcher>>
    /\ UNCHANGED <<html, events, version, stream,
                   client, sock, fresh, tab>>

(* The send blocks while the channel is full. *)
Send ==
    /\ Sending
    /\ LET s == senders[watcher.i]
       IN  /\ stream[s] # "dropped"
           /\ signals[s] < ChanCap
           /\ signals' = [signals EXCEPT ![s] = @ + 1]
           /\ watcher' = [watcher EXCEPT !.i = @ + 1]
    /\ UNCHANGED <<html, events, version, senders, stream,
                   client, sock, fresh, tab>>

Unlock ==
    /\ watcher.pc = "send"
    /\ watcher.i > Len(senders)
    /\ watcher' = [pc |-> "recv", i |-> 1]
    /\ UNCHANGED <<html, events, version, senders, signals, stream,
                   client, sock, fresh, tab>>

-----------------------------------------------------------------------------
(* A stream: its client, and the handler thread that writes to it.         *)

Writing == {"hello", "frame"}

(* The client shows the current html and asks for the stream. *)
Connect(s) ==
    /\ client[s] = "out"
    /\ client' = [client EXCEPT ![s] = "in"]
    /\ fresh' = [fresh EXCEPT ![s] = TRUE]
    /\ stream' = [stream EXCEPT ![s] = "register"]
    /\ UNCHANGED <<html, events, version, senders, watcher, signals, sock, tab>>

Disconnect(s) ==
    /\ client[s] = "in"
    /\ client' = [client EXCEPT ![s] = "gone"]
    /\ UNCHANGED <<html, events, server, sock, fresh, tab>>

(* The handler puts the sender on the list; it starts with a comment.      *)
Register(s) ==
    /\ stream[s] = "register"
    /\ watcher.pc # "send"
    /\ senders' = Append(senders, s)
    /\ stream' = [stream EXCEPT ![s] = "hello"]
    /\ UNCHANGED <<html, events, version, watcher, signals,
                   client, sock, fresh, tab>>

TakeSignal(s) ==
    /\ stream[s] = "wait"
    /\ signals[s] > 0
    /\ signals' = [signals EXCEPT ![s] = @ - 1]
    /\ stream' = [stream EXCEPT ![s] = "frame"]
    /\ UNCHANGED <<html, events, version, senders, watcher,
                   client, sock, fresh, tab>>

(* The write to the connection blocks while the client does not read. *)
WriteFrame(s) ==
    /\ stream[s] \in Writing
    /\ Len(sock[s]) < SockCap
    /\ sock' = [sock EXCEPT ![s] = Append(@, stream[s])]
    /\ stream' = [stream EXCEPT ![s] = "wait"]
    /\ UNCHANGED <<html, events, version, senders, watcher, signals,
                   client, fresh, tab>>

(* A plausible slip: the failed write is tried again. *)
WriteRetried(s) ==
    /\ stream[s] \in Writing
    /\ client[s] = "gone"
    /\ UNCHANGED reloadVars

(* The response ends and with it the receiver of the channel is dropped. *)
StreamWriteFails(s) ==
    /\ stream[s] \in Writing
    /\ client[s] = "gone"
    /\ sock' = [sock EXCEPT ![s] = <<>>]
    /\ stream' = [stream EXCEPT ![s] = "dropped"]
    /\ UNCHANGED <<html, events, version, senders, watcher, signals,
                   client, fresh, tab>>

(* The client reads a frame and loads the html again if it says so. *)
ReadFrame(s) ==
    /\ client[s] = "in"
    /\ sock[s] # <<>>
    /\ sock' = [sock EXCEPT ![s] = Tail(@)]
    /\ fresh' = IF Head(sock[s]) = "frame" THEN [fresh EXCEPT ![s] = TRUE] ELSE fresh
    /\ UNCHANGED <<html, events, server, client, tab>>

-----------------------------------------------------------------------------
(* A tab: initLiveReload of scripts/serve-ui, one poll at a time.  The     *)
(* page has been loaded before the first write.                            *)

(* The handler of /__version reads the counter without the lock. *)
Poll(t) ==
    /\ tab[t].pc = "open"
    /\ tab' = [tab EXCEPT ![t] = [@ EXCEPT !.pc = "asked", !.got = version]]
    /\ UNCHANGED <<html, events, server, client, sock, fresh>>

(* The first answer only tells the script where it starts. *)
FirstAnswer(t) ==
    /\ tab[t].pc = "asked"
    /\ tab[t].seen = None
    /\ tab' = [tab EXCEPT ![t] = [@ EXCEPT !.pc = "open", !.seen = tab[t].got, !.got = None]]
    /\ UNCHANGED <<html, events, server, client, sock, fresh>>

(* A plausible slip: what was seen is updated, so the change is lost. *)
AnswerForgets(t) ==
    /\ tab[t].pc = "asked"
    /\ tab[t].seen # None
    /\ tab' = [tab EXCEPT ![t] = [@ EXCEPT !.pc = "open", !.seen = tab[t].got, !.got = None]]
    /\ UNCHANGED <<html, events, server, client, sock, fresh>>

(* A later answer that differs loads the page again, and its script.       *)
PollAnswer(t) ==
    /\ tab[t].pc = "asked"
    /\ tab[t].seen # None
    /\ tab' = [tab EXCEPT ![t] =
          IF @.got # @.seen THEN [@ EXCEPT !.pc = "load", !.seen = None, !.got = None]
          ELSE [@ EXCEPT !.pc = "open", !.got = None]]
    /\ UNCHANGED <<html, events, server, client, sock, fresh>>

(* serve_static: the request names the ETag of the page that the browser   *)
(* keeps; the file's is taken before the file is read.                     *)
NotModified(t) ==
    /\ tab[t].pc = "load"
    /\ tab[t].tag = html.tag
    /\ tab' = [tab EXCEPT ![t].pc = "open"]
    /\ UNCHANGED <<html, events, server, client, sock, fresh>>

TakeTag(t) ==
    /\ tab[t].pc = "load"
    /\ tab[t].tag # html.tag
    /\ tab' = [tab EXCEPT ![t].pc = "fetch", ![t].new = html.tag]
    /\ UNCHANGED <<html, events, server, client, sock, fresh>>

Fetch(t) ==
    /\ tab[t].pc = "fetch"
    /\ tab' = [tab EXCEPT ![t] = [@ EXCEPT !.pc = "open", !.shown = html.n,
                                             !.tag = tab[t].new, !.new = 0]]
    /\ events' = IF html.opens THEN events + 1 ELSE events
    /\ UNCHANGED <<html, server, client, sock, fresh>>

-----------------------------------------------------------------------------
ReloaderStep == Receive \/ Lock \/ SendFails \/ Send \/ Unlock

HandlerStep(s) == Register(s) \/ TakeSignal(s) \/ WriteFrame(s) \/ StreamWriteFails(s)

TabStep(t) ==
    Poll(t) \/ FirstAnswer(t) \/ PollAnswer(t) \/ NotModified(t) \/ TakeTag(t) \/ Fetch(t)

ReloadNext ==
    \/ WriteHtml
    \/ ReloaderStep
    \/ \E s \in Streams :
          HandlerStep(s) \/ Connect(s) \/ Disconnect(s) \/ ReadFrame(s)
    \/ \E t \in Tabs : TabStep(t)

(* The scheduler runs every thread that can go on, and a page polls every  *)
(* two seconds.  Nothing makes a client read what it is sent.              *)
ReloadFairness ==
    /\ WF_reloadVars(ReloaderStep)
    /\ \A s \in Streams : WF_reloadVars(HandlerStep(s))
    /\ \A t \in Tabs : WF_reloadVars(TabStep(t))

ReloadSpec == ReloadInit /\ [][ReloadNext]_reloadVars /\ ReloadFairness
-----------------------------------------------------------------------------
(* Properties. *)

(* A page whose script knows an older version than the server's comes to   *)
(* show the current html, whatever the streams do meanwhile: also when the *)
(* html changes while it is loaded, unless two writes get the same ETag.   *)
TabCatchesUp ==
    \A t \in Tabs : ~html.coarse /\ tab[t].seen \in 0..(version - 1) ~> tab[t].shown = html.n

(* A client is connected and does not read what has been sent to it.       *)
Unread(s) == client[s] = "in" /\ sock[s] # <<>>

(* Some client stays connected and from some time on reads no more.  Its   *)
(* handler then blocks in a write, its channel fills up, and the watcher   *)
(* blocks in a send with the lock: this is what keeps the others waiting.  *)
SomeoneStalls == \E s \in Streams : <>[]Unread(s)

(* A client whose stream was registered before a write loads the html      *)
(* again after that write, unless it left, or it or another one stalls.    *)
StreamCatchesUp ==
    \A s \in Streams :
        <>(stream[s] \in {"hello", "wait", "frame"} /\ fresh[s])
           => []<>(fresh[s] \/ client[s] = "gone") \/ SomeoneStalls

(* A client that asks for a stream gets it, even while others leave with   *)
(* signals still in their channels: only a client that stalls, and not one *)
(* that is gone, keeps it waiting for ever.                                *)
StreamStarts ==
    \A s \in Streams : []<>(stream[s] # "register") \/ SomeoneStalls
=============================================================================
