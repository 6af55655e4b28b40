------------------------------- MODULE Tangle -------------------------------
(***************************************************************************)
(* One `wb-tangle` pass, run_single_pass of weaveback-api, over literate   *)
(* sources, generated files and weaveback.db; several passes may run at    *)
(* the same time, and the user edits sources and generated files.          *)
(*                                                                         *)
(* A source is a set of chunks whose bodies carry a version; an edit keeps *)
(* the chunk structure (Refs) and the line count of a body.  The content   *)
(* of a generated file is what its `@file` chunk expands to: the versions  *)
(* of the chunks it reaches.  Formatting is part of that content.          *)
(***************************************************************************)
EXTENDS Naturals, Sequences, FiniteSets

CONSTANTS
    Runs,        \* concurrent tangle processes
    Chunks,      \* chunk names
    Refs,        \* [Chunks -> SUBSET Chunks]: the references in a body
    Drivers,     \* sequence of the literate sources, in reading order
    SrcOf,       \* [Chunks -> sources]
    FileChunks,  \* sequence of the `@file` chunks, in registration order
    TmpOf,       \* `@file` chunk |-> the temporary file atomic_copy uses for it
    MaxVersion,  \* bound: body versions are 0..MaxVersion
    CanRevert,   \* may an edit bring back an earlier version of a body?
    Edits,       \* contents only a hand edit of a generated file produces
    Absent,      \* no file, no temporary file
    Nil,         \* no row in the database
    Unhashed     \* a chunk with a row in chunk_defs but no block hash

Versions == 0..MaxVersion
Files == {FileChunks[i] : i \in DOMAIN FileChunks}
Sources == {Drivers[i] : i \in DOMAIN Drivers}
TmpNames == {TmpOf[f] : f \in Files}
Texts == [Chunks -> Versions]

(* The chunks an expansion of chunk c visits. *)
Reach(c) ==
    LET visited[n \in Nat] ==
            IF n = 0 THEN {c}
            ELSE visited[n - 1] \cup UNION {Refs[d] : d \in visited[n - 1]}
    IN  visited[Cardinality(Chunks)]

(* The content `@file` chunk f expands to when the bodies are as in t. *)
Expand(t, f) == [c \in Reach(f) |-> t[c]]

Contents == {Expand(t, f) : t \in Texts, f \in Files} \cup Edits

Edges == Chunks \X Chunks \X Sources

ASSUME ConstantsOK ==
    /\ Refs \in [Chunks -> SUBSET Chunks]
    /\ Drivers \in Seq(Sources)
    /\ SrcOf \in [Chunks -> Sources]
    /\ FileChunks \in Seq(Chunks)
    /\ FileChunks # <<>>
    /\ Drivers # <<>>
    /\ TmpOf \in [Files -> TmpNames]
    /\ MaxVersion \in Nat
    /\ CanRevert \in BOOLEAN

(* Contents and versions are none of the sentinels that stand for nothing, *)
(* and no hand edit happens to type in what a tangle would generate.       *)
ASSUME SentinelsOK ==
    /\ Absent \notin Contents
    /\ Nil \notin Contents
    /\ Nil \notin Versions
    /\ Unhashed \notin Versions \cup {Nil}
    /\ \A t \in Texts, f \in Files : Expand(t, f) \notin Edits

VARIABLES
    text,  \* the chunk bodies in the literate sources on disk
    gen,   \* the generated files on disk
    tmp,   \* the temporary files beside them
    db,    \* weaveback.db
    run    \* the local state of each process

vars == <<text, gen, tmp, db, run>>
-----------------------------------------------------------------------------
NoBase == [f \in Files |-> Nil]

(* The tables of weaveback.db that a pass reads back: gen_baselines, the   *)
(* block hashes (source_blocks, one block per chunk definition, with       *)
(* chunk_defs), chunk_deps and src_snapshots.  unread is no table: it      *)
(* records, for the properties, the sources the last merge had no snapshot *)
(* of.                                                                     *)
EmptyDb ==
    [base |-> NoBase, blocks |-> [c \in Chunks |-> Nil], deps |-> {},
     snap |-> [c \in Chunks |-> Nil], unread |-> {}]

(* A process: where it is, its options, the text it read, the skip set,    *)
(* the file it is at (k), what its check of that file saw, and the tables  *)
(* of its own in-memory database, which starts empty.                      *)
IdleRun ==
    [pc |-> "idle", force |-> FALSE, text |-> [c \in Chunks |-> 0], rd |-> 1,
     skip |-> {}, k |-> 1, seen |-> Absent, err |-> "none", base |-> NoBase,
     deps |-> {}, snap |-> [c \in Chunks |-> Nil]]

Init ==
    /\ text = [c \in Chunks |-> 0]
    /\ gen = [f \in Files |-> Absent]
    /\ tmp = [n \in TmpNames |-> Absent]
    /\ db = EmptyDb
    /\ run = [p \in Runs |-> IdleRun]

Ended == {"idle", "ok", "failed"}

(* The file process p is at, and what p would write to it. *)
At(p) == FileChunks[run[p].k]
Generated(p) == Expand(run[p].text, At(p))

Goto(p, pc) == run' = [run EXCEPT ![p] = [@ EXCEPT !.pc = pc]]

(* A process that ended: only what the properties read is kept, the file   *)
(* it failed at or the text that it had tangled.                           *)
FailedRun(p, err) ==
    [IdleRun EXCEPT !.pc = "failed", !.err = err, !.k = run[p].k]

EndedRun(p) == [IdleRun EXCEPT !.pc = "ok", !.text = run[p].text]

Fail(p, err) == run' = [run EXCEPT ![p] = FailedRun(p, err)]
-----------------------------------------------------------------------------
(* The user. *)

EditSource(c) ==
    /\ \E v \in Versions :
          /\ v # text[c]
          /\ CanRevert \/ v > text[c]
          /\ text' = [text EXCEPT ![c] = v]
    /\ UNCHANGED <<gen, tmp, db, run>>

EditGenerated(f) ==
    /\ gen[f] # Absent
    /\ \E e \in Edits : gen' = [gen EXCEPT ![f] = e]
    /\ UNCHANGED <<text, tmp, db, run>>

DeleteGenerated(f) ==
    /\ gen[f] # Absent
    /\ gen' = [gen EXCEPT ![f] = Absent]
    /\ UNCHANGED <<text, tmp, db, run>>
-----------------------------------------------------------------------------
(* The process. *)

Start(p, force) ==
    /\ run[p].pc \in Ended
    /\ run' = [run EXCEPT ![p] = [IdleRun EXCEPT !.pc = "read", !.force = force]]
    /\ UNCHANGED <<text, gen, tmp, db>>

(* What the process holds once the driver it is at has been read. *)
TextAfter(r) ==
    [c \in Chunks |-> IF SrcOf[c] = Drivers[r.rd] THEN text[c] ELSE r.text[c]]

(* A plausible slip: the end of the drivers is noticed one too late. *)
ReadDriverOnceMore(p) ==
    /\ run[p].pc = "read"
    /\ run' = [run EXCEPT ![p] = [@ EXCEPT
          !.text = TextAfter(run[p]),
          !.rd = run[p].rd + 1,
          !.pc = IF run[p].rd > Len(Drivers) THEN "skip" ELSE "read"]]
    /\ UNCHANGED <<text, gen, tmp, db>>

(* The drivers are read one after the other. *)
ReadDriver(p) ==
    /\ run[p].pc = "read"
    /\ run' = [run EXCEPT ![p] = [@ EXCEPT
          !.text = TextAfter(run[p]),
          !.rd = run[p].rd + 1,
          !.pc = IF run[p].rd = Len(Drivers) THEN "skip" ELSE "read"]]
    /\ UNCHANGED <<text, gen, tmp, db>>

(* A source is missing, or its macros do not evaluate. *)
ReadFails(p) ==
    /\ run[p].pc = "read"
    /\ Fail(p, "Io")
    /\ UNCHANGED <<text, gen, tmp, db>>

(* --dry-run and --macro-only return before anything is written. *)
ListOnly(p) ==
    /\ run[p].pc = "skip"
    /\ Goto(p, "idle")
    /\ UNCHANGED <<text, gen, tmp, db>>

(* Everything in D and everything that depends on it through edges E. *)
ReverseClosure(D, E) ==
    LET dirty[n \in Nat] ==
            IF n = 0 THEN D
            ELSE dirty[n - 1] \cup {e[1] : e \in {x \in E : x[2] \in dirty[n - 1]}}
    IN  dirty[Cardinality(Chunks)]

(* A plausible slip: what depends on a changed chunk is not dirty. *)
DirtyWithoutDeps(t) == {c \in Chunks : db.blocks[c] # Nil /\ db.blocks[c] # t[c]}

(* Only a block whose chunk the database already knows can dirty anything. *)
Dirty(t) ==
    ReverseClosure({c \in Chunks : db.blocks[c] # Nil /\ db.blocks[c] # t[c]},
                   db.deps)

SkipSet(t) ==
    {f \in Files : /\ db.blocks[f] # Nil
                   /\ f \notin Dirty(t)
                   /\ db.base[f] # Nil
                   /\ gen[f] # Absent}

ComputeSkipSet(p) ==
    /\ run[p].pc = "skip"
    /\ run' = [run EXCEPT ![p] = [@ EXCEPT
          !.skip = IF run[p].force THEN {} ELSE SkipSet(run[p].text),
          !.pc = "check"]]
    /\ UNCHANGED <<text, gen, tmp, db>>

(* A plausible slip: each `@file` chunk drops the edges of all others. *)
AddDepsReplaceAll(old, new) == new

(* set_chunk_deps, called once per `@file` chunk: it first deletes every   *)
(* edge of every source that the new edges come from.                      *)
AddDeps(old, new) ==
    {e \in old : e[3] \notin {x[3] : x \in new}} \cup new

ExpansionDeps(f) == {e \in Edges : e[1] \in Reach(f) /\ e[2] \in Refs[e[1]]
                                   /\ e[3] = SrcOf[e[1]]}

LastFile(p) == run[p].k = Len(FileChunks)

(* The end of the loop body of write_files_incremental. *)
NextFile(p, base) ==
    run' = [run EXCEPT ![p] = [@ EXCEPT
       !.base = base,
       !.deps = AddDeps(run[p].deps, ExpansionDeps(At(p))),
       !.seen = Absent,
       !.k = IF LastFile(p) THEN run[p].k ELSE run[p].k + 1,
       !.pc = IF LastFile(p) THEN "snapshot" ELSE "check"]]

Recorded(p) == [run[p].base EXCEPT ![At(p)] = Generated(p)]

(* A skipped chunk is expanded like any other; only the write is left out. *)
SkipFile(p) ==
    /\ run[p].pc = "check"
    /\ At(p) \in run[p].skip
    /\ NextFile(p, run[p].base)
    /\ UNCHANGED <<text, gen, tmp, db>>

(* A plausible slip: with no baseline, any content on disk is accepted. *)
ReferenceFreshDb(p) ==
    IF run[p].base[At(p)] # Nil THEN run[p].base[At(p)] ELSE gen[At(p)]

(* What the file on disk is compared with: the baseline in the writer's    *)
(* own database or, when it has none, the content about to be written.     *)
Reference(p) ==
    IF run[p].base[At(p)] # Nil THEN run[p].base[At(p)] ELSE Generated(p)

CheckFile(p) ==
    /\ run[p].pc = "check"
    /\ At(p) \notin run[p].skip
    /\ \/ /\ gen[At(p)] = Absent \/ run[p].force \/ gen[At(p)] = Reference(p)
          /\ run' = [run EXCEPT ![p] = [@ EXCEPT !.pc = "copy",
                                                !.seen = gen[At(p)]]]
       \/ /\ gen[At(p)] # Absent
          /\ ~run[p].force
          /\ gen[At(p)] # Reference(p)
          /\ Fail(p, "ModifiedExternally")
    /\ UNCHANGED <<text, gen, tmp, db>>

(* The expansion or the formatter fails: earlier files stay written. *)
FailFile(p) ==
    /\ run[p].pc = "check"
    /\ Fail(p, "Write")
    /\ UNCHANGED <<text, gen, tmp, db>>

(* atomic_copy up to its rename, or nothing when copy_if_different finds   *)
(* the content already there.                                              *)
CopyFile(p) ==
    /\ run[p].pc = "copy"
    /\ \/ /\ ~run[p].force
          /\ gen[At(p)] = Generated(p)
          /\ NextFile(p, Recorded(p))
          /\ UNCHANGED tmp
       \/ /\ run[p].force \/ gen[At(p)] # Generated(p)
          /\ tmp' = [tmp EXCEPT ![TmpOf[At(p)]] = Generated(p)]
          /\ Goto(p, "rename")
    /\ UNCHANGED <<text, gen, db>>

(* Whatever the temporary file holds now becomes the generated file.       *)
RenameFile(p) ==
    /\ run[p].pc = "rename"
    /\ tmp[TmpOf[At(p)]] # Absent
    /\ gen' = [gen EXCEPT ![At(p)] = tmp[TmpOf[At(p)]]]
    /\ tmp' = [tmp EXCEPT ![TmpOf[At(p)]] = Absent]
    /\ NextFile(p, Recorded(p))
    /\ UNCHANGED <<text, db>>

(* Another process renamed the temporary file away. *)
RenameFails(p) ==
    /\ run[p].pc = "rename"
    /\ tmp[TmpOf[At(p)]] = Absent
    /\ Fail(p, "Io")
    /\ UNCHANGED <<text, gen, tmp, db>>

(* The sources as they are now, those in unread left out. *)
TextWithout(unread) ==
    [c \in Chunks |-> IF SrcOf[c] \in unread THEN Nil ELSE text[c]]

(* The snapshots are read from the sources again, after the writes.  A     *)
(* source that cannot be read then (an editor is just replacing it) is     *)
(* passed over without a word, and the pass goes on.                       *)
Snapshot(p) ==
    /\ run[p].pc = "snapshot"
    /\ \E unread \in SUBSET Sources :
          run' = [run EXCEPT ![p] = [@ EXCEPT !.pc = "merge",
                                             !.snap = TextWithout(unread)]]
    /\ UNCHANGED <<text, gen, tmp, db>>

(* The sources a merge has no snapshot of. *)
Unread(r) == {SrcOf[c] : c \in {d \in Chunks : r.snap[d] = Nil}}

(* With --force-generated no block hashes are computed, and those of the   *)
(* sources with a snapshot are deleted: in the next pass all in them has   *)
(* changed.  Of the other sources the hashes of earlier passes stay.       *)
BlocksOf(r) ==
    IF r.force
    THEN [c \in Chunks |-> IF r.snap[c] = Nil /\ db.blocks[c] # Nil
                           THEN db.blocks[c] ELSE Unhashed]
    ELSE r.text

(* The edges of sources with a snapshot are deleted before the new ones    *)
(* are inserted.                                                           *)
DepsOf(r) == {e \in db.deps : e[3] \notin Sources \ Unread(r)} \cup r.deps

(* A plausible slip: an existing snapshot is not replaced. *)
MergedDbKeepsSnapshots(r) ==
    [base |-> [f \in Files |-> IF r.base[f] # Nil THEN r.base[f] ELSE db.base[f]],
     blocks |-> BlocksOf(r),
     deps |-> DepsOf(r),
     snap |-> [c \in Chunks |-> IF db.snap[c] # Nil THEN db.snap[c] ELSE r.snap[c]],
     unread |-> Unread(r)]

(* merge_into: one transaction; rows of the sources with a snapshot are    *)
(* replaced, baselines of files this process did not write are kept.       *)
MergedDb(r) ==
    [base |-> [f \in Files |-> IF r.base[f] # Nil THEN r.base[f] ELSE db.base[f]],
     blocks |-> BlocksOf(r),
     deps |-> DepsOf(r),
     snap |-> [c \in Chunks |-> IF r.snap[c] # Nil THEN r.snap[c] ELSE db.snap[c]],
     unread |-> Unread(r)]

Merge(p) ==
    /\ run[p].pc = "merge"
    /\ db' = MergedDb(run[p])
    /\ run' = [run EXCEPT ![p] = EndedRun(p)]
    /\ UNCHANGED <<text, gen, tmp>>

(* Another connection holds the write lock beyond the busy timeout. *)
MergeBusy(p) ==
    /\ run[p].pc = "merge"
    /\ Fail(p, "Db")
    /\ UNCHANGED <<text, gen, tmp, db>>

(* The process is killed: nothing it holds in memory survives. *)
Crash(p) ==
    /\ run[p].pc \notin Ended
    /\ run' = [run EXCEPT ![p] = [IdleRun EXCEPT !.pc = "failed", !.err = "Killed"]]
    /\ UNCHANGED <<text, gen, tmp, db>>

Step(p) ==
    \/ \E force \in BOOLEAN : Start(p, force)
    \/ ReadDriver(p)
    \/ ReadFails(p)
    \/ ListOnly(p)
    \/ ComputeSkipSet(p)
    \/ SkipFile(p)
    \/ CheckFile(p)
    \/ FailFile(p)
    \/ CopyFile(p)
    \/ RenameFile(p)
    \/ RenameFails(p)
    \/ Snapshot(p)
    \/ Merge(p)
    \/ MergeBusy(p)
    \/ Crash(p)

Next ==
    \/ \E p \in Runs : Step(p)
    \/ \E c \in Chunks : EditSource(c)
    \/ \E f \in Files : EditGenerated(f) \/ DeleteGenerated(f)

Spec == Init /\ [][Next]_vars
-----------------------------------------------------------------------------
(* Properties. *)

Bases == [Files -> Contents \cup {Nil}]
MaybeText == [Chunks -> Versions \cup {Nil}]
MaybeHash == [Chunks -> Versions \cup {Nil, Unhashed}]

RunStates ==
    [pc : {"idle", "read", "skip", "check", "copy", "rename", "snapshot",
           "merge", "ok", "failed"},
     force : BOOLEAN, text : Texts, rd : 1..(Len(Drivers) + 1),
     skip : SUBSET Files, k : DOMAIN FileChunks,
     seen : Contents \cup {Absent},
     err : {"none", "ModifiedExternally", "Write", "Io", "Db", "Killed"},
     base : Bases, deps : SUBSET Edges, snap : MaybeText]

(* Every variable keeps its type; a process that is still reading has a    *)
(* driver left to read.                                                    *)
TypeOK ==
    /\ text \in Texts
    /\ gen \in [Files -> Contents \cup {Absent}]
    /\ tmp \in [TmpNames -> Contents \cup {Absent}]
    /\ db \in [base : Bases, blocks : MaybeHash, deps : SUBSET Edges,
               snap : MaybeText, unread : SUBSET Sources]
    /\ run \in [Runs -> RunStates]
    /\ \A p \in Runs : run[p].pc = "read" => run[p].rd \in DOMAIN Drivers

(* When a pass reports success, every generated file holds what the        *)
(* sources it read expand to, whether it wrote the file or skipped it;     *)
(* the one exception is a file the user edited or deleted by hand.         *)
SuccessMeansFresh ==
    \A p \in Runs : run[p].pc = "ok" =>
        \A f \in Files :
            gen[f] \in {Expand(run[p].text, f), Absent} \cup Edits

(* The baseline of a file is never older than the hashes that the next     *)
(* pass compares its chunks with, although a pass merges baselines only    *)
(* for the files it wrote and hashes for every block: else a file whose    *)
(* hashes all agree with the sources would be skipped with old content.    *)
BaselineNotOlder ==
    \A f \in Files : db.base[f] # Nil =>
        \A c \in Reach(f) :
            db.blocks[c] \in Versions => db.blocks[c] <= db.base[f][c]

(* A hand edit that a process without --force-generated could see when it  *)
(* checked the file is never replaced by that process, whatever the others *)
(* and the user do between the check and the rename.                       *)
HandEditKept ==
    [][\A p \in Runs :
          (/\ ~run[p].force
           /\ run'[p] # run[p]
           /\ gen[At(p)] \in Edits
           /\ gen'[At(p)] # gen[At(p)])
          => run[p].seen # gen[At(p)]]_vars

(* Unless a pass could not read a source back, its recorded snapshot is    *)
(* never older than the text whose hashes are recorded: the snapshot is    *)
(* read after the driver, and the tables of two passes are never mixed.    *)
(* (It may be newer, by an edit during the pass.)                          *)
SnapshotNotOlder ==
    \A c \in Chunks :
        db.blocks[c] \in Versions /\ SrcOf[c] \notin db.unread =>
            db.snap[c] # Nil /\ db.snap[c] >= db.blocks[c]

(* docs/architecture.md: a file unchanged since the last run is            *)
(* overwritten as usual; ModifiedExternally is for a file that no longer   *)
(* matches its stored baseline.                                            *)
OnlyEditedFilesAreRefused ==
    \A p \in Runs : run[p].err = "ModifiedExternally" =>
        gen[At(p)] # db.base[At(p)]
=============================================================================
