---------------------------- MODULE TangleProofs ----------------------------
(***************************************************************************)
(* Proofs about Tangle, for every set of processes, every chunk structure  *)
(* and every bound on the versions.                                        *)
(***************************************************************************)
EXTENDS Tangle, IterationProofs

-----------------------------------------------------------------------------
(* Facts about the operators. *)

(* A file a process is at is one of the generated files. *)
LEMMA AtIsFile ==
    ASSUME TypeOK, NEW p \in Runs
    PROVE  At(p) \in Files
BY DEF TypeOK, RunStates, At, Files

LEMMA FilesAreChunks == Files \subseteq Chunks
BY ConstantsOK DEF Files

(* What an expansion yields is a content, and not one of a hand edit. *)
LEMMA ExpandIsGenerated ==
    ASSUME NEW t \in Texts, NEW f \in Files
    PROVE  /\ Expand(t, f) \in Contents
           /\ Expand(t, f) \notin Edits
           /\ Expand(t, f) # Nil
           /\ Expand(t, f) # Absent
<1>1. Expand(t, f) \in Contents
  BY DEF Contents
<1>2. QED
  BY <1>1, SentinelsOK

LEMMA GeneratedIsContent ==
    ASSUME TypeOK, NEW p \in Runs
    PROVE  Generated(p) \in Contents
<1>1. run[p].text \in Texts
  BY DEF TypeOK, RunStates
<1>2. QED
  BY <1>1, AtIsFile, ExpandIsGenerated DEF Generated

(* Recording the edges of an expansion keeps a set of edges. *)
LEMMA AddDepsType ==
    ASSUME NEW old \in SUBSET Edges, NEW f \in Files
    PROVE  AddDeps(old, ExpansionDeps(f)) \in SUBSET Edges
BY DEF AddDeps, ExpansionDeps

LEMMA FirstFile == 1 \in DOMAIN FileChunks /\ 1 \in DOMAIN Drivers
BY ConstantsOK

(* An idle process state is a process state. *)
LEMMA IdleRunType == IdleRun \in RunStates
<1>1. [c \in Chunks |-> 0] \in Texts
  BY ConstantsOK DEF Texts, Versions
<1>2. NoBase \in Bases
  BY DEF NoBase, Bases
<1>3. [c \in Chunks |-> Nil] \in MaybeText
  BY DEF MaybeText
<1>4. 1 \in 1..(Len(Drivers) + 1)
  BY ConstantsOK
<1>5. QED
  BY <1>1, <1>2, <1>3, <1>4, FirstFile DEF IdleRun, RunStates

(* What is left of a process that ended. *)
LEMMA FailedFields ==
    ASSUME NEW p \in Runs, NEW err
    PROVE  /\ FailedRun(p, err).pc = "failed"
           /\ FailedRun(p, err).text = IdleRun.text
           /\ FailedRun(p, err).base = NoBase
BY DEF FailedRun, IdleRun

LEMMA EndedFields ==
    ASSUME NEW p \in Runs
    PROVE  /\ EndedRun(p).pc = "ok"
           /\ EndedRun(p).text = run[p].text
           /\ EndedRun(p).base = NoBase
BY DEF EndedRun, IdleRun

(* Replacing the state of one process by a process state keeps the type. *)
LEMMA RunUpdate ==
    ASSUME TypeOK, NEW p \in Runs, NEW r \in RunStates,
           run' = [run EXCEPT ![p] = r],
           r.pc = "read" => r.rd \in DOMAIN Drivers
    PROVE  /\ run' \in [Runs -> RunStates]
           /\ \A q \in Runs : run'[q].pc = "read" => run'[q].rd \in DOMAIN Drivers
BY DEF TypeOK
-----------------------------------------------------------------------------
(* Type correctness. *)

LEMMA InitType == Init => TypeOK
<1>1. [c \in Chunks |-> 0] \in Texts
  BY ConstantsOK DEF Texts, Versions
<1>2. EmptyDb \in [base : Bases, blocks : MaybeHash, deps : SUBSET Edges,
                   snap : MaybeText, unread : SUBSET Sources]
  BY DEF EmptyDb, NoBase, Bases, MaybeText, MaybeHash
<1>3. IdleRun.pc = "idle"
  BY DEF IdleRun
<1>4. QED
  BY <1>1, <1>2, <1>3, IdleRunType DEF Init, TypeOK

(* The end of the loop body: the process goes to its next file. *)
LEMMA NextFileType ==
    ASSUME TypeOK, NEW p \in Runs, NEW base \in Bases, NextFile(p, base)
    PROVE  /\ run' \in [Runs -> RunStates]
           /\ \A q \in Runs : run'[q].pc = "read" => run'[q].rd \in DOMAIN Drivers
<1> DEFINE r == [run[p] EXCEPT
                   !.base = base,
                   !.deps = AddDeps(run[p].deps, ExpansionDeps(At(p))),
                   !.seen = Absent,
                   !.k = IF LastFile(p) THEN run[p].k ELSE run[p].k + 1,
                   !.pc = IF LastFile(p) THEN "snapshot" ELSE "check"]
<1>1. AddDeps(run[p].deps, ExpansionDeps(At(p))) \in SUBSET Edges
  <2>1. run[p].deps \in SUBSET Edges
    BY DEF TypeOK, RunStates
  <2>2. QED
    BY <2>1, AtIsFile, AddDepsType
<1>2. (IF LastFile(p) THEN run[p].k ELSE run[p].k + 1) \in DOMAIN FileChunks
  BY ConstantsOK DEF TypeOK, RunStates, LastFile
<1>3. r \in RunStates /\ r.pc # "read"
  <2>1. run[p] \in RunStates
    BY DEF TypeOK
  <2> HIDE DEF Bases
  <2>2. QED
    BY <2>1, <1>1, <1>2 DEF RunStates
<1>5. run' = [run EXCEPT ![p] = r]
  BY DEF NextFile
<1> HIDE DEF r
<1>6. QED
  BY <1>3, <1>5, RunUpdate

LEMMA RecordedType ==
    ASSUME TypeOK, NEW p \in Runs
    PROVE  Recorded(p) \in Bases /\ run[p].base \in Bases
<1>1. run[p].base \in Bases
  BY DEF TypeOK, RunStates
<1>2. QED
  BY <1>1, GeneratedIsContent DEF Recorded, Bases

LEMMA GotoType ==
    ASSUME TypeOK, NEW p \in Runs,
           NEW pc \in {"idle", "rename", "ok"}, Goto(p, pc)
    PROVE  /\ run' \in [Runs -> RunStates]
           /\ \A q \in Runs : run'[q].pc = "read" => run'[q].rd \in DOMAIN Drivers
<1>1. [run[p] EXCEPT !.pc = pc] \in RunStates
  BY DEF TypeOK, RunStates
<1>2. [run[p] EXCEPT !.pc = pc].pc # "read"
  BY DEF TypeOK, RunStates
<1>3. QED
  BY <1>1, <1>2, RunUpdate DEF Goto

LEMMA FailType ==
    ASSUME TypeOK, NEW p \in Runs,
           NEW err \in {"ModifiedExternally", "Write", "Io", "Db"}, Fail(p, err)
    PROVE  /\ run' \in [Runs -> RunStates]
           /\ \A q \in Runs : run'[q].pc = "read" => run'[q].rd \in DOMAIN Drivers
<1> DEFINE r == FailedRun(p, err)
<1>1. r \in RunStates /\ r.pc = "failed"
  BY IdleRunType DEF RunStates, TypeOK, FailedRun
<1>2. run' = [run EXCEPT ![p] = r]
  BY DEF Fail
<1> HIDE DEF r
<1>3. QED
  BY <1>1, <1>2, RunUpdate

(* Steps that change only the state of process p, and what it becomes. *)
LEMMA LocalStepType ==
    ASSUME TypeOK, NEW p \in Runs,
           \/ \E force \in BOOLEAN : Start(p, force)
           \/ ReadDriver(p) \/ ComputeSkipSet(p) \/ CheckFile(p)
           \/ Snapshot(p) \/ Crash(p)
    PROVE  /\ run' \in [Runs -> RunStates]
           /\ \A q \in Runs : run'[q].pc = "read" => run'[q].rd \in DOMAIN Drivers
<1>0. run[p] \in RunStates
  BY DEF TypeOK
<1>1. ASSUME NEW force \in BOOLEAN, Start(p, force)
      PROVE  /\ run' \in [Runs -> RunStates]
             /\ \A q \in Runs : run'[q].pc = "read" => run'[q].rd \in DOMAIN Drivers
  <2> DEFINE r == [IdleRun EXCEPT !.pc = "read", !.force = force]
  <2>1. r \in RunStates
    BY IdleRunType DEF RunStates
  <2>2. r.rd = 1
    BY IdleRunType DEF RunStates, IdleRun
  <2>3. QED
    BY <1>1, <2>1, <2>2, FirstFile, RunUpdate DEF Start
<1>2. CASE ReadDriver(p)
  <2> DEFINE r == [run[p] EXCEPT
                     !.text = TextAfter(run[p]),
                     !.rd = run[p].rd + 1,
                     !.pc = IF run[p].rd = Len(Drivers) THEN "skip" ELSE "read"]
  <2>1. TextAfter(run[p]) \in Texts
    BY <1>0 DEF TextAfter, TypeOK, Texts, RunStates
  <2>2. run[p].rd \in DOMAIN Drivers
    BY <1>2 DEF ReadDriver, TypeOK
  <2>3. run[p].rd + 1 \in 1..(Len(Drivers) + 1)
    BY <2>2, ConstantsOK
  <2>4. r \in RunStates
    BY <1>0, <2>1, <2>3 DEF RunStates
  <2>5. r.pc = "read" => r.rd \in DOMAIN Drivers
    <3>1. r.pc = (IF run[p].rd = Len(Drivers) THEN "skip" ELSE "read")
          /\ r.rd = run[p].rd + 1
      BY <1>0 DEF RunStates
    <3>2. QED
      BY <3>1, <2>2, ConstantsOK
  <2>6. run' = [run EXCEPT ![p] = r]
    BY <1>2 DEF ReadDriver
  <2> HIDE DEF r
  <2>7. QED
    BY <2>4, <2>5, <2>6, RunUpdate
<1>3. CASE ComputeSkipSet(p)
  <2> DEFINE S == IF run[p].force THEN {} ELSE SkipSet(run[p].text)
             r == [run[p] EXCEPT !.skip = S, !.pc = "check"]
  <2>1. S \in SUBSET Files
    BY DEF SkipSet
  <2>2. run' = [run EXCEPT ![p] = r]
    BY <1>3 DEF ComputeSkipSet
  <2> HIDE DEF S
  <2>3. r \in RunStates /\ r.pc = "check"
    BY <1>0, <2>1 DEF RunStates
  <2> HIDE DEF r
  <2>4. QED
    BY <2>2, <2>3, RunUpdate
<1>4. CASE CheckFile(p)
  <2>1. CASE run' = [run EXCEPT ![p] = [@ EXCEPT !.pc = "copy", !.seen = gen[At(p)]]]
    <3> DEFINE r == [run[p] EXCEPT !.pc = "copy", !.seen = gen[At(p)]]
    <3>1. gen[At(p)] \in Contents \cup {Absent}
      BY AtIsFile DEF TypeOK
    <3>2. r \in RunStates /\ r.pc = "copy"
      BY <1>0, <3>1 DEF RunStates
    <3>3. run' = [run EXCEPT ![p] = r]
      BY <2>1
    <3> HIDE DEF r
    <3>4. QED
      BY <3>2, <3>3, RunUpdate
  <2>2. CASE Fail(p, "ModifiedExternally")
    BY <2>2, FailType
  <2>3. QED
    BY <1>4, <2>1, <2>2 DEF CheckFile
<1>5. CASE Snapshot(p)
  <2>0. PICK unread \in SUBSET Sources :
           run' = [run EXCEPT ![p] = [@ EXCEPT !.pc = "merge", !.snap = TextWithout(unread)]]
    BY <1>5 DEF Snapshot
  <2> DEFINE r == [run[p] EXCEPT !.pc = "merge", !.snap = TextWithout(unread)]
  <2>1. TextWithout(unread) \in MaybeText
    BY DEF TypeOK, Texts, MaybeText, TextWithout
  <2>2. r \in RunStates /\ r.pc = "merge"
    BY <1>0, <2>1 DEF RunStates
  <2>3. run' = [run EXCEPT ![p] = r]
    BY <2>0
  <2> HIDE DEF r
  <2>4. QED
    BY <2>2, <2>3, RunUpdate
<1>6. CASE Crash(p)
  <2> DEFINE r == [IdleRun EXCEPT !.pc = "failed", !.err = "Killed"]
  <2>1. r \in RunStates /\ r.pc = "failed"
    BY IdleRunType DEF RunStates
  <2>2. run' = [run EXCEPT ![p] = r]
    BY <1>6 DEF Crash
  <2> HIDE DEF r
  <2>3. QED
    BY <2>1, <2>2, RunUpdate
<1>7. QED
  BY <1>1, <1>2, <1>3, <1>4, <1>5, <1>6

(* The tables after a merge are tables. *)
LEMMA MergedDbType ==
    ASSUME TypeOK, NEW r \in RunStates
    PROVE  MergedDb(r) \in [base : Bases, blocks : MaybeHash,
                            deps : SUBSET Edges, snap : MaybeText,
                            unread : SUBSET Sources]
<1>1. db \in [base : Bases, blocks : MaybeHash, deps : SUBSET Edges,
              snap : MaybeText, unread : SUBSET Sources]
  BY DEF TypeOK
<1>2. [f \in Files |-> IF r.base[f] # Nil THEN r.base[f] ELSE db.base[f]] \in Bases
  BY <1>1 DEF RunStates, Bases
<1>3. BlocksOf(r) \in MaybeHash
  <2>1. db.blocks \in MaybeHash /\ r.text \in Texts
    BY <1>1 DEF RunStates
  <2> QED
    BY <2>1 DEF BlocksOf, Texts, MaybeHash
<1>4. DepsOf(r) \in SUBSET Edges
  BY <1>1 DEF RunStates, DepsOf
<1>5. [c \in Chunks |-> IF r.snap[c] # Nil THEN r.snap[c] ELSE db.snap[c]] \in MaybeText
  BY <1>1 DEF RunStates, MaybeText
<1>6. Unread(r) \in SUBSET Sources
  BY ConstantsOK DEF Unread
<1>7. QED
  BY <1>2, <1>3, <1>4, <1>5, <1>6 DEF MergedDb

(* Every step keeps every variable in its type. *)
LEMMA NextType == TypeOK /\ [Next]_vars => TypeOK'
<1> SUFFICES ASSUME TypeOK, [Next]_vars
             PROVE  TypeOK'
  OBVIOUS
<1> DEFINE RunOK == /\ run' \in [Runs -> RunStates]
                    /\ \A q \in Runs :
                          run'[q].pc = "read" => run'[q].rd \in DOMAIN Drivers
<1>1. ASSUME NEW p \in Runs,
             \/ \E force \in BOOLEAN : Start(p, force)
             \/ ReadDriver(p) \/ ComputeSkipSet(p) \/ CheckFile(p)
             \/ Snapshot(p) \/ Crash(p)
      PROVE  TypeOK'
  <2>1. RunOK
    BY <1>1, LocalStepType
  <2>2. UNCHANGED <<text, gen, tmp, db>>
    BY <1>1 DEF Start, ReadDriver, ComputeSkipSet, CheckFile, Snapshot, Crash
  <2>3. QED
    BY <2>1, <2>2 DEF TypeOK
<1>2. ASSUME NEW p \in Runs,
             ReadFails(p) \/ FailFile(p) \/ RenameFails(p) \/ MergeBusy(p)
      PROVE  TypeOK'
  <2>1. RunOK
    BY <1>2, FailType DEF ReadFails, FailFile, RenameFails, MergeBusy
  <2>2. UNCHANGED <<text, gen, tmp, db>>
    BY <1>2 DEF ReadFails, FailFile, RenameFails, MergeBusy
  <2>3. QED
    BY <2>1, <2>2 DEF TypeOK
<1>3. ASSUME NEW p \in Runs, ListOnly(p) \/ SkipFile(p)
      PROVE  TypeOK'
  <2>1. RunOK
    BY <1>3, GotoType, NextFileType, RecordedType DEF ListOnly, SkipFile
  <2>2. UNCHANGED <<text, gen, tmp, db>>
    BY <1>3 DEF ListOnly, SkipFile
  <2>3. QED
    BY <2>1, <2>2 DEF TypeOK
<1>4. ASSUME NEW p \in Runs, CopyFile(p)
      PROVE  TypeOK'
  <2>1. RunOK
    BY <1>4, GotoType, NextFileType, RecordedType DEF CopyFile
  <2>2. UNCHANGED <<text, gen, db>>
    BY <1>4 DEF CopyFile
  <2>3. tmp' \in [TmpNames -> Contents \cup {Absent}]
    BY <1>4, GeneratedIsContent DEF CopyFile, TypeOK
  <2>4. QED
    BY <2>1, <2>2, <2>3 DEF TypeOK
<1>5. ASSUME NEW p \in Runs, RenameFile(p)
      PROVE  TypeOK'
  <2>1. RunOK
    BY <1>5, NextFileType, RecordedType DEF RenameFile
  <2>2. TmpOf[At(p)] \in TmpNames
    BY AtIsFile DEF TmpNames
  <2>3. /\ tmp' \in [TmpNames -> Contents \cup {Absent}]
        /\ gen' \in [Files -> Contents \cup {Absent}]
    BY <1>5, <2>2 DEF RenameFile, TypeOK
  <2>4. UNCHANGED <<text, db>>
    BY <1>5 DEF RenameFile
  <2>5. QED
    BY <2>1, <2>3, <2>4 DEF TypeOK
<1>6. ASSUME NEW p \in Runs, Merge(p)
      PROVE  TypeOK'
  <2>1. RunOK
    <3> DEFINE r == EndedRun(p)
    <3>1. r \in RunStates /\ r.pc = "ok"
      BY IdleRunType DEF RunStates, TypeOK, EndedRun
    <3>2. run' = [run EXCEPT ![p] = r]
      BY <1>6 DEF Merge
    <3> HIDE DEF r
    <3> QED
      BY <3>1, <3>2, RunUpdate
  <2>2. run[p] \in RunStates
    BY DEF TypeOK
  <2>3. db' \in [base : Bases, blocks : MaybeHash, deps : SUBSET Edges,
                 snap : MaybeText, unread : SUBSET Sources]
    BY <1>6, <2>2, MergedDbType DEF Merge
  <2>4. UNCHANGED <<text, gen, tmp>>
    BY <1>6 DEF Merge
  <2>5. QED
    BY <2>1, <2>3, <2>4 DEF TypeOK
<1>7. ASSUME NEW c \in Chunks, EditSource(c)
      PROVE  TypeOK'
  <2>1. text' \in Texts
    BY <1>7 DEF EditSource, TypeOK, Texts
  <2>2. QED
    BY <1>7, <2>1 DEF EditSource, TypeOK
<1>8. ASSUME NEW f \in Files, EditGenerated(f) \/ DeleteGenerated(f)
      PROVE  TypeOK'
  <2>1. gen' \in [Files -> Contents \cup {Absent}]
    BY <1>8 DEF EditGenerated, DeleteGenerated, TypeOK, Contents
  <2>2. QED
    BY <1>8, <2>1 DEF EditGenerated, DeleteGenerated, TypeOK
<1>9. CASE UNCHANGED vars
  BY <1>9 DEF vars, TypeOK
<1>10. QED
  BY <1>1, <1>2, <1>3, <1>4, <1>5, <1>6, <1>7, <1>8, <1>9 DEF Next, Step

(* The variables keep their types in every behaviour: run_single_pass      *)
(* stays within its file list and its drivers whatever the interleaving.   *)
THEOREM TypeCorrect == Spec => []TypeOK
<1>1. QED
  BY InitType, NextType, PTL DEF Spec
-----------------------------------------------------------------------------
(* Hand edits survive a pass that was not forced. *)

(* The baselines a process holds in memory are the ones it recorded        *)
(* itself, so they are what it generates: the database a writer compares   *)
(* with starts empty.                                                      *)
OwnBaseline ==
    \A p \in Runs :
        /\ run[p].pc = "read" => run[p].base = NoBase
        /\ \A f \in Files : run[p].base[f] \in {Nil, Expand(run[p].text, f)}

(* Between its check and its rename, an unforced process has not seen a    *)
(* hand edit of the file it is at.                                         *)
CheckedClean ==
    \A p \in Runs :
        run[p].pc \in {"copy", "rename"} /\ ~run[p].force
        => run[p].seen \notin Edits

KeepInv == TypeOK /\ OwnBaseline /\ CheckedClean

(* What OwnBaseline and CheckedClean say of one process state. *)
CleanRun(r) ==
    /\ r.pc = "read" => r.base = NoBase
    /\ \A f \in Files : r.base[f] \in {Nil, Expand(r.text, f)}
    /\ r.pc \in {"copy", "rename"} /\ ~r.force => r.seen \notin Edits

LEMMA IdleRunClean == CleanRun(IdleRun)
BY DEF CleanRun, IdleRun, NoBase

LEMMA KeepInit == Init => KeepInv
<1>1. Init => TypeOK
  BY InitType
<1>2. Init => OwnBaseline /\ CheckedClean
  BY IdleRunClean DEF Init, OwnBaseline, CheckedClean, CleanRun
<1>3. QED
  BY <1>1, <1>2 DEF KeepInv

(* It is enough that the process that moves becomes a clean one. *)
LEMMA CleanUpdate ==
    ASSUME KeepInv, NEW p \in Runs, NEW r, CleanRun(r),
           run' = [run EXCEPT ![p] = r]
    PROVE  OwnBaseline' /\ CheckedClean'
BY DEF KeepInv, TypeOK, OwnBaseline, CheckedClean, CleanRun

LEMMA CleanNow ==
    ASSUME KeepInv, NEW p \in Runs
    PROVE  CleanRun(run[p]) /\ run[p] \in RunStates
BY DEF KeepInv, TypeOK, OwnBaseline, CheckedClean, CleanRun

(* A process state that leaves the loop body with its own content recorded *)
(* for the file it was at, or with what it had.                            *)
LEMMA NextFileClean ==
    ASSUME KeepInv, NEW p \in Runs, NEW base,
           base = run[p].base \/ base = Recorded(p), NextFile(p, base)
    PROVE  OwnBaseline' /\ CheckedClean'
<1> DEFINE r == [run[p] EXCEPT
                   !.base = base,
                   !.deps = AddDeps(run[p].deps, ExpansionDeps(At(p))),
                   !.seen = Absent,
                   !.k = IF LastFile(p) THEN run[p].k ELSE run[p].k + 1,
                   !.pc = IF LastFile(p) THEN "snapshot" ELSE "check"]
<1>1. CleanRun(run[p]) /\ run[p] \in RunStates
  BY CleanNow
<1>2. /\ r.base = base
      /\ r.text = run[p].text
      /\ r.pc \in {"snapshot", "check"}
  BY <1>1 DEF RunStates
<1>3. \A f \in Files : base[f] \in {Nil, Expand(run[p].text, f)}
  <2>1. CASE base = run[p].base
    BY <1>1, <2>1 DEF CleanRun
  <2>2. CASE base = Recorded(p)
    <3>1. run[p].base \in Bases
      BY <1>1 DEF RunStates
    <3>2. \A f \in Files : base[f] = IF f = At(p) THEN Generated(p) ELSE run[p].base[f]
      BY <2>2, <3>1 DEF Recorded, Bases
    <3>3. QED
      BY <1>1, <3>2 DEF CleanRun, Generated
  <2>3. QED
    BY <2>1, <2>2
<1>4. CleanRun(r)
  <2> HIDE DEF r
  <2>1. QED
    BY <1>2, <1>3 DEF CleanRun
<1>5. run' = [run EXCEPT ![p] = r]
  BY DEF NextFile
<1> HIDE DEF r
<1>6. QED
  BY <1>4, <1>5, CleanUpdate

(* What an unforced process accepts is no hand edit. *)
LEMMA AcceptedIsClean ==
    ASSUME KeepInv, NEW p \in Runs,
           gen[At(p)] = Absent \/ gen[At(p)] = Reference(p)
    PROVE  gen[At(p)] \notin Edits
<1>1. At(p) \in Files
  BY AtIsFile DEF KeepInv
<1>2. run[p].text \in Texts
  BY DEF KeepInv, TypeOK, RunStates
<1>3. Reference(p) = Expand(run[p].text, At(p))
  BY <1>1, CleanNow DEF CleanRun, Reference, Generated
<1>4. Edits \subseteq Contents
  BY DEF Contents
<1>5. QED
  BY <1>1, <1>2, <1>3, <1>4, ExpandIsGenerated, SentinelsOK

LEMMA FailClean ==
    ASSUME KeepInv, NEW p \in Runs, NEW err, Fail(p, err)
    PROVE  OwnBaseline' /\ CheckedClean'
<1> DEFINE r == FailedRun(p, err)
<1>1. CleanRun(r)
  BY FailedFields DEF CleanRun, NoBase
<1>2. run' = [run EXCEPT ![p] = r]
  BY DEF Fail
<1> HIDE DEF r
<1>3. QED
  BY <1>1, <1>2, CleanUpdate

LEMMA KeepNext == KeepInv /\ [Next]_vars => KeepInv'
<1> SUFFICES ASSUME KeepInv, [Next]_vars
             PROVE  KeepInv'
  OBVIOUS
<1>0. TypeOK'
  BY NextType DEF KeepInv
<1>1. ASSUME NEW p \in Runs, NEW force \in BOOLEAN, Start(p, force)
      PROVE  OwnBaseline' /\ CheckedClean'
  <2> DEFINE r == [IdleRun EXCEPT !.pc = "read", !.force = force]
  <2>1. r.pc = "read" /\ r.base = NoBase
    BY DEF IdleRun
  <2>2. run' = [run EXCEPT ![p] = r]
    BY <1>1 DEF Start
  <2> HIDE DEF r
  <2>3. CleanRun(r)
    BY <2>1 DEF CleanRun, NoBase
  <2>4. QED
    BY <2>2, <2>3, CleanUpdate
<1>2. ASSUME NEW p \in Runs, ReadDriver(p)
      PROVE  OwnBaseline' /\ CheckedClean'
  <2> DEFINE r == [run[p] EXCEPT
                     !.text = TextAfter(run[p]),
                     !.rd = run[p].rd + 1,
                     !.pc = IF run[p].rd = Len(Drivers) THEN "skip" ELSE "read"]
  <2>1. run[p].pc = "read" /\ run[p].base = NoBase
    BY <1>2, CleanNow DEF ReadDriver, CleanRun
  <2>2. r.base = NoBase /\ r.pc \in {"skip", "read"}
    BY <2>1, CleanNow DEF RunStates
  <2>3. run' = [run EXCEPT ![p] = r]
    BY <1>2 DEF ReadDriver
  <2> HIDE DEF r
  <2>4. CleanRun(r)
    BY <2>2 DEF CleanRun, NoBase
  <2>5. QED
    BY <2>3, <2>4, CleanUpdate
<1>3. ASSUME NEW p \in Runs, ComputeSkipSet(p)
      PROVE  OwnBaseline' /\ CheckedClean'
  <2> DEFINE S == IF run[p].force THEN {} ELSE SkipSet(run[p].text)
             r == [run[p] EXCEPT !.skip = S, !.pc = "check"]
  <2>1. run' = [run EXCEPT ![p] = r]
    BY <1>3 DEF ComputeSkipSet
  <2> HIDE DEF S
  <2>2. CleanRun(r)
    BY CleanNow DEF CleanRun, RunStates
  <2> HIDE DEF r
  <2>3. QED
    BY <2>1, <2>2, CleanUpdate
<1>4. ASSUME NEW p \in Runs, CheckFile(p)
      PROVE  OwnBaseline' /\ CheckedClean'
  <2>1. CASE /\ gen[At(p)] = Absent \/ run[p].force \/ gen[At(p)] = Reference(p)
             /\ run' = [run EXCEPT ![p] = [@ EXCEPT !.pc = "copy", !.seen = gen[At(p)]]]
    <3> DEFINE r == [run[p] EXCEPT !.pc = "copy", !.seen = gen[At(p)]]
    <3>1. run[p].force \/ gen[At(p)] \notin Edits
      BY <2>1, AcceptedIsClean
    <3>2. CleanRun(r)
      BY <3>1, CleanNow DEF CleanRun, RunStates
    <3>3. run' = [run EXCEPT ![p] = r]
      BY <2>1
    <3> HIDE DEF r
    <3>4. QED
      BY <3>2, <3>3, CleanUpdate
  <2>2. CASE Fail(p, "ModifiedExternally")
    BY <2>2, FailClean
  <2>3. QED
    BY <1>4, <2>1, <2>2 DEF CheckFile
<1>5. ASSUME NEW p \in Runs, NEW err, Fail(p, err)
      PROVE  OwnBaseline' /\ CheckedClean'
  BY <1>5, FailClean
<1>6. ASSUME NEW p \in Runs, Goto(p, "idle") \/ Merge(p)
      PROVE  OwnBaseline' /\ CheckedClean'
  <2> DEFINE r == IF Merge(p) THEN EndedRun(p) ELSE [run[p] EXCEPT !.pc = "idle"]
  <2>2. CleanRun(r)
    <3>1. CleanRun(EndedRun(p))
      BY EndedFields DEF CleanRun, NoBase
    <3>2. CleanRun([run[p] EXCEPT !.pc = "idle"])
      BY CleanNow DEF CleanRun, RunStates
    <3> QED
      BY <3>1, <3>2
  <2>3. run' = [run EXCEPT ![p] = r]
    BY <1>6 DEF Goto, Merge
  <2> HIDE DEF r
  <2>4. QED
    BY <2>2, <2>3, CleanUpdate
<1>7. ASSUME NEW p \in Runs, CopyFile(p)
      PROVE  OwnBaseline' /\ CheckedClean'
  <2>1. CASE NextFile(p, Recorded(p))
    BY <2>1, NextFileClean
  <2>2. CASE run[p].pc = "copy" /\ Goto(p, "rename")
    <3> DEFINE r == [run[p] EXCEPT !.pc = "rename"]
    <3>1. CleanRun(r)
      BY <2>2, CleanNow DEF CleanRun, RunStates
    <3>2. run' = [run EXCEPT ![p] = r]
      BY <2>2 DEF Goto
    <3> HIDE DEF r
    <3>3. QED
      BY <3>1, <3>2, CleanUpdate
  <2>3. QED
    BY <1>7, <2>1, <2>2 DEF CopyFile
<1>8. ASSUME NEW p \in Runs, SkipFile(p) \/ RenameFile(p)
      PROVE  OwnBaseline' /\ CheckedClean'
  BY <1>8, NextFileClean DEF SkipFile, RenameFile
<1>9. ASSUME NEW p \in Runs, Snapshot(p)
      PROVE  OwnBaseline' /\ CheckedClean'
  <2>0. PICK unread \in SUBSET Sources :
           run' = [run EXCEPT ![p] = [@ EXCEPT !.pc = "merge", !.snap = TextWithout(unread)]]
    BY <1>9 DEF Snapshot
  <2> DEFINE r == [run[p] EXCEPT !.pc = "merge", !.snap = TextWithout(unread)]
  <2>1. CleanRun(r)
    BY CleanNow DEF CleanRun, RunStates
  <2>2. run' = [run EXCEPT ![p] = r]
    BY <2>0
  <2> HIDE DEF r
  <2>3. QED
    BY <2>1, <2>2, CleanUpdate
<1>10. ASSUME NEW p \in Runs, Crash(p)
       PROVE  OwnBaseline' /\ CheckedClean'
  <2> DEFINE r == [IdleRun EXCEPT !.pc = "failed", !.err = "Killed"]
  <2>1. r.base = NoBase /\ r.pc = "failed"
    BY DEF IdleRun
  <2>2. run' = [run EXCEPT ![p] = r]
    BY <1>10 DEF Crash
  <2> HIDE DEF r
  <2>3. CleanRun(r)
    BY <2>1 DEF CleanRun, NoBase
  <2>4. QED
    BY <2>2, <2>3, CleanUpdate
<1>11. ASSUME UNCHANGED run
       PROVE  OwnBaseline' /\ CheckedClean'
  BY <1>11 DEF KeepInv, OwnBaseline, CheckedClean
<1>12. OwnBaseline' /\ CheckedClean'
  <2>1. ASSUME NEW p \in Runs, Step(p)
        PROVE  OwnBaseline' /\ CheckedClean'
    BY <2>1, <1>1, <1>2, <1>3, <1>4, <1>5, <1>6, <1>7, <1>8, <1>9, <1>10
    DEF Step, ReadFails, FailFile, RenameFails, MergeBusy, ListOnly, Merge
  <2>2. QED
    BY <2>1, <1>11 DEF Next, EditSource, EditGenerated, DeleteGenerated, vars
<1>13. QED
  BY <1>0, <1>12 DEF KeepInv

(* One step of the action property. *)
LEMMA KeepStep ==
    ASSUME KeepInv, Next, NEW p \in Runs,
           ~run[p].force, run'[p] # run[p],
           gen[At(p)] \in Edits, gen'[At(p)] # gen[At(p)]
    PROVE  run[p].seen # gen[At(p)]
<1>1. PICK q \in Runs : RenameFile(q)
  BY DEF Next, Step, Start, ReadDriver, ReadFails, ListOnly, ComputeSkipSet,
         SkipFile, CheckFile, FailFile, CopyFile, RenameFails, Snapshot, Merge,
         MergeBusy, Crash, EditSource, EditGenerated, DeleteGenerated
<1>2. q = p
  BY <1>1 DEF RenameFile, NextFile, KeepInv, TypeOK
<1>3. QED
  BY <1>1, <1>2, CleanNow DEF RenameFile, CleanRun

(* A hand edit that was on disk when a pass without --force-generated      *)
(* checked the file is never replaced by that pass, for any number of      *)
(* concurrent passes, user edits and crashes.                              *)
THEOREM HandEditsSurvive == Spec => HandEditKept
<1>1. KeepInv /\ [Next]_vars =>
        [\A p \in Runs :
            (/\ ~run[p].force
             /\ run'[p] # run[p]
             /\ gen[At(p)] \in Edits
             /\ gen'[At(p)] # gen[At(p)])
            => run[p].seen # gen[At(p)]]_vars
  BY KeepStep
<1>2. QED
  BY <1>1, KeepInit, KeepNext, PTL DEF Spec, HandEditKept
-----------------------------------------------------------------------------
(* Snapshots. *)

(* No process holds a text newer than the sources; between its snapshot    *)
(* and its merge it holds a snapshot that is no older than its text.       *)
NotAhead(r) ==
    /\ \A c \in Chunks : r.text[c] <= text[c]
    /\ r.pc = "merge" =>
          \A c \in Chunks :
              r.snap[c] # Nil => r.snap[c] \in Versions /\ r.text[c] <= r.snap[c]

SnapInv ==
    /\ TypeOK
    /\ \A p \in Runs : NotAhead(run[p])
    /\ \A c \in Chunks :
          db.blocks[c] \in Versions /\ SrcOf[c] \notin db.unread =>
              db.snap[c] \in Versions /\ db.snap[c] >= db.blocks[c]

LEMMA SnapTypes ==
    ASSUME TypeOK, NEW p \in Runs, NEW c \in Chunks
    PROVE  text[c] \in Nat /\ run[p].text[c] \in Nat
<1>1. text \in Texts /\ run[p].text \in Texts
  BY DEF TypeOK, RunStates
<1> QED
  BY <1>1, ConstantsOK DEF Texts, Versions

LEMMA SnapInit == Init => SnapInv
<1> SUFFICES ASSUME Init PROVE SnapInv
  OBVIOUS
<1>1. \A c \in Chunks : db.blocks[c] \notin Versions
  BY SentinelsOK DEF Init, EmptyDb
<1> QED
  BY <1>1, InitType DEF SnapInv, Init, NotAhead, IdleRun

(* While the sources only grow and one process moves to a state that is    *)
(* not ahead of them, none gets ahead.                                     *)
LEMMA NotAheadUpdate ==
    ASSUME SnapInv, NEW p \in Runs, NEW r, NotAhead(r), run' = [run EXCEPT ![p] = r],
           UNCHANGED text
    PROVE  \A q \in Runs : NotAhead(run[q])'
BY DEF SnapInv, NotAhead, TypeOK

(* Most steps of a process touch neither its text nor its snapshot. *)
LEMMA NotAheadKept ==
    ASSUME SnapInv, NEW p \in Runs, NEW r,
           r.text = run[p].text, r.pc # "merge"
    PROVE  NotAhead(r)
BY DEF SnapInv, NotAhead

LEMMA NextFileNotAhead ==
    ASSUME SnapInv, NEW p \in Runs, NEW base, NextFile(p, base), UNCHANGED text
    PROVE  \A q \in Runs : NotAhead(run[q])'
<1> DEFINE r == [run[p] EXCEPT
                   !.base = base,
                   !.deps = AddDeps(run[p].deps, ExpansionDeps(At(p))),
                   !.seen = Absent,
                   !.k = IF LastFile(p) THEN run[p].k ELSE run[p].k + 1,
                   !.pc = IF LastFile(p) THEN "snapshot" ELSE "check"]
<1>1. r.text = run[p].text /\ r.pc # "merge"
  BY DEF SnapInv, TypeOK, RunStates
<1>2. run' = [run EXCEPT ![p] = r]
  BY DEF NextFile
<1> HIDE DEF r
<1> QED
  BY <1>1, <1>2, NotAheadKept, NotAheadUpdate

LEMMA GotoNotAhead ==
    ASSUME SnapInv, NEW p \in Runs, NEW pc, pc # "merge", Goto(p, pc), UNCHANGED text
    PROVE  \A q \in Runs : NotAhead(run[q])'
<1> DEFINE r == [run[p] EXCEPT !.pc = pc]
<1>1. r.text = run[p].text /\ r.pc # "merge" /\ run' = [run EXCEPT ![p] = r]
  BY DEF SnapInv, TypeOK, RunStates, Goto
<1> HIDE DEF r
<1> QED
  BY <1>1, NotAheadKept, NotAheadUpdate

LEMMA ReadDriverNotAhead ==
    ASSUME SnapInv, NEW p \in Runs, ReadDriver(p)
    PROVE  \A q \in Runs : NotAhead(run[q])'
<1> DEFINE r == [run[p] EXCEPT
          !.text = TextAfter(run[p]),
          !.rd = run[p].rd + 1,
          !.pc = IF run[p].rd = Len(Drivers) THEN "skip" ELSE "read"]
<1>1. r.text = TextAfter(run[p]) /\ r.pc # "merge" /\ run' = [run EXCEPT ![p] = r]
      /\ UNCHANGED text
  BY DEF SnapInv, TypeOK, RunStates, ReadDriver
<1>2. ASSUME NEW c \in Chunks PROVE TextAfter(run[p])[c] <= text[c]
  BY SnapTypes DEF TextAfter, SnapInv, NotAhead
<1> HIDE DEF r
<1>3. NotAhead(r)
  BY <1>1, <1>2 DEF NotAhead
<1> QED
  BY <1>1, <1>3, NotAheadUpdate

LEMMA SnapshotNotAhead ==
    ASSUME SnapInv, NEW p \in Runs, Snapshot(p)
    PROVE  \A q \in Runs : NotAhead(run[q])'
<1>0. PICK unread \in SUBSET Sources :
         run' = [run EXCEPT ![p] = [@ EXCEPT !.pc = "merge", !.snap = TextWithout(unread)]]
  BY DEF Snapshot
<1> DEFINE r == [run[p] EXCEPT !.pc = "merge", !.snap = TextWithout(unread)]
<1>1. /\ r.text = run[p].text /\ r.snap = TextWithout(unread)
      /\ run' = [run EXCEPT ![p] = r] /\ UNCHANGED text
  BY <1>0 DEF SnapInv, TypeOK, RunStates, Snapshot
<1> HIDE DEF r
<1>2. ASSUME NEW c \in Chunks, r.snap[c] # Nil
      PROVE  r.snap[c] \in Versions /\ r.text[c] <= r.snap[c]
  <2>1. r.snap[c] = text[c]
    BY <1>1, <1>2 DEF TextWithout
  <2>2. text[c] \in Versions
    BY DEF SnapInv, TypeOK, Texts
  <2> QED
    BY <1>1, <2>1, <2>2 DEF SnapInv, NotAhead
<1>3. NotAhead(r)
  BY <1>1, <1>2 DEF NotAhead, SnapInv
<1> QED
  BY <1>1, <1>3, NotAheadUpdate

(* A new process, and one that was killed, hold nothing. *)
LEMMA IdleNotAhead ==
    ASSUME SnapInv, NEW p \in Runs, NEW r, r.text = IdleRun.text, r.pc # "merge",
           run' = [run EXCEPT ![p] = r], UNCHANGED text
    PROVE  \A q \in Runs : NotAhead(run[q])'
<1>1. NotAhead(r)
  BY SnapTypes DEF NotAhead, IdleRun, SnapInv
<1> QED
  BY <1>1, NotAheadUpdate

LEMMA FailNotAhead ==
    ASSUME SnapInv, NEW p \in Runs, NEW err, Fail(p, err), UNCHANGED text
    PROVE  \A q \in Runs : NotAhead(run[q])'
<1> DEFINE r == FailedRun(p, err)
<1>1. r.text = IdleRun.text /\ r.pc # "merge" /\ run' = [run EXCEPT ![p] = r]
  BY FailedFields DEF Fail
<1> HIDE DEF r
<1> QED
  BY <1>1, IdleNotAhead

LEMMA StepNotAhead ==
    ASSUME SnapInv, NEW p \in Runs, Step(p), ~Merge(p)
    PROVE  (\A q \in Runs : NotAhead(run[q])') /\ UNCHANGED <<text, db>>
<1>1. UNCHANGED <<text, db>>
  BY Zenon DEF Step, Start, ReadDriver, ReadFails, ListOnly, ComputeSkipSet, SkipFile, CheckFile,
         FailFile, CopyFile, RenameFile, RenameFails, Snapshot, MergeBusy, Crash
<1>2. ASSUME NEW force \in BOOLEAN, Start(p, force)
      PROVE  \A q \in Runs : NotAhead(run[q])'
  <2> DEFINE r == [IdleRun EXCEPT !.pc = "read", !.force = force]
  <2>1. r.text = IdleRun.text /\ r.pc # "merge" /\ run' = [run EXCEPT ![p] = r]
    BY <1>2 DEF Start, IdleRun
  <2> HIDE DEF r
  <2> QED
    BY <1>1, <2>1, IdleNotAhead
<1>3. CASE Crash(p)
  <2> DEFINE r == [IdleRun EXCEPT !.pc = "failed", !.err = "Killed"]
  <2>1. r.text = IdleRun.text /\ r.pc # "merge" /\ run' = [run EXCEPT ![p] = r]
    BY <1>3 DEF Crash, IdleRun
  <2> HIDE DEF r
  <2> QED
    BY <1>1, <2>1, IdleNotAhead
<1>4. CASE ReadDriver(p)
  BY <1>1, <1>4, ReadDriverNotAhead
<1>5. CASE ReadFails(p) \/ FailFile(p) \/ RenameFails(p) \/ MergeBusy(p)
  BY <1>1, <1>5, FailNotAhead DEF ReadFails, FailFile, RenameFails, MergeBusy
<1>6. CASE ListOnly(p)
  BY <1>1, <1>6, GotoNotAhead DEF ListOnly
<1>7. CASE ComputeSkipSet(p)
  <2> DEFINE r == [run[p] EXCEPT
                     !.skip = IF run[p].force THEN {} ELSE SkipSet(run[p].text),
                     !.pc = "check"]
  <2>1. r.text = run[p].text /\ r.pc # "merge" /\ run' = [run EXCEPT ![p] = r]
    BY <1>7 DEF SnapInv, TypeOK, RunStates, ComputeSkipSet
  <2> HIDE DEF r
  <2> QED
    BY <1>1, <2>1, NotAheadKept, NotAheadUpdate
<1>8. CASE SkipFile(p)
  BY <1>1, <1>8, NextFileNotAhead DEF SkipFile
<1>9. CASE CheckFile(p)
  <2>1. CASE Fail(p, "ModifiedExternally")
    BY <1>1, <2>1, FailNotAhead
  <2> DEFINE r == [run[p] EXCEPT !.pc = "copy", !.seen = gen[At(p)]]
  <2>2. CASE run' = [run EXCEPT ![p] = r]
    <3>1. r.text = run[p].text /\ r.pc # "merge"
      BY DEF SnapInv, TypeOK, RunStates
    <3> HIDE DEF r
    <3> QED
      BY <1>1, <2>2, <3>1, NotAheadKept, NotAheadUpdate
  <2> QED
    BY <1>9, <2>1, <2>2 DEF CheckFile
<1>10. CASE CopyFile(p)
  BY <1>1, <1>10, NextFileNotAhead, GotoNotAhead DEF CopyFile
<1>11. CASE RenameFile(p)
  BY <1>1, <1>11, NextFileNotAhead DEF RenameFile
<1>12. CASE Snapshot(p)
  BY <1>1, <1>12, SnapshotNotAhead
<1> QED
  BY <1>1, <1>2, <1>3, <1>4, <1>5, <1>6, <1>7, <1>8, <1>9, <1>10, <1>11, <1>12 DEF Step

(* The transaction of a pass replaces hashes and snapshots together. *)
LEMMA MergeNotAhead == ASSUME SnapInv, NEW p \in Runs, Merge(p) PROVE SnapInv'
<1>1. TypeOK'
  <2>1. Next
    BY DEF Next, Step
  <2> QED
    BY <2>1, NextType DEF SnapInv
<1>2. \A q \in Runs : NotAhead(run[q])'
  <2> DEFINE r == EndedRun(p)
  <2>1. r.text = run[p].text /\ r.pc # "merge" /\ run' = [run EXCEPT ![p] = r]
        /\ UNCHANGED text
    BY EndedFields DEF Merge
  <2> HIDE DEF r
  <2> QED
    BY <2>1, NotAheadKept, NotAheadUpdate
<1>3. ASSUME NEW c \in Chunks, db'.blocks[c] \in Versions, SrcOf[c] \notin db'.unread
      PROVE  db'.snap[c] \in Versions /\ db'.snap[c] >= db'.blocks[c]
  <2>0. run[p].snap[c] # Nil
    BY <1>3 DEF Merge, MergedDb, Unread
  <2>1. db'.blocks = BlocksOf(run[p]) /\ db'.snap[c] = run[p].snap[c]
    BY <2>0 DEF Merge, MergedDb
  <2>2. ~run[p].force
    BY <1>3, <2>0, <2>1, SentinelsOK DEF BlocksOf
  <2>3. db'.blocks[c] = run[p].text[c]
    BY <2>1, <2>2 DEF BlocksOf
  <2>4. run[p].snap[c] \in Versions /\ run[p].text[c] <= run[p].snap[c]
    BY <2>0 DEF SnapInv, NotAhead, Merge
  <2> QED
    BY <2>1, <2>3, <2>4, SnapTypes DEF SnapInv
<1> QED
  BY <1>1, <1>2, <1>3 DEF SnapInv

(* As long as no edit brings an earlier text back. *)
LEMMA SnapNext ==
    ASSUME ~CanRevert, SnapInv, [Next]_vars
    PROVE  SnapInv'
<1>0. TypeOK'
  BY NextType DEF SnapInv
<1>1. ASSUME NEW p \in Runs, Step(p) PROVE SnapInv'
  BY <1>0, <1>1, StepNotAhead, MergeNotAhead DEF SnapInv
<1>2. ASSUME NEW c \in Chunks, EditSource(c) PROVE SnapInv'
  <2>1. \A d \in Chunks : text[d] <= text'[d] /\ text'[d] \in Nat
    BY <1>2, SnapTypes, ConstantsOK DEF EditSource, SnapInv, TypeOK, Texts, Versions
  <2>2. UNCHANGED <<run, db>>
    BY <1>2 DEF EditSource
  <2>3. ASSUME NEW q \in Runs, NEW d \in Chunks PROVE run[q].text[d] <= text'[d]
    BY <2>1, SnapTypes DEF SnapInv, NotAhead
  <2> QED
    BY <1>0, <2>2, <2>3 DEF SnapInv, NotAhead
<1>3. CASE UNCHANGED <<text, run, db>>
  BY <1>0, <1>3 DEF SnapInv, NotAhead
<1> QED
  BY <1>1, <1>2, <1>3 DEF Next, vars, EditGenerated, DeleteGenerated

(* A recorded snapshot is never older than the text that was tangled, with *)
(* any number of passes at a time, unless the last pass could not read its *)
(* source back: run_single_pass reads the sources again after the drivers, *)
(* and merge_into is one transaction.                                      *)
THEOREM SnapshotsNotOlder == ~CanRevert => (Spec => []SnapshotNotOlder)
<1> SUFFICES ASSUME ~CanRevert PROVE Spec => []SnapshotNotOlder
  OBVIOUS
<1>1. SnapInv /\ [Next]_vars => SnapInv'
  BY SnapNext
<1>2. SnapInv => SnapshotNotOlder
  BY SentinelsOK DEF SnapInv, SnapshotNotOlder
<1> QED
  BY <1>1, <1>2, SnapInit, PTL DEF Spec
-----------------------------------------------------------------------------
(* Reach: the chunks that an expansion visits. *)

LEMMA ReachIterates ==
    ASSUME IsFiniteSet(Chunks), NEW c \in Chunks
    PROVE  \E v \in [Nat -> SUBSET Chunks] :
              /\ v[0] = {c}
              /\ \A n \in Nat : v[n + 1] = v[n] \cup UNION {Refs[d] : d \in v[n]}
              /\ Reach(c) = v[Cardinality(Chunks)]
<1> DEFINE F == [X \in SUBSET Chunks |-> X \cup UNION {Refs[d] : d \in X}]
           Eq(h) == h = [n \in Nat |->
                            IF n = 0 THEN {c}
                            ELSE h[n - 1] \cup UNION {Refs[d] : d \in h[n - 1]}]
           v == CHOOSE h : Eq(h)
<1>1. F \in [SUBSET Chunks -> SUBSET Chunks]
  BY ConstantsOK
<1>2. PICK g \in [Nat -> SUBSET Chunks] :
         g[0] = {c} /\ \A n \in Nat : g[n + 1] = F[g[n]]
  <2> DEFINE S == SUBSET Chunks
  <2>1. {c} \in S /\ F \in [S -> S]
    BY <1>1
  <2> HIDE DEF S, F
  <2>2. \E g \in [Nat -> S] : g[0] = {c} /\ \A n \in Nat : g[n + 1] = F[g[n]]
    BY <2>1, Iteration
  <2> QED
    BY <2>2 DEF S
<1>3. Eq(g)
  <2>1. ASSUME NEW n \in Nat
        PROVE  g[n] = IF n = 0 THEN {c}
                      ELSE g[n - 1] \cup UNION {Refs[d] : d \in g[n - 1]}
    <3>1. CASE n = 0
      BY <1>2, <3>1
    <3>2. CASE n # 0
      <4>1. n - 1 \in Nat /\ (n - 1) + 1 = n
        BY <3>2
      <4> QED
        BY <1>2, <3>2, <4>1
    <3> QED
      BY <3>1, <3>2
  <2> QED
    BY <1>2, <2>1
<1>4. Eq(v)
  BY <1>3, Zenon
<1>5. Reach(c) = v[Cardinality(Chunks)]
  BY Zenon DEF Reach
<1> HIDE DEF v
<1>6. v[0] = {c}
  BY <1>4
<1>7. ASSUME NEW n \in Nat
      PROVE  v[n + 1] = v[n] \cup UNION {Refs[d] : d \in v[n]}
  <2>1. n + 1 \in Nat /\ n + 1 # 0 /\ (n + 1) - 1 = n
    OBVIOUS
  <2> QED
    BY <1>4, <2>1
<1>8. v \in [Nat -> SUBSET Chunks]
  <2> DEFINE Typed == {n \in Nat : v[n] \in SUBSET Chunks}
  <2>1. 0 \in Typed
    BY <1>6
  <2>2. ASSUME NEW n \in Nat, n \in Typed PROVE n + 1 \in Typed
    BY <1>7, <2>2, ConstantsOK
  <2>3. Nat \subseteq Typed
    <3> HIDE DEF Typed
    <3> QED
      BY <2>1, <2>2, NatSets
  <2>4. DOMAIN v = Nat /\ v = [n \in DOMAIN v |-> v[n]]
    BY <1>4
  <2> QED
    BY <2>3, <2>4
<1> QED
  BY <1>5, <1>6, <1>7, <1>8

(* An expansion visits its chunk and what a visited chunk refers to. *)
LEMMA ReachClosed ==
    ASSUME IsFiniteSet(Chunks), NEW c \in Chunks
    PROVE  /\ Reach(c) \subseteq Chunks
           /\ c \in Reach(c)
           /\ \A d \in Reach(c) : Refs[d] \subseteq Reach(c)
<1> DEFINE F == [X \in SUBSET Chunks |-> X \cup UNION {Refs[d] : d \in X}]
           N == Cardinality(Chunks)
<1>1. PICK v \in [Nat -> SUBSET Chunks] :
              /\ v[0] = {c}
              /\ \A n \in Nat : v[n + 1] = v[n] \cup UNION {Refs[d] : d \in v[n]}
              /\ Reach(c) = v[N]
  BY ReachIterates
<1>2. F \in [SUBSET Chunks -> SUBSET Chunks]
  BY ConstantsOK
<1>3. /\ \A n \in Nat : v[n + 1] = F[v[n]]
      /\ \A n \in Nat : v[n] \subseteq v[n + 1]
  BY <1>1
<1>4. N \in Nat
  BY FS_CardinalityType
<1>5. F[v[N]] = v[N]
  <2> HIDE DEF F
  <2> QED
    BY <1>2, <1>3, GrowthEnds
<1>6. v[N] \in SUBSET Chunks
  BY <1>4
<1>7. ASSUME NEW d \in Reach(c) PROVE Refs[d] \subseteq Reach(c)
  BY <1>1, <1>5, <1>6
<1>8. c \in Reach(c)
  <2> DEFINE With == {n \in Nat : c \in v[n]}
  <2>1. 0 \in With
    BY <1>1
  <2>2. ASSUME NEW n \in Nat, n \in With PROVE n + 1 \in With
    <3>1. v[n] \subseteq v[n + 1]
      BY <1>3
    <3> HIDE DEF F
    <3> QED
      BY <2>2, <3>1
  <2>3. Nat \subseteq With
    <3> HIDE DEF With
    <3> QED
      BY <2>1, <2>2, NatSets
  <2> QED
    BY <1>1, <1>4, <2>3
<1> QED
  BY <1>1, <1>6, <1>7, <1>8

(* It visits nothing else: Reach is the least such set. *)
LEMMA ReachLeast ==
    ASSUME IsFiniteSet(Chunks), NEW c \in Chunks, NEW X, c \in X,
           \A d \in X : Refs[d] \subseteq X
    PROVE  Reach(c) \subseteq X
<1>1. PICK v \in [Nat -> SUBSET Chunks] :
              /\ v[0] = {c}
              /\ \A n \in Nat : v[n + 1] = v[n] \cup UNION {Refs[d] : d \in v[n]}
              /\ Reach(c) = v[Cardinality(Chunks)]
  BY ReachIterates
<1> DEFINE Within == {n \in Nat : v[n] \subseteq X}
<1>2. 0 \in Within
  BY <1>1
<1>3. ASSUME NEW n \in Nat, n \in Within PROVE n + 1 \in Within
  BY <1>1, <1>3
<1>4. Nat \subseteq Within
  <2> HIDE DEF Within
  <2> QED
    BY <1>2, <1>3, NatSets
<1> QED
  BY <1>1, <1>4, FS_CardinalityType
-----------------------------------------------------------------------------
(* ReverseClosure: what depends on a changed chunk. *)

LEMMA ClosureIterates ==
    ASSUME IsFiniteSet(Chunks), NEW D \in SUBSET Chunks, NEW E \in SUBSET Edges
    PROVE  \E v \in [Nat -> SUBSET Chunks] :
              /\ v[0] = D
              /\ \A n \in Nat :
                    v[n + 1] = v[n] \cup {e[1] : e \in {x \in E : x[2] \in v[n]}}
              /\ ReverseClosure(D, E) = v[Cardinality(Chunks)]
<1> DEFINE F == [X \in SUBSET Chunks |->
                    X \cup {e[1] : e \in {x \in E : x[2] \in X}}]
           Eq(h) == h = [n \in Nat |->
                            IF n = 0 THEN D
                            ELSE h[n - 1] \cup
                                 {e[1] : e \in {x \in E : x[2] \in h[n - 1]}}]
           v == CHOOSE h : Eq(h)
<1>0. \A e \in E : e[1] \in Chunks
  BY DEF Edges
<1>1. F \in [SUBSET Chunks -> SUBSET Chunks]
  BY <1>0
<1>2. PICK g \in [Nat -> SUBSET Chunks] :
         g[0] = D /\ \A n \in Nat : g[n + 1] = F[g[n]]
  <2> DEFINE S == SUBSET Chunks
  <2>1. D \in S /\ F \in [S -> S]
    BY <1>1
  <2> HIDE DEF S, F
  <2>2. \E g \in [Nat -> S] : g[0] = D /\ \A n \in Nat : g[n + 1] = F[g[n]]
    BY <2>1, Iteration
  <2> QED
    BY <2>2 DEF S
<1>3. Eq(g)
  <2>1. ASSUME NEW n \in Nat
        PROVE  g[n] = IF n = 0 THEN D
                      ELSE g[n - 1] \cup {e[1] : e \in {x \in E : x[2] \in g[n - 1]}}
    <3>1. CASE n = 0
      BY <1>2, <3>1
    <3>2. CASE n # 0
      <4>1. n - 1 \in Nat /\ (n - 1) + 1 = n
        BY <3>2
      <4> QED
        BY <1>2, <3>2, <4>1
    <3> QED
      BY <3>1, <3>2
  <2> QED
    BY <1>2, <2>1
<1>4. Eq(v)
  BY <1>3, Zenon
<1>5. ReverseClosure(D, E) = v[Cardinality(Chunks)]
  BY Zenon DEF ReverseClosure
<1> HIDE DEF v
<1>6. v[0] = D
  BY <1>4
<1>7. ASSUME NEW n \in Nat
      PROVE  v[n + 1] = v[n] \cup {e[1] : e \in {x \in E : x[2] \in v[n]}}
  <2>1. n + 1 \in Nat /\ n + 1 # 0 /\ (n + 1) - 1 = n
    OBVIOUS
  <2> QED
    BY <1>4, <2>1
<1>8. v \in [Nat -> SUBSET Chunks]
  <2> DEFINE Typed == {n \in Nat : v[n] \in SUBSET Chunks}
  <2>1. 0 \in Typed
    BY <1>6
  <2>2. ASSUME NEW n \in Nat, n \in Typed PROVE n + 1 \in Typed
    BY <1>0, <1>7, <2>2
  <2>3. Nat \subseteq Typed
    <3> HIDE DEF Typed
    <3> QED
      BY <2>1, <2>2, NatSets
  <2>4. DOMAIN v = Nat /\ v = [n \in DOMAIN v |-> v[n]]
    BY <1>4
  <2> QED
    BY <2>3, <2>4
<1> QED
  BY <1>5, <1>6, <1>7, <1>8

(* What changed is dirty, and so is what depends on something dirty. *)
LEMMA ClosureClosed ==
    ASSUME IsFiniteSet(Chunks), NEW D \in SUBSET Chunks, NEW E \in SUBSET Edges
    PROVE  /\ D \subseteq ReverseClosure(D, E)
           /\ \A e \in E : e[2] \in ReverseClosure(D, E) => e[1] \in ReverseClosure(D, E)
<1> DEFINE F == [X \in SUBSET Chunks |->
                    X \cup {e[1] : e \in {x \in E : x[2] \in X}}]
           N == Cardinality(Chunks)
<1>1. PICK v \in [Nat -> SUBSET Chunks] :
              /\ v[0] = D
              /\ \A n \in Nat :
                    v[n + 1] = v[n] \cup {e[1] : e \in {x \in E : x[2] \in v[n]}}
              /\ ReverseClosure(D, E) = v[N]
  BY ClosureIterates
<1>2. F \in [SUBSET Chunks -> SUBSET Chunks]
  <2>1. \A e \in E : e[1] \in Chunks
    BY DEF Edges
  <2> QED
    BY <2>1
<1>3. /\ \A n \in Nat : v[n + 1] = F[v[n]]
      /\ \A n \in Nat : v[n] \subseteq v[n + 1]
  BY <1>1
<1>4. N \in Nat
  BY FS_CardinalityType
<1>5. F[v[N]] = v[N]
  <2> HIDE DEF F
  <2> QED
    BY <1>2, <1>3, GrowthEnds
<1>6. v[N] \in SUBSET Chunks
  BY <1>4
<1>7. ASSUME NEW e \in E, e[2] \in v[N] PROVE e[1] \in v[N]
  BY <1>5, <1>6, <1>7
<1>8. D \subseteq v[N]
  <2> DEFINE With == {n \in Nat : D \subseteq v[n]}
  <2>1. 0 \in With
    BY <1>1
  <2>2. ASSUME NEW n \in Nat, n \in With PROVE n + 1 \in With
    <3>1. v[n] \subseteq v[n + 1]
      BY <1>3
    <3> HIDE DEF F
    <3> QED
      BY <2>2, <3>1
  <2>3. Nat \subseteq With
    <3> HIDE DEF With
    <3> QED
      BY <2>1, <2>2, NatSets
  <2> QED
    BY <1>4, <2>3
<1> QED
  BY <1>1, <1>7, <1>8

(* The skip set is sound: with the edges of its expansion in the database, *)
(* an `@file` chunk that is not dirty reaches no changed chunk.            *)
LEMMA CleanReachesNoChange ==
    ASSUME IsFiniteSet(Chunks), NEW D \in SUBSET Chunks, NEW E \in SUBSET Edges,
           NEW f \in Chunks, ExpansionDeps(f) \subseteq E,
           f \notin ReverseClosure(D, E)
    PROVE  Reach(f) \cap D = {}
<1> DEFINE X == Reach(f) \ ReverseClosure(D, E)
<1>1. f \in X
  BY ReachClosed
<1>2. ASSUME NEW d \in X, NEW c \in Refs[d] PROVE c \in X
  <2>1. d \in Chunks /\ c \in Chunks /\ c \in Reach(f)
    BY <1>2, ReachClosed, ConstantsOK
  <2>2. <<d, c, SrcOf[d]>> \in ExpansionDeps(f)
    BY <1>2, <2>1, ConstantsOK DEF ExpansionDeps, Edges
  <2>3. c \notin ReverseClosure(D, E)
    BY <1>2, <2>2, ClosureClosed
  <2> QED
    BY <2>1, <2>3
<1>3. Reach(f) \subseteq X
  <2> HIDE DEF X
  <2> QED
    BY <1>1, <1>2, ReachLeast
<1> QED
  BY <1>3, ClosureClosed
-----------------------------------------------------------------------------
(* The inductive invariant.  It is about one pass after another, over      *)
(* sources that share no source of edges, with edits that bring no earlier *)
(* text back.                                                              *)

OneAtATime == \A p, q \in Runs : p = q

(* The sources that the edges of the expansion of f come from. *)
EdgeSources(f) == {SrcOf[c] : c \in {d \in Reach(f) : Refs[d] # {}}}

(* Recording the edges of one `@file` chunk deletes those of no other. *)
SourcesApart ==
    \A f, g \in Files : f # g => EdgeSources(f) \cap EdgeSources(g) = {}

Setting ==
    /\ IsFiniteSet(Chunks)
    /\ ~CanRevert
    /\ OneAtATime
    /\ SourcesApart

(* A content that a tangle wrote. *)
Tangled(content) == content \notin Edits \cup {Absent}

(* Block hashes d.blocks, generated files g and sources x are three ages   *)
(* of the same text: a file may be ahead of the hashes, after a pass that  *)
(* failed, and behind the sources.                                         *)
FilesInBetween(g, d, x) ==
    \A f \in Files : Tangled(g[f]) =>
        /\ g[f] \in [Reach(f) -> Versions]
        /\ \A c \in Reach(f) :
              /\ g[f][c] <= x[c]
              /\ d.blocks[c] \in Versions => d.blocks[c] <= g[f][c]

HashesOld(d, x) ==
    \A c \in Chunks : d.blocks[c] \in Versions => d.blocks[c] <= x[c]

AllOrNothing(d) ==
    (\A c \in Chunks : d.blocks[c] = Nil) \/ (\A c \in Chunks : d.blocks[c] # Nil)

(* What the skip set follows is complete after the first merge. *)
DepsComplete(d) ==
    (\E c \in Chunks : d.blocks[c] # Nil) => \A f \in Files : ExpansionDeps(f) \subseteq d.deps

BaselinesUpToDate(d) ==
    \A f \in Files : d.base[f] # Nil =>
        \A c \in Reach(f) : d.blocks[c] \in Versions => d.blocks[c] <= d.base[f][c]

DbSound(d, x) ==
    HashesOld(d, x) /\ AllOrNothing(d) /\ DepsComplete(d) /\ BaselinesUpToDate(d)

Working == {"skip", "check", "copy", "rename", "snapshot", "merge"}

(* The chunks whose source process state r has read. *)
ReadChunks(r) ==
    IF r.pc = "read"
    THEN {c \in Chunks : \E i \in DOMAIN Drivers : i < r.rd /\ SrcOf[c] = Drivers[i]}
    ELSE IF r.pc \in Working THEN Chunks ELSE {}

(* What was read is no older than the hashes and the generated files. *)
ReadIsNewer(r, g, d) ==
    \A c \in ReadChunks(r) :
        /\ d.blocks[c] \in Versions => d.blocks[c] <= r.text[c]
        /\ \A f \in Files : Tangled(g[f]) /\ c \in Reach(f) => g[f][c] <= r.text[c]

(* A file that is skipped has a baseline, and its hashes are those of the  *)
(* text that was read.                                                     *)
SkippedSound(r, d) ==
    r.pc \in Working \ {"skip"} =>
        \A f \in r.skip :
            ~r.force /\ d.base[f] # Nil /\ \A c \in Reach(f) : d.blocks[c] = r.text[c]

(* The files that the loop of the pass has passed. *)
Done(r) ==
    IF r.pc \in {"check", "copy", "rename"}
    THEN {f \in Files : \E i \in DOMAIN FileChunks : i < r.k /\ f = FileChunks[i]}
    ELSE IF r.pc \in {"snapshot", "merge"} THEN Files ELSE {}

DoneFile(r, f, content) ==
    /\ f \in r.skip \/ r.base[f] # Nil
    /\ ExpansionDeps(f) \subseteq r.deps
    /\ Tangled(content) => content = Expand(r.text, f)

DoneSound(r, g) == \A f \in Done(r) : DoneFile(r, f, g[f])

(* The temporary file that is about to be renamed is the one it wrote. *)
RenameSound(r, t) ==
    r.pc = "rename" => t[TmpOf[FileChunks[r.k]]] = Expand(r.text, FileChunks[r.k])

StartsFirst(r) == r.pc \in {"read", "skip"} => r.k = 1

Fresh(r, g) ==
    r.pc = "ok" => \A f \in Files : Tangled(g[f]) => g[f] = Expand(r.text, f)

RunSound(r, g, d, t) ==
    /\ ReadIsNewer(r, g, d)
    /\ SkippedSound(r, d)
    /\ DoneSound(r, g)
    /\ RenameSound(r, t)
    /\ StartsFirst(r)
    /\ Fresh(r, g)

FreshInv ==
    /\ SnapInv
    /\ KeepInv
    /\ FilesInBetween(gen, db, text)
    /\ DbSound(db, text)
    /\ \A p \in Runs : RunSound(run[p], gen, db, tmp)

(* The conjuncts are the properties. *)
LEMMA FreshImplies ==
    ASSUME FreshInv PROVE SuccessMeansFresh /\ BaselineNotOlder
<1>1. SuccessMeansFresh
  BY DEF FreshInv, RunSound, Fresh, Tangled, SuccessMeansFresh
<1>2. BaselineNotOlder
  BY DEF FreshInv, DbSound, BaselinesUpToDate, BaselineNotOlder
<1> QED
  BY <1>1, <1>2

(* A process that is not working on anything is sound. *)
LEMMA RestingSound ==
    ASSUME NEW r, NEW g, NEW d, NEW t, r.pc \in {"idle", "failed"}
    PROVE  RunSound(r, g, d, t)
BY DEF RunSound, ReadIsNewer, ReadChunks, SkippedSound, DoneSound, Done, RenameSound,
       StartsFirst, Fresh, Working

LEMMA FreshInit == ASSUME Init PROVE FreshInv
<1>1. SnapInv /\ KeepInv
  BY SnapInit, KeepInit
<1>2. FilesInBetween(gen, db, text)
  BY DEF Init, FilesInBetween, Tangled
<1>3. DbSound(db, text)
  BY SentinelsOK DEF Init, EmptyDb, NoBase, DbSound, HashesOld, AllOrNothing, DepsComplete, BaselinesUpToDate
<1>4. \A p \in Runs : run[p].pc = "idle"
  BY DEF Init, IdleRun
<1> QED
  BY <1>1, <1>2, <1>3, <1>4, RestingSound DEF FreshInv

(* The state of a process as the proofs use it. *)
LEMMA RunFields ==
    ASSUME FreshInv, NEW p \in Runs
    PROVE  /\ run[p] \in RunStates
           /\ run[p].text \in Texts
           /\ run[p].k \in DOMAIN FileChunks
           /\ At(p) \in Files /\ At(p) \in Chunks
           /\ At(p) = FileChunks[run[p].k]
           /\ RunSound(run[p], gen, db, tmp)
           /\ \A c \in Chunks : run[p].text[c] <= text[c]
           /\ \A f \in Files : run[p].base[f] \in {Nil, Expand(run[p].text, f)}
           /\ run[p].base \in Bases
<1>1. TypeOK
  BY DEF FreshInv, SnapInv
<1>2. run[p] \in RunStates
  BY <1>1 DEF TypeOK
<1>3. At(p) \in Files /\ At(p) \in Chunks
  BY <1>1, AtIsFile, FilesAreChunks
<1>4. \A f \in Files : run[p].base[f] \in {Nil, Expand(run[p].text, f)}
  BY DEF FreshInv, KeepInv, OwnBaseline
<1>5. \A c \in Chunks : run[p].text[c] <= text[c]
  BY DEF FreshInv, SnapInv, NotAhead
<1> QED
  BY <1>2, <1>3, <1>4, <1>5 DEF FreshInv, At, RunStates

(* The versions that are compared are numbers. *)
LEMMA VersionsAreNumbers ==
    ASSUME TypeOK, NEW c \in Chunks
    PROVE  /\ text[c] \in Nat
           /\ \A p \in Runs : run[p].text[c] \in Versions /\ run[p].text[c] \in Nat
           /\ db.blocks[c] \in Versions => db.blocks[c] \in Nat
           /\ db.blocks[c] \in Versions \cup {Nil, Unhashed}
<1>1. Versions \subseteq Nat
  BY ConstantsOK DEF Versions
<1>2. text \in Texts /\ \A p \in Runs : run[p].text \in Texts
  BY DEF TypeOK, RunStates
<1>3. db.blocks \in MaybeHash
  BY DEF TypeOK
<1> QED
  BY <1>1, <1>2, <1>3 DEF Texts, MaybeHash

(* The content of a generated file, and when it is the one of a text. *)
LEMMA ExpandFields ==
    ASSUME Setting, NEW t \in Texts, NEW f \in Files
    PROVE  /\ Expand(t, f) \in [Reach(f) -> Versions]
           /\ \A c \in Reach(f) : Expand(t, f)[c] = t[c] /\ c \in Chunks
           /\ f \in Reach(f)
           /\ \A content \in [Reach(f) -> Versions] :
                 (\A c \in Reach(f) : content[c] = t[c]) => content = Expand(t, f)
           /\ Tangled(Expand(t, f))
<1>1. Reach(f) \subseteq Chunks /\ f \in Reach(f)
  BY ReachClosed, FilesAreChunks DEF Setting
<1>2. \A c \in Reach(f) : t[c] \in Versions
  BY <1>1 DEF Texts
<1>3. Tangled(Expand(t, f))
  BY ExpandIsGenerated DEF Tangled
<1> QED
  BY <1>1, <1>2, <1>3 DEF Expand
-----------------------------------------------------------------------------
(* The steps. *)

(* It is enough that the process that moves stays sound. *)
LEMMA FreshStep ==
    ASSUME Setting, FreshInv, NEW p \in Runs, Next,
           FilesInBetween(gen', db', text'), DbSound(db', text'),
           RunSound(run'[p], gen', db', tmp')
    PROVE  FreshInv'
<1>1. SnapInv' /\ KeepInv'
  BY SnapNext, KeepNext DEF FreshInv, Setting
<1>2. \A q \in Runs : q = p
  BY DEF Setting, OneAtATime
<1> QED
  BY <1>1, <1>2 DEF FreshInv

(* The user: sources get newer, and what was edited or deleted by hand is  *)
(* no tangled content any more.                                            *)
LEMMA UserFresh ==
    ASSUME Setting, FreshInv,
           \/ \E c \in Chunks : EditSource(c)
           \/ \E f \in Files : EditGenerated(f) \/ DeleteGenerated(f)
    PROVE  FreshInv'
<1>0. TypeOK
  BY DEF FreshInv, SnapInv
<1>1. SnapInv' /\ KeepInv'
  <2>1. Next
    BY DEF Next
  <2> QED
    BY <2>1, SnapNext, KeepNext DEF FreshInv, Setting
<1>2. UNCHANGED <<db, tmp, run>>
  BY DEF EditSource, EditGenerated, DeleteGenerated
<1>3. \A c \in Chunks : text'[c] \in Nat /\ text[c] <= text'[c]
  <2>1. ASSUME NEW c \in Chunks, EditSource(c), NEW e \in Chunks
        PROVE  text'[e] \in Nat /\ text[e] <= text'[e]
    BY <1>0, <2>1, VersionsAreNumbers, ConstantsOK DEF EditSource, Setting, TypeOK, Texts, Versions
  <2> QED
    BY <1>0, <2>1, VersionsAreNumbers DEF EditGenerated, DeleteGenerated
<1>4. \A f \in Files : Tangled(gen'[f]) => gen'[f] = gen[f]
  BY <1>0 DEF EditSource, EditGenerated, DeleteGenerated, Tangled, TypeOK
<1>5. FilesInBetween(gen', db', text')
  <2>1. ASSUME NEW f \in Files, Tangled(gen'[f]), NEW c \in Reach(f)
        PROVE  gen'[f][c] <= text'[c]
    <3>1. gen'[f] = gen[f] /\ gen[f] \in [Reach(f) -> Versions] /\ gen[f][c] <= text[c]
      BY <1>4, <2>1 DEF FreshInv, FilesInBetween
    <3>2. c \in Chunks
      BY ReachClosed, FilesAreChunks DEF Setting
    <3>3. gen[f][c] \in Nat
      BY <3>1, ConstantsOK DEF Versions
    <3> QED
      BY <1>0, <1>3, <3>1, <3>2, <3>3, VersionsAreNumbers
  <2> QED
    BY <1>2, <1>4, <2>1 DEF FreshInv, FilesInBetween
<1>6. DbSound(db', text')
  <2>1. HashesOld(db', text')
    BY <1>0, <1>2, <1>3, VersionsAreNumbers DEF FreshInv, DbSound, HashesOld
  <2> QED
    BY <1>2, <2>1 DEF FreshInv, DbSound
<1>7. ASSUME NEW p \in Runs PROVE RunSound(run'[p], gen', db', tmp')
  <2>1. RunSound(run[p], gen, db, tmp)
    BY DEF FreshInv
  <2>2. ReadIsNewer(run[p], gen', db)
    BY <1>4, <2>1 DEF RunSound, ReadIsNewer
  <2>3. Done(run[p]) \subseteq Files
    BY DEF Done
  <2>4. DoneSound(run[p], gen') /\ Fresh(run[p], gen')
    BY <1>4, <2>1, <2>3 DEF RunSound, DoneSound, DoneFile, Fresh
  <2> QED
    BY <1>2, <2>1, <2>2, <2>4 DEF RunSound
<1> QED
  BY <1>1, <1>5, <1>6, <1>7 DEF FreshInv

(* Steps that leave the process with nothing to do. *)
LEMMA RestFresh ==
    ASSUME Setting, FreshInv, NEW p \in Runs,
           \/ ReadFails(p) \/ ListOnly(p) \/ FailFile(p) \/ RenameFails(p)
           \/ MergeBusy(p) \/ Crash(p)
           \/ CheckFile(p) /\ Fail(p, "ModifiedExternally")
    PROVE  FreshInv'
<1>1. UNCHANGED <<text, gen, tmp, db>>
  BY DEF ReadFails, ListOnly, FailFile, RenameFails, MergeBusy, Crash, CheckFile
<1>2. run'[p].pc \in {"idle", "failed"}
  <2>1. run \in [Runs -> RunStates]
    BY DEF FreshInv, SnapInv, TypeOK
  <2>2. CASE Crash(p)
    BY <2>1, <2>2 DEF Crash, IdleRun
  <2>3. CASE ListOnly(p)
    BY <2>1, <2>3 DEF ListOnly, Goto, RunStates
  <2>4. ASSUME NEW err, Fail(p, err) PROVE run'[p].pc = "failed"
    BY <2>1, <2>4, FailedFields DEF Fail
  <2> QED
    BY <2>2, <2>3, <2>4 DEF ReadFails, FailFile, RenameFails, MergeBusy
<1>3. Next
  BY DEF Next, Step
<1> QED
  BY <1>1, <1>2, <1>3, RestingSound, FreshStep DEF FreshInv

LEMMA StartFresh ==
    ASSUME Setting, FreshInv, NEW p \in Runs, NEW force \in BOOLEAN, Start(p, force)
    PROVE  FreshInv'
<1>1. run'[p].pc = "read" /\ run'[p].rd = 1 /\ run'[p].k = 1
  BY DEF FreshInv, SnapInv, TypeOK, Start, IdleRun
<1>2. ReadChunks(run'[p]) = {}
  BY <1>1, ConstantsOK DEF ReadChunks
<1>3. RunSound(run'[p], gen, db, tmp)
  BY <1>1, <1>2 DEF RunSound, ReadIsNewer, SkippedSound, DoneSound, Done, RenameSound,
     StartsFirst, Fresh, Working
<1> QED
  BY <1>3, FreshStep DEF FreshInv, Start, Next, Step

(* A driver is read: its chunks are as new as the sources. *)
LEMMA ReadDriverFresh ==
    ASSUME Setting, FreshInv, NEW p \in Runs, ReadDriver(p)
    PROVE  FreshInv'
<1> DEFINE r == run[p]
           s == run'[p]
<1>0. TypeOK
  BY DEF FreshInv, SnapInv
<1>1. /\ r.pc = "read" /\ r.k = 1 /\ r.rd \in DOMAIN Drivers
      /\ s.text = TextAfter(r) /\ s.rd = r.rd + 1 /\ s.k = r.k
      /\ s.pc = IF r.rd = Len(Drivers) THEN "skip" ELSE "read"
  <2>1. RunSound(run[p], gen, db, tmp)
    BY RunFields
  <2> QED
    BY <1>0, <2>1 DEF ReadDriver, TypeOK, RunStates, RunSound, StartsFirst
<1>2. ASSUME NEW c \in ReadChunks(s)
      PROVE  c \in Chunks /\ (SrcOf[c] = Drivers[r.rd] \/ c \in ReadChunks(r))
  <2>1. c \in Chunks
    BY DEF ReadChunks
  <2>2. \E i \in DOMAIN Drivers : i <= r.rd /\ SrcOf[c] = Drivers[i]
    <3>1. CASE s.pc = "read"
      <4>1. PICK i \in DOMAIN Drivers : i < s.rd /\ SrcOf[c] = Drivers[i]
        BY <3>1 DEF ReadChunks
      <4>2. i <= r.rd
        BY <1>1, <4>1, ConstantsOK
      <4> QED
        BY <4>1, <4>2
    <3>2. CASE s.pc = "skip"
      <4>1. SrcOf[c] \in Sources
        BY <2>1, ConstantsOK
      <4>2. r.rd = Len(Drivers)
        BY <1>1, <3>2
      <4> QED
        BY <4>1, <4>2, ConstantsOK DEF Sources
    <3> QED
      BY <1>1, <3>1, <3>2
  <2>3. PICK i \in DOMAIN Drivers : i <= r.rd /\ SrcOf[c] = Drivers[i]
    BY <2>2
  <2>4. i = r.rd \/ i < r.rd
    BY <1>1, <2>3, ConstantsOK
  <2> QED
    BY <1>1, <2>1, <2>3, <2>4 DEF ReadChunks
<1>3. ASSUME NEW c \in ReadChunks(s)
      PROVE  /\ db.blocks[c] \in Versions => db.blocks[c] <= s.text[c]
             /\ \A f \in Files : Tangled(gen[f]) /\ c \in Reach(f) => gen[f][c] <= s.text[c]
  <2>1. CASE SrcOf[c] = Drivers[r.rd]
    <3>1. s.text[c] = text[c]
      BY <1>1, <1>2, <2>1 DEF TextAfter
    <3> QED
      BY <1>2, <3>1 DEF FreshInv, DbSound, HashesOld, FilesInBetween
  <2>2. CASE SrcOf[c] # Drivers[r.rd] /\ c \in ReadChunks(r)
    <3>1. s.text[c] = r.text[c]
      BY <1>1, <1>2, <2>2 DEF TextAfter
    <3>2. ReadIsNewer(r, gen, db)
      BY RunFields DEF RunSound
    <3> QED
      BY <2>2, <3>1, <3>2 DEF ReadIsNewer
  <2> QED
    BY <1>2, <2>1, <2>2
<1>4. s.pc \in {"read", "skip"} /\ s.k = 1
  BY <1>1
<1>5. RunSound(s, gen, db, tmp)
  <2>1. ReadIsNewer(s, gen, db)
    BY <1>3 DEF ReadIsNewer
  <2> HIDE DEF s
  <2> QED
    BY <1>4, <2>1 DEF RunSound, SkippedSound, DoneSound, Done, RenameSound, StartsFirst,
       Fresh, Working
<1> QED
  BY <1>5, FreshStep DEF FreshInv, ReadDriver, Next, Step

(* The skip set: a file it holds has not changed since the last merge. *)
LEMMA ComputeSkipSetFresh ==
    ASSUME Setting, FreshInv, NEW p \in Runs, ComputeSkipSet(p)
    PROVE  FreshInv'
<1> DEFINE r == run[p]
           s == run'[p]
<1>0. TypeOK
  BY DEF FreshInv, SnapInv
<1>1. /\ r.pc = "skip" /\ r.k = 1
      /\ s.pc = "check" /\ s.k = 1 /\ s.text = r.text /\ s.force = r.force
      /\ s.skip = IF r.force THEN {} ELSE SkipSet(r.text)
  <2>1. RunSound(run[p], gen, db, tmp)
    BY RunFields
  <2> QED
    BY <1>0, <2>1 DEF ComputeSkipSet, TypeOK, RunStates, RunSound, StartsFirst
<1>2. ASSUME NEW f \in SkipSet(r.text)
      PROVE  db.base[f] # Nil /\ \A c \in Reach(f) : db.blocks[c] = r.text[c]
  <2> DEFINE D == {c \in Chunks : db.blocks[c] # Nil /\ db.blocks[c] # r.text[c]}
  <2>1. f \in Files /\ f \in Chunks /\ db.base[f] # Nil /\ db.blocks[f] # Nil
        /\ f \notin ReverseClosure(D, db.deps)
    BY FilesAreChunks DEF SkipSet, Dirty
  <2>2. D \in SUBSET Chunks /\ db.deps \in SUBSET Edges
    BY <1>0 DEF TypeOK
  <2>3. ExpansionDeps(f) \subseteq db.deps
    BY <2>1 DEF FreshInv, DbSound, DepsComplete
  <2>4. Reach(f) \cap D = {}
    <3> HIDE DEF D
    <3> QED
      BY <2>1, <2>2, <2>3, CleanReachesNoChange DEF Setting
  <2>5. \A c \in Chunks : db.blocks[c] # Nil
    BY <2>1 DEF FreshInv, DbSound, AllOrNothing
  <2>6. Reach(f) \subseteq Chunks
    BY <2>1, ReachClosed DEF Setting
  <2> QED
    BY <2>1, <2>4, <2>5, <2>6
<1>3. SkippedSound(s, db)
  BY <1>1, <1>2 DEF SkippedSound
<1>4. ReadIsNewer(s, gen, db)
  <2>1. ReadIsNewer(r, gen, db)
    BY RunFields DEF RunSound
  <2>2. ReadChunks(r) = Chunks /\ ReadChunks(s) = Chunks
    BY <1>1 DEF ReadChunks, Working
  <2> QED
    BY <1>1, <2>1, <2>2 DEF ReadIsNewer
<1>5. Done(s) = {}
  BY <1>1, ConstantsOK DEF Done
<1>6. RunSound(s, gen, db, tmp)
  <2> HIDE DEF s
  <2> QED
    BY <1>1, <1>3, <1>4, <1>5 DEF RunSound, DoneSound, RenameSound, StartsFirst, Fresh
<1> QED
  BY <1>6, FreshStep DEF FreshInv, ComputeSkipSet, Next, Step

(* set_chunk_deps keeps the edges of the other `@file` chunks. *)
LEMMA DepsKept ==
    ASSUME Setting, NEW f \in Files, NEW g \in Files, NEW old, ExpansionDeps(f) \subseteq old
    PROVE  ExpansionDeps(f) \subseteq AddDeps(old, ExpansionDeps(g))
<1>1. ASSUME NEW h \in Files, NEW e \in ExpansionDeps(h) PROVE e[3] \in EdgeSources(h)
  BY <1>1 DEF ExpansionDeps, EdgeSources
<1>2. CASE f = g
  BY <1>2 DEF AddDeps
<1>3. CASE f # g
  <2>1. EdgeSources(f) \cap EdgeSources(g) = {}
    BY <1>3 DEF Setting, SourcesApart
  <2>2. ASSUME NEW e \in ExpansionDeps(f) PROVE e[3] \notin {x[3] : x \in ExpansionDeps(g)}
    BY <1>1, <2>1
  <2> QED
    BY <2>2 DEF AddDeps
<1> QED
  BY <1>2, <1>3

(* The end of the loop body, when the file the process was at is done. *)
LEMMA NextFileFresh ==
    ASSUME Setting, FreshInv, NEW p \in Runs, NEW base, NextFile(p, base),
           run[p].pc \in {"check", "copy", "rename"},
           \A f \in Files : run[p].base[f] # Nil => base[f] # Nil,
           At(p) \in run[p].skip \/ base[At(p)] # Nil,
           \A f \in Files : f # At(p) => gen'[f] = gen[f],
           Tangled(gen'[At(p)]) => gen'[At(p)] = Generated(p)
    PROVE  RunSound(run'[p], gen', db, tmp')
<1> DEFINE r == run[p]
           s == run'[p]
<1>1. /\ s.text = r.text /\ s.skip = r.skip /\ s.force = r.force /\ s.base = base
      /\ s.deps = AddDeps(r.deps, ExpansionDeps(At(p)))
      /\ s.k = IF LastFile(p) THEN r.k ELSE r.k + 1
      /\ s.pc = IF LastFile(p) THEN "snapshot" ELSE "check"
  BY DEF FreshInv, SnapInv, TypeOK, RunStates, NextFile
<1>2. r.k \in DOMAIN FileChunks /\ At(p) = FileChunks[r.k] /\ At(p) \in Files
      /\ r.text \in Texts /\ RunSound(r, gen, db, tmp)
  BY RunFields
<1>3. ASSUME NEW f \in Done(s) PROVE f \in Files /\ (f = At(p) \/ f \in Done(r))
  <2>1. f \in Files
    BY DEF Done
  <2>2. PICK i \in DOMAIN FileChunks : f = FileChunks[i] /\ i <= r.k
    <3>1. CASE LastFile(p)
      <4>1. PICK i \in DOMAIN FileChunks : f = FileChunks[i]
        BY <2>1 DEF Files
      <4>2. i <= r.k
        BY <3>1, <4>1, ConstantsOK DEF LastFile
      <4> QED
        BY <4>1, <4>2
    <3>2. CASE ~LastFile(p)
      <4>1. s.pc = "check" /\ s.k = r.k + 1
        BY <1>1, <3>2
      <4>2. PICK i \in DOMAIN FileChunks : i < s.k /\ f = FileChunks[i]
        BY <4>1 DEF Done
      <4>3. i <= r.k
        BY <1>2, <4>1, <4>2, ConstantsOK
      <4> QED
        BY <4>2, <4>3
    <3> QED
      BY <3>1, <3>2
  <2>3. i = r.k \/ i < r.k
    BY <1>2, <2>2, ConstantsOK
  <2> QED
    BY <1>2, <2>1, <2>2, <2>3 DEF Done
<1>4. ASSUME NEW f \in Done(s) PROVE DoneFile(s, f, gen'[f])
  <2>1. CASE f = At(p)
    <3>1. ExpansionDeps(f) \subseteq s.deps
      BY <1>1, <2>1 DEF AddDeps
    <3> QED
      BY <1>1, <2>1, <3>1 DEF DoneFile, Generated
  <2>2. CASE f # At(p) /\ f \in Done(r)
    <3>1. DoneFile(r, f, gen[f])
      BY <1>2, <2>2 DEF RunSound, DoneSound
    <3>2. f \in Files /\ gen'[f] = gen[f]
      BY <1>3, <2>2
    <3>3. ExpansionDeps(f) \subseteq s.deps
      BY <1>1, <1>2, <3>1, <3>2, DepsKept DEF DoneFile
    <3> QED
      BY <1>1, <3>1, <3>2, <3>3 DEF DoneFile
  <2> QED
    BY <1>3, <2>1, <2>2
<1>5. ReadIsNewer(s, gen', db)
  <2>1. ReadIsNewer(r, gen, db)
    BY <1>2 DEF RunSound
  <2>2. ReadChunks(r) = Chunks /\ ReadChunks(s) = Chunks
    BY <1>1 DEF ReadChunks, Working
  <2>3. ASSUME NEW c \in Chunks, NEW f \in Files, Tangled(gen'[f]), c \in Reach(f)
        PROVE  gen'[f][c] <= r.text[c]
    <3>1. CASE f = At(p)
      <4>1. gen'[f][c] = r.text[c]
        BY <1>2, <2>3, <3>1, ExpandFields DEF Generated
      <4> QED
        BY <4>1, VersionsAreNumbers DEF FreshInv, SnapInv
    <3>2. CASE f # At(p)
      BY <2>1, <2>2, <2>3, <3>2 DEF ReadIsNewer
    <3> QED
      BY <3>1, <3>2
  <2> QED
    BY <1>1, <2>1, <2>2, <2>3 DEF ReadIsNewer
<1>6. SkippedSound(s, db)
  BY <1>1, <1>2 DEF RunSound, SkippedSound, Working
<1>7. s.pc \in {"check", "snapshot"}
  BY <1>1
<1> HIDE DEF s, r
<1> QED
  BY <1>4, <1>5, <1>6, <1>7 DEF RunSound, DoneSound, RenameSound, StartsFirst, Fresh, r, s

(* What a process records for the file it is at is what it generates. *)
LEMMA RecordedBases ==
    ASSUME Setting, FreshInv, NEW p \in Runs
    PROVE  /\ \A f \in Files : run[p].base[f] # Nil => Recorded(p)[f] # Nil
           /\ Recorded(p)[At(p)] # Nil
<1>1. Generated(p) # Nil
  BY RunFields, ExpandIsGenerated DEF Generated
<1> QED
  BY <1>1, RunFields DEF Recorded, Bases

(* A skipped file holds what its unchanged chunks expand to: its versions  *)
(* lie between the hashes and the text, which are equal.                   *)
LEMMA SkippedFileIsFresh ==
    ASSUME Setting, FreshInv, NEW p \in Runs, run[p].pc \in Working \ {"skip"},
           NEW f \in run[p].skip, f \in Files, Tangled(gen[f])
    PROVE  gen[f] = Expand(run[p].text, f)
<1>1. gen[f] \in [Reach(f) -> Versions]
      /\ \A c \in Reach(f) : db.blocks[c] \in Versions => db.blocks[c] <= gen[f][c]
  BY DEF FreshInv, FilesInBetween
<1>2. \A c \in Reach(f) : db.blocks[c] = run[p].text[c]
  BY RunFields DEF RunSound, SkippedSound
<1>3. Reach(f) \subseteq Chunks
  BY ReachClosed, FilesAreChunks DEF Setting
<1>4. ASSUME NEW c \in Reach(f) PROVE gen[f][c] <= run[p].text[c]
  <2>1. ReadIsNewer(run[p], gen, db)
    BY RunFields DEF RunSound
  <2>2. c \in ReadChunks(run[p])
    BY <1>3 DEF ReadChunks, Working
  <2> QED
    BY <2>1, <2>2 DEF ReadIsNewer
<1>5. ASSUME NEW c \in Reach(f) PROVE gen[f][c] = run[p].text[c]
  <2>1. run[p].text[c] \in Versions /\ run[p].text[c] \in Nat
    BY <1>3, VersionsAreNumbers DEF FreshInv, SnapInv
  <2>2. gen[f][c] \in Nat
    BY <1>1, ConstantsOK DEF Versions
  <2> QED
    BY <1>1, <1>2, <1>4, <2>1, <2>2
<1> QED
  BY <1>1, <1>5, RunFields, ExpandFields

LEMMA SkipFileFresh ==
    ASSUME Setting, FreshInv, NEW p \in Runs, SkipFile(p)
    PROVE  FreshInv'
<1>1. /\ run[p].pc = "check" /\ At(p) \in run[p].skip
      /\ NextFile(p, run[p].base) /\ UNCHANGED <<text, gen, tmp, db>>
  BY DEF SkipFile
<1>2. Tangled(gen[At(p)]) => gen[At(p)] = Generated(p)
  BY <1>1, RunFields, SkippedFileIsFresh DEF Working, Generated
<1>3. RunSound(run'[p], gen', db, tmp')
  BY <1>1, <1>2, NextFileFresh
<1> QED
  BY <1>1, <1>3, FreshStep DEF FreshInv, Next, Step

LEMMA CheckFileFresh ==
    ASSUME Setting, FreshInv, NEW p \in Runs, CheckFile(p)
    PROVE  FreshInv'
<1>1. CASE Fail(p, "ModifiedExternally")
  BY <1>1, RestFresh
<1>2. CASE run' = [run EXCEPT ![p] = [@ EXCEPT !.pc = "copy", !.seen = gen[At(p)]]]
  <2> DEFINE r == run[p]
             s == run'[p]
  <2>1. /\ r.pc = "check" /\ s.pc = "copy" /\ s.text = r.text /\ s.skip = r.skip
        /\ s.force = r.force /\ s.base = r.base /\ s.deps = r.deps /\ s.k = r.k
    BY <1>2 DEF CheckFile, FreshInv, SnapInv, TypeOK, RunStates
  <2>2. RunSound(r, gen, db, tmp)
    BY RunFields
  <2>3. ReadChunks(s) = ReadChunks(r) /\ Done(s) = Done(r)
    BY <2>1 DEF ReadChunks, Done, Working
  <2> HIDE DEF r, s
  <2>4. RunSound(s, gen, db, tmp)
    BY <2>1, <2>2, <2>3 DEF RunSound, ReadIsNewer, SkippedSound, DoneSound, DoneFile,
       RenameSound, StartsFirst, Fresh, Working
  <2> QED
    BY <2>4, FreshStep DEF FreshInv, CheckFile, Next, Step, s
<1> QED
  BY <1>1, <1>2 DEF CheckFile

LEMMA CopyFileFresh ==
    ASSUME Setting, FreshInv, NEW p \in Runs, CopyFile(p)
    PROVE  FreshInv'
<1>0. run[p].pc = "copy" /\ UNCHANGED <<text, gen, db>>
  BY DEF CopyFile
<1>1. CASE gen[At(p)] = Generated(p) /\ NextFile(p, Recorded(p))
  <2>1. RunSound(run'[p], gen', db, tmp')
    BY <1>0, <1>1, RecordedBases, NextFileFresh
  <2> QED
    BY <1>0, <2>1, FreshStep DEF FreshInv, Next, Step
<1>2. CASE tmp' = [tmp EXCEPT ![TmpOf[At(p)]] = Generated(p)] /\ Goto(p, "rename")
  <2> DEFINE r == run[p]
             s == run'[p]
  <2>1. /\ r.pc = "copy" /\ s.pc = "rename" /\ s.text = r.text /\ s.skip = r.skip
        /\ s.force = r.force /\ s.base = r.base /\ s.deps = r.deps /\ s.k = r.k
    BY <1>0, <1>2 DEF Goto, FreshInv, SnapInv, TypeOK, RunStates
  <2>2. RunSound(r, gen, db, tmp)
    BY RunFields
  <2>3. ReadChunks(s) = ReadChunks(r) /\ Done(s) = Done(r)
    BY <2>1 DEF ReadChunks, Done, Working
  <2>4. tmp'[TmpOf[FileChunks[s.k]]] = Expand(s.text, FileChunks[s.k])
    <3>1. TmpOf[At(p)] \in TmpNames
      BY RunFields DEF TmpNames
    <3>2. tmp'[TmpOf[At(p)]] = Generated(p)
      BY <1>2, <3>1 DEF FreshInv, SnapInv, TypeOK
    <3> QED
      BY <2>1, <3>2 DEF At, Generated
  <2> HIDE DEF r, s
  <2>5. RunSound(s, gen, db, tmp')
    BY <2>1, <2>2, <2>3, <2>4 DEF RunSound, ReadIsNewer, SkippedSound, DoneSound, DoneFile,
       RenameSound, StartsFirst, Fresh, Working
  <2> QED
    BY <1>0, <2>5, FreshStep DEF FreshInv, Next, Step, s
<1> QED
  BY <1>1, <1>2 DEF CopyFile

LEMMA RenameFileFresh ==
    ASSUME Setting, FreshInv, NEW p \in Runs, RenameFile(p)
    PROVE  FreshInv'
<1>1. /\ run[p].pc = "rename" /\ NextFile(p, Recorded(p)) /\ UNCHANGED <<text, db>>
      /\ gen' = [gen EXCEPT ![At(p)] = tmp[TmpOf[At(p)]]]
  BY DEF RenameFile
<1>2. tmp[TmpOf[At(p)]] = Generated(p)
  BY <1>1, RunFields DEF RunSound, RenameSound, Generated
<1>3. /\ gen'[At(p)] = Generated(p)
      /\ \A f \in Files : f # At(p) => gen'[f] = gen[f]
  BY <1>1, <1>2, RunFields DEF FreshInv, SnapInv, TypeOK
<1>4. RunSound(run'[p], gen', db, tmp')
  BY <1>1, <1>3, RecordedBases, NextFileFresh
<1>5. FilesInBetween(gen', db', text')
  <2>1. ASSUME NEW c \in Reach(At(p))
        PROVE  /\ Generated(p)[c] <= text[c]
               /\ db.blocks[c] \in Versions => db.blocks[c] <= Generated(p)[c]
    <3>1. Generated(p)[c] = run[p].text[c] /\ c \in Chunks
      BY RunFields, ExpandFields DEF Generated
    <3>2. c \in ReadChunks(run[p])
      BY <1>1, <3>1 DEF ReadChunks, Working
    <3>3. ReadIsNewer(run[p], gen, db)
      BY RunFields DEF RunSound
    <3> QED
      BY <3>1, <3>2, <3>3, RunFields DEF ReadIsNewer
  <2>2. Generated(p) \in [Reach(At(p)) -> Versions]
    BY RunFields, ExpandFields DEF Generated
  <2> QED
    BY <1>1, <1>3, <2>1, <2>2 DEF FreshInv, FilesInBetween
<1> QED
  BY <1>1, <1>4, <1>5, FreshStep DEF FreshInv, Next, Step

LEMMA SnapshotFresh ==
    ASSUME Setting, FreshInv, NEW p \in Runs, Snapshot(p)
    PROVE  FreshInv'
<1> DEFINE r == run[p]
           s == run'[p]
<1>1. /\ r.pc = "snapshot" /\ s.pc = "merge" /\ s.text = r.text /\ s.skip = r.skip
      /\ s.force = r.force /\ s.base = r.base /\ s.deps = r.deps /\ s.k = r.k
  <2>1. PICK unread \in SUBSET Sources :
           run' = [run EXCEPT ![p] = [@ EXCEPT !.pc = "merge", !.snap = TextWithout(unread)]]
    BY DEF Snapshot
  <2>2. run[p] \in RunStates /\ run[p].pc = "snapshot" /\ p \in DOMAIN run
    BY DEF Snapshot, FreshInv, SnapInv, TypeOK
  <2> QED
    BY <2>1, <2>2 DEF RunStates
<1>2. RunSound(r, gen, db, tmp)
  BY RunFields
<1>3. ReadChunks(s) = ReadChunks(r) /\ Done(s) = Done(r)
  BY <1>1 DEF ReadChunks, Done, Working
<1> HIDE DEF r, s
<1>4. RunSound(s, gen, db, tmp)
  BY <1>1, <1>2, <1>3 DEF RunSound, ReadIsNewer, SkippedSound, DoneSound, DoneFile,
     RenameSound, StartsFirst, Fresh, Working
<1> QED
  BY <1>4, FreshStep DEF FreshInv, Snapshot, Next, Step, s

(* The merge: hashes and baselines become those of the text of the pass.   *)
LEMMA MergeFresh ==
    ASSUME Setting, FreshInv, NEW p \in Runs, Merge(p)
    PROVE  FreshInv'
<1> DEFINE r == run[p]
           s == run'[p]
<1>0. TypeOK
  BY DEF FreshInv, SnapInv
<1>1. /\ r.pc = "merge" /\ s.pc = "ok" /\ s.text = r.text
      /\ db' = MergedDb(r) /\ UNCHANGED <<text, gen, tmp>>
  BY <1>0, EndedFields DEF Merge, TypeOK
<1>2. RunSound(r, gen, db, tmp) /\ r \in RunStates /\ r.text \in Texts
      /\ (\A c \in Chunks : r.text[c] <= text[c])
      /\ (\A f \in Files : r.base[f] \in {Nil, Expand(r.text, f)})
  BY RunFields
<1>3. ASSUME NEW f \in Files PROVE DoneFile(r, f, gen[f])
  BY <1>1, <1>2 DEF RunSound, DoneSound, Done
<1>4. ASSUME NEW f \in Files PROVE Reach(f) \subseteq Chunks /\ f \in Reach(f)
  BY FilesAreChunks, ReachClosed DEF Setting
<1>5. /\ db'.blocks = BlocksOf(r)
      /\ r.deps \subseteq db'.deps
      /\ \A f \in Files : db'.base[f] = IF r.base[f] # Nil THEN r.base[f] ELSE db.base[f]
  BY <1>1 DEF MergedDb, DepsOf
<1>6. ASSUME NEW c \in Chunks
      PROVE  /\ db'.blocks[c] # Nil
             /\ db'.blocks[c] \in Versions => db'.blocks[c] <= r.text[c]
             /\ ~r.force => db'.blocks[c] = r.text[c]
             /\ r.text[c] \in Nat /\ r.text[c] \in Versions
  <2>1. r.text[c] \in Versions /\ r.text[c] \in Nat
    BY <1>0, VersionsAreNumbers
  <2>2. CASE ~r.force
    BY <1>5, <2>1, <2>2, SentinelsOK DEF BlocksOf
  <2>3. CASE r.force
    <3>1. c \in ReadChunks(r)
      BY <1>1 DEF ReadChunks, Working
    <3>2. db.blocks[c] \in Versions => db.blocks[c] <= r.text[c]
      BY <1>2, <3>1 DEF RunSound, ReadIsNewer
    <3>3. \/ db'.blocks[c] = Unhashed
          \/ db'.blocks[c] = db.blocks[c] /\ db.blocks[c] # Nil
      BY <1>5, <2>3 DEF BlocksOf
    <3> QED
      BY <2>1, <2>3, <3>2, <3>3, SentinelsOK
  <2> QED
    BY <2>2, <2>3
<1>7. DbSound(db', text')
  <2>1. HashesOld(db', text') /\ AllOrNothing(db')
    <3>1. ASSUME NEW c \in Chunks, db'.blocks[c] \in Versions
          PROVE  db'.blocks[c] <= text'[c]
      <4>1. db'.blocks[c] \in Nat /\ db'.blocks[c] <= r.text[c] /\ r.text[c] \in Nat
        BY <1>6, <3>1, ConstantsOK DEF Versions
      <4>2. r.text[c] <= text'[c] /\ text'[c] \in Nat
        BY <1>0, <1>1, <1>2, VersionsAreNumbers
      <4> QED
        BY <4>1, <4>2
    <3> QED
      BY <1>6, <3>1 DEF HashesOld, AllOrNothing
  <2>2. DepsComplete(db')
    BY <1>3, <1>5 DEF DepsComplete, DoneFile
  <2>3. ASSUME NEW f \in Files, db'.base[f] # Nil, NEW c \in Reach(f),
               db'.blocks[c] \in Versions
        PROVE  db'.blocks[c] <= db'.base[f][c]
    <3>1. c \in Chunks /\ db'.blocks[c] <= r.text[c]
      BY <1>4, <1>6, <2>3
    <3>2. CASE r.base[f] # Nil
      <4>1. db'.base[f] = Expand(r.text, f)
        BY <1>2, <1>5, <3>2
      <4>2. Expand(r.text, f)[c] = r.text[c]
        BY <1>2, ExpandFields
      <4> QED
        BY <3>1, <4>1, <4>2
    <3>3. CASE r.base[f] = Nil
      <4>1. f \in r.skip
        BY <1>3, <3>3 DEF DoneFile
      <4>2. ~r.force /\ db.base[f] # Nil /\ db.blocks[c] = r.text[c]
        BY <1>1, <1>2, <4>1 DEF RunSound, SkippedSound, Working
      <4>3. db'.blocks[c] = db.blocks[c] /\ db.blocks[c] \in Versions
        BY <1>6, <3>1, <4>2
      <4>4. db.blocks[c] <= db.base[f][c]
        BY <4>2, <4>3 DEF FreshInv, DbSound, BaselinesUpToDate
      <4> QED
        BY <1>5, <3>3, <4>3, <4>4
    <3> QED
      BY <3>2, <3>3
  <2> QED
    BY <2>1, <2>2, <2>3 DEF DbSound, BaselinesUpToDate
<1>8. FilesInBetween(gen', db', text')
  <2>1. ASSUME NEW f \in Files, Tangled(gen[f]), NEW c \in Reach(f)
        PROVE  db'.blocks[c] \in Versions => db'.blocks[c] <= gen[f][c]
    <3>1. gen[f] = Expand(r.text, f)
      BY <1>3, <2>1 DEF DoneFile
    <3>2. gen[f][c] = r.text[c] /\ c \in Chunks
      BY <1>2, <3>1, ExpandFields
    <3> QED
      BY <1>6, <3>2
  <2> QED
    BY <1>1, <2>1 DEF FreshInv, FilesInBetween
<1>9. RunSound(s, gen, db', tmp)
  <2>1. Fresh(s, gen)
    BY <1>1, <1>3 DEF Fresh, DoneFile
  <2>2. s.pc = "ok"
    BY <1>1
  <2> HIDE DEF s, r
  <2> QED
    BY <2>1, <2>2 DEF RunSound, ReadIsNewer, ReadChunks, SkippedSound, DoneSound, Done, RenameSound,
       StartsFirst, Working
<1> QED
  BY <1>1, <1>7, <1>8, <1>9, FreshStep DEF Next, Step

LEMMA FreshNext == ASSUME Setting, FreshInv, [Next]_vars PROVE FreshInv'
<1>1. ASSUME NEW p \in Runs, Step(p) PROVE FreshInv'
  BY <1>1, RestFresh, StartFresh, ReadDriverFresh, ComputeSkipSetFresh, SkipFileFresh,
     CheckFileFresh, CopyFileFresh, RenameFileFresh, SnapshotFresh, MergeFresh DEF Step
<1>2. CASE UNCHANGED vars
  <2>1. SnapInv' /\ KeepInv'
    BY SnapNext, KeepNext DEF FreshInv, Setting
  <2> QED
    BY <1>2, <2>1 DEF vars, FreshInv
<1> QED
  BY <1>1, <1>2, UserFresh DEF Next
-----------------------------------------------------------------------------
(* A pass that reports success leaves no stale file: whatever it skipped   *)
(* had not changed, although the skip set is computed from the hashes and  *)
(* edges of earlier passes, of which any may have failed, been killed or   *)
(* forced after some files.  Without SourcesApart it is false.             *)
THEOREM SuccessIsFresh ==
    ASSUME Setting PROVE Spec => []SuccessMeansFresh
<1>1. FreshInv /\ [Next]_vars => FreshInv'
  BY FreshNext
<1>2. FreshInv => SuccessMeansFresh
  BY FreshImplies
<1>3. Init => FreshInv
  BY FreshInit
<1> QED
  BY <1>1, <1>2, <1>3, PTL DEF Spec

(* No hash in source_blocks is newer than the baseline of a file that its  *)
(* chunk goes into, although merge_into keeps the baselines of skipped     *)
(* files and replaces all hashes, and keeps old hashes where it has no     *)
(* snapshot of a source.                                                   *)
THEOREM BaselinesStayUpToDate ==
    ASSUME Setting PROVE Spec => []BaselineNotOlder
<1>1. FreshInv /\ [Next]_vars => FreshInv'
  BY FreshNext
<1>2. FreshInv => BaselineNotOlder
  BY FreshImplies
<1>3. Init => FreshInv
  BY FreshInit
<1> QED
  BY <1>1, <1>2, <1>3, PTL DEF Spec
=============================================================================
