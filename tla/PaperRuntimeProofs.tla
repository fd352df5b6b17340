------------------------- MODULE PaperRuntimeProofs -------------------------
(***************************************************************************)
(* Theorems of PaperRuntime, for any finite portfolio and any number of    *)
(* events, fills and restarts: types, the checkpoint a restart is held to, *)
(* the archive across crashes, the evidence that is never lost nor counted *)
(* twice, and that the files implement EvidenceLedger.                     *)
(***************************************************************************)
EXTENDS PaperRuntime, FiniteSetTheorems, SequenceTheorems, TLAPS

-----------------------------------------------------------------------------
(* The inductive invariant                                                 *)

\* What the process holds in memory is what it saved last, except for the
\* trades of the event it has just dispatched; a process that is down holds
\* nothing.
MemoryInv ==
    /\ pc = "down" => ~reconciled /\ todo = {} /\ current = Absent
    /\ pc # "down" => store # Absent
    /\ pc \in {"idle", "committed", "archive", "replace"} => journal = store
    /\ pc \in {"idle", "dispatched", "committed"} => ~journal.closed
    /\ pc \in {"archive", "replace"} => journal.closed
    /\ pc = "dispatched" =>
          /\ cursor \in Events
          /\ journal.session = store.session
          /\ journal.events = store.events
          /\ journal.tainted = store.tainted
          /\ ~store.closed
          /\ \A strategy \in Strategies :
                store.trades[strategy] \subseteq journal.trades[strategy]
    /\ pc # "archive" => todo = {} /\ current = Absent
    /\ current # Absent => current \in todo /\ Report(journal, current) \in history[current]

CheckpointInv ==
    /\ CheckpointCurrent
    /\ pc = "committed" => store.checkpoint = engine

\* The reports of one strategy: one for each window, the last for the closed
\* window of the state file if that has been archived already.
ArchiveInv(strategy) ==
    LET reports == archive[strategy] IN
    /\ \A i \in 1..Len(reports) : reports[i].session = i
    /\ \A i \in 1..Len(reports) : reports[i] \in history[strategy]
    /\ \A a, b \in history[strategy] : a.session = b.session => a = b
    /\ store = Absent => Len(reports) = 0 /\ history[strategy] = {}
    /\ store # Absent =>
          /\ Len(reports) = store.session - 1 \/ (store.closed /\ Len(reports) = store.session)
          /\ Len(reports) = store.session => reports[store.session] = Report(store, strategy)
          /\ \A r \in history[strategy] :
                r.session < store.session \/ (store.closed /\ r = Report(store, strategy))
    /\ pc = "archive" /\ strategy \notin todo => Len(reports) = store.session
    /\ pc = "replace" => Len(reports) = store.session

IInv ==
    /\ TypeOK
    /\ MemoryInv
    /\ CheckpointInv
    /\ \A strategy \in Strategies : ArchiveInv(strategy)

-----------------------------------------------------------------------------
(* Types                                                                   *)

\* A journal is closed, continued and reported within its type.
LEMMA JournalTypes ==
    ASSUME NEW j \in Journals
    PROVE  /\ j.session \in Nat \ {0}
           /\ j.events \in SUBSET Events
           /\ j.closed \in BOOLEAN
           /\ \A strategy \in Strategies : Report(j, strategy) \in Reports
           /\ Replacement(j) \in Journals
           /\ [j EXCEPT !.closed = TRUE] \in Journals
           /\ [j EXCEPT !.tainted = TRUE] \in Journals
           /\ \A e \in Engines : [j EXCEPT !.checkpoint = e] \in Journals
<1>1. j.session \in Nat \ {0} /\ j.events \in SUBSET Events /\ j.closed \in BOOLEAN
  BY DEF Journals
<1>2. \A strategy \in Strategies : Report(j, strategy) \in Reports
  BY DEF Journals, Reports, Report
<1>3. Replacement(j) \in Journals
  BY DEF Journals, Replacement, NewJournal
<1>4. [j EXCEPT !.closed = TRUE] \in Journals
  BY DEF Journals
<1>5. [j EXCEPT !.tainted = TRUE] \in Journals
  BY DEF Journals
<1>6. \A e \in Engines : [j EXCEPT !.checkpoint = e] \in Journals
  BY DEF Journals
<1> QED
  BY <1>1, <1>2, <1>3, <1>4, <1>5, <1>6

\* The journal of a first window (paper_portfolio.py).
LEMMA NewJournalType == NewJournal(1) \in Journals
BY DEF NewJournal, Journals

\* An engine that has just started is one of the engines.
LEMMA FreshEngineType == FreshEngine \in Engines
BY PaperAssumption DEF FreshEngine, Engines

\* The fills of a dispatch keep the engine's type (nautilus_paper.py:470).
LEMMA DispatchType ==
    ASSUME TypeOK, Dispatch
    PROVE  engine' \in Engines /\ journal' \in Journals /\ attempted' \in SUBSET Events
<1>1. PICK event \in Events, instrument \in Instruments,
           position \in [Strategies -> Sides] :
         LET moved == {s \in Strategies : position[s] # engine.position[s]} IN
         /\ pc = "idle"
         /\ engine.fills + Cardinality(moved) <= MaxFills
         /\ engine' = [position |-> position, fills |-> engine.fills + Cardinality(moved)]
         /\ journal' = [journal EXCEPT !.trades =
                          [s \in Strategies |->
                             IF s \in moved /\ engine.position[s] # 0
                             THEN @[s] \cup {event} ELSE @[s]]]
         /\ attempted' = attempted \cup {event}
  BY DEF Dispatch, Delivered
<1> DEFINE moved == {s \in Strategies : position[s] # engine.position[s]}
<1>2. Cardinality(moved) \in Nat
  BY PaperAssumption, FS_Subset, FS_CardinalityType
<1>3. engine.fills + Cardinality(moved) \in 0..MaxFills
  BY <1>1, <1>2, PaperAssumption DEF TypeOK, Engines
<1>4. engine' \in Engines
  BY <1>1, <1>3 DEF Engines
<1>5. journal \in Journals
  BY <1>1 DEF TypeOK
<1>6. journal' \in Journals
  BY <1>1, <1>5 DEF Journals
<1> QED
  BY <1>1, <1>4, <1>6 DEF TypeOK

\* Recording the event at the cursor keeps the journal's type.
LEMMA CommitType ==
    ASSUME TypeOK, journal \in Journals, cursor \in Events
    PROVE  Checkpointed(journal) \in Journals
BY DEF TypeOK, Checkpointed, Journals

\* An archive grows by reports only.
LEMMA AppendedType ==
    ASSUME NEW reports \in Seq(Reports), NEW report \in Reports
    PROVE  Appended(reports, report) \in Seq(Reports)
BY AppendProperties DEF Appended

\* Every step keeps the types, a dispatched event being one of the model's.
LEMMA TypeStep ==
    ASSUME TypeOK, pc = "dispatched" => cursor \in Events, [Next]_vars
    PROVE  TypeOK'
<1>1. CASE NewEvent
  BY <1>1, PaperAssumption DEF TypeOK, NewEvent, files, process
<1>2. CASE RequestRotation
  BY <1>2 DEF TypeOK, RequestRotation, files, process, world
<1>3. CASE Crash
  BY <1>3, FreshEngineType DEF TypeOK, Crash, files, world
<1>4. CASE BootFirst
  <2>1. cursor' \in 1..MaxEvents + 1
    BY <1>4, PaperAssumption DEF TypeOK, BootFirst, Boot, FirstExpected
  <2> QED
    BY <1>4, <2>1, NewJournalType, PaperAssumption DEF TypeOK, BootFirst, Boot
<1>5. CASE BootResume
  <2>1. cursor' \in 1..MaxEvents + 1
    BY <1>5, PaperAssumption DEF TypeOK, BootResume, Boot, FirstExpected
  <2>2. store \in Journals /\ store.checkpoint \in Engines \cup {Absent}
    BY <1>5 DEF TypeOK, BootResume, Journals
  <2> QED
    BY <1>5, <2>1, <2>2, PaperAssumption DEF TypeOK, BootResume, Boot
<1>6. CASE BootClosed
  <2>1. cursor' \in 1..MaxEvents + 1
    BY <1>6, PaperAssumption DEF TypeOK, BootClosed, Boot, FirstExpected
  <2> QED
    BY <1>6, <2>1, PaperAssumption DEF TypeOK, BootClosed, Boot, Unarchived
<1>7. CASE SkipRecorded
  BY <1>7, PaperAssumption DEF TypeOK, SkipRecorded, Delivered, Events, world, files
<1>8. CASE StartupReconcile
  <2>1. journal \in Journals /\ engine \in Engines
    BY <1>8 DEF TypeOK, StartupReconcile, Delivered
  <2>2. store' \in Journals
    BY <1>8, <2>1, JournalTypes DEF StartupReconcile
  <2>3. /\ journal' \in Journals \cup {Absent}
        /\ (journal' = Absent) <=> (pc' = "down")
        /\ expected' \in Engines \cup {Absent}
        /\ reconciled' \in BOOLEAN
        /\ pc' \in {"down", "idle"}
    <3>1. CASE StartupOk
      BY <1>8, <2>2, <3>1, PaperAssumption DEF StartupReconcile, StartupOk, TypeOK
    <3>2. CASE ~StartupOk
      BY <1>8, <3>2 DEF StartupReconcile, StartupOk, TypeOK
    <3> QED
      BY <3>1, <3>2
  <2>4. UNCHANGED <<world, history, archive, request, engine, cursor, todo, current, opening>>
    BY <1>8 DEF StartupReconcile
  <2> QED
    BY <2>2, <2>3, <2>4 DEF TypeOK, world
<1>9. CASE Dispatch
  BY <1>9, DispatchType, PaperAssumption DEF TypeOK, Dispatch, files
<1>10. CASE Commit
  <2>1. journal \in Journals /\ cursor \in Events
    BY <1>10 DEF TypeOK, Commit
  <2>2. Checkpointed(journal) \in Journals
    BY <2>1, CommitType
  <2>3. cursor + 1 \in 1..MaxEvents + 1
    BY <2>1, PaperAssumption DEF Events
  <2> QED
    BY <1>10, <2>2, <2>3, PaperAssumption DEF TypeOK, Commit, world
<1>11. CASE KeepWindow
  BY <1>11 DEF TypeOK, KeepWindow, world, files, process
<1>12. CASE CloseWindow
  <2>1. journal \in Journals
    BY <1>12 DEF TypeOK, CloseWindow
  <2> QED
    BY <1>12, <2>1, JournalTypes, PaperAssumption DEF TypeOK, CloseWindow, world
<1>13. CASE \E strategy \in Strategies : SaveHistory(strategy)
  <2>1. PICK strategy \in Strategies : SaveHistory(strategy)
    BY <1>13
  <2>2. Report(journal, strategy) \in Reports
    BY <2>1, JournalTypes DEF TypeOK, SaveHistory
  <2> QED
    BY <2>1, <2>2 DEF TypeOK, SaveHistory, world
<1>14. CASE AppendReport
  <2>1. current \in Strategies /\ archive[current] \in Seq(Reports)
    BY <1>14 DEF TypeOK, AppendReport
  <2>2. Report(journal, current) \in Reports
    BY <1>14, <2>1, JournalTypes DEF TypeOK, AppendReport
  <2>3. Appended(archive[current], Report(journal, current)) \in Seq(Reports)
    BY <2>1, <2>2, AppendedType
  <2> QED
    BY <1>14, <2>1, <2>3 DEF TypeOK, AppendReport, world
<1>15. CASE UnlinkRequest
  BY <1>15 DEF TypeOK, UnlinkRequest, world, files, process
<1>16. CASE OpenWindow
  <2>1. journal \in Journals
    BY <1>16 DEF TypeOK, OpenWindow
  <2> QED
    BY <1>16, <2>1, JournalTypes, PaperAssumption DEF TypeOK, OpenWindow, world
<1>17. CASE UNCHANGED vars
  BY <1>17 DEF TypeOK, vars, world, files, process
<1> QED
  BY <1>1, <1>2, <1>3, <1>4, <1>5, <1>6, <1>7, <1>8, <1>9, <1>10, <1>11, <1>12,
     <1>13, <1>14, <1>15, <1>16, <1>17 DEF Next, Rotation
-----------------------------------------------------------------------------
(* Memory and files                                                        *)

\* What a process holds in memory and what it saved stay in step.
LEMMA MemoryStep ==
    ASSUME TypeOK, MemoryInv, [Next]_vars
    PROVE  MemoryInv'
<1> USE PaperAssumption
<1>1. CASE NewEvent \/ RequestRotation \/ UNCHANGED vars
  BY <1>1 DEF MemoryInv, NewEvent, RequestRotation, vars, world, files, process, Report
<1>2. CASE Crash
  BY <1>2 DEF MemoryInv, Crash
<1>3. CASE BootFirst
  <2>1. ~NewJournal(1).closed /\ NewJournal(1) # Absent
    BY NewJournalType DEF NewJournal
  <2> QED
    BY <1>3, <2>1 DEF MemoryInv, BootFirst, Boot
<1>4. CASE BootResume
  BY <1>4 DEF MemoryInv, BootResume, Boot
<1>5. CASE BootClosed
  BY <1>5 DEF MemoryInv, BootClosed, Boot
<1>6. CASE SkipRecorded
  BY <1>6 DEF MemoryInv, SkipRecorded, Delivered, files, world
<1>7. CASE StartupReconcile
  <2>1. /\ journal \in Journals /\ engine \in Engines /\ pc = "idle" /\ current = Absent
        /\ todo = {} /\ ~journal.closed
    BY <1>7 DEF StartupReconcile, Delivered, MemoryInv, TypeOK
  <2>2. store' \in Journals /\ store'.closed = journal.closed
    <3>1. store' \in {[journal EXCEPT !.checkpoint = engine],
                      [journal EXCEPT !.tainted = TRUE]}
      BY <1>7 DEF StartupReconcile
    <3>2. /\ [journal EXCEPT !.checkpoint = engine].closed = journal.closed
          /\ [journal EXCEPT !.tainted = TRUE].closed = journal.closed
      BY <2>1 DEF Journals
    <3>3. /\ [journal EXCEPT !.checkpoint = engine] \in Journals
          /\ [journal EXCEPT !.tainted = TRUE] \in Journals
      BY <2>1, JournalTypes
    <3> QED
      BY <3>1, <3>2, <3>3
  <2>3. /\ IF pc' = "idle" THEN journal' = store' ELSE ~reconciled'
        /\ pc' \in {"idle", "down"} /\ todo' = {} /\ current' = Absent
    BY <1>7, <2>1 DEF StartupReconcile
  <2> QED
    BY <2>1, <2>2, <2>3 DEF MemoryInv
<1>8. CASE Dispatch
  <2>1. /\ cursor \in Events /\ cursor' = cursor /\ pc' = "dispatched" /\ store' = store
        /\ pc = "idle" /\ todo' = todo /\ current' = current
    BY <1>8 DEF Dispatch, Delivered, files
  <2>2. journal = store /\ journal \in Journals /\ ~store.closed
    BY <2>1 DEF MemoryInv, TypeOK
  <2>3. /\ journal'.session = journal.session
        /\ journal'.events = journal.events
        /\ journal'.tainted = journal.tainted
        /\ journal'.closed = journal.closed
        /\ \A s \in Strategies : journal.trades[s] \subseteq journal'.trades[s]
    <3>1. PICK event \in Events, position \in [Strategies -> Sides] :
             journal' = [journal EXCEPT !.trades =
                          [s \in Strategies |->
                             IF /\ s \in {t \in Strategies :
                                            position[t] # engine.position[t]}
                                /\ engine.position[s] # 0
                             THEN @[s] \cup {event} ELSE @[s]]]
      BY <1>8 DEF Dispatch
    <3> QED
      BY <2>2, <3>1 DEF Journals
  <2> QED
    BY <2>1, <2>2, <2>3 DEF MemoryInv
<1>9. CASE Commit
  <2>1. journal \in Journals /\ cursor \in Events /\ ~journal.closed
    BY <1>9 DEF Commit, MemoryInv, TypeOK
  <2>2. Checkpointed(journal) \in Journals /\ ~Checkpointed(journal).closed
    BY <2>1, CommitType DEF Checkpointed, Journals
  <2> QED
    BY <1>9, <2>2 DEF Commit, MemoryInv
<1>10. CASE KeepWindow
  BY <1>10 DEF MemoryInv, KeepWindow, files, process
<1>11. CASE CloseWindow
  <2>1. journal \in Journals
    BY <1>11 DEF CloseWindow, TypeOK
  <2>2. journal' \in Journals /\ journal'.closed
    BY <1>11, <2>1, JournalTypes DEF CloseWindow, Journals
  <2> QED
    BY <1>11, <2>2 DEF CloseWindow, MemoryInv
<1>12. CASE \E strategy \in Strategies : SaveHistory(strategy)
  <2>1. PICK strategy \in Strategies : SaveHistory(strategy)
    BY <1>12
  <2>2. Report(journal, strategy) \in history'[strategy] /\ journal' = journal
    BY <2>1 DEF SaveHistory, TypeOK
  <2>3. Report(journal', strategy) = Report(journal, strategy)
    BY <2>2
  <2> QED
    BY <2>1, <2>2, <2>3 DEF SaveHistory, MemoryInv, Report
<1>13. CASE AppendReport
  BY <1>13 DEF AppendReport, MemoryInv
<1>14. CASE UnlinkRequest
  BY <1>14 DEF UnlinkRequest, MemoryInv, files, process
<1>15. CASE OpenWindow
  <2>1. journal \in Journals
    BY <1>15 DEF OpenWindow, TypeOK
  <2>2. Replacement(journal) \in Journals /\ ~Replacement(journal).closed
    BY <2>1, JournalTypes DEF Replacement, NewJournal
  <2> QED
    BY <1>15, <2>2 DEF OpenWindow, MemoryInv
<1> QED
  BY <1>1, <1>2, <1>3, <1>4, <1>5, <1>6, <1>7, <1>8, <1>9, <1>10, <1>11, <1>12,
     <1>13, <1>14, <1>15 DEF Next, Rotation

\* The checkpoint on disk is the state of the engine whenever the worker waits.
LEMMA CheckpointStep ==
    ASSUME TypeOK, MemoryInv, CheckpointInv, [Next]_vars
    PROVE  CheckpointInv'
<1> USE PaperAssumption DEF CheckpointInv, CheckpointCurrent
<1>1. CASE NewEvent \/ RequestRotation \/ UNCHANGED vars
  BY <1>1 DEF NewEvent, RequestRotation, vars, world, files, process
<1>2. CASE Crash
  BY <1>2 DEF Crash
<1>3. CASE BootFirst \/ BootResume \/ BootClosed
  BY <1>3 DEF MemoryInv, BootFirst, BootResume, BootClosed, Boot
<1>4. CASE SkipRecorded
  BY <1>4 DEF SkipRecorded, Delivered, files
<1>5. CASE StartupReconcile
  <2>1. journal \in Journals
    BY <1>5 DEF StartupReconcile, Delivered, TypeOK
  <2>2. StartupOk => store'.checkpoint = engine
    BY <1>5, <2>1 DEF StartupReconcile, Journals
  <2> QED
    BY <1>5, <2>2 DEF StartupReconcile, StartupOk
<1>6. CASE Dispatch
  BY <1>6 DEF Dispatch
<1>7. CASE Commit
  <2>1. journal \in Journals
    BY <1>7 DEF Commit, TypeOK
  <2>2. Checkpointed(journal).checkpoint = engine
    BY <2>1 DEF Checkpointed, Journals
  <2> QED
    BY <1>7, <2>2 DEF Commit
<1>8. CASE KeepWindow
  BY <1>8 DEF KeepWindow, files, process
<1>9. CASE CloseWindow \/ \E strategy \in Strategies : SaveHistory(strategy)
  BY <1>9 DEF CloseWindow, SaveHistory
<1>10. CASE AppendReport \/ UnlinkRequest
  BY <1>10 DEF AppendReport, UnlinkRequest
<1>11. CASE OpenWindow
  BY <1>11 DEF OpenWindow
<1> QED
  BY <1>1, <1>2, <1>3, <1>4, <1>5, <1>6, <1>7, <1>8, <1>9, <1>10, <1>11
  DEF Next, Rotation

-----------------------------------------------------------------------------
(* The archive                                                             *)

\* The report of a window depends on these fields of its journal only.
LEMMA SameReport ==
    ASSUME NEW j, NEW k, j.session = k.session, j.events = k.events,
           j.trades = k.trades, j.tainted = k.tainted
    PROVE  \A strategy \in Strategies : Report(j, strategy) = Report(k, strategy)
BY DEF Report

\* An archive of a closed window's predecessors ends up with its report, at
\* the place of its number, and keeps what it had (paper_archive.py).
LEMMA AppendedReport ==
    ASSUME NEW reports \in Seq(Reports), NEW report \in Reports,
           \A i \in 1..Len(reports) : reports[i].session = i,
           \/ Len(reports) = report.session - 1
           \/ Len(reports) = report.session /\ reports[report.session] = report
    PROVE  /\ Len(Appended(reports, report)) = report.session
           /\ Appended(reports, report)[report.session] = report
           /\ \A i \in 1..Len(reports) : Appended(reports, report)[i] = reports[i]
           /\ Len(reports) \in {report.session - 1, report.session}
<1>1. report.session \in Nat \ {0}
  BY DEF Reports
<1>2. CASE Len(reports) = report.session
  <2>1. Contains(reports, report)
    BY <1>1, <1>2 DEF Contains
  <2> QED
    BY <1>1, <1>2, <2>1 DEF Appended
<1>3. CASE Len(reports) = report.session - 1
  <2>1. ~Contains(reports, report)
    BY <1>1, <1>3 DEF Contains
  <2> QED
    BY <1>1, <1>3, <2>1, AppendProperties DEF Appended
<1> QED
  BY <1>2, <1>3

\* A step that leaves the files of evidence alone, and neither begins nor
\* advances a rotation.
LEMMA ArchiveFrame ==
    ASSUME NEW strategy \in Strategies, ArchiveInv(strategy),
           UNCHANGED <<store, history, archive>>,
           \/ pc' \notin {"archive", "replace"}
           \/ pc' = pc /\ todo' = todo
           \/ pc' = "archive" /\ todo' = Strategies
    PROVE  ArchiveInv(strategy)'
BY DEF ArchiveInv, Report

\* A step that saves the journal of the same window.
LEMMA ArchiveSave ==
    ASSUME NEW strategy \in Strategies, ArchiveInv(strategy),
           UNCHANGED <<history, archive>>,
           store # Absent, ~store.closed, store \in Journals,
           store' # Absent, store'.session = store.session,
           archive[strategy] \in Seq(Reports),
           \/ pc' \notin {"archive", "replace"}
           \/ pc' = "archive" /\ todo' = Strategies
    PROVE  ArchiveInv(strategy)'
<1>1. store.session \in Nat \ {0} /\ Len(archive[strategy]) \in Nat
  BY DEF Journals
<1>2. Len(archive[strategy]) = store.session - 1
  BY DEF ArchiveInv
<1>3. \A r \in history[strategy] : r.session < store.session
  BY DEF ArchiveInv
<1> QED
  BY <1>1, <1>2, <1>3 DEF ArchiveInv

\* Every step keeps the archive of a strategy complete, in order and equal to
\* the history directory.
LEMMA ArchiveStep ==
    ASSUME TypeOK, MemoryInv, [Next]_vars,
           NEW strategy \in Strategies, ArchiveInv(strategy)
    PROVE  ArchiveInv(strategy)'
<1> USE PaperAssumption
<1> DEFINE reports == archive[strategy]
<1>0. reports \in Seq(Reports) /\ Len(reports) \in Nat
  BY DEF TypeOK
<1>1. CASE NewEvent \/ RequestRotation \/ UNCHANGED vars
  BY <1>1, ArchiveFrame DEF NewEvent, RequestRotation, vars, files, process
<1>2. CASE Crash
  BY <1>2, ArchiveFrame DEF Crash, files
<1>3. CASE BootFirst
  <2>1. Len(reports) = 0 /\ history[strategy] = {}
    BY <1>3 DEF ArchiveInv, BootFirst
  <2>2. store'.session = 1 /\ store' # Absent
    BY <1>3, NewJournalType DEF BootFirst, NewJournal
  <2>3. pc' = "idle" /\ UNCHANGED <<history, archive>>
    BY <1>3 DEF BootFirst, Boot
  <2> QED
    BY <2>1, <2>2, <2>3 DEF ArchiveInv
<1>4. CASE BootResume
  BY <1>4, ArchiveFrame DEF BootResume, Boot
<1>5. CASE BootClosed
  BY <1>5, ArchiveFrame DEF BootClosed, Boot, Unarchived
<1>6. CASE SkipRecorded
  BY <1>6, ArchiveFrame DEF SkipRecorded, Delivered, files
<1>7. CASE StartupReconcile
  <2>1. journal = store /\ store \in Journals /\ ~store.closed /\ store # Absent
    BY <1>7 DEF StartupReconcile, Delivered, MemoryInv, TypeOK
  <2>2. store' \in {[journal EXCEPT !.checkpoint = engine],
                    [journal EXCEPT !.tainted = TRUE]} /\ engine \in Engines
    BY <1>7 DEF StartupReconcile, TypeOK
  <2>3. store' \in Journals /\ store'.session = store.session
    <3>1. /\ [journal EXCEPT !.checkpoint = engine].session = journal.session
          /\ [journal EXCEPT !.tainted = TRUE].session = journal.session
      BY <2>1 DEF Journals
    <3>2. /\ [journal EXCEPT !.checkpoint = engine] \in Journals
          /\ [journal EXCEPT !.tainted = TRUE] \in Journals
      BY <2>1, <2>2, JournalTypes
    <3> QED
      BY <2>1, <2>2, <3>1, <3>2
  <2>4. pc' \in {"idle", "down"} /\ UNCHANGED <<history, archive>>
    BY <1>7 DEF StartupReconcile
  <2> QED
    BY <1>0, <2>1, <2>3, <2>4, ArchiveSave
<1>8. CASE Dispatch
  BY <1>8, ArchiveFrame DEF Dispatch, files
<1>9. CASE Commit
  <2>1. /\ journal \in Journals /\ cursor \in Events /\ ~store.closed
        /\ store \in Journals /\ store # Absent /\ journal.session = store.session
    BY <1>9 DEF Commit, MemoryInv, TypeOK
  <2>2. store' \in Journals /\ store'.session = store.session
    BY <1>9, <2>1, CommitType DEF Commit, Checkpointed, Journals
  <2>3. pc' = "committed" /\ UNCHANGED <<history, archive>>
    BY <1>9 DEF Commit
  <2> QED
    BY <1>0, <2>1, <2>2, <2>3, ArchiveSave
<1>10. CASE KeepWindow
  BY <1>10, ArchiveFrame DEF KeepWindow, files
<1>11. CASE CloseWindow
  <2>1. journal = store /\ store \in Journals /\ ~store.closed /\ store # Absent
    BY <1>11 DEF CloseWindow, MemoryInv, TypeOK
  <2>2. store' \in Journals /\ store'.session = store.session
    BY <1>11, <2>1, JournalTypes DEF CloseWindow, Journals
  <2>3. pc' = "archive" /\ todo' = Strategies /\ UNCHANGED <<history, archive>>
    BY <1>11 DEF CloseWindow
  <2> QED
    BY <1>0, <2>1, <2>2, <2>3, ArchiveSave
<1>12. CASE \E s \in Strategies : SaveHistory(s)
  <2>1. PICK s \in Strategies : SaveHistory(s)
    BY <1>12
  <2>2. journal = store /\ store \in Journals /\ store.closed /\ store # Absent
    BY <2>1 DEF SaveHistory, MemoryInv, TypeOK
  <2>3. UNCHANGED <<store, archive, pc, todo>>
    BY <2>1 DEF SaveHistory
  <2>4. history'[strategy] \subseteq history[strategy] \cup {Report(store, strategy)}
    BY <2>1, <2>2 DEF SaveHistory, TypeOK
  <2>5. history[strategy] \subseteq history'[strategy]
    BY <2>1 DEF SaveHistory, TypeOK
  <2>6. Report(store, strategy).session = store.session /\ store.session \in Nat
    BY <2>2 DEF Report, Journals
  <2>7. \A r \in history'[strategy] : r.session < store.session \/ r = Report(store, strategy)
    BY <2>2, <2>4 DEF ArchiveInv
  <2>8. \A a, b \in history'[strategy] : a.session = b.session => a = b
    BY <2>2, <2>4, <2>6 DEF ArchiveInv
  <2>9. Report(store', strategy) = Report(store, strategy)
    BY <2>3
  <2> QED
    BY <2>2, <2>3, <2>5, <2>7, <2>8, <2>9 DEF ArchiveInv
<1>13. CASE AppendReport
  <2>1. /\ journal = store /\ store \in Journals /\ store.closed /\ store # Absent
        /\ current \in todo /\ Report(journal, current) \in history[current]
        /\ pc = "archive" /\ pc' = "archive"
    BY <1>13 DEF AppendReport, MemoryInv, TypeOK
  <2>2. UNCHANGED <<store, history>> /\ Report(store', strategy) = Report(store, strategy)
    BY <1>13 DEF AppendReport, Report
  <2>3. store.session \in Nat \ {0}
    BY <2>1 DEF Journals
  <2>4. CASE current = strategy
    <3> DEFINE report == Report(store, strategy)
    <3>1. report \in Reports /\ report.session = store.session
      BY <2>1, JournalTypes DEF Report
    <3>2. archive'[strategy] = Appended(reports, report)
      BY <1>13, <2>1, <2>4 DEF AppendReport, TypeOK
    <3>3. /\ \A i \in 1..Len(reports) : reports[i].session = i
          /\ \/ Len(reports) = report.session - 1
             \/ Len(reports) = report.session /\ reports[report.session] = report
      BY <2>1, <3>1 DEF ArchiveInv
    <3> HIDE DEF report, reports
    <3>4. /\ Len(archive'[strategy]) = store.session
          /\ archive'[strategy][store.session] = report
          /\ \A i \in 1..Len(reports) : archive'[strategy][i] = reports[i]
          /\ Len(reports) \in {store.session - 1, store.session}
      BY <1>0, <3>1, <3>2, <3>3, AppendedReport
    <3>5. \A i \in 1..store.session : i \in 1..Len(reports) \/ i = store.session
      BY <1>0, <2>3, <3>4
    <3>6. \A i \in 1..store.session : archive'[strategy][i].session = i
      BY <3>1, <3>3, <3>4, <3>5
    <3>7. report \in history[strategy]
      BY <2>1, <2>4 DEF report
    <3>8. \A i \in 1..Len(reports) : reports[i] \in history[strategy]
      BY DEF ArchiveInv, reports
    <3>9. \A i \in 1..store.session : archive'[strategy][i] \in history'[strategy]
      BY <2>2, <3>4, <3>5, <3>7, <3>8
    <3>10. /\ \A a, b \in history'[strategy] : a.session = b.session => a = b
           /\ \A r \in history'[strategy] :
                r.session < store'.session \/ (store'.closed /\ r = Report(store', strategy))
      BY <2>1, <2>2 DEF ArchiveInv
    <3>11. archive'[strategy][store'.session] = Report(store', strategy)
      BY <2>2, <3>4 DEF report
    <3> QED
      BY <2>1, <2>2, <3>4, <3>6, <3>9, <3>10, <3>11 DEF ArchiveInv
  <2>5. CASE current # strategy
    <3>1. archive'[strategy] = archive[strategy]
      BY <1>13, <2>5 DEF AppendReport, TypeOK
    <3>2. strategy \notin todo' => strategy \notin todo
      BY <1>13, <2>5 DEF AppendReport
    <3> QED
      BY <2>1, <2>2, <3>1, <3>2 DEF ArchiveInv
  <2> QED
    BY <2>4, <2>5
<1>14. CASE UnlinkRequest
  <2>1. UNCHANGED <<store, history, archive>> /\ pc = "archive" /\ pc' = "replace" /\ todo = {}
    BY <1>14 DEF UnlinkRequest, files
  <2>2. Report(store', strategy) = Report(store, strategy)
    BY <2>1
  <2> QED
    BY <2>1, <2>2 DEF ArchiveInv
<1>15. CASE OpenWindow
  <2>1. journal = store /\ store \in Journals /\ store # Absent /\ store.session \in Nat
    BY <1>15 DEF OpenWindow, MemoryInv, TypeOK, Journals
  <2>2. Replacement(journal) \in Journals /\ Replacement(journal).session = store.session + 1
    BY <2>1, JournalTypes DEF Replacement, NewJournal
  <2>3. /\ store' # Absent /\ store'.session = store.session + 1 /\ pc' = "idle"
        /\ UNCHANGED <<history, archive>>
    BY <1>15, <2>2 DEF OpenWindow
  <2>4. Len(reports) = store.session
    BY <1>15, <2>1 DEF OpenWindow, ArchiveInv
  <2>5. \A r \in history[strategy] : r.session < store.session + 1
    <3> SUFFICES ASSUME NEW r \in history[strategy]
                 PROVE  r.session < store.session + 1
      OBVIOUS
    <3>1. r.session \in Nat
      BY DEF TypeOK, Reports
    <3> QED
      BY <2>1, <3>1 DEF ArchiveInv, Report
  <2> QED
    BY <2>1, <2>3, <2>4, <2>5 DEF ArchiveInv
<1> QED
  BY <1>1, <1>2, <1>3, <1>4, <1>5, <1>6, <1>7, <1>8, <1>9, <1>10, <1>11, <1>12,
     <1>13, <1>14, <1>15 DEF Next, Rotation

-----------------------------------------------------------------------------
(* The theorems of the invariant                                           *)

\* Every step keeps the invariant.
LEMMA InvariantStep ==
    ASSUME IInv, [Next]_vars
    PROVE  IInv'
<1>1. TypeOK'
  BY TypeStep DEF IInv, MemoryInv
<1>2. MemoryInv' /\ CheckpointInv'
  BY MemoryStep, CheckpointStep DEF IInv
<1>3. \A strategy \in Strategies : ArchiveInv(strategy)'
  BY ArchiveStep DEF IInv
<1> QED
  BY <1>1, <1>2, <1>3 DEF IInv

\* The invariant holds at the start, and every step keeps it.
LEMMA Invariant == Spec => []IInv
<1>1. Init => IInv
  <2> SUFFICES ASSUME Init PROVE IInv
    OBVIOUS
  <2>1. TypeOK
    <3>1. archive \in [Strategies -> Seq(Reports)]
      BY EmptySeq DEF Init
    <3>2. history \in [Strategies -> SUBSET Reports] /\ cursor \in 1..MaxEvents + 1
      BY PaperAssumption DEF Init
    <3>3. head \in 0..MaxEvents /\ boots \in 0..MaxBoots
      BY PaperAssumption DEF Init
    <3>4. /\ source \in Sources /\ attempted \in SUBSET Events /\ todo \in SUBSET Strategies
          /\ request \in BOOLEAN /\ reconciled \in BOOLEAN /\ opening \in BOOLEAN
      BY Zenon DEF Init
    <3>5. /\ store \in Journals \cup {Absent} /\ journal \in Journals \cup {Absent}
          /\ journal = Absent /\ pc = "down" /\ engine \in Engines
          /\ expected \in Engines \cup {Absent} /\ current \in Strategies \cup {Absent}
      BY FreshEngineType DEF Init
    <3> QED
      BY <3>1, <3>2, <3>3, <3>4, <3>5 DEF TypeOK
  <2>2. MemoryInv /\ CheckpointInv
    BY DEF Init, MemoryInv, CheckpointInv, CheckpointCurrent
  <2>3. \A strategy \in Strategies : ArchiveInv(strategy)
    BY DEF Init, ArchiveInv
  <2> QED
    BY <2>1, <2>2, <2>3 DEF IInv
<1> QED
  BY <1>1, InvariantStep, PTL DEF Spec

\* Type correctness, and that exactly a running process holds a journal.
THEOREM TypesHold == Spec => []TypeOK
<1>1. IInv => TypeOK
  BY DEF IInv
<1> QED
  BY <1>1, Invariant, PTL

\* Whenever a reconciled worker waits for an event, the checkpoint in the state
\* file is the engine a restart has to reconcile with (execution_runtime.py:270).
THEOREM CheckpointIsCurrent == Spec => []CheckpointCurrent
<1>1. IInv => CheckpointCurrent
  BY DEF IInv, CheckpointInv
<1> QED
  BY <1>1, Invariant, PTL

\* Whichever step of a rotation a process dies at, the archives hold each
\* finished window once, in order, as the history directory has it.
THEOREM ArchivesComplete == Spec => []ArchiveComplete
<1>1. IInv => ArchiveComplete
  <2> SUFFICES ASSUME IInv, NEW strategy \in Strategies
               PROVE  LET reports == archive[strategy] IN
                      /\ \A i \in 1..Len(reports) : reports[i].session = i
                      /\ Range(reports) \subseteq history[strategy]
                      /\ \A a, b \in history[strategy] : a.session = b.session => a = b
                      /\ IF store = Absent THEN reports = <<>>
                         ELSE Len(reports) \in {store.session - 1,
                                                IF store.closed THEN store.session
                                                ELSE store.session - 1}
    BY DEF ArchiveComplete
  <2>1. archive[strategy] \in Seq(Reports)
    BY DEF IInv, TypeOK
  <2>2. ArchiveInv(strategy)
    BY DEF IInv
  <2>3. Range(archive[strategy]) \subseteq history[strategy]
    BY <2>1, <2>2 DEF ArchiveInv, Range
  <2>4. store = Absent => archive[strategy] = <<>>
    BY <2>1, <2>2, EmptySeq DEF ArchiveInv
  <2> QED
    BY <2>2, <2>3, <2>4 DEF ArchiveInv
<1> QED
  BY <1>1, Invariant, PTL

-----------------------------------------------------------------------------
(* Evidence on disk                                                        *)

OnDisk(strategy) ==
    Range(archive[strategy]) \cup (IF store = Absent THEN {} ELSE {Report(store, strategy)})

\* A report that is still there, or has grown, keeps its evidence.
LEMMA EvidenceMonotone ==
    ASSUME NEW strategy \in Strategies,
           \A r \in OnDisk(strategy) : \E q \in OnDisk(strategy)' :
              q.session = r.session /\ r.events \subseteq q.events /\ r.trades \subseteq q.trades
    PROVE  Evidence(strategy) \subseteq Evidence(strategy)'
BY DEF Evidence, OnDisk

\* The same archive, and a state file whose window has only grown.
LEMMA EvidenceSaved ==
    ASSUME NEW strategy \in Strategies, archive' = archive,
           store # Absent =>
              /\ store' # Absent
              /\ store'.session = store.session
              /\ store.events \subseteq store'.events
              /\ store.trades[strategy] \subseteq store'.trades[strategy]
    PROVE  Evidence(strategy) \subseteq Evidence(strategy)'
<1>1. \A r \in Range(archive[strategy]) : r \in OnDisk(strategy)'
  BY DEF OnDisk
<1>2. store # Absent => Report(store', strategy) \in OnDisk(strategy)'
  BY DEF OnDisk, Report
<1> QED
  BY <1>1, <1>2, EvidenceMonotone DEF OnDisk, Report

\* The steps that write the state file or an archive.
LEMMA StoreSteps ==
    ASSUME [Next]_vars
    PROVE  \/ UNCHANGED <<store, archive>>
           \/ BootFirst \/ StartupReconcile \/ Commit \/ CloseWindow
           \/ AppendReport \/ OpenWindow
<1> USE DEF world, files, process
<1>1. NewEvent \/ RequestRotation \/ Crash => UNCHANGED <<store, archive>>
  BY DEF NewEvent, RequestRotation, Crash
<1>2. BootResume \/ BootClosed => UNCHANGED <<store, archive>>
  BY DEF BootResume, BootClosed, Boot
<1>3. SkipRecorded \/ Dispatch \/ KeepWindow => UNCHANGED <<store, archive>>
  BY DEF SkipRecorded, Dispatch, KeepWindow
<1>4. (\E s \in Strategies : SaveHistory(s)) \/ UnlinkRequest => UNCHANGED <<store, archive>>
  BY DEF SaveHistory, UnlinkRequest
<1> QED
  BY <1>1, <1>2, <1>3, <1>4 DEF Next, Rotation, vars

\* No step loses evidence: saves grow the window, and a window is replaced
\* only when its report is in the archive.
LEMMA EvidenceKept ==
    ASSUME IInv, [Next]_vars, NEW strategy \in Strategies
    PROVE  Evidence(strategy) \subseteq Evidence(strategy)'
<1> USE PaperAssumption
<1>0. TypeOK /\ MemoryInv /\ ArchiveInv(strategy)
  BY DEF IInv
<1>1. CASE UNCHANGED <<store, archive>>
  BY <1>1, EvidenceSaved
<1>2. CASE BootFirst
  BY <1>2, EvidenceSaved DEF BootFirst, Boot
<1>3. CASE StartupReconcile
  <2>1. journal = store /\ journal \in Journals /\ engine \in Engines /\ archive' = archive
    BY <1>0, <1>3 DEF StartupReconcile, Delivered, MemoryInv, TypeOK
  <2>2. store' \in {[journal EXCEPT !.checkpoint = engine],
                    [journal EXCEPT !.tainted = TRUE]}
    BY <1>3 DEF StartupReconcile
  <2>3. /\ store'.session = store.session
        /\ store'.events = store.events
        /\ store'.trades = store.trades
    <3>1. \A j \in {[journal EXCEPT !.checkpoint = engine],
                    [journal EXCEPT !.tainted = TRUE]} :
             /\ j.session = journal.session
             /\ j.events = journal.events
             /\ j.trades = journal.trades
      BY <2>1 DEF Journals
    <3> QED
      BY <2>1, <2>2, <3>1
  <2>4. store' \in Journals
    <3>1. /\ [journal EXCEPT !.checkpoint = engine] \in Journals
          /\ [journal EXCEPT !.tainted = TRUE] \in Journals
      BY <2>1, JournalTypes
    <3> QED
      BY <2>2, <3>1
  <2> QED
    BY <2>1, <2>3, <2>4, EvidenceSaved
<1>4. CASE Commit
  <2>1. /\ journal \in Journals /\ cursor \in Events /\ journal.session = store.session
        /\ journal.events = store.events
        /\ store.trades[strategy] \subseteq journal.trades[strategy]
    BY <1>0, <1>4 DEF Commit, MemoryInv, TypeOK
  <2>2. store' \in Journals /\ archive' = archive
    BY <1>0, <1>4, <2>1, CommitType DEF Commit
  <2>3. /\ store'.session = store.session
        /\ store.events \subseteq store'.events
        /\ store'.trades = journal.trades
    BY <1>4, <2>1 DEF Commit, Checkpointed, Journals
  <2> QED
    BY <2>1, <2>2, <2>3, EvidenceSaved
<1>5. CASE CloseWindow
  <2>1. journal = store /\ journal \in Journals /\ archive' = archive
    BY <1>0, <1>5 DEF CloseWindow, MemoryInv, TypeOK
  <2>2. store' \in Journals
    BY <1>5, <2>1, JournalTypes DEF CloseWindow
  <2>3. /\ store'.session = store.session
        /\ store'.events = store.events
        /\ store'.trades = store.trades
    BY <1>5, <2>1 DEF CloseWindow, Journals
  <2> QED
    BY <2>1, <2>2, <2>3, EvidenceSaved
<1>6. CASE AppendReport
  <2>1. /\ store' = store /\ archive[strategy] \in Seq(Reports)
        /\ journal \in Journals /\ current \in Strategies
    BY <1>0, <1>6 DEF AppendReport, MemoryInv, TypeOK
  <2>2. archive'[strategy] = archive[strategy]
          \/ archive'[strategy] = Append(archive[strategy], Report(journal, current))
    BY <1>0, <1>6 DEF AppendReport, Appended, TypeOK
  <2>3. Report(journal, current) \in Reports
    BY <2>1, JournalTypes
  <2>4. Range(archive[strategy]) \subseteq Range(archive'[strategy])
    <3>1. CASE archive'[strategy] = Append(archive[strategy], Report(journal, current))
      <4>1. \A i \in 1..Len(archive[strategy]) :
               /\ i \in 1..Len(archive'[strategy])
               /\ archive'[strategy][i] = archive[strategy][i]
        BY <2>1, <2>3, <3>1, AppendProperties
      <4>2. archive'[strategy] \in Seq(Reports)
        BY <2>1, <2>3, <3>1, AppendProperties
      <4> QED
        BY <2>1, <4>1, <4>2 DEF Range
    <3> QED
      BY <2>2, <3>1
  <2>5. OnDisk(strategy) \subseteq OnDisk(strategy)'
    BY <2>1, <2>4 DEF OnDisk, Report
  <2> QED
    BY <2>5, EvidenceMonotone
<1>7. CASE OpenWindow
  <2>1. journal = store /\ store \in Journals /\ archive' = archive /\ store # Absent
    BY <1>0, <1>7 DEF OpenWindow, MemoryInv, TypeOK
  <2>2. Len(archive[strategy]) = store.session /\ archive[strategy] \in Seq(Reports)
    BY <1>0, <1>7 DEF OpenWindow, ArchiveInv, TypeOK
  <2>3. archive[strategy][store.session] = Report(store, strategy) /\ store.session \in Nat \ {0}
    BY <1>0, <2>1, <2>2 DEF ArchiveInv, Journals
  <2>4. Report(store, strategy) \in Range(archive[strategy])
    BY <2>2, <2>3 DEF Range
  <2>5. OnDisk(strategy) \subseteq OnDisk(strategy)'
    BY <2>1, <2>4 DEF OnDisk
  <2> QED
    BY <2>5, EvidenceMonotone
<1> QED
  BY <1>1, <1>2, <1>3, <1>4, <1>5, <1>6, <1>7, StoreSteps

\* Evidence that was saved is never lost, by no crash, rotation or replacement
\* of the state file (runtime_factory.py:815).
THEOREM EvidenceNeverLost == Spec => EvidenceGrows
<1>1. IInv /\ [Next]_vars => [EvidenceStep]_vars
  BY EvidenceKept DEF EvidenceStep
<1> QED
  BY <1>1, Invariant, PTL DEF Spec, EvidenceGrows

-----------------------------------------------------------------------------
(* Where evidence is counted                                               *)

\* What a process of a public source has still to read is ahead of all
\* evidence, and no event is in two windows.
PublicInv ==
    source = "public" =>
        /\ pc # "down" => cursor <= head + 1
        /\ pc = "dispatched" => cursor <= head
        /\ \A s \in Strategies : \A i \in 1..Len(archive[s]) : \A e \in archive[s][i].events :
              e <= head /\ (pc # "down" => e < cursor)
        /\ store # Absent => \A e \in store.events : e <= head /\ (pc # "down" => e < cursor)
        /\ \A s \in Strategies : \A i, k \in 1..Len(archive[s]) :
              i # k => archive[s][i].events \cap archive[s][k].events = {}
        /\ store # Absent =>
              \A s \in Strategies : \A i \in 1..Len(archive[s]) :
                 i < store.session => archive[s][i].events \cap store.events = {}

\* The parts of a step that leave the counted events where they are.
LEMMA PublicFrame ==
    ASSUME TypeOK, PublicInv, source' = source, archive' = archive,
           store # Absent => /\ store' # Absent
                             /\ store'.session = store.session
                             /\ store'.events = store.events,
           store = Absent => store' = Absent,
           head' \in Nat, cursor' \in Nat, head <= head',
           \/ pc' = "down"
           \/ pc # "down" /\ cursor <= cursor' /\ cursor' <= head' + 1
                /\ (pc' = "dispatched" => cursor' <= head')
           \/ /\ source = "public" => head' < cursor' /\ cursor' <= head' + 1
              /\ pc' # "dispatched"
    PROVE  PublicInv'
<1>1. \A s \in Strategies : \A i \in 1..Len(archive[s]) : archive[s][i].events \subseteq Int
  <2> SUFFICES ASSUME NEW s \in Strategies, NEW i \in 1..Len(archive[s])
               PROVE  archive[s][i].events \subseteq Int
    OBVIOUS
  <2>1. archive[s] \in Seq(Reports)
    BY DEF TypeOK
  <2>2. archive[s][i] \in Reports
    BY <2>1
  <2> QED
    BY <2>2, PaperAssumption DEF Reports, Events
<1>2. store # Absent => store.events \subseteq Int
  BY PaperAssumption DEF TypeOK, Journals, Events
<1>3. head \in Int /\ cursor \in Int /\ head' \in Int
  BY PaperAssumption DEF TypeOK
<1>4. CASE source # "public"
  BY <1>4 DEF PublicInv
<1>5. CASE source = "public"
  <2>1. /\ pc' # "down" => cursor' <= head' + 1
        /\ pc' = "dispatched" => cursor' <= head'
    BY <1>3, <1>5
  <2>2. ASSUME NEW e \in Int, e <= head, pc # "down" => e < cursor
        PROVE  e <= head' /\ (pc' # "down" => e < cursor')
    <3>1. pc # "down" => cursor <= head + 1
      BY <1>5 DEF PublicInv
    <3>2. e <= head'
      BY <1>3, <2>2
    <3>3. CASE pc # "down" /\ cursor <= cursor'
      BY <1>3, <2>2, <3>2, <3>3
    <3>4. CASE head' < cursor'
      BY <1>3, <2>2, <3>2, <3>4
    <3> QED
      BY <1>5, <3>2, <3>3, <3>4
  <2>3. \A s \in Strategies : \A i \in 1..Len(archive[s]) : \A e \in archive[s][i].events :
           e <= head' /\ (pc' # "down" => e < cursor')
    BY <1>1, <1>5, <2>2 DEF PublicInv
  <2>4. store # Absent =>
           \A e \in store.events : e <= head' /\ (pc' # "down" => e < cursor')
    BY <1>2, <1>5, <2>2 DEF PublicInv
  <2> QED
    BY <1>5, <2>1, <2>3, <2>4 DEF PublicInv
<1> QED
  BY <1>4, <1>5

\* Where a new process of a public source starts is past everything that has
\* happened.
LEMMA BootPublic ==
    ASSUME TypeOK, Boot
    PROVE  /\ head' = head /\ head \in Nat /\ cursor' \in Nat
           /\ source = "public" => head < cursor' /\ cursor' <= head + 1
           /\ UNCHANGED <<source, archive>>
BY PaperAssumption DEF TypeOK, Boot, FirstExpected

\* Every step keeps the windows of a public source apart.
LEMMA PublicStep ==
    ASSUME IInv, PublicInv, [Next]_vars
    PROVE  PublicInv'
<1> USE PaperAssumption
<1>0. /\ TypeOK /\ MemoryInv /\ head \in Nat /\ cursor \in Nat
      /\ \A s \in Strategies : ArchiveInv(s)
  BY DEF IInv, TypeOK
<1>1. CASE NewEvent
  <2>1. /\ head' \in Nat /\ head <= head' /\ UNCHANGED <<source, store, archive, pc, cursor>>
        /\ head' = head + 1
    BY <1>0, <1>1 DEF NewEvent, files, process
  <2>2. source = "public" /\ pc # "down" =>
           cursor' <= head' + 1 /\ (pc' = "dispatched" => cursor' <= head')
    BY <1>0, <2>1 DEF PublicInv
  <2>3. CASE source = "public"
    BY <1>0, <2>1, <2>2, <2>3, PublicFrame
  <2>4. CASE source # "public"
    BY <2>1, <2>4 DEF PublicInv
  <2> QED
    BY <2>3, <2>4
<1>2. CASE RequestRotation \/ UNCHANGED vars
  <2>1. UNCHANGED <<source, head, store, archive, pc, cursor>>
    BY <1>2 DEF RequestRotation, vars, world, files, process
  <2> QED
    BY <2>1 DEF PublicInv
<1>3. CASE Crash
  BY <1>0, <1>3, PublicFrame DEF Crash, world, files
<1>4. CASE BootResume \/ BootClosed
  <2>1. Boot /\ store' = store /\ pc' # "dispatched"
    BY <1>4 DEF BootResume, BootClosed
  <2> QED
    BY <1>0, <2>1, BootPublic, PublicFrame
<1>5. CASE BootFirst
  <2>1. Boot /\ store = Absent /\ pc' = "idle" /\ store' = NewJournal(1)
    BY <1>5 DEF BootFirst
  <2>2. \A s \in Strategies : Len(archive[s]) = 0 /\ archive'[s] = archive[s]
    BY <1>0, <2>1 DEF ArchiveInv, Boot
  <2>3. store'.events = {} /\ store' # Absent
    BY <2>1, NewJournalType DEF NewJournal
  <2> QED
    BY <1>0, <2>1, <2>2, <2>3, BootPublic DEF PublicInv
<1>6. CASE SkipRecorded
  <2>1. /\ UNCHANGED <<source, head, store, archive, pc>> /\ pc = "idle"
        /\ cursor' = cursor + 1 /\ cursor <= head
    BY <1>6 DEF SkipRecorded, Delivered, world, files
  <2> QED
    BY <1>0, <2>1, PublicFrame
<1>7. CASE StartupReconcile
  <2>1. /\ journal = store /\ journal \in Journals /\ store # Absent
        /\ UNCHANGED <<source, head, archive, cursor>> /\ pc = "idle" /\ pc' \in {"idle", "down"}
    BY <1>0, <1>7 DEF StartupReconcile, Delivered, MemoryInv, TypeOK, world
  <2>2. store' \in {[journal EXCEPT !.checkpoint = engine],
                    [journal EXCEPT !.tainted = TRUE]} /\ engine \in Engines
    BY <1>0, <1>7 DEF StartupReconcile, TypeOK
  <2>3. \A j \in {[journal EXCEPT !.checkpoint = engine],
                  [journal EXCEPT !.tainted = TRUE]} :
           j.session = journal.session /\ j.events = journal.events
    BY <2>1 DEF Journals
  <2>4. store' # Absent
    <3>1. /\ [journal EXCEPT !.checkpoint = engine] \in Journals
          /\ [journal EXCEPT !.tainted = TRUE] \in Journals
      BY <2>1, <2>2, JournalTypes
    <3> QED
      BY <2>2, <3>1
  <2>5. store'.session = store.session /\ store'.events = store.events
    BY <2>1, <2>2, <2>3
  <2>6. source = "public" => cursor' <= head' + 1
    BY <2>1 DEF PublicInv
  <2> QED
    BY <1>0, <2>1, <2>4, <2>5, <2>6 DEF PublicInv
<1>8. CASE Dispatch
  <2>1. /\ UNCHANGED <<source, head, store, archive, cursor>> /\ pc = "idle"
        /\ cursor <= head
    BY <1>8 DEF Dispatch, Delivered, files
  <2> QED
    BY <1>0, <2>1, PublicFrame
<1>9. CASE Commit
  <2>1. /\ journal \in Journals /\ cursor \in Events /\ journal.session = store.session
        /\ journal.events = store.events /\ store # Absent /\ pc = "dispatched"
    BY <1>0, <1>9 DEF Commit, MemoryInv, TypeOK
  <2>2. /\ store' \in Journals /\ UNCHANGED <<source, head, archive>>
        /\ pc' = "committed" /\ cursor' = cursor + 1
    BY <1>0, <1>9, <2>1, CommitType DEF Commit, world
  <2>3. store'.session = store.session /\ store'.events = store.events \cup {cursor}
    BY <1>9, <2>1 DEF Commit, Checkpointed, Journals
  <2>4. \A s \in Strategies : \A i \in 1..Len(archive[s]) : archive[s][i].events \subseteq Nat
    <3> SUFFICES ASSUME NEW s \in Strategies, NEW i \in 1..Len(archive[s])
                 PROVE  archive[s][i].events \subseteq Nat
      OBVIOUS
    <3>1. archive[s] \in Seq(Reports)
      BY <1>0 DEF TypeOK
    <3>2. archive[s][i] \in Reports
      BY <3>1
    <3> QED
      BY <3>2 DEF Reports, Events
  <2>5. store.events \subseteq Nat
    BY <2>1 DEF Journals, Events
  <2> SUFFICES ASSUME source = "public" PROVE PublicInv'
    BY <2>2 DEF PublicInv
  <2>6. cursor <= head /\ cursor' <= head' + 1
    BY <1>0, <2>1, <2>2 DEF PublicInv
  <2>7. \A s \in Strategies : \A i \in 1..Len(archive[s]) : \A e \in archive[s][i].events :
           e <= head /\ e < cursor /\ e < cursor'
    BY <1>0, <2>1, <2>2, <2>4 DEF PublicInv
  <2>8. \A e \in store'.events : e <= head /\ e < cursor'
    BY <1>0, <2>1, <2>2, <2>3, <2>5, <2>6 DEF PublicInv
  <2>9. \A s \in Strategies : \A i \in 1..Len(archive[s]) :
           i < store.session => archive[s][i].events \cap store'.events = {}
    BY <1>0, <2>1, <2>3, <2>4, <2>7 DEF PublicInv
  <2> QED
    BY <2>2, <2>3, <2>6, <2>7, <2>8, <2>9 DEF PublicInv
<1>10. CASE KeepWindow \/ UnlinkRequest \/ \E s \in Strategies : SaveHistory(s)
  <2>1. UNCHANGED <<source, head, store, archive, cursor>> /\ pc # "down" /\ pc' # "dispatched"
    BY <1>10 DEF KeepWindow, UnlinkRequest, SaveHistory, world, files, process
  <2> QED
    BY <2>1 DEF PublicInv
<1>11. CASE CloseWindow
  <2>1. /\ journal = store /\ journal \in Journals /\ store # Absent /\ pc = "committed"
        /\ UNCHANGED <<source, head, archive, cursor>> /\ pc' = "archive"
    BY <1>0, <1>11 DEF CloseWindow, MemoryInv, TypeOK, world
  <2>2. /\ store' \in Journals /\ store'.session = store.session
        /\ store'.events = store.events
    BY <1>11, <2>1, JournalTypes DEF CloseWindow, Journals
  <2> QED
    BY <2>1, <2>2 DEF PublicInv
<1>12. CASE AppendReport
  <2>1. /\ journal = store /\ store \in Journals /\ store # Absent /\ store.closed
        /\ pc = "archive" /\ pc' = "archive" /\ current \in Strategies
        /\ UNCHANGED <<source, head, store, cursor>>
    BY <1>0, <1>12 DEF AppendReport, MemoryInv, TypeOK, world
  <2>2. ASSUME NEW s \in Strategies, NEW i \in 1..Len(archive'[s])
        PROVE  \/ i \in 1..Len(archive[s]) /\ archive'[s][i] = archive[s][i]
               \/ i = store.session /\ i \notin 1..Len(archive[s])
                    /\ archive'[s][i].events = store.events
    <3>1. CASE s # current
      BY <1>0, <1>12, <3>1 DEF AppendReport, TypeOK
    <3>2. CASE s = current
      <4> DEFINE reports == archive[s]
                 report == Report(store, s)
      <4>1. /\ report \in Reports /\ report.session = store.session
            /\ report.events = store.events
        BY <2>1, JournalTypes DEF Report
      <4>2. reports \in Seq(Reports) /\ archive'[s] = Appended(reports, report)
        BY <1>0, <1>12, <2>1, <3>2 DEF AppendReport, TypeOK
      <4>3. /\ \A k \in 1..Len(reports) : reports[k].session = k
            /\ \/ Len(reports) = report.session - 1
               \/ Len(reports) = report.session /\ reports[report.session] = report
        BY <1>0, <2>1, <4>1 DEF ArchiveInv
      <4> HIDE DEF reports, report
      <4>4. /\ Len(archive'[s]) = store.session
            /\ archive'[s][store.session] = report
            /\ \A k \in 1..Len(reports) : archive'[s][k] = reports[k]
            /\ Len(reports) \in {store.session - 1, store.session}
        BY <4>1, <4>2, <4>3, AppendedReport
      <4>5. i \in 1..Len(reports) \/ i = store.session
        BY <2>1, <4>2, <4>4 DEF Journals
      <4> QED
        BY <4>1, <4>4, <4>5 DEF reports
    <3> QED
      BY <3>1, <3>2
  <2> SUFFICES ASSUME source = "public" PROVE PublicInv'
    BY <2>1 DEF PublicInv
  <2>3. \A s \in Strategies : \A i \in 1..Len(archive'[s]) : \A e \in archive'[s][i].events :
           e <= head /\ e < cursor
    BY <2>1, <2>2 DEF PublicInv
  <2>4. ASSUME NEW s \in Strategies, NEW i \in 1..Len(archive[s])
        PROVE  i \in Nat /\ store.session \in Nat /\ i # store.session =>
                 archive[s][i].events \cap store.events = {}
    <3>1. Len(archive[s]) \in {store.session - 1, store.session} /\ store.session \in Nat
      BY <1>0, <2>1 DEF ArchiveInv, Journals
    <3>2. i # store.session => i < store.session
      BY <3>1
    <3> QED
      BY <2>1, <3>1, <3>2 DEF PublicInv
  <2>5. ASSUME NEW s \in Strategies, NEW i \in 1..Len(archive'[s]),
               NEW k \in 1..Len(archive'[s]), i # k
        PROVE  archive'[s][i].events \cap archive'[s][k].events = {}
    <3>1. \/ i \in 1..Len(archive[s]) /\ archive'[s][i] = archive[s][i]
          \/ i = store.session /\ archive'[s][i].events = store.events
      BY <2>2
    <3>2. \/ k \in 1..Len(archive[s]) /\ archive'[s][k] = archive[s][k]
          \/ k = store.session /\ archive'[s][k].events = store.events
      BY <2>2
    <3>3. i \in Nat /\ k \in Nat /\ store.session \in Nat
      BY <2>1 DEF Journals
    <3>4. CASE i \in 1..Len(archive[s]) /\ k \in 1..Len(archive[s])
               /\ archive'[s][i] = archive[s][i] /\ archive'[s][k] = archive[s][k]
      BY <2>5, <3>4 DEF PublicInv
    <3> QED
      BY <2>4, <2>5, <3>1, <3>2, <3>3, <3>4
  <2>6. \A s \in Strategies : \A i \in 1..Len(archive'[s]) :
           i < store.session => archive'[s][i].events \cap store.events = {}
    <3> SUFFICES ASSUME NEW s \in Strategies, NEW i \in 1..Len(archive'[s]), i < store.session
                 PROVE  archive'[s][i].events \cap store.events = {}
      OBVIOUS
    <3>1. i \in 1..Len(archive[s]) /\ archive'[s][i] = archive[s][i]
      <4>1. i # store.session
        BY <2>1 DEF Journals
      <4> QED
        BY <2>2, <4>1
    <3> QED
      BY <2>1, <3>1 DEF PublicInv
  <2>7. cursor <= head + 1
    BY <2>1 DEF PublicInv
  <2> QED
    BY <2>1, <2>3, <2>5, <2>6, <2>7 DEF PublicInv
<1>13. CASE OpenWindow
  <2>1. /\ journal = store /\ store \in Journals /\ store # Absent /\ pc = "replace"
        /\ UNCHANGED <<source, head, archive, cursor>> /\ pc' = "idle"
    BY <1>0, <1>13 DEF OpenWindow, MemoryInv, TypeOK, world
  <2>2. store' \in Journals /\ store'.events = {} /\ store' # Absent
    BY <1>13, <2>1, JournalTypes DEF OpenWindow, Replacement, NewJournal
  <2> QED
    BY <2>1, <2>2 DEF PublicInv
<1> QED
  BY <1>1, <1>2, <1>3, <1>4, <1>5, <1>6, <1>7, <1>8, <1>9, <1>10, <1>11, <1>12,
     <1>13 DEF Next, Rotation

\* A market event of a public source counts in one window of a strategy at most
\* (execution_runtime.py:246).
THEOREM CountedOnlyOnce == Spec => []CountedOnce
<1>1. Init => PublicInv
  BY DEF Init, PublicInv
<1>2. IInv /\ PublicInv => CountedOnce
  <2> SUFFICES ASSUME IInv, PublicInv, source = "public", NEW s \in Strategies,
                      NEW a \in Evidence(s), NEW b \in Evidence(s),
                      a[2] = "event", b[2] = "event", a[3] = b[3]
               PROVE  a[1] = b[1]
    BY DEF CountedOnce
  <2> DEFINE event == a[3]
  <2> HIDE DEF event
  <2>0. /\ archive[s] \in Seq(Reports) /\ ArchiveInv(s)
        /\ store \in Journals \cup {Absent}
    BY DEF IInv, TypeOK
  <2>1. ASSUME NEW t \in Evidence(s), t[2] = "event", t[3] = event
        PROVE  \/ \E i \in 1..Len(archive[s]) : i = t[1] /\ event \in archive[s][i].events
               \/ store # Absent /\ t[1] = store.session /\ event \in store.events
    <3>1. PICK r \in Range(archive[s])
                       \cup (IF store = Absent THEN {} ELSE {Report(store, s)}) :
             t[1] = r.session /\ event \in r.events
      BY <2>1 DEF Evidence
    <3>2. CASE r \in Range(archive[s])
      BY <2>0, <3>1, <3>2 DEF Range, ArchiveInv
    <3>3. CASE store # Absent /\ r = Report(store, s)
      BY <3>1, <3>3 DEF Report
    <3> QED
      BY <3>1, <3>2, <3>3
  <2>2. ASSUME NEW i \in 1..Len(archive[s]), event \in archive[s][i].events,
               store # Absent, event \in store.events
        PROVE  i = store.session
    <3>1. /\ Len(archive[s]) \in {store.session - 1, store.session}
          /\ store.session \in Nat
      BY <2>0, <2>2 DEF ArchiveInv, Journals
    <3>2. i < store.session => FALSE
      BY <2>2 DEF PublicInv
    <3> QED
      BY <3>1, <3>2
  <2>3. ASSUME NEW i \in 1..Len(archive[s]), NEW k \in 1..Len(archive[s]),
               event \in archive[s][i].events, event \in archive[s][k].events
        PROVE  i = k
    BY <2>3 DEF PublicInv
  <2>4. \/ \E i \in 1..Len(archive[s]) : i = a[1] /\ event \in archive[s][i].events
        \/ store # Absent /\ a[1] = store.session /\ event \in store.events
    BY <2>1 DEF event
  <2>5. \/ \E i \in 1..Len(archive[s]) : i = b[1] /\ event \in archive[s][i].events
        \/ store # Absent /\ b[1] = store.session /\ event \in store.events
    BY <2>1 DEF event
  <2> QED
    BY <2>2, <2>3, <2>4, <2>5
<1> QED
  BY <1>1, <1>2, PublicStep, Invariant, PTL DEF Spec

\* What is saved is a matter of the evidence on disk, and stays saved.
LEMMA SavedKept ==
    ASSUME IInv, [Next]_vars
    PROVE  Saved \subseteq Saved'
<1>1. \A s \in Strategies : Evidence(s) \subseteq Evidence(s)'
  BY EvidenceKept
<1> QED
  BY <1>1 DEF Saved

\* The events of the state file are saved.
LEMMA StoreSaved == store # Absent => store.events \subseteq Saved
<1> SUFFICES ASSUME store # Absent, NEW e \in store.events
             PROVE  e \in Saved
  OBVIOUS
<1>1. PICK s \in Strategies : TRUE
  BY PaperAssumption
<1> DEFINE token == <<store.session, "event", e>>
<1>2. token \in Evidence(s)
  <2>1. /\ Report(store, s).session = store.session
        /\ Report(store, s).events = store.events
    BY DEF Report
  <2>2. token \in {<<Report(store, s).session, "event", x>> : x \in Report(store, s).events}
    BY <2>1
  <2> QED
    BY <2>2 DEF Evidence
<1>3. token[2] = "event" /\ token[3] = e
  OBVIOUS
<1> HIDE DEF token
<1> QED
  BY <1>2, <1>3 DEF Saved

\* Every step of a worker on a fixture keeps what is lost ahead of it.
LEMMA ReplayStep ==
    ASSUME IInv, FixtureReplaysEvent, [Next]_vars
    PROVE  FixtureReplaysEvent'
<1> USE PaperAssumption
<1>0. TypeOK /\ MemoryInv /\ IInv' /\ Saved \subseteq Saved' /\ cursor \in Nat
  BY InvariantStep, SavedKept DEF IInv, TypeOK
<1>a. attempted \subseteq Int /\ source' = source
  <2>1. source' = source
    BY DEF Next, Rotation, NewEvent, RequestRotation, Crash, BootFirst, BootResume,
       BootClosed, Boot, SkipRecorded, StartupReconcile, Dispatch, Commit, KeepWindow,
       CloseWindow, SaveHistory, AppendReport, UnlinkRequest, OpenWindow, vars, world
  <2> QED
    BY <1>0, <2>1 DEF TypeOK, Events
<1> SUFFICES ASSUME source = "fixture", NEW event \in attempted', pc' # "down"
             PROVE  event \in Saved' \/ cursor' <= event
  BY <1>a DEF FixtureReplaysEvent, Redelivered
<1>b. event \in attempted => event \in Saved \/ pc = "down" \/ cursor <= event
  BY DEF FixtureReplaysEvent, Redelivered
<1>1. CASE UNCHANGED <<attempted, cursor>> /\ pc # "down"
  BY <1>0, <1>1, <1>b
<1>2. CASE Boot
  BY <1>0, <1>2 DEF Boot, FirstExpected, TypeOK, Events
<1>3. CASE SkipRecorded
  <2>1. /\ cursor \in journal.events /\ cursor' = cursor + 1 /\ attempted' = attempted
        /\ pc = "idle" /\ store # Absent /\ journal = store
    BY <1>0, <1>3 DEF SkipRecorded, Delivered, MemoryInv, world
  <2>2. cursor \in Saved
    BY <2>1, StoreSaved
  <2> QED
    BY <1>0, <1>a, <1>b, <2>1, <2>2
<1>4. CASE Dispatch
  <2>1. attempted' = attempted \cup {cursor} /\ cursor' = cursor /\ pc = "idle"
    BY <1>4 DEF Dispatch, Delivered
  <2> QED
    BY <1>0, <1>b, <2>1
<1>5. CASE Commit
  <2>1. /\ journal \in Journals /\ cursor \in Events /\ attempted' = attempted
        /\ cursor' = cursor + 1 /\ store' = Checkpointed(journal) /\ pc = "dispatched"
    BY <1>0, <1>5 DEF Commit, MemoryInv, TypeOK, world
  <2>2. store' \in Journals /\ cursor \in store'.events
    BY <1>0, <2>1, CommitType DEF Checkpointed, Journals
  <2>3. (store # Absent => store.events \subseteq Saved)'
    BY StoreSaved, PTL
  <2>4. cursor \in Saved'
    BY <2>2, <2>3
  <2> QED
    BY <1>0, <1>a, <1>b, <2>1, <2>4
<1>6. \/ UNCHANGED <<attempted, cursor>> /\ pc # "down"
      \/ Boot \/ SkipRecorded \/ Dispatch \/ Commit
  <2> USE DEF world, process
  <2>1. NewEvent \/ RequestRotation \/ UNCHANGED vars => UNCHANGED <<attempted, cursor, pc>>
    BY DEF NewEvent, RequestRotation, vars
  <2>2. ~Crash
    BY DEF Crash
  <2>3. BootFirst \/ BootResume \/ BootClosed => Boot
    BY DEF BootFirst, BootResume, BootClosed
  <2>4. StartupReconcile \/ KeepWindow \/ CloseWindow
          => UNCHANGED <<attempted, cursor>> /\ pc # "down"
    BY DEF StartupReconcile, Delivered, KeepWindow, CloseWindow
  <2>5. Rotation => UNCHANGED <<attempted, cursor>> /\ pc # "down"
    BY DEF Rotation, SaveHistory, AppendReport, UnlinkRequest, OpenWindow
  <2> QED
    BY <2>1, <2>2, <2>3, <2>4, <2>5 DEF Next
<1> QED
  BY <1>1, <1>2, <1>3, <1>4, <1>5, <1>6

\* On a source that is read from its start, an event that was dispatched and
\* not saved is given to the next process (execution_runtime.py:281).
THEOREM FixtureReplays == Spec => []FixtureReplaysEvent
<1>1. Init => FixtureReplaysEvent
  BY DEF Init, FixtureReplaysEvent, Redelivered
<1> QED
  BY <1>1, ReplayStep, Invariant, PTL DEF Spec

-----------------------------------------------------------------------------
(* The runtime implements the evidence ledger                              *)

\* What an event that is dispatched and not saved yet has put into the journal:
\* nothing but trades it closed itself, and it was not recorded before.
DispatchedInv ==
    pc = "dispatched" =>
        /\ cursor \notin store.events
        /\ \A s \in Strategies :
              journal.trades[s] \in {store.trades[s], store.trades[s] \cup {cursor}}

\* Every step keeps what is dispatched apart from what is saved.
LEMMA DispatchedStep ==
    ASSUME TypeOK, MemoryInv, DispatchedInv, [Next]_vars
    PROVE  DispatchedInv'
<1>1. CASE Dispatch
  <2>1. PICK position \in [Strategies -> Sides] :
           journal' = [journal EXCEPT !.trades =
                         [s \in Strategies |->
                            IF /\ s \in {t \in Strategies :
                                           position[t] # engine.position[t]}
                               /\ engine.position[s] # 0
                            THEN @[s] \cup {cursor} ELSE @[s]]]
    BY <1>1 DEF Dispatch, Delivered
  <2>2. /\ cursor' = cursor /\ store' = store /\ pc = "idle"
        /\ cursor \notin journal.events
    BY <1>1 DEF Dispatch, Delivered, files
  <2>3. journal = store /\ journal \in Journals
    BY <2>2 DEF MemoryInv, TypeOK
  <2>4. \A s \in Strategies :
           journal'.trades[s] \in {journal.trades[s], journal.trades[s] \cup {cursor}}
    BY <2>1, <2>3 DEF Journals
  <2> QED
    BY <2>2, <2>3, <2>4 DEF DispatchedInv
<1>2. UNCHANGED <<pc, journal, store, cursor>> => DispatchedInv'
  BY DEF DispatchedInv
<1>3. pc' = "dispatched" => Dispatch \/ UNCHANGED <<pc, journal, store, cursor>>
  BY DEF Next, Rotation, NewEvent, RequestRotation, Crash, BootFirst, BootResume,
     BootClosed, SkipRecorded, Delivered, StartupReconcile, Commit, KeepWindow,
     CloseWindow, SaveHistory, AppendReport, UnlinkRequest, OpenWindow, vars, world,
     files, process
<1>4. pc' # "dispatched" => DispatchedInv'
  BY DEF DispatchedInv
<1> QED
  BY <1>1, <1>2, <1>3, <1>4

\* It holds in every reachable state.
LEMMA Dispatched == Spec => []DispatchedInv
<1>1. Init => DispatchedInv
  BY DEF Init, DispatchedInv
<1>2. IInv /\ DispatchedInv /\ [Next]_vars => DispatchedInv'
  BY DispatchedStep DEF IInv
<1> QED
  BY <1>1, <1>2, Invariant, PTL DEF Spec

\* A public source keeps its windows apart in every reachable state.
LEMMA Public == Spec => []PublicInv
<1>1. Init => PublicInv
  BY DEF Init, PublicInv
<1> QED
  BY <1>1, PublicStep, Invariant, PTL DEF Spec

\* The number of the last window that is closed.
LastClosed == IF store.closed THEN store.session ELSE store.session - 1

\* The closed windows of the ledger: those before the window of the state file,
\* and this one once it is closed.
LEMMA ClosedWindowsAre ==
    store \in Journals /\ store # Absent =>
        /\ ClosedWindows = [i \in 1..LastClosed |-> IF i = store.session THEN StoredWindow
                                                   ELSE ArchivedWindow(i)]
        /\ Len(ClosedWindows) = LastClosed /\ LastClosed \in Nat
        /\ \E S : ClosedWindows \in Seq(S)
<1> SUFFICES ASSUME store \in Journals, store # Absent
             PROVE  /\ ClosedWindows = [i \in 1..LastClosed |->
                                           IF i = store.session THEN StoredWindow
                                           ELSE ArchivedWindow(i)]
                    /\ Len(ClosedWindows) = LastClosed /\ LastClosed \in Nat
                    /\ \E S : ClosedWindows \in Seq(S)
  OBVIOUS
<1> DEFINE n == store.session
           S == {ArchivedWindow(i) : i \in 1..(n - 1)} \cup {StoredWindow}
           q == [i \in 1..(n - 1) |-> ArchivedWindow(i)]
           r == IF store.closed THEN <<StoredWindow>> ELSE <<>>
           last == IF store.closed THEN n ELSE n - 1
           all == [i \in 1..last |-> IF i = n THEN StoredWindow ELSE ArchivedWindow(i)]
<1>1. n \in Nat \ {0} /\ store.closed \in BOOLEAN
  BY DEF Journals
<1>2. ClosedWindows = q \o r
  BY DEF ClosedWindows
<1>3. q \in Seq(S) /\ Len(q) = n - 1 /\ \A i \in 1..(n - 1) : q[i] = ArchivedWindow(i)
  <2> DEFINE W(i) == ArchivedWindow(i)
  <2> HIDE DEF W
  <2>1. [i \in 1..(n - 1) |-> W(i)] \in [1..(n - 1) -> {W(i) : i \in 1..(n - 1)}]
    OBVIOUS
  <2>2. n - 1 \in Nat
    BY <1>1
  <2>3. {W(i) : i \in 1..(n - 1)} \subseteq S
    BY DEF W
  <2> HIDE DEF S, n
  <2>4. [i \in 1..(n - 1) |-> W(i)] \in Seq(S)
    BY <2>1, <2>2, <2>3
  <2>5. Len([i \in 1..(n - 1) |-> W(i)]) = n - 1
    BY <2>2
  <2> QED
    BY <2>4, <2>5 DEF W
<1>4. r \in Seq(S) /\ Len(r) = (IF store.closed THEN 1 ELSE 0)
      /\ (store.closed => r[1] = StoredWindow)
  <2> DEFINE w == StoredWindow
  <2>1. w \in S
    OBVIOUS
  <2> HIDE DEF w, S
  <2>2. <<w>> \in Seq(S) /\ <<>> \in Seq(S) /\ Len(<<w>>) = 1 /\ Len(<<>>) = 0
    BY <2>1
  <2> QED
    BY <2>2 DEF w
<1> HIDE DEF q, r, S
<1>5. /\ q \o r \in Seq(S)
      /\ Len(q \o r) = last
      /\ \A i \in 1..last : (q \o r)[i] = IF i <= n - 1 THEN q[i] ELSE r[i - (n - 1)]
  <2>1. /\ q \o r \in Seq(S) /\ Len(q \o r) = Len(q) + Len(r)
        /\ \A i \in 1..Len(q) + Len(r) :
              (q \o r)[i] = IF i <= Len(q) THEN q[i] ELSE r[i - Len(q)]
    BY <1>3, <1>4, ConcatProperties
  <2>2. Len(q) + Len(r) = last /\ last \in Nat
    BY <1>1, <1>3, <1>4
  <2> HIDE DEF last, n
  <2> QED
    BY <2>1, <2>2, <1>3
<1>6. last \in Nat
  BY <1>1
<1>7. \A i \in 1..last : (q \o r)[i] = IF i = n THEN StoredWindow ELSE ArchivedWindow(i)
  <2> SUFFICES ASSUME NEW i \in 1..last
               PROVE  (q \o r)[i] = IF i = n THEN StoredWindow ELSE ArchivedWindow(i)
    OBVIOUS
  <2>1. CASE i <= n - 1
    BY <1>1, <1>3, <1>5, <2>1
  <2>2. CASE ~(i <= n - 1)
    <3>1. store.closed /\ i = n /\ i - (n - 1) = 1
      BY <1>1, <2>2
    <3> HIDE DEF last, n
    <3> QED
      BY <1>4, <1>5, <2>2, <3>1
  <2> QED
    BY <2>1, <2>2
<1>8. q \o r = all
  <2> DEFINE c == q \o r
  <2>1. c \in Seq(S) /\ Len(c) = last
    BY <1>5
  <2> HIDE DEF c, last
  <2>2. c \in [1..last -> S]
    BY <2>1, <1>6
  <2>3. c = [i \in 1..last |-> c[i]]
    BY <2>2
  <2>4. \A i \in 1..last : c[i] = IF i = n THEN StoredWindow ELSE ArchivedWindow(i)
    BY <1>7 DEF c
  <2>5. [i \in 1..last |-> c[i]] = all
    BY <2>4
  <2> QED
    BY <2>3, <2>5 DEF c
<1> QED
  BY <1>2, <1>5, <1>6, <1>8 DEF LastClosed

\* The closed windows depend on the number and the state of the window of the
\* state file, not on what is gathered in it while it is open.
LEMMA ClosedRest ==
    ASSUME store # Absent, store' # Absent,
           store'.session = store.session, store'.closed = store.closed,
           store.closed => StoredWindow' = StoredWindow,
           \A i \in 1..(store.session - 1) : ArchivedWindow(i)' = ArchivedWindow(i)
    PROVE  UNCHANGED ClosedWindows
<1> DEFINE n == store.session
           W == [i \in 1..(n - 1) |-> ArchivedWindow(i)]
<1>1. W' = W
  OBVIOUS
<1> QED
  BY <1>1 DEF ClosedWindows

\* The ledger rests while the files keep their windows.
LEMMA LedgerRests ==
    ASSUME store # Absent, store' # Absent,
           store'.session = store.session, store'.closed = store.closed,
           store'.events = store.events, store'.trades = store.trades,
           \A i \in 1..(store.session - 1) : ArchivedWindow(i)' = ArchivedWindow(i)
    PROVE  UNCHANGED <<ClosedWindows, OpenedWindow>>
<1>1. UNCHANGED StoredWindow
  BY DEF StoredWindow
<1>2. UNCHANGED OpenedWindow
  BY <1>1 DEF OpenedWindow
<1> QED
  BY <1>1, <1>2, ClosedRest

\* The windows are read off the reports only.
LEMMA ArchivedFrame ==
    ASSUME UNCHANGED archive
    PROVE  \A i : ArchivedWindow(i)' = ArchivedWindow(i)
BY DEF ArchivedWindow

\* An event of an archived window is in a report of some strategy.
LEMMA ArchivedEvents ==
    ASSUME TypeOK, NEW i, NEW event \in ArchivedWindow(i).events
    PROVE  \E s \in Strategies : \E k \in 1..Len(archive[s]) :
              event \in archive[s][k].events
<1>1. PICK s \in Strategies : \E r \in Range(archive[s]) : event \in r.events
  BY DEF ArchivedWindow
<1>2. archive[s] \in Seq(Reports)
  BY DEF TypeOK
<1> QED
  BY <1>1, <1>2 DEF Range

\* A window that every strategy has archived reads as it did in the state file.
LEMMA ArchivedAsStored ==
    ASSUME TypeOK, store # Absent,
           \A s \in Strategies : ArchiveInv(s) /\ Len(archive[s]) = store.session
    PROVE  ArchivedWindow(store.session) = StoredWindow
<1> DEFINE n == store.session
           reports(s) == {r \in Range(archive[s]) : r.session = n}
<1>1. store \in Journals /\ n \in Nat \ {0} /\ store.trades \in [Strategies -> SUBSET Events]
  BY DEF TypeOK, Journals
<1>2. ASSUME NEW s \in Strategies
      PROVE  reports(s) = {Report(store, s)}
  <2>1. archive[s] \in Seq(Reports) /\ Len(archive[s]) = n
    BY DEF TypeOK
  <2>2. /\ \A i \in 1..n : archive[s][i].session = i
        /\ archive[s][n] = Report(store, s)
    BY <2>1 DEF ArchiveInv
  <2>3. Range(archive[s]) = {archive[s][i] : i \in 1..n}
    BY <2>1 DEF Range
  <2>4. n \in 1..n
    BY <1>1
  <2> HIDE DEF n
  <2> QED
    BY <2>2, <2>3, <2>4
<1>3. \A s \in Strategies : /\ Report(store, s).events = store.events
                            /\ Report(store, s).trades = store.trades[s]
  BY DEF Report
<1>4. \A s \in Strategies : /\ UNION {r.events : r \in reports(s)} = store.events
                            /\ UNION {r.trades : r \in reports(s)} = store.trades[s]
  BY <1>2, <1>3
<1> HIDE DEF reports
<1>5. UNION {UNION {r.events : r \in reports(s)} : s \in Strategies} = store.events
  BY <1>4, PaperAssumption
<1>6. [s \in Strategies |-> UNION {r.trades : r \in reports(s)}] = store.trades
  BY <1>1, <1>4
<1> QED
  BY <1>5, <1>6 DEF ArchivedWindow, StoredWindow, reports

\* The save of an event counts it in the open window, with the trades it closed.
LEMMA LedgerCounts ==
    ASSUME IInv, PublicInv, DispatchedInv, Commit
    PROVE  \E event \in Events : Ledger!Count(event)
<1>0. TypeOK /\ MemoryInv
  BY DEF IInv
<1>1. /\ pc = "dispatched" /\ cursor \in Events /\ store \in Journals /\ store # Absent
      /\ ~store.closed /\ journal \in Journals /\ journal.session = store.session
      /\ journal.events = store.events /\ ~journal.closed
      /\ cursor \in Int
  BY <1>0 DEF Commit, MemoryInv, TypeOK
<1>2. /\ store' = Checkpointed(journal) /\ archive' = archive /\ source' = source
  BY DEF Commit, world
<1>3. /\ store' \in Journals /\ store' # Absent /\ store'.session = store.session
      /\ store'.events = store.events \cup {cursor}
      /\ store'.trades = journal.trades /\ ~store'.closed
      /\ store'.closed = store.closed
  <2>1. store' \in Journals
    BY <1>0, <1>1, <1>2, CommitType
  <2> QED
    BY <1>1, <1>2, <2>1, PaperAssumption DEF Checkpointed, Journals
<1>4. UNCHANGED ClosedWindows
  BY <1>1, <1>2, <1>3, ArchivedFrame, ClosedRest
<1>5. OpenedWindow = [events |-> store.events, trades |-> store.trades]
  BY <1>1 DEF OpenedWindow, StoredWindow
<1>6. OpenedWindow' = [events |-> store.events \cup {cursor}, trades |-> journal.trades]
  BY <1>3 DEF OpenedWindow, StoredWindow
<1>7. cursor \notin store.events
  BY <1>1 DEF DispatchedInv
<1>8. source = "fixture" \/ cursor \notin Ledger!Counted
  <2> SUFFICES ASSUME source # "fixture"
               PROVE  cursor \notin Ledger!Counted
    OBVIOUS
  <2>1. source = "public"
    BY <1>0, PaperAssumption DEF TypeOK
  <2>2. ASSUME NEW i \in 1..Len(ClosedWindows), cursor \in ClosedWindows[i].events
        PROVE  FALSE
    <3>1. i \in 1..LastClosed /\ i # store.session
      BY <1>1, <2>2, ClosedWindowsAre DEF LastClosed, Journals
    <3>2. ClosedWindows[i] = ArchivedWindow(i)
      BY <1>1, <3>1, ClosedWindowsAre
    <3>3. PICK s \in Strategies : \E k \in 1..Len(archive[s]) :
             cursor \in archive[s][k].events
      BY <1>0, <2>2, <3>2, ArchivedEvents
    <3>4. cursor < cursor
      BY <1>1, <2>1, <3>3 DEF PublicInv
    <3> QED
      BY <1>1, <3>4
  <2>3. cursor \notin OpenedWindow.events
    BY <1>5, <1>7
  <2> QED
    BY <2>2, <2>3 DEF Ledger!Counted
<1>9. \E closing \in SUBSET Strategies :
         OpenedWindow' = [events |-> OpenedWindow.events \cup {cursor},
                          trades |-> [s \in Strategies |->
                                        IF s \in closing
                                        THEN OpenedWindow.trades[s] \cup {cursor}
                                        ELSE OpenedWindow.trades[s]]]
  <2> DEFINE closing == {s \in Strategies : journal.trades[s] # store.trades[s]}
             trades == [s \in Strategies |->
                          IF s \in closing THEN store.trades[s] \cup {cursor}
                          ELSE store.trades[s]]
  <2>1. \A s \in Strategies :
           journal.trades[s] \in {store.trades[s], store.trades[s] \cup {cursor}}
    BY <1>1 DEF DispatchedInv
  <2>2. journal.trades = [s \in Strategies |-> journal.trades[s]]
    BY <1>1 DEF Journals
  <2>3. \A s \in Strategies : journal.trades[s] = trades[s]
    BY <2>1
  <2>4. journal.trades = trades
    BY <2>2, <2>3
  <2>5. closing \in SUBSET Strategies
    OBVIOUS
  <2>6. OpenedWindow.events = store.events /\ OpenedWindow.trades = store.trades
    BY <1>5
  <2>7. OpenedWindow' = [events |-> store.events \cup {cursor}, trades |-> trades]
    BY <1>6, <2>4
  <2> QED
    BY <2>5, <2>6, <2>7
<1>10. cursor \notin OpenedWindow.events
  BY <1>5, <1>7
<1>11. Ledger!Count(cursor)
  BY <1>2, <1>4, <1>8, <1>9, <1>10 DEF Ledger!Count
<1> QED
  BY <1>1, <1>11

\* Closing the state file closes the open window of the ledger.
LEMMA LedgerCloses ==
    ASSUME IInv, CloseWindow
    PROVE  Ledger!Close
<1>0. TypeOK /\ MemoryInv
  BY DEF IInv
<1>1. /\ journal = store /\ store \in Journals /\ store # Absent /\ ~store.closed
      /\ store.session \in Nat \ {0}
  BY <1>0 DEF CloseWindow, MemoryInv, TypeOK, Journals
<1>2. /\ store' = [store EXCEPT !.closed = TRUE] /\ archive' = archive /\ source' = source
  BY <1>1 DEF CloseWindow, world
<1>3. /\ store' \in Journals /\ store' # Absent /\ store'.session = store.session
      /\ store'.events = store.events /\ store'.trades = store.trades /\ store'.closed
  <2>1. /\ store' \in Journals /\ store'.session = store.session
        /\ store'.events = store.events /\ store'.trades = store.trades
        /\ store'.closed = TRUE
    BY <1>1, <1>2 DEF Journals
  <2> QED
    BY <2>1, PaperAssumption
<1>4. OpenedWindow = StoredWindow /\ StoredWindow' = StoredWindow
  BY <1>1, <1>3 DEF OpenedWindow, StoredWindow
<1>5. OpenedWindow' = Ledger!EmptyWindow
  BY <1>3 DEF OpenedWindow, Ledger!EmptyWindow
<1>6. ClosedWindows' = Append(ClosedWindows, StoredWindow)
  <2> DEFINE n == store.session
             A(i) == ArchivedWindow(i)
             w == StoredWindow
             c == ClosedWindows
             d == Append(c, w)
  <2>1. c = [i \in 1..(n - 1) |-> IF i = n THEN w ELSE A(i)]
        /\ Len(c) = n - 1 /\ \E S : c \in Seq(S)
    BY <1>1, ClosedWindowsAre DEF LastClosed
  <2>2. (store \in Journals /\ store # Absent =>
           ClosedWindows = [i \in 1..LastClosed |-> IF i = store.session THEN StoredWindow
                                                    ELSE ArchivedWindow(i)])'
    BY ClosedWindowsAre, PTL
  <2>3. \A i : ArchivedWindow(i)' = A(i)
    BY <1>2, ArchivedFrame
  <2>4. LastClosed' = n
    BY <1>3 DEF LastClosed
  <2>5. c' = [i \in 1..n |-> IF i = n THEN w ELSE A(i)]
    BY <1>3, <1>4, <2>2, <2>3, <2>4
  <2>6. n \in Nat \ {0}
    BY <1>1
  <2> HIDE DEF n, A, w, c, d
  <2>7. PICK S : c \in Seq(S)
    BY <2>1
  <2>8. c \in Seq(S \cup {w}) /\ w \in S \cup {w}
    BY <2>7
  <2>9. /\ d \in Seq(S \cup {w}) /\ Len(d) = n
        /\ \A i \in 1..(n - 1) : d[i] = c[i]
        /\ d[n] = w
    BY <2>1, <2>6, <2>8, AppendProperties DEF d
  <2>10. d \in [1..n -> S \cup {w}]
    BY <2>6, <2>9
  <2>11. \A i \in 1..(n - 1) : c[i] = A(i)
    BY <2>1, <2>6
  <2>12. \A i \in 1..n : d[i] = IF i = n THEN w ELSE A(i)
    BY <2>6, <2>9, <2>11
  <2>13. d = [i \in 1..n |-> IF i = n THEN w ELSE A(i)]
    BY <2>10, <2>12
  <2>14. c' = d
    BY <2>5, <2>13
  <2> QED
    BY <2>14 DEF c, d, w
<1> QED
  BY <1>2, <1>4, <1>5, <1>6 DEF Ledger!Close

\* The replacement of a closed window takes nothing from the ledger: the window
\* is read off the archives from now on, and the next one is empty.
LEMMA LedgerReplaces ==
    ASSUME IInv, OpenWindow
    PROVE  UNCHANGED <<ClosedWindows, OpenedWindow>>
<1>0. TypeOK /\ MemoryInv /\ \A s \in Strategies : ArchiveInv(s)
  BY DEF IInv
<1>1. /\ journal = store /\ store \in Journals /\ store # Absent /\ store.closed
      /\ store.session \in Nat \ {0} /\ pc = "replace"
  BY <1>0 DEF OpenWindow, MemoryInv, TypeOK, Journals
<1>2. store' = NewJournal(store.session + 1) /\ archive' = archive
  BY <1>1 DEF OpenWindow, Replacement
<1>3. /\ store' \in Journals /\ store' # Absent /\ store'.session = store.session + 1
      /\ ~store'.closed /\ store'.events = {}
      /\ store'.trades = [s \in Strategies |-> {}]
  <2>1. NewJournal(store.session + 1) \in Journals
    BY <1>1, JournalTypes DEF Replacement
  <2> QED
    BY <1>2, <2>1, PaperAssumption DEF NewJournal
<1>4. ArchivedWindow(store.session) = StoredWindow
  BY <1>0, <1>1, ArchivedAsStored DEF ArchiveInv
<1>5. OpenedWindow' = OpenedWindow
  BY <1>1, <1>3 DEF OpenedWindow, StoredWindow
<1>6. ClosedWindows' = ClosedWindows
  <2> DEFINE n == store.session
             A(i) == ArchivedWindow(i)
             w == StoredWindow
             v == StoredWindow'
  <2>1. ClosedWindows = [i \in 1..n |-> IF i = n THEN w ELSE A(i)]
    BY <1>1, ClosedWindowsAre DEF LastClosed
  <2>2. (store \in Journals /\ store # Absent =>
           ClosedWindows = [i \in 1..LastClosed |-> IF i = store.session THEN StoredWindow
                                                    ELSE ArchivedWindow(i)])'
    BY ClosedWindowsAre, PTL
  <2>3. \A i : ArchivedWindow(i)' = A(i)
    BY <1>2, ArchivedFrame
  <2>4. LastClosed' = n
    BY <1>1, <1>3 DEF LastClosed
  <2>5. ClosedWindows' = [i \in 1..n |-> IF i = n + 1 THEN v ELSE A(i)]
    BY <1>3, <2>2, <2>3, <2>4
  <2>6. n \in Nat /\ A(n) = w
    BY <1>1, <1>4
  <2> HIDE DEF n, A, w, v
  <2>7. \A i \in 1..n : (IF i = n THEN w ELSE A(i)) = (IF i = n + 1 THEN v ELSE A(i))
    BY <2>6
  <2> QED
    BY <2>1, <2>5, <2>7
<1> QED
  BY <1>5, <1>6

\* The first window is an empty one.
LEMMA LedgerBegins ==
    ASSUME BootFirst
    PROVE  UNCHANGED <<ClosedWindows, OpenedWindow>>
<1>1. store = Absent /\ store' = NewJournal(1)
  BY DEF BootFirst
<1>2. /\ store' \in Journals /\ store' # Absent /\ store'.session = 1
      /\ ~store'.closed /\ store'.events = {}
      /\ store'.trades = [s \in Strategies |-> {}]
  <2>1. NewJournal(1) \in Journals
    BY NewJournalType
  <2> QED
    BY <1>1, <2>1, PaperAssumption DEF NewJournal
<1>3. OpenedWindow' = OpenedWindow
  BY <1>1, <1>2 DEF OpenedWindow, StoredWindow
<1>4. ClosedWindows = <<>>
  BY <1>1 DEF ClosedWindows
<1>5. ClosedWindows' = <<>>
  <2>1. (store \in Journals /\ store # Absent =>
           /\ Len(ClosedWindows) = LastClosed
           /\ \E S : ClosedWindows \in Seq(S))'
    BY ClosedWindowsAre, PTL
  <2>2. LastClosed' = 0
    BY <1>2 DEF LastClosed
  <2> DEFINE c == ClosedWindows'
  <2>3. Len(c) = 0 /\ \E S : c \in Seq(S)
    BY <1>2, <2>1, <2>2
  <2> HIDE DEF c
  <2>4. c = <<>>
    BY <2>3, EmptySeq
  <2> QED
    BY <2>4 DEF c
<1> QED
  BY <1>3, <1>4, <1>5

\* The report that is appended belongs to the window that is closed in the
\* state file: the windows before it read as they did.
LEMMA LedgerAppends ==
    ASSUME IInv, AppendReport
    PROVE  UNCHANGED <<ClosedWindows, OpenedWindow>>
<1>0. TypeOK /\ MemoryInv
  BY DEF IInv
<1>1. /\ journal = store /\ store \in Journals /\ store # Absent /\ store' = store
      /\ current \in Strategies /\ store.session \in Nat
  BY <1>0 DEF AppendReport, MemoryInv, TypeOK, Journals
<1> DEFINE reports(s, i) == {r \in Range(archive[s]) : r.session = i}
           later(s, i) == {r \in Range(archive'[s]) : r.session = i}
<1>2. ASSUME NEW s \in Strategies, NEW i \in 1..(store.session - 1)
      PROVE  later(s, i) = reports(s, i)
  <2> DEFINE report == Report(store, current)
             q == archive[s]
  <2>1. q \in Seq(Reports) /\ report \in Reports /\ report.session # i
    <3>1. q \in Seq(Reports)
      BY <1>0 DEF TypeOK
    <3>2. report \in Reports
      BY <1>1, JournalTypes
    <3>3. report.session = store.session
      BY DEF Report
    <3> QED
      BY <1>1, <3>1, <3>2, <3>3
  <2>2. archive'[s] = q \/ archive'[s] = Append(q, report)
    BY <1>0, <1>1 DEF AppendReport, Appended, TypeOK
  <2> HIDE DEF q, report
  <2>3. CASE archive'[s] = Append(q, report)
    <3> DEFINE d == Append(q, report)
    <3>1. /\ d \in Seq(Reports) /\ Len(d) = Len(q) + 1 /\ Len(q) \in Nat
          /\ \A k \in 1..Len(q) : d[k] = q[k]
          /\ d[Len(q) + 1] = report
      BY <2>1, AppendProperties
    <3> HIDE DEF d
    <3>2. Range(d) = {d[k] : k \in 1..(Len(q) + 1)} /\ Range(q) = {q[k] : k \in 1..Len(q)}
      BY <2>1, <3>1 DEF Range
    <3>3. Range(d) = Range(q) \cup {report}
      BY <3>1, <3>2
    <3> QED
      BY <2>1, <2>3, <3>3 DEF d, q
  <2> QED
    BY <2>2, <2>3 DEF q
<1>3. \A i \in 1..(store.session - 1) : ArchivedWindow(i)' = ArchivedWindow(i)
  <2> SUFFICES ASSUME NEW i \in 1..(store.session - 1)
               PROVE  ArchivedWindow(i)' = ArchivedWindow(i)
    OBVIOUS
  <2>1. /\ ArchivedWindow(i) =
             [events |-> UNION {UNION {r.events : r \in reports(s, i)} : s \in Strategies},
              trades |-> [s \in Strategies |-> UNION {r.trades : r \in reports(s, i)}]]
        /\ ArchivedWindow(i)' =
             [events |-> UNION {UNION {r.events : r \in later(s, i)} : s \in Strategies},
              trades |-> [s \in Strategies |-> UNION {r.trades : r \in later(s, i)}]]
    BY DEF ArchivedWindow
  <2> HIDE DEF reports, later
  <2>2. \A s \in Strategies : later(s, i) = reports(s, i)
    BY <1>2
  <2>3. {UNION {r.events : r \in later(s, i)} : s \in Strategies}
          = {UNION {r.events : r \in reports(s, i)} : s \in Strategies}
    BY <2>2
  <2>4. [s \in Strategies |-> UNION {r.trades : r \in later(s, i)}]
          = [s \in Strategies |-> UNION {r.trades : r \in reports(s, i)}]
    BY <2>2
  <2> QED
    BY <2>1, <2>3, <2>4
<1> QED
  BY <1>1, <1>3, LedgerRests

\* The reconciliation at start saves a checkpoint or taints the window.
LEMMA LedgerReconciles ==
    ASSUME IInv, StartupReconcile
    PROVE  UNCHANGED <<ClosedWindows, OpenedWindow>>
<1>0. TypeOK /\ MemoryInv
  BY DEF IInv
<1>1. /\ journal = store /\ store \in Journals /\ store # Absent /\ engine \in Engines
      /\ archive' = archive
  BY <1>0 DEF StartupReconcile, Delivered, MemoryInv, TypeOK
<1>2. \/ store' = [store EXCEPT !.checkpoint = engine]
      \/ store' = [store EXCEPT !.tainted = TRUE]
  BY <1>1 DEF StartupReconcile
<1>3. /\ store' \in Journals /\ store'.session = store.session
      /\ store'.closed = store.closed /\ store'.events = store.events
      /\ store'.trades = store.trades
  BY <1>1, <1>2 DEF Journals
<1>4. store' # Absent
  BY <1>3, PaperAssumption
<1>5. \A i \in 1..(store.session - 1) : ArchivedWindow(i)' = ArchivedWindow(i)
  BY <1>1, ArchivedFrame
<1> QED
  BY <1>1, <1>3, <1>4, <1>5, LedgerRests

\* The runtime implements the evidence ledger: whatever steps of a worker, of
\* its rotations and its crashes come between, the files only ever count an
\* event of the market in the open window, once, with the trades it closed, or
\* close this window for all strategies; a closed window never changes
\* (runtime_factory.py:721-843, execution_runtime.py:234-300).
THEOREM RuntimeImplementsLedger == Spec => ImplementsLedger
<1>1. Init => Ledger!Init
  BY DEF Init, Ledger!Init, Ledger!EmptyWindow, ClosedWindows, OpenedWindow
<1>2. IInv /\ PublicInv /\ DispatchedInv /\ [Next]_vars
        => [Ledger!Next]_(Ledger!ledgerVars)
  <2> SUFFICES ASSUME IInv, PublicInv, DispatchedInv, [Next]_vars
               PROVE  [Ledger!Next]_(Ledger!ledgerVars)
    OBVIOUS
  <2>1. CASE Commit
    BY <2>1, LedgerCounts DEF Ledger!Next
  <2>2. CASE CloseWindow
    BY <2>2, LedgerCloses DEF Ledger!Next
  <2>3. source' = source
    BY DEF Next, Rotation, NewEvent, RequestRotation, Crash, BootFirst, BootResume,
       BootClosed, Boot, SkipRecorded, StartupReconcile, Dispatch, Commit, KeepWindow,
       CloseWindow, SaveHistory, AppendReport, UnlinkRequest, OpenWindow, vars, world
  <2>4. CASE UNCHANGED <<store, archive>>
    <3>0. archive' = archive /\ store' = store
      BY <2>4
    <3>1. \A i \in 1..(store.session - 1) : ArchivedWindow(i)' = ArchivedWindow(i)
      BY <3>0, ArchivedFrame
    <3>2. CASE store = Absent
      BY <2>3, <2>4, <3>2 DEF ClosedWindows, OpenedWindow, Ledger!ledgerVars
    <3>3. CASE store # Absent
      BY <2>3, <2>4, <3>1, <3>3, LedgerRests DEF Ledger!ledgerVars
    <3> QED
      BY <2>3, <3>2, <3>3 DEF Ledger!ledgerVars
  <2>5. CASE BootFirst \/ OpenWindow \/ AppendReport \/ StartupReconcile
    BY <2>3, <2>5, LedgerBegins, LedgerReplaces, LedgerAppends, LedgerReconciles
       DEF Ledger!ledgerVars
  <2>6. UNCHANGED <<store, archive>> \/ BootFirst \/ StartupReconcile \/ Commit
          \/ CloseWindow \/ AppendReport \/ OpenWindow
    BY StoreSteps
  <2> QED
    BY <2>1, <2>2, <2>3, <2>4, <2>5, <2>6 DEF Ledger!ledgerVars
<1> QED
  BY <1>1, <1>2, Invariant, Public, Dispatched, PTL DEF Spec, ImplementsLedger, Ledger!Spec

=============================================================================
