---------------------------- MODULE PaperRuntime ----------------------------
(***************************************************************************)
(* The PAPER worker and its forward evidence: the event loop of            *)
(* execution_runtime.py, the journals and the state file of                *)
(* paper_session.py and paper_portfolio.py, the report archive of          *)
(* paper_archive.py, and runtime_factory.py, which opens, resumes and      *)
(* rotates evidence windows.                                               *)
(*                                                                         *)
(* A process handles one market event at a time: startup reconciliation,   *)
(* dispatch, one atomic save, and, on request, the rotation of the window. *)
(* Every step that writes a file is an action of its own, and the process  *)
(* may stop between any two of them; an exception ends the process the     *)
(* same way, so Crash stands for both.  What is lost is the engine, the    *)
(* in-memory journal and the place in the market stream.                   *)
(*                                                                         *)
(* Abstractions.  A market event is its number in the order of the source. *)
(* The balances are the number of fills: a fill changes them by its fee    *)
(* and by profit or loss, and a fresh engine has the starting balances.    *)
(* The strategies submit market orders, which the sandbox fills or rejects *)
(* at once, so no order stays open.  A journal's telemetry is left out.    *)
(***************************************************************************)
EXTENDS Integers, Sequences, FiniteSets, FiniteSetsExt, SequencesExt

CONSTANTS
    Strategies,     \* the strategies of the portfolio
    Instruments,
    InstrumentOf,   \* the one instrument each strategy trades
    Sides,          \* the positions a strategy may hold: short, none, long
    Sources,        \* kinds of market source: "public" or "fixture"
    Absent,
    MaxEvents, MaxFills, MaxBoots   \* bounds of the model

Events == 1..MaxEvents

Engines == [position : [Strategies -> Sides], fills : 0..MaxFills]

Journals ==
    [session : Nat \ {0}, events : SUBSET Events,
     trades : [Strategies -> SUBSET Events], checkpoint : Engines \cup {Absent},
     tainted : BOOLEAN, closed : BOOLEAN]

Reports ==
    [session : Nat \ {0}, events : SUBSET Events, trades : SUBSET Events,
     tainted : BOOLEAN]

ASSUME PaperAssumption ==
    /\ IsFiniteSet(Strategies) /\ Strategies # {}
    /\ InstrumentOf \in [Strategies -> Instruments]
    /\ Sides \subseteq {-1, 0, 1} /\ 0 \in Sides
    /\ Sources \subseteq {"public", "fixture"}
    /\ MaxEvents \in Nat /\ MaxFills \in Nat /\ MaxBoots \in Nat
    /\ Absent \notin Engines \cup Journals \cup Strategies

VARIABLES
    source,      \* which market source the worker is configured with
    head,        \* the market events that have happened so far
    boots,       \* worker processes started so far
    attempted,   \* history: the events some process has dispatched
    store,       \* the state file: the journal as it was last saved
    history,     \* per strategy, the finalized journals in its history directory
    archive,     \* per strategy, the report archive
    request,     \* the rotation request marker exists
    pc,          \* what the process does next
    journal,     \* ExecutionRuntime._journal
    engine,      \* the sandbox account: positions and balances
    expected,    \* ExecutionRuntime._startup_expected_state
    reconciled,  \* ExecutionRuntime._startup_reconciled
    cursor,      \* the next event the market stream delivers
    todo,        \* strategies whose closed journal is still to be archived
    current,     \* the strategy whose report is appended next
    opening      \* the rotation under way was begun by the factory, at start

files == <<store, history, archive>>
process == <<journal, engine, expected, reconciled, cursor, todo, current, opening>>
world == <<source, head, boots, attempted>>
vars == <<world, files, request, pc, process>>

-----------------------------------------------------------------------------
(* Journals, reports and reconciliation                                    *)

FreshEngine == [position |-> [strategy \in Strategies |-> 0], fills |-> 0]

NewJournal(session) ==
    [session |-> session, events |-> {}, trades |-> [strategy \in Strategies |-> {}],
     checkpoint |-> Absent, tainted |-> FALSE, closed |-> FALSE]

\* finalize: the report of one strategy over the journal of the window.
Report(j, strategy) ==
    [session |-> j.session, events |-> j.events, trades |-> j.trades[strategy],
     tainted |-> j.tainted]

\* Reconciler.reconcile at start: against the checkpoint the journal was
\* restored with, or, without one, against the engine itself.
StartupOk == expected = Absent \/ expected = engine

NetPosition(instrument) ==
    MapThenSumSet(LAMBDA strategy : engine.position[strategy],
                  {strategy \in Strategies : InstrumentOf[strategy] = instrument})

\* _execution_state_is_flat over the positions execution_state adds up per
\* instrument.
Flat == \A instrument \in Instruments : NetPosition(instrument) = 0

FirstExpectedHead(latest) == latest + 1   \* a fixture is not read again

FirstExpectedMut(latest) == IF source = "fixture" THEN 1 ELSE latest

\* Where a new process starts reading: a public source is anchored after the
\* closed bars of its bootstrap history, a fixture is read from its start.
FirstExpected(latest) == IF source = "fixture" THEN 1 ELSE latest + 1

-----------------------------------------------------------------------------
(* The world outside the process                                           *)

Init ==
    /\ source \in Sources
    /\ head = 0
    /\ boots = 0
    /\ attempted = {}
    /\ store = Absent
    /\ history = [strategy \in Strategies |-> {}]
    /\ archive = [strategy \in Strategies |-> <<>>]
    /\ request = FALSE
    /\ pc = "down"
    /\ journal = Absent
    /\ engine = FreshEngine
    /\ expected = Absent
    /\ reconciled = FALSE
    /\ cursor = 1
    /\ todo = {}
    /\ current = Absent
    /\ opening = FALSE

NewEvent ==
    /\ head < MaxEvents
    /\ head' = head + 1
    /\ UNCHANGED <<source, boots, attempted, files, request, pc, process>>

\* TradingService.request_paper_evidence_rotation: the session has started.
RequestRotation ==
    /\ store # Absent
    /\ request' = TRUE
    /\ UNCHANGED <<world, files, pc, process>>

\* A crash, a stop between two events, an exception: memory is gone.
Crash ==
    /\ pc # "down"
    /\ boots < MaxBoots
    /\ pc' = "down"
    /\ journal' = Absent
    /\ engine' = FreshEngine
    /\ expected' = Absent
    /\ reconciled' = FALSE
    /\ todo' = {}
    /\ current' = Absent
    /\ opening' = FALSE
    /\ UNCHANGED <<world, files, request, cursor>>

-----------------------------------------------------------------------------
(* Start of a process: _paper_portfolio_runtime                            *)

Boot ==
    /\ pc = "down"
    /\ boots < MaxBoots
    /\ boots' = boots + 1
    /\ cursor' = FirstExpected(head)
    /\ UNCHANGED <<source, head, attempted, history, archive, request,
                   engine, reconciled, current>>

\* No state file: the first window is opened and saved.
BootFirst ==
    /\ Boot
    /\ store = Absent
    /\ journal' = NewJournal(1)
    /\ store' = NewJournal(1)
    /\ pc' = "idle"
    /\ UNCHANGED <<expected, todo, opening>>

\* An open window: the journal is restored, and its checkpoint is what the
\* fresh engine will be reconciled with.
BootResume ==
    /\ Boot
    /\ store # Absent /\ ~store.closed
    /\ journal' = store
    /\ expected' = store.checkpoint
    /\ pc' = "idle"
    /\ UNCHANGED <<store, todo, opening>>

UnarchivedMut == {}   \* the factory trusts that the last process archived it

Unarchived == Strategies

\* A closed window: the process died while rotating, the rotation is redone.
BootClosed ==
    /\ Boot
    /\ store # Absent /\ store.closed
    /\ journal' = store
    /\ todo' = Unarchived
    /\ opening' = TRUE
    /\ pc' = "archive"
    /\ UNCHANGED <<store, expected>>

-----------------------------------------------------------------------------
(* The event loop: ExecutionRuntime.run                                    *)

\* The stream has an event to deliver.
Delivered(event) == pc = "idle" /\ cursor = event /\ event <= head

SkipRecorded ==
    \E event \in Events :
        /\ Delivered(event)
        /\ event \in journal.events
        /\ cursor' = event + 1
        /\ UNCHANGED <<world, files, request, pc, journal, engine, expected,
                       reconciled, todo, current, opening>>

\* A mismatch is recorded and ends the process, with the system killed.
StartupReconcile ==
    \E event \in Events :
        /\ Delivered(event)
        /\ event \notin journal.events
        /\ ~reconciled
        /\ reconciled' = StartupOk
        /\ pc' = IF StartupOk THEN "idle" ELSE "down"
        /\ store' = IF StartupOk THEN [journal EXCEPT !.checkpoint = engine]
                                 ELSE [journal EXCEPT !.tainted = TRUE]
        /\ journal' = IF StartupOk THEN store' ELSE Absent
        /\ expected' = IF StartupOk THEN expected ELSE Absent
        /\ UNCHANGED <<world, history, archive, request, engine, cursor, todo,
                       current, opening>>

\* The bars go to the engine; strategies trade, and each close is put down in
\* the strategy's journal.  Nothing is saved.
Dispatch ==
    \E event \in Events, instrument \in Instruments,
       position \in [Strategies -> Sides] :
        LET moved == {s \in Strategies : position[s] # engine.position[s]} IN
        /\ Delivered(event)
        /\ event \notin journal.events
        /\ reconciled
        /\ \A s \in moved : InstrumentOf[s] = instrument
        /\ engine.fills + Cardinality(moved) <= MaxFills
        /\ engine' = [position |-> position,
                      fills |-> engine.fills + Cardinality(moved)]
        /\ journal' = [journal EXCEPT !.trades =
                         [s \in Strategies |->
                            IF s \in moved /\ engine.position[s] # 0
                            THEN @[s] \cup {event} ELSE @[s]]]
        /\ attempted' = attempted \cup {event}
        /\ pc' = "dispatched"
        /\ UNCHANGED <<source, head, boots, files, request, expected, reconciled,
                       cursor, todo, current, opening>>

CheckpointedNext(j) ==   \* the event after the one dispatched is recorded
    [j EXCEPT !.events = @ \cup {cursor + 1}, !.checkpoint = engine]

CheckpointedMut(j) == [j EXCEPT !.events = @ \cup {cursor}]

\* The event, the reconciliation and the execution state in one journal.
Checkpointed(j) == [j EXCEPT !.events = @ \cup {cursor}, !.checkpoint = engine]

\* Both sides of this reconciliation read the same engine, so it agrees.
Commit ==
    /\ pc = "dispatched"
    /\ journal' = Checkpointed(journal)
    /\ store' = journal'
    /\ cursor' = cursor + 1
    /\ pc' = "committed"
    /\ UNCHANGED <<world, history, archive, request, engine, expected, reconciled,
                   todo, current, opening>>

-----------------------------------------------------------------------------
(* Rotation: _rotate_evidence_if_safe and rotate_session                   *)

KeepWindow ==
    /\ pc = "committed"
    /\ ~request \/ ~Flat
    /\ pc' = "idle"
    /\ UNCHANGED <<world, files, request, process>>

\* Every journal is finalized, and the state file is saved once.
CloseWindow ==
    /\ pc = "committed"
    /\ request /\ Flat
    /\ journal' = [journal EXCEPT !.closed = TRUE]
    /\ store' = journal'
    /\ todo' = Strategies
    /\ pc' = "archive"
    /\ UNCHANGED <<world, history, archive, request, engine, expected, reconciled,
                   cursor, current, opening>>

\* The journal goes to the history directory, unless it is there already.
SaveHistory(strategy) ==
    /\ pc = "archive"
    /\ strategy \in todo
    /\ current = Absent
    /\ history' = [history EXCEPT ![strategy] = @ \cup {Report(journal, strategy)}]
    /\ current' = strategy
    /\ UNCHANGED <<world, store, archive, request, pc, journal, engine, expected,
                   reconciled, cursor, todo, opening>>

AppendedMut(reports, report) == Append(reports, report)   \* not idempotent

\* JsonPaperReportArchive.append: an identical report is not added again.
Appended(reports, report) ==
    IF Contains(reports, report) THEN reports ELSE Append(reports, report)

AppendReport ==
    /\ pc = "archive"
    /\ current # Absent
    /\ archive' = [archive EXCEPT ![current] = Appended(@, Report(journal, current))]
    /\ todo' = todo \ {current}
    /\ current' = Absent
    /\ UNCHANGED <<world, store, history, request, pc, journal, engine, expected,
                   reconciled, cursor, opening>>

UnlinkRequest ==
    /\ pc = "archive"
    /\ todo = {}
    /\ request' = FALSE
    /\ pc' = "replace"
    /\ UNCHANGED <<world, files, process>>

ReplacementReopened(j) ==   \* the closed journal goes on under a new number
    [j EXCEPT !.session = @ + 1, !.closed = FALSE]

ReplacementClosed(j) == [j EXCEPT !.session = @ + 1]   \* still closed

\* _open_replacement_paper_portfolio: the next nonce, and nothing recorded yet.
Replacement(j) == NewJournal(j.session + 1)

\* A new window replaces the closed one; the engine lives on, and no
\* checkpoint of the old window is held against it.
OpenWindow ==
    /\ pc = "replace"
    /\ journal' = Replacement(journal)
    /\ store' = journal'
    /\ expected' = Absent
    /\ reconciled' = FALSE
    /\ opening' = FALSE
    /\ pc' = "idle"
    /\ UNCHANGED <<world, history, archive, request, engine, cursor, todo, current>>

Rotation ==
    \/ \E strategy \in Strategies : SaveHistory(strategy)
    \/ AppendReport
    \/ UnlinkRequest
    \/ OpenWindow

Next ==
    \/ NewEvent
    \/ RequestRotation
    \/ Crash
    \/ BootFirst
    \/ BootResume
    \/ BootClosed
    \/ SkipRecorded
    \/ StartupReconcile
    \/ Dispatch
    \/ Commit
    \/ KeepWindow
    \/ CloseWindow
    \/ Rotation

\* A closed window is worked off by straight-line code, and a process that is
\* down is started again: by a supervisor, or by the operator.
Fairness == WF_vars(BootClosed) /\ WF_vars(Rotation)

Spec == Init /\ [][Next]_vars

FairSpec == Spec /\ Fairness

-----------------------------------------------------------------------------
(* Properties                                                              *)

\* Every variable has its type; a process that runs holds a journal.
TypeOK ==
    /\ source \in Sources
    /\ head \in 0..MaxEvents /\ boots \in 0..MaxBoots
    /\ attempted \in SUBSET Events
    /\ store \in Journals \cup {Absent}
    /\ history \in [Strategies -> SUBSET Reports]
    /\ archive \in [Strategies -> Seq(Reports)]
    /\ request \in BOOLEAN
    /\ pc \in {"down", "idle", "dispatched", "committed", "archive", "replace"}
    /\ journal \in Journals \cup {Absent}
    /\ (journal = Absent) <=> (pc = "down")
    /\ engine \in Engines
    /\ expected \in Engines \cup {Absent}
    /\ reconciled \in BOOLEAN
    /\ cursor \in 1..MaxEvents + 1
    /\ todo \in SUBSET Strategies
    /\ current \in Strategies \cup {Absent}
    /\ opening \in BOOLEAN

\* What is on disk of a strategy's evidence: market events and closed trades,
\* each with the window it belongs to.
Evidence(strategy) ==
    LET reports == Range(archive[strategy])
                     \cup (IF store = Absent THEN {} ELSE {Report(store, strategy)}) IN
    UNION {{<<r.session, "event", e>> : e \in r.events}
             \cup {<<r.session, "trade", e>> : e \in r.trades} : r \in reports}

EvidenceStep ==
    \A strategy \in Strategies : Evidence(strategy) \subseteq Evidence(strategy)'

\* Evidence that was saved is never lost again: not by a crash between two
\* files of a rotation, not by the replacement of the state file
\* (runtime_factory.py:815-843, 726-752).
EvidenceGrows == [][EvidenceStep]_vars

\* The archives hold every window before the current one, once each and in
\* order, and, for an archived window, the same report the history directory
\* has, whichever step of a rotation a process died at.
ArchiveComplete ==
    \A strategy \in Strategies :
        LET reports == archive[strategy] IN
        /\ \A i \in 1..Len(reports) : reports[i].session = i
        /\ Range(reports) \subseteq history[strategy]
        /\ \A a, b \in history[strategy] : a.session = b.session => a = b
        /\ IF store = Absent THEN reports = <<>>
           ELSE Len(reports) \in {store.session - 1,
                                  IF store.closed THEN store.session
                                  ELSE store.session - 1}

\* A market event of a public source counts in one evidence window of a
\* strategy at most, across rotations and restarts (execution_runtime.py:246).
CountedOnce ==
    source = "public" =>
        \A strategy \in Strategies : \A a, b \in Evidence(strategy) :
            a[2] = "event" /\ b[2] = "event" /\ a[3] = b[3] => a[1] = b[1]

\* Whenever a reconciled worker waits for a market event, the checkpoint a
\* restart would be held to is the position and balance the engine has.
CheckpointCurrent ==
    pc = "idle" /\ reconciled => store.checkpoint = engine

Saved == UNION {{t[3] : t \in {u \in Evidence(strategy) : u[2] = "event"}} :
                    strategy \in Strategies}

\* What a process dispatched and did not save, the next process is given again.
Redelivered ==
    \A event \in attempted : event \in Saved \/ pc = "down" \/ cursor <= event

\* A crash before the save of an event "replays the event instead of silently
\* losing a signal" (execution_runtime.py:281).
CrashReplaysEvent == Redelivered

\* The same of a source that is read from its start.
FixtureReplaysEvent == source = "fixture" => Redelivered

\* A window that was closed is archived and replaced by an open one, however
\* often the process dies on the way.
ClosedWindowReplaced ==
    (store # Absent /\ store.closed) ~> (store # Absent /\ ~store.closed)

-----------------------------------------------------------------------------
(* The runtime implements the evidence ledger                              *)

ArchivedWindow(session) ==
    LET reports(strategy) == {r \in Range(archive[strategy]) : r.session = session} IN
    [events |-> UNION {UNION {r.events : r \in reports(s)} : s \in Strategies},
     trades |-> [s \in Strategies |-> UNION {r.trades : r \in reports(s)}]]

StoredWindow == [events |-> store.events, trades |-> store.trades]

ClosedWindows ==
    IF store = Absent THEN <<>>
    ELSE [session \in 1..store.session - 1 |-> ArchivedWindow(session)]
           \o (IF store.closed THEN <<StoredWindow>> ELSE <<>>)

OpenedWindow ==
    IF store = Absent \/ store.closed
    THEN [events |-> {}, trades |-> [s \in Strategies |-> {}]]
    ELSE StoredWindow

Ledger == INSTANCE EvidenceLedger
            WITH closed <- ClosedWindows, open <- OpenedWindow,
                 repeatable <- source = "fixture"

\* The files of the runtime, read as a ledger of windows, only change as the
\* ledger may: events are counted whole, windows closed for all strategies at
\* once and unchanged ever after.
ImplementsLedger == Ledger!Spec

=============================================================================
