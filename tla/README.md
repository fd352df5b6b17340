# TLA+ models of MasterTrd

MasterTrd is a local-first research and trading system: research workers look for
strategies, a candidate that passes its gates trades in a PAPER worker, the evidence the
worker gathers decides about promotion, and every order passes a risk governor. The models
here follow the code in `src/mastertrd/`; paths without a directory are relative to it.

Read a module with the code it names in its header open beside it. `PROJECT.json` maps each
definition to its lines and lists the runs, their mutants, the findings, the hazards and the
theorems.

## The system

| Component | State | Operations | Hard because of |
|---|---|---|---|
| Risk governor (`risk*.py`, `nautilus_risk_hook.py`) | accepted order times, last accepted time per fingerprint, kill switches, reports on account, market, reconciliation, venue | report, kill, check an order | lazily trimmed history, reports that age, several callers |
| PAPER worker (`execution_runtime.py`, `paper_session.py`, `paper_portfolio.py`, `paper_archive.py`, `runtime_factory.py`) | engine and journal in memory; state file, history directory, archive, rotation marker on disk | start, resume, handle an event, save, rotate | crashes between any two files, redelivery, an engine that is not durable |
| Strategies on one account (`nautilus_bar_strategy.py`, `execution_policy.py`) | last decision, position | decide on a bar, submit orders | one net position, one exposure and one governor for all of them |
| Market source (`binance_stream.py`, `bar_completeness.py`) | expected, received, missing bars; next due bar per timeframe | receive, reconnect, recover by REST, yield | two channels for the same bar, reconnects, partial recovery |
| Research jobs (`local_jobs.py`, `local_job_worker.py`) | a receipt, a report and a process per job | launch, run, finish | two writers of one receipt, lost processes |
| Autopilot and scheduler (`autopilot*.py`, `local_scheduler.py`) | state file, portfolio settings, pid file | cycle, maintenance | concurrent processes, no locks |
| Trading service (`trading_service.py`) | settings, emergency-stop and rotation markers | preflight, run, configure, stop | markers polled by another process |
| Research job (`research_job.py`, `research_brain.py`, `memory_duckdb.py`) | stage receipts, experiments, report; data and finished runs in memory | download, thirteen stages per run, report | failures and crashes between any two writes, retries, searches that never repeat |
| Gates (`robustness.py`, `advanced_validation.py`, `asset_transfer.py`, `hidden_gate.py`, `specialist_orchestrator.py`) | none | judge the numbers of a candidate | many thresholds, rounding, families with evidence of their own |
| Promotion chain (`governor.py`, `paper_forward.py`, `champion.py`, `testnet_smoke.py`, `testnet_candidate.py`, ...) | archived windows, manifest, smoke record, bundle | evaluate, dispatch, try an order, build the bundle, ask the governor | code that changes meanwhile, a venue that need not answer, two threads |
| Multi-leg strategies (`nautilus_multileg_strategy.py`) | remembered weights, bars held, positions of legs | decide, order the differences, stop | one leg refused, rejected or raised upon |
| HFT and options strategies | quotes, books, positions | requote, exit | not modelled |
| Catalogues, canaries, data access | none shared | tables, I/O | not control |

How they interact. The scheduler starts autopilot processes; a cycle launches research jobs,
whose report names the candidates that may trade in PAPER, and, like maintenance, writes the settings of a PAPER portfolio and starts the PAPER worker.
The worker pulls events from the market source, a generator, in a single thread. For each
event it refreshes the market state of the governor, dispatches to the strategies, whose
orders call back into the governor, reconciles, saves one file, and looks for a rotation
request. Emergency stop and rotation are marker files another process writes. The windows the
worker archives are what the promotion chain judges; a champion is tried on the test network, and
what that leaves is put before the governor once more.

What makes each correct: the governor never accepts an order of a killed scope, on a stale
report or beyond its rates; the worker never loses or doubles evidence; a strategy's position
follows its own decisions within the caps of the account; every due bar reaches the
strategies once and before the tick that showed it due; receipts tell the truth about their
jobs and the autopilot stays within its limits; a stop ends trading; a research verdict is earned
stage by stage, decided once and reported as decided; no candidate becomes LIVE_ELIGIBLE on
evidence of another version; legs stand at their targets unless something refused them.

## The modules

| Module | Models | Checked by |
|---|---|---|
| `RiskGovernor` | limits, runtime, providers and strategy hook | `risk` |
| `RiskGovernorProofs` | its theorems | TLAPS |
| `PaperRuntime` | the worker's loop, its files and their rotation | `paper_evidence`, `paper_replay` |
| `EvidenceLedger` | the abstract promise: closed windows never change, one open window grows | refined by `PaperRuntime` |
| `PaperRuntimeProofs` | theorems of `PaperRuntime`, with the refinement | TLAPS |
| `PaperTrading` | EXTENDS `RiskGovernor`: portfolio, decisions, orders, exposures | `paper_trading`, `paper_shared`, `paper_perpetual` |
| `PaperTradingProofs` | its theorems | TLAPS |
| `MarketSource` | socket, completeness trackers, recovery, order of payloads | `source_bars` |
| `MarketSourceProofs` | its theorems | TLAPS |
| `ResearchJobs` | launcher and worker of a research job | `autopilot` |
| `Autopilot` | EXTENDS `ResearchJobs`: cycle, maintenance, PAPER worker, emergency stop | `autopilot`, `autopilot_workers` |
| `AutopilotProofs` | theorems of `ResearchJobs` and `Autopilot` | TLAPS |
| `Governor` | states of a candidate and the evidence each step demands; operators | `research`, `promotion` |
| `Evidence` | EXTENDS `Governor`: every gate of the scheduled policies, and the two cycles; operators | `research` |
| `ResearchBrain` | EXTENDS `Evidence`: the job inside a research worker, its stages and its memory | `research` |
| `CandidateLedger` | the abstract promise of the job: judged once, queued once, reported as queued | refined by `ResearchBrain` |
| `ResearchBrainProofs` | theorems of `ResearchBrain`, with the refinement | TLAPS |
| `Promotion` | EXTENDS `Governor`: forward evidence, the smoke order, probes, bundle, LIVE_ELIGIBLE | `promotion` |
| `PromotionProofs` | theorems of `Promotion` | TLAPS |
| `MultiLeg` | a strategy of several legs, its orders and the venue | `multileg` |
| `MultiLegProofs` | its theorems | TLAPS |

An `MC` module gives each family its instance.

**RiskGovernor.** `orderTimes` is `_accepted_orders`, `lastAllowed` the accepted time of each
fingerprint, `accepted` a history variable, and the four report variables are those of
`RiskStateProvider`. `SubmitEvaluated` is the whole of `check_order` with the hook around it:
duplicate test, trim, evaluation, record and counters in one step, because a submission runs
in one thread. `SubmitKilled` is its early return. Thresholds that are only compared with a
limit (drawdown, latency, spread) enter as verdicts; exposures, rates and times are numbers.
The clock never goes back in the model.

**PaperRuntime.** `store`, `history`, `archive`, `request` are the files; everything else is
memory and is lost by `Crash`, which also stands for an exception that ends the worker. One
event is `StartupReconcile` (first event only), `Dispatch`, `Commit` (reconciliation, journal
record and the one atomic save), `KeepWindow` or `CloseWindow`; a rotation is a write each of
history, archive, marker and new state file. `BootFirst`, `BootResume` and `BootClosed` are the
three ways `_paper_portfolio_runtime` finds the state file. A public source starts a new
process after the bars of its bootstrap, a fixture from its beginning: `FirstExpected`.
Journal telemetry and timestamps are left out.

**PaperTrading.** An event is `BeginQuote`, `BeginBar` or `BeginUnmeasured` (market state
refreshed, or not), one `OnBar` per subscribed strategy, one `SubmitOrder` per order it asks for,
and `EndEvent`, in which the sandbox fills and the account state is refreshed. Every event brings a
price of its instrument, and `Account` values the net positions at the latest prices, before and after
the strategies, as `_refresh_account_risk` does; so exposures move with fills and with prices. Which exit or
signal fires is free; what is made of it, `Policy`, `Closing` and `Entering`, is the code's. A
strategy consults the *net* position of the account, `Net`. A bar may be old when it
is delivered (`BarAges`): its close time makes the market state stale. Bars that come after a
later bar are dropped by the strategies; that case is in `MarketSource`.

**MarketSource.** A lane is a timeframe with its tracker. `RecoverDue` registers the due bars of
the first lane and tries those that are missing; each request may fail by itself. The consumer
runs between two `yield`s, so `YieldRecovered` is a step per bar, and time passes between them.
`Fail` ends the source on the first lane that is still incomplete, which is why the
tracker's retry schedule never delays anything a consumer sees.

**ResearchJobs, Autopilot.** Every access of an autopilot process to a shared file is a step, and
`Die` may end the process before any of them. `save_receipt` is two steps, a write of
`receipt.tmp` and a rename, since launcher and worker share that file. `Plans` computes the
launches of a cycle: a deep validation first, then a batch of each product from its cursor.
`Save` writes back what was loaded at `Start`, as the code does. A PAPER worker is a state per
pid here; what it does while it trades is `PaperRuntime`.

**Governor, Evidence.** Records, not strings: an evidence record has type, genome, verdict, code and
dataset. `EvaluateValidatedPromotion` is the function every stage and every promotion asks. A
gate of `Evidence` takes the numbers of back-tests (trades, return, drawdown, in percent) and
compares them as the code does, with its rounding (`RoundedPercent`) and its policies as scheduled.
A *trial* is all the back-tests one candidate meets; the code's regimes are three of its windows
again.

**ResearchBrain.** `ResearchJobs` sees a job as a process that ends somehow; this is its inside. `receipts`
and `experiments` are the two tables of the memory, `report` the file; `cursor`, `loaded`, `fetch`,
`appended` and `payloads` are memory and are lost by `Ended` and `Crash`. Each stage is an action that is
enabled when it is `Due`, and its receipt is recorded with it (`_stage`). `StageRaises` has what a
stage does not catch, an append with a score that is not finite included; incomplete data get
their receipt first, and every later start raises on it. Where a stage judges, the
model computes its outcome from the evidence; where it searches or back-tests, the outcome is free.
Only `AppendExperiment` writes elsewhere before its receipt, one experiment a step. `OpenReport` and
`WriteReport` are two steps because the file is truncated first.

**Promotion.** `EvaluateForward` judges the whole archive anew at each call, as the service does, against any
incumbent a caller may pass. The smoke process is one record: `NodeStarts` to `NodeStops` are the
callbacks of its strategy and the end of its node, `DeadlinePasses` and `WatchdogStops` the second
thread; `OnOrderAccepted`, `OnOrderRejected` and `VenueFills` come when the venue likes. `evidence` is the
file it writes, `accepted` and `evidence.left` are history. `Deploy` replaces the code at any time.
`AskGovernor` takes the state of the last evaluation and the records of the last bundle, since
nothing else connects the two.

**MultiLeg.** `OnBar` is the whole of `on_bar` for one leg: alignment, exit policy or entry signal, weights,
deltas, submissions and the memory of the strategy. A comparison of prices with a threshold may
go either way; what rests on market state the strategy's bars never carry cannot (`Signals` of a
funding basis is flat, `ExitRaises` of an edge's decay or a hedge's drift is certain). `positions` holds
what the engine holds of each leg: one quantity on spot, which nets, and one per order on margin, which
hedges (`nautilus_evaluation.py:144-154`); the strategy adds them up (`Net`). The governor may refuse any of
the orders, `VenueRejects` any that was sent, and `Raises` says where the code raises between two legs.
`OnStop` sends a close for each open position, each of which may fail alone. The orders of a leg are
answered in order and before the next bar, which is how the back-test and the sandbox process
them; a stop may come before an answer.

## The runs

| Run | Instance | Shows |
|---|---|---|
| `risk` | 2 orders, 2 per minute, minute 3, duplicate window 2; account at, below and beyond its caps, venue and portfolio switches, providers that own their state or none | nothing is accepted on a state that is absent, old or bad, in a killed scope, beyond the minute's limit or within the duplicate window |
| `paper_evidence` | 2 strategies on an instrument each, 3 events, 2 fills, 3 processes | no evidence is lost or counted twice, archives are complete, the ledger is refined, a closed window is always replaced |
| `paper_replay` (violation) | public source, crash after dispatch | the event is not delivered again |
| `paper_trading` | 2 strategies on one instrument, a third on its own; prices 1 and 2, caps 3 and 4 | lone strategies keep to caps and decisions; on the shared instrument a cap is passed by the room left per order at most |
| `paper_shared` (violation) | the same instrument | a hold is taken for an entry |
| `paper_perpetual` (violation) | a USD-M perpetual | its market state is filed under another name |
| `source_bars` | 2 timeframes, 5 ticks of time, 2 updates, SPOT and USD-M | each due bar once, before the tick; received means yielded |
| `autopilot` | 1 cycle and 1 maintenance slot, 3 jobs, 1 of them done before, limit 1 | receipts are true, limit and escalation hold, a stop ends trading |
| `autopilot_workers` (violation) | two qualified jobs | two PAPER workers trade at once |
| `research` | 5 schedules of 1 or 2 runs, up to 2 candidates, 15 trials, 2 files, 4 attempts, 2 starts | verdicts are earned, stored and queued once, the ledger is refined, a started job ends |
| `promotion` | 2 code versions, up to 3 windows of 4 kinds, 4 incumbents and none, 2 manifests, 2 exchanges, 4 environments | champions are earned, a smoke record is honest, its order minimal, LIVE_ELIGIBLE earned, the smoke ends |
| `multileg` | 6 genomes of 2 legs, spot and margin, 5 bars a leg, an instrument that cannot be reversed at once | undisturbed legs are at their targets, the positions of a leg add up to one target, but for a stop on margin |

The violation runs are disagreements between the code and a sentence of its documents or
comments; each is a finding with the sentence quoted.

### Why the bounds are enough

- Risk: the order caps are 1 and 2, so a burst of one more order than allowed, an order exactly
  at a cap and one beyond it all occur; the clock covers a full minute (3) and its successor. The
  theorems hold for every limit, so the bounds matter for the gate only.
- Paper: three events with two fills allow an entry, an exit and an event between; three processes
  allow a crash, a crash during the recovery and a run after it. Two strategies are
  needed for a rotation that stops between their files.
- Trading: three events let the pair enter together, the price double and an exit be refused. With
  caps of 3 and 4 one position at price 2 leaves room on its instrument and two do not, so the pair
  passes the cap in one event, and a lone position of the third strategy is cut off by the others' price.
  The violation runs keep one strategy, or two on one instrument, and fewer prices.
- Source: five ticks close two bars of the short timeframe and one of the long one, twice over a
  reconnect, in both products (the grace of USD-M is 1).
- Autopilot: three jobs allow short window, full window, and the second full window that must
  not be. The job that ended before the model begins stands for an earlier cycle. With a limit of 1 a
  cycle launches a deep job *or* a batch; both in one cycle need a limit of 2, whose state space is
  beyond the time of a run. One pid is enough for the properties of `autopilot`; the violation run
  has two.

- Research: two candidates are the least for which a budget and a cap of 1 bite; the two-run schedule
  has a family that needs a specialist report and a second timeframe. The trials of the first
  schedule lie on both sides of each threshold. Two starts are one interruption anywhere and a
  complete run after it; two files are the least with a step from one to the next.
- Promotion: one of the incumbents is beaten by the return of two good windows and not by their score.
  Two versions allow every mix of evidence of an old and a new one. Where an order
  may be tried the windows are all good, elsewhere they are of every kind: the two halves meet in
  `AskGovernor` only, which reads the state and not the windows.
- Multi-leg: five bars of each leg open, hold past the rebalance period, close and open again, and give
  a margin leg several positions. Steps of 1 and 2 and a maximum below twice the target make one leg
  round and one reversal raise.

`CHECK_DEADLOCK FALSE` stands where the system may really stop: the portfolio run ends with its
events, the source when a recovery has failed, the research job after its last start, the promotion
chain when nobody asks for more, a strategy when it was stopped.

### Fairness

`PaperRuntime!Fairness` asks that a rotation that began is worked off and that a process that
finds a closed window goes on with it: both are straight-line code of one thread. Nothing is
assumed of events, requests or crashes beyond the bound on processes. `Autopilot!PaperFairness`
asks that a started PAPER worker reaches its preflight and a trading one the next event of its
stream, where it polls the marker: book tickers arrive many times a second, and a dead connection is
closed by its ping timeout. No fairness is assumed of autopilot processes.
`ResearchBrain!FairSpec` asks that a started job takes steps while it can (it is one process in a
straight line; requests have time-outs), not that it is started or that it succeeds: `JobEnds` counts a
crash as an end. `Promotion!FairSpec` asks that the threads of a running smoke process run and that its
deadline passes; nothing is asked of the exchange.

## The proofs

Every safety invariant, every action property and both refinements that a passing run checks are
also theorems, for all values of the constants the assumptions allow. What a run shows of a small
instance holds of every portfolio, limit, schedule, number of events and number of restarts.

### What is assumed

Only the named assumptions of the modules, which TLC evaluates on each run:

- limits, ages and bounds are natural numbers, a batch or a set the code iterates over is finite,
  `Absent` is no value of a type it stands in for;
- what the code enforces where the value enters: exchange rules are positive
  (`parse_spot_order_rules`), reports and policies refuse negative counts and drawdowns
  (`ForwardAssumption`), products have recipes (`RecipesAssumption`: "no runnable public recipes" is an
  error), legs are two or more and distinct (`LegsAssumption`, `runtime_factory.py:890`), step and trade
  sizes are positive (`SizesAssumption`), entries and exits are the ones the strategy knows
  and paired as in its families, and pairs have two legs (`PoliciesAssumption`,
  `research/generator.py:195-199`), a trial has at most `MaxNeighbours` neighbours (the default of
  `_parameter_neighbors`);
- what the model begins with: the jobs of the history are well formed and no long recipe had two
  full windows before (`HistoriesAssumption`, `EscalationAssumption`).

The theorems have no hypothesis beside these; two properties of the autopilot speak of one cycle process
at a time, and those of PAPER trading that hold of a strategy alone on its instrument say so.

### What is proved, and how

**RiskGovernorProofs.** `TypeCorrect` first. The rate and the spacing are not inductive: they speak of
the history of all accepted orders while the code keeps a trimmed one. `HistoryInv` connects
them: `orderTimes` is a suffix of the times of `accepted`, everything before the suffix is at least a
minute old, times do not decrease and lie in the past, and `lastAllowed` of a fingerprint is the time
of its last accepted order. Then a submission that passes `RateReached` sees all of the minute
(`OrderRate`), and one that passes `Duplicate` is far enough from the last of its kind
(`DuplicateSpacing`). `KillSwitches` needs no history: no action takes a kill back, and `Killed` guards
every acceptance. `ReportedStatesOnly` needs `ReportedInv`, that the provider holds only account
states somebody reported; then the snapshot an order was allowed on is taken apart limit by limit.

**PaperRuntimeProofs.** The invariant has four parts: `TypeOK`; `MemoryInv`, what the process holds is what
it saved, except for the trades of the event just dispatched, at each program counter;
`CheckpointInv`, the checkpoint is the engine's state once committed; and `ArchiveInv`, for one
strategy: report i is of window i, the state file's session is one ahead of the archive or, when it
is closed, equal to it, and history and archive agree. One lemma per part (`TypeStep`, `MemoryStep`,
`CheckpointStep`, `ArchiveStep`) has a step per action. From it follow `TypesHold`,
`CheckpointIsCurrent`, `ArchivesComplete`. `EvidenceNeverLost` shows for each action that its file
writes only add. `CountedOnlyOnce` strengthens the invariant with `PublicInv`: on a public source the
cursor is past every saved event, so a counted event is never dispatched again; `FixtureReplays`
uses the opposite fact of a fixture, whose cursor never passes an unsaved event.

`RuntimeImplementsLedger` maps the state file and the archives to the closed windows and the open
one. `Commit` is the ledger's `Count`: it needs `DispatchedInv` (the unsaved journal differs from the file
by trades of this event only) and `PublicInv` (the event is in no closed window). `CloseWindow` is
`Close`. Everything else stutters, which is least obvious of `OpenWindow`, after which the closed
window is read off the archives instead of the state file (`ArchivedAsStored`, from `ArchiveInv`), and of
`AppendReport`, which may repeat what a dead process did (`LedgerAppends`).

**PaperTradingProofs.** An order is judged by the account as it was before the event, at the price of the
event, so that the orders of one event may pass a cap together. `RoomBoundsOvershoot` says by how much.
The invariant `TradingInv` says of an event under way that the account the governor looks at is that of
the positions still held, at the latest prices (`AccountsCurrent`), and that what was accepted since took
the room there was once per order at most (`RoomTaken`), on the instrument and in the portfolio; where
the price has used up the room nothing is accepted, so the bound says that nothing moves. `CapsHold` needs more of
a strategy alone on its instrument: of its close and its entry only the entry adds to what is held
(`AtWork`, `OwnTrade`), so that it takes the room once. `PositionsFollowDecisions` follows from the same
two. Net position and exposures are sums, treated by lemmas of their own (`NetIsSum`,
`PortfolioExposureIsSum`, `SumGrowsBy`, `WorthGrowsBy`).

**MarketSourceProofs.** `YieldInv`: a bar that was yielded is at most as new as the last closed one of
its stream, a queued one is not yielded, so socket and REST exclude each other. `TrackerInv`: what is
before the next bar of a lane is expected, what is expected is received or missing. `TickInv`: while a
tick is recovered for, every due bar is yielded or its lane still to be asked; a lane is left only
when healthy. That sorting the candidates of a lane loses none is `Sortable` and `RecoveredOnce`.

**AutopilotProofs.** The properties speak of files; what makes them inductive is what a process holds
between two accesses: `JobsInv` (a job about to be spawned has no worker, two processes never spawn the
same, a temporary receipt says the truth before it is renamed), `BudgetInv` (workers alive and launches
planned stay within the limit together), `EscalationInv` (a full window that is planned is the first
launch of its cycle and the first of its recipe), `PaperInv` (a portfolio that was chosen is still good
when it is written, since receipts never take a success back). `ResearchBounded` and `EscalatedOnce` speak
of one cycle process at a time, as the runs do: two at once count the same free slots, and nothing locks
them out.

**ResearchBrainProofs.** `ResearchInv` says of each run that its receipts are a prefix of the stages, that
no stage brings back what an earlier one failed (`NarrowsOK`), and of each later stage what it was
derived from (`JudgedOK`, `ExperimentsOK`, `StoredOK`, `QueueOK`); and of the job that its memory agrees
with its tables (`MemoryOK`), which a crash cannot disturb, since it leaves nothing in memory. `HiddenPassIsEarned` needs the gates undone one by
one: `FoldWithstood` to `RegimesWithstood` turn each rounded comparison into the threshold it stands for.
`ResearchImplementsLedger`: `Judge` and `QueuePaper` are the ledger's steps, `OpenReport` withdraws the
report and `WriteReport` publishes it; all else stutters.

**PromotionProofs.** `OrderQuantityIsLeast` is arithmetic: rounding up twice gives the least size, for all
rules and prices; `Sized` carries it to every state (`SmallestOrder`). `LiveEarned` speaks of a step of
the governor and of an order accepted long before, so what lies between has to be invariant:
`ProcessBound`, a running process keeps the version and the manifest it was checked against;
`FlagTrue`, its flag stands for an accepted order of that version; `EvidenceTrue` and `BundleTrue`, a
passed record of the file, and of any bundle built from it, has such an order behind it. None of the
four is inductive without the one before. `SmokeRecordsHonest` follows from the third, and with
`BundleIdentityOk`, which ties all live probes to one version and data set, `LiveIsEarned`. For
`ChampionIsEarned`, `Judged` keeps what the last evaluation saw, and the worst drawdown is at least that of
each window; the products of growth factors are whole
numbers of the right sign for any number of windows (`CompoundedIsWhole`).

**MultiLegProofs.** A leg of a genome has one size (`Size`), so it stands at nothing or at that size with
either sign. `OrdersInv`: an unanswered order of a decision leads to such a target from where the leg
stands; a close comes with a stop, is of a whole size where the venue nets and names a known
position where it hedges. `ReachInv`: a leg that missed nothing has arrived or waits for the one order
that takes it there, and after a stop each of its open positions waits for its close. `NettingInv` says that
spot keeps one position at most. The sum of a leg's positions is treated by lemmas of its own (`SumsSteps`
and those after it). `PositionsStayOnTarget` excepts a stop on margin, which is where one close may fail
beside another.

### Induction

An induction theorem whose parameter is an operator cannot be used here. Induction over numbers and
finite sets is done on a *set*: the set of the values the claim holds of has a least element
outside (`WFMin`), or contains every finite subset (`FiniteSetInduction`, `SubsetInduction`, `CountUp`).
Sums, products and plans are therefore recursive functions or folds whose equation is proved once
(`PlannedSteps`, `SumsExist`).

### Only model-checked

- Liveness: `ClosedWindowReplaced`, `StopEndsTrading`, `JobEnds`, `SmokeEnds`. They rest on `ENABLED` and on
  fairness, which the prover does not treat.
- The properties of the violation runs, which are false.
- What the folds of the community modules in `Evidence` and `Promotion!Total` add up for long sequences:
  no theorem needs more of them than sums of the few windows a trial has.

## Known facts

Behaviour the models have or met that no property forbids, because no document promises otherwise
or because no run was left for it:

- A rotation closes a window while two strategies hold opposite positions of one instrument
  (`PaperRuntime!Flat`), although `docs/OPERATIONS.md:109` says it waits for a flat account.
- After a reconnect bar k+1 may be yielded before the lost bar k (`binance_stream.py:512`); the bar
  strategies then drop k as late.
- Maintenance writes back the state of the autopilot it loaded at its start and undoes a cycle that
  ended in between (`Autopilot!Save`).
- A portfolio that ever traded does not pass startup reconciliation after a restart: by design.
- Screen, tuning and evolution score a candidate on all bars, the held-out end included
  (`research_brain.py:404`); `MASTER_PLAN.md:146` speaks of training, validation and hidden partitions.
- What tuning and evolution return is not screened again under its own hash.
- The stored experiment of a finalist stays `HIDDEN_PASS`, whether PAPER was granted or not.
- A run that fails at every start keeps the finished runs of the same job out of the report; the
  report is truncated before it is written, so a reader may find it empty.
- Windows of two code versions in an archive make every forward evaluation raise; nothing in the
  code starts the archive anew.
- PAPER evidence and LIVE probes may be of different code versions: nothing compares the two.
- A quote after a price of zero or less may still bring the smoke order, until the node stops.
- Strategies on a shared instrument may together pass an exposure cap in one event, and a price that moves
  passes it without an order (`paper_portfolio.py:447-457`, `536`). What `MASTER_PLAN.md:159` calls hard
  limits bounds what a strategy alone on its instrument adds; `OvershootBounded` says what it bounds otherwise.
- At or past a cap nothing is traded, exits included (`risk.py:101`): an account the price has carried past
  its cap waits for the price.
- A stop on margin closes each position of a leg by its own order. Where one is refused or rejected the leg
  may be left at twice a target, or at a short its genome forbids (`nautilus_multileg_strategy.py:234-236`).
- Strategies of the funding-basis family never enter, and an open hedged basis raises at its next bar: their
  bars carry no `basis_bps`, `funding_rate` or `hedge_drift_bps` (`nautilus_multileg_strategy.py:127-139`).
- A rebalance without a signal zeroes the remembered weights of a multi-leg strategy and sends no order
  (`nautilus_multileg_strategy.py:196`). `bars_held` counts the bars of every leg.

## Not modelled, and why

- Numbers: indicators, scores, back-tests, prices. The models let the decision or the numbers be any.
- The text of files, reports and pages; logging.
- Data access, archives, Parquet: used as atomic operations.
- TESTNET and LIVE factories, credentials: they construct clients. The receipts of
  `live_readiness.py:121` are built by tests only; the bundle builds its own.
- HFT strategies (`hft_strategy.py`): what they do depends on the race between quotes, cancellations and fills
  at the venue, which is Nautilus code; nothing in the repository says which orders of a race survive. Under
  the order in which its back-test answers they hold one position at a time. Options strategies: one
  market order on a bar, the rest are formulas.
- Canaries, acceptance, catalogues: one-shot programs and tables; no state of their own outlives a run.
- The app (`local_app.py`): its pages call the operations modelled elsewhere.
- Each row of `components` in `PROJECT.json` says what is left out of a part that is modelled partly.

## Plan

1. *Done.* The models: `RiskGovernor`, `PaperRuntime` with `EvidenceLedger`, `PaperTrading`, `MarketSource`,
   `ResearchJobs` and `Autopilot`, `Governor`, `Evidence`, `ResearchBrain` with `CandidateLedger`, `Promotion`,
   `MultiLeg`.
2. *Done.* Theorems for every safety property and both refinements of the passing runs.
3. Theorems left: an abstract specification of the governor (what any execution path may rely on) and its
   refinement; `EvidenceLedger` and `CandidateLedger` themselves (a closed window never changes, an event is
   counted once), to be had of the implementations by refinement.
4. Models left: `PaperTrading` for a single-strategy worker (an account reported once) and with orders
   the sandbox rejects; the scheduler's timer and state file in `Autopilot`.
