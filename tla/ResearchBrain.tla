--------------------------- MODULE ResearchBrain ----------------------------
(***************************************************************************)
(* The research job (research_job.py) and the staged pipeline it runs for  *)
(* every entry of its schedule (research_brain.py), with the durable       *)
(* memory that lets an interrupted job go on (memory_duckdb.py).           *)
(*                                                                         *)
(* A run's stages are done in order.  Each leaves one receipt, and a stage *)
(* that has a receipt is never done again: receipts and experiments        *)
(* survive a crash, everything else of the job starts over.  A candidate   *)
(* is a slot of the run's seed and instrument set; its genome is the slot  *)
(* and the form in which the tuning stages left it, and stands for its     *)
(* hash.  What a stage computes from market data is chosen freely:         *)
(* whether a screen is profitable, what a search returns, and the trial    *)
(* (see Evidence) a candidate meets.                                       *)
(***************************************************************************)
EXTENDS Evidence

CONSTANTS Plans,         \* the schedules a job may have, sequences of runs
          Trials,        \* Trials[class]: the trials a candidate of a class may meet
          Files,         \* archives of one timeframe
          MaxAttempts,   \* tries per request
          MaxStarts      \* bound: how often the job is started

\* What the gates read of a back-test, and a candidate's whole set of them.
Evaluations == [trades : Nat, ret : Int, dd : Nat]

\* _parameter_neighbors stops at max_neighbors.
MaxNeighbours == 4

AllTrials ==
    [base : Evaluations, stressed : Evaluations, fold : Evaluations, cpcv : Evaluations,
     montecarlo : Evaluations, transfer : Evaluations, hidden : Evaluations,
     neighbours : {s \in Seq(Evaluations) : Len(s) <= MaxNeighbours}]

ASSUME TrialsAssumption == \A class \in DOMAIN Trials : Trials[class] \subseteq AllTrials

ASSUME PlansAssumption ==
    Plans \subseteq Seq([family : STRING, timeframe : STRING, slots : Nat, budget : Nat,
                        cap : Nat, class : DOMAIN Trials, numeric : BOOLEAN, bars : Nat,
                        window : Nat, transfer : BOOLEAN])

ASSUME BoundsAssumption ==
    Files \in Nat \ {0} /\ MaxAttempts \in Nat \ {0} /\ MaxStarts \in Nat

Stages == <<"verified_data", "load_memory", "regime_discovery", "generation_mutation",
            "vectorbt_screen", "optuna_tune", "pymoo_evolution", "nautilus_validation",
            "specialist_tests", "hidden_robustness_stress", "store_outcomes",
            "queue_paper", "champion_challenger_rerank">>

StageNames == {Stages[i] : i \in DOMAIN Stages}

Forms == {"drawn", "tuned", "evolved"}

VARIABLES plan,         \* the schedule of this job
          receipts,     \* per run, stage name -> artifact
          experiments,  \* per run, slot -> the stored experiment
          trials,       \* history: the trial each judged genome met
          job,          \* "idle", "running", "writing", "done" or "failed"
          cursor,       \* the run being worked on
          loaded,       \* timeframes whose data set is in memory
          fetch,        \* the request under way
          appended,     \* experiments the store stage has been through
          payloads,     \* the finished runs of this job, in memory
          report,       \* the report file
          starts

volatile == <<cursor, loaded, fetch, appended, payloads>>
durable == <<plan, receipts, experiments, trials, report>>
vars == <<durable, job, volatile, starts>>

Run == plan[cursor]

\* The first stage of a run without a receipt, "complete" when there is none.
DueMut(run) ==      \* robustness is repeated while its outcomes are stored
    IF DOMAIN receipts[run] = {Stages[i] : i \in 1..10} /\ DOMAIN experiments[run] # {}
    THEN Stages[10]
    ELSE IF DOMAIN receipts[run] = StageNames THEN "complete"
         ELSE Stages[CHOOSE i \in DOMAIN Stages :
                /\ Stages[i] \notin DOMAIN receipts[run]
                /\ \A j \in 1..(i - 1) : Stages[j] \in DOMAIN receipts[run]]

Due(run) ==
    IF DOMAIN receipts[run] = StageNames THEN "complete"
    ELSE Stages[CHOOSE i \in DOMAIN Stages :
            /\ Stages[i] \notin DOMAIN receipts[run]
            /\ \A j \in 1..(i - 1) : Stages[j] \in DOMAIN receipts[run]]

Working == job = "running" /\ cursor \in DOMAIN plan /\ Run.timeframe \in loaded

Recorded(stage, artifact) ==
    [receipts EXCEPT ![cursor] =
        [name \in DOMAIN @ \cup {stage} |-> IF name = stage THEN artifact ELSE @[name]]]

\* A stage is produced and its receipt recorded.
Record(stage, artifact) ==
    /\ Working
    /\ Due(cursor) = stage
    /\ receipts' = Recorded(stage, artifact)
    /\ UNCHANGED <<plan, experiments, report, job, volatile, starts>>

Artifact(stage) == receipts[cursor][stage]

Generated == Artifact("generation_mutation")

Outcome(genome, passed, records) ==
    [genome |-> genome, passed |-> passed, records |-> records]

\* The survivors of a stage.
Survivors(stage) == {slot \in Generated : Artifact(stage)[slot].passed}

\* The outcomes of a stage that keeps what already failed and gives the
\* survivors the outcome Result.
Carry(stage, Result(_)) ==
    [slot \in Generated |->
        IF slot \in Survivors(stage) THEN Result(slot) ELSE Artifact(stage)[slot]]

FirstRequest == [file |-> 1, step |-> "checksum", attempt |-> 1]

Init ==
    /\ plan \in Plans
    /\ receipts = [run \in DOMAIN plan |-> <<>>]
    /\ experiments = [run \in DOMAIN plan |-> <<>>]
    /\ trials = [run \in DOMAIN plan |-> <<>>]
    /\ job = "idle"
    /\ cursor = 1
    /\ loaded = {}
    /\ fetch = FirstRequest
    /\ appended = 0
    /\ payloads = <<>>
    /\ report = <<>>
    /\ starts = 0

\* The end of a process, in order or not: what was in memory is gone.
Ended(status) ==
    /\ job' = status
    /\ cursor' = 1
    /\ loaded' = {}
    /\ fetch' = FirstRequest
    /\ appended' = 0
    /\ payloads' = <<>>
    /\ UNCHANGED starts

Start ==
    /\ job \in {"idle", "failed", "done"}
    /\ starts < MaxStarts
    /\ job' = "running"
    /\ starts' = starts + 1
    /\ UNCHANGED <<durable, volatile>>

Crash ==
    /\ job \in {"running", "writing"}
    /\ Ended("idle")
    /\ UNCHANGED durable

-----------------------------------------------------------------------------
(***************************************************************************)
(* The verified public archives of the run's timeframe.                    *)
(***************************************************************************)
Fetching == job = "running" /\ cursor \in DOMAIN plan /\ Run.timeframe \notin loaded

FetchSucceeds ==
    /\ Fetching
    /\ \/ /\ fetch.step = "checksum"
          /\ fetch' = [fetch EXCEPT !.step = "archive", !.attempt = 1]
          /\ UNCHANGED loaded
       \/ /\ fetch.step = "archive"
          /\ fetch.file < Files
          /\ fetch' = [FirstRequest EXCEPT !.file = fetch.file + 1]
          /\ UNCHANGED loaded
       \/ /\ fetch.step = "archive"
          /\ fetch.file = Files
          /\ fetch' = FirstRequest
          /\ loaded' = loaded \cup {Run.timeframe}
    /\ UNCHANGED <<durable, job, cursor, appended, payloads, starts>>

NextAttemptMut == FirstRequest     \* the retry starts the count again

MayRetryMut == fetch.attempt <= MaxAttempts     \* one attempt too many

MayRetry == fetch.attempt < MaxAttempts

NextAttempt == [fetch EXCEPT !.attempt = @ + 1]

FetchRetried ==
    /\ Fetching
    /\ MayRetry
    /\ fetch' = NextAttempt
    /\ UNCHANGED <<durable, job, cursor, loaded, appended, payloads, starts>>

\* An error that is not worth a retry, the last retry, or a wrong checksum.
FetchFails ==
    /\ Fetching
    /\ Ended("failed")
    /\ UNCHANGED durable

-----------------------------------------------------------------------------
(***************************************************************************)
(* The stages.                                                             *)
(***************************************************************************)
\* Whether every instrument of the run is in its data is part of the receipt.
VerifyData ==
    /\ \E artifact \in {"verified", "incomplete"} : Record("verified_data", artifact)
    /\ UNCHANGED trials

LoadMemory ==
    /\ Working /\ Due(cursor) = "load_memory"
    /\ Artifact("verified_data") = "verified"
    /\ Record("load_memory",
              Cardinality(UNION {{run} \X DOMAIN experiments[run] : run \in DOMAIN plan}))
    /\ UNCHANGED trials

DiscoverRegimes == Record("regime_discovery", "segmented") /\ UNCHANGED trials

\* Every instrument set, or a blocker when the family fits none of them.
Generate ==
    /\ Working /\ Due(cursor) = "generation_mutation"
    /\ \E slots \in {{}, 1..Run.slots} : Record("generation_mutation", slots)
    /\ UNCHANGED trials

ScreenOutcome(slot, profitable) ==
    LET genome == [slot |-> slot, form |-> "drawn"]
        records == {EvidenceRecord("screen", genome, profitable, "code", "data")}
    IN Outcome(genome,
               EvaluateValidatedPromotion("IDEA", "SCREENED", Run.family, genome, records),
               {})

Screen ==
    /\ Working /\ Due(cursor) = "vectorbt_screen"
    /\ \E profitable \in SUBSET Generated :
          Record("vectorbt_screen",
                 [slot \in Generated |-> ScreenOutcome(slot, slot \in profitable)])
    /\ UNCHANGED trials

\* A search over the numeric parameters returns a genome, its own start
\* included, or raises, which fails the candidate; a genome without numeric
\* parameters is passed on.  Neither search asks for a new screen of what it
\* returns.
Searched(stage, slot, results) ==
    IF slot \in DOMAIN results
    THEN Outcome([slot |-> slot, form |-> results[slot]], TRUE, {})
    ELSE Outcome(Artifact(stage)[slot].genome, FALSE, {})

SearchResults(stage, form) ==
    IF ~Run.numeric
    THEN {[slot \in Survivors(stage) |-> Artifact(stage)[slot].genome.form]}
    ELSE UNION {{results \in [found -> Forms] :
                    \A slot \in found :
                        results[slot] \in {form, Artifact(stage)[slot].genome.form}} :
                found \in SUBSET Survivors(stage)}

Tune ==
    /\ Working /\ Due(cursor) = "optuna_tune"
    /\ \E results \in SearchResults("vectorbt_screen", "tuned") :
          Record("optuna_tune",
                 Carry("vectorbt_screen",
                       LAMBDA slot : Searched("vectorbt_screen", slot, results)))
    /\ UNCHANGED trials

Evolve ==
    /\ Working /\ Due(cursor) = "pymoo_evolution"
    /\ \E results \in SearchResults("optuna_tune", "evolved") :
          Record("pymoo_evolution",
                 Carry("optuna_tune",
                       LAMBDA slot : Searched("optuna_tune", slot, results)))
    /\ UNCHANGED trials

\* The budget admits survivors in order; the others fail unseen.
Admitted ==
    {slot \in Survivors("pymoo_evolution") :
        Cardinality({other \in Survivors("pymoo_evolution") : other < slot}) < Run.budget}

\* closed: the positions the back-test of the first window closed, if admitted.
ValidationOutcome(slot, closed) ==
    LET genome == Artifact("pymoo_evolution")[slot].genome
        records == {EvidenceRecord("nautilus_backtest", genome,
                                   BacktestPassed([trades |-> closed[slot]]),
                                   "code", "data")}
    IN Outcome(genome,
               /\ slot \in Admitted
               /\ ResearchBars(Run.bars, Run.window) > 0
               /\ EvaluateValidatedPromotion("SCREENED", "BACKTESTED", Run.family,
                                             genome, records),
               {})

Validate ==
    /\ Working /\ Due(cursor) = "nautilus_validation"
    /\ \E closed \in [Admitted -> {0, 1}] :
          Record("nautilus_validation",
                 Carry("pymoo_evolution", LAMBDA slot : ValidationOutcome(slot, closed)))
    /\ UNCHANGED trials

\* Only the pair families get their stress report from the job itself; no one
\* supplies the inputs of the others.
Reports == IF Run.family = "stat_arb" THEN {"missing", "failed", "passed"} ELSE {"missing"}

SpecialistOutcome(slot, reports) ==
    LET genome == Artifact("nautilus_validation")[slot].genome
        records == SpecialistRecords(genome, Run.family, reports[slot], "code", "data")
    IN Outcome(genome, SpecialistGate(genome, Run.family, records), records)

Specialist ==
    /\ Working /\ Due(cursor) = "specialist_tests"
    /\ \E reports \in [Survivors("nautilus_validation") -> Reports] :
          Record("specialist_tests",
                 Carry("nautilus_validation",
                       LAMBDA slot : SpecialistOutcome(slot, reports)))
    /\ UNCHANGED trials

\* Both cycles, one after the other; whatever they raise quarantines.
Qualified(slot, trial) ==
    LET outcome == Artifact("specialist_tests")[slot]
        genome == outcome.genome
    IN /\ Run.transfer
       /\ ResearchBars(Run.bars, Run.window) > 0
       /\ NeighbourhoodOk(trial)
       /\ EvaluateValidatedPromotion("BACKTESTED", "ROBUST", Run.family, genome,
              RobustnessRecords(genome, trial, outcome.records, "code", "data"))
       /\ EvaluateValidatedPromotion("ROBUST", "HIDDEN_PASS", Run.family, genome,
              HiddenRecords(genome, trial, "code", "data"))

Verdict(slot, met) ==
    LET qualified == slot \in DOMAIN met /\ Qualified(slot, met[slot])
    IN [genome    |-> Artifact("specialist_tests")[slot].genome,
        state     |-> IF qualified THEN "HIDDEN_PASS" ELSE "QUARANTINED",
        score     |-> IF qualified THEN met[slot].hidden.ret ELSE 0,
        qualified |-> qualified]

Judge ==
    /\ Working /\ Due(cursor) = "hidden_robustness_stress"
    /\ \E met \in [Survivors("specialist_tests") -> Trials[Run.class]] :
          /\ Record("hidden_robustness_stress",
                    [slot \in Generated |-> Verdict(slot, met)])
          /\ trials' = [trials EXCEPT ![cursor] = met]

-----------------------------------------------------------------------------
(***************************************************************************)
(* Storing, queueing and the report.                                       *)
(***************************************************************************)
Verdicts == Artifact("hidden_robustness_stress")

\* One append; the same experiment again changes nothing, another result
\* under its id ends the job.
AppendExperiment ==
    /\ Working /\ Due(cursor) = "store_outcomes"
    /\ appended + 1 \in Generated
    /\ LET slot == appended + 1
           stored == experiments[cursor]
       IN IF slot \in DOMAIN stored /\ stored[slot] # Verdicts[slot]
          THEN Ended("failed") /\ UNCHANGED experiments
          ELSE /\ experiments' = [experiments EXCEPT ![cursor] =
                    [s \in DOMAIN @ \cup {slot} |->
                        IF s = slot THEN Verdicts[slot] ELSE @[s]]]
               /\ appended' = slot
               /\ UNCHANGED <<job, cursor, loaded, fetch, payloads, starts>>
    /\ UNCHANGED <<plan, receipts, trials, report>>

AllAppendedMut == appended + 1 >= Cardinality(Generated)   \* one short

AllAppended == appended >= Cardinality(Generated)

StoreOutcomes ==
    /\ Working /\ Due(cursor) = "store_outcomes"
    /\ AllAppended
    /\ receipts' = Recorded("store_outcomes", Cardinality(Generated))
    /\ appended' = 0
    /\ UNCHANGED <<plan, experiments, trials, report, job, cursor, loaded, fetch,
                   payloads, starts>>

\* a before b in the queue: by score, then by strategy id.
Before(a, b) ==
    \/ Verdicts[a].score > Verdicts[b].score
    \/ Verdicts[a].score = Verdicts[b].score /\ a < b

SelectedMut ==      \* the cap is taken before the sort
    {slot \in Generated :
        /\ Verdicts[slot].qualified
        /\ Cardinality({other \in Generated : Verdicts[other].qualified /\ other < slot})
               < Run.cap}

Selected ==
    {slot \in Generated :
        /\ Verdicts[slot].qualified
        /\ Cardinality({other \in Generated : Verdicts[other].qualified /\ Before(other, slot)})
               < Run.cap}

\* connected: the sandbox sessions the probe could open.
Finalist(slot, connected) ==
    LET genome == Verdicts[slot].genome
        started == EvaluateValidatedPromotion("HIDDEN_PASS", "PAPER", Run.family, genome,
                       PaperStartRecords(genome, slot \in connected))
    IN [genome |-> genome,
        state  |-> IF slot \in Selected /\ started THEN "PAPER" ELSE "QUARANTINED",
        score  |-> Verdicts[slot].score]

QueuePaper ==
    /\ Working /\ Due(cursor) = "queue_paper"
    /\ \E connected \in SUBSET Selected :
          Record("queue_paper", [slot \in Generated |-> Finalist(slot, connected)])
    /\ UNCHANGED trials

Finalists(run) == receipts[run]["queue_paper"]

InPaper(run) == {slot \in DOMAIN Finalists(run) : Finalists(run)[slot].state = "PAPER"}

Rerank ==
    /\ Record("champion_challenger_rerank",
              [generated |-> Cardinality(Generated), stored |-> Artifact("store_outcomes"),
               queued |-> Cardinality(InPaper(cursor)), finalists |-> Artifact("queue_paper")])
    /\ UNCHANGED trials

\* What a stage does not catch: the job fails and the stage has no receipt.  A
\* score that is not finite cannot be appended; incomplete data have a receipt,
\* after which every start raises.
StageRaises ==
    /\ Working
    /\ \/ Due(cursor) \in {"regime_discovery", "generation_mutation", "specialist_tests",
                            "store_outcomes", "queue_paper"}
       \/ Due(cursor) = "load_memory" /\ Artifact("verified_data") = "incomplete"
    /\ Ended("failed")
    /\ UNCHANGED durable

\* A manifest names a PAPER finalist by the genome judged under its hash.
Manifests(run) ==
    {slot \in InPaper(run) : \E judged \in DOMAIN receipts[run]["hidden_robustness_stress"] :
        receipts[run]["hidden_robustness_stress"][judged].genome = Finalists(run)[slot].genome}

FinishRun ==
    /\ Working
    /\ Due(cursor) = "complete"
    /\ IF Manifests(cursor) = InPaper(cursor)
       THEN /\ payloads' = Append(payloads,
                   {Finalists(cursor)[slot].genome : slot \in InPaper(cursor)})
            /\ cursor' = cursor + 1
            /\ UNCHANGED <<job, loaded, fetch, appended, starts>>
       ELSE Ended("failed")
    /\ UNCHANGED durable

\* The report file is truncated, then written.
OpenReport ==
    /\ job = "running"
    /\ cursor \notin DOMAIN plan
    /\ job' = "writing"
    /\ report' = <<>>
    /\ UNCHANGED <<plan, receipts, experiments, trials, volatile, starts>>

WriteReport ==
    /\ job = "writing"
    /\ report' = <<payloads>>
    /\ Ended("done")
    /\ UNCHANGED <<plan, receipts, experiments, trials>>

Step ==
    \/ FetchSucceeds \/ FetchRetried \/ FetchFails
    \/ VerifyData \/ LoadMemory \/ DiscoverRegimes \/ Generate
    \/ Screen \/ Tune \/ Evolve \/ Validate \/ Specialist \/ Judge
    \/ AppendExperiment \/ StoreOutcomes \/ QueuePaper \/ Rerank
    \/ StageRaises \/ FinishRun \/ OpenReport \/ WriteReport

Next == Start \/ Crash \/ Step

Spec == Init /\ [][Next]_vars

\* A started job is a process of its own and keeps going until it ends.
FairSpec == Spec /\ WF_vars(Step)

-----------------------------------------------------------------------------
RunIds == UNION {DOMAIN schedule : schedule \in Plans}

Slots == UNION {UNION {1..schedule[run].slots : run \in DOMAIN schedule} : schedule \in Plans}

Genomes == [slot : Slots, form : Forms]

Judged(run) == "hidden_robustness_stress" \in DOMAIN receipts[run]

VerdictOf(run) == receipts[run]["hidden_robustness_stress"]

Passed(run) == {slot \in DOMAIN VerdictOf(run) : VerdictOf(run)[slot].state = "HIDDEN_PASS"}

Queued(run) == "queue_paper" \in DOMAIN receipts[run]

QueueOf(run) == {Finalists(run)[slot].genome : slot \in InPaper(run)}

\* Type correctness.  Receipts are a prefix of the stages and what the later
\* stages read of them has the shape the code unpacks (research_brain.py _stage).
ResearchTypeOK ==
    /\ plan \in Plans
    /\ DOMAIN receipts = DOMAIN plan
    /\ DOMAIN experiments = DOMAIN plan
    /\ job \in {"idle", "running", "writing", "done", "failed"}
    /\ cursor \in 1..(Len(plan) + 1)
    /\ fetch \in [file : 1..Files, step : {"checksum", "archive"}, attempt : 1..MaxAttempts]
    /\ \A run \in DOMAIN plan :
          /\ \E n \in 0..Len(Stages) : DOMAIN receipts[run] = {Stages[i] : i \in 1..n}
          /\ Judged(run) =>
                /\ DOMAIN VerdictOf(run) = receipts[run]["generation_mutation"]
                /\ \A slot \in DOMAIN VerdictOf(run) :
                      /\ VerdictOf(run)[slot].genome \in Genomes
                      /\ VerdictOf(run)[slot].genome.slot = slot

\* What the thresholds of the scheduled policies mean, on the numbers themselves.
Withstood(trial) ==
    /\ \A e \in {trial.fold, trial.cpcv, trial.montecarlo, trial.stressed,
                 trial.transfer, trial.hidden} : e.trades >= 5
    /\ trial.fold.ret > 0 /\ trial.cpcv.ret > 0 /\ trial.montecarlo.ret >= -10
    /\ trial.transfer.ret >= 0 /\ trial.hidden.ret >= 0
    /\ trial.stressed.ret >= 0
    /\ trial.base.ret > 0 => 5 * trial.stressed.ret >= 2 * trial.base.ret
    /\ \A e \in {trial.fold, trial.stressed, trial.hidden} : e.dd <= 20
    /\ \A e \in {trial.cpcv, trial.montecarlo, trial.transfer} : e.dd <= 25
    /\ LET calm == {i \in 1..3 :
                      LET e == <<trial.fold, trial.cpcv, trial.montecarlo>>[i]
                      IN e.dd <= 20 /\ e.ret >= 0}
       IN Cardinality(calm) >= 2
    /\ LET steady == {i \in DOMAIN trial.neighbours :
                        LET e == trial.neighbours[i]
                        IN /\ e.trades >= 5 /\ e.dd <= 20
                           /\ IF trial.base.ret > 0 THEN 5 * e.ret >= 2 * trial.base.ret
                              ELSE e.ret >= trial.base.ret}
       IN Len(trial.neighbours) >= 2 /\ 3 * Cardinality(steady) >= 2 * Len(trial.neighbours)

\* A candidate whose verdict is HIDDEN_PASS came through every stage: within
\* the validation budget, with a specialist report of its own if its family
\* needs one, and through a trial that meets every threshold of the scheduled
\* policies (research_brain.py 693-1076, governor.py, research_job.py 213-226).
HiddenPassEarned ==
    \A run \in DOMAIN plan : Judged(run) =>
        /\ Cardinality({slot \in DOMAIN VerdictOf(run) :
                receipts[run]["nautilus_validation"][slot].passed}) <= plan[run].budget
        /\ \A slot \in Passed(run) :
              /\ \A stage \in {"vectorbt_screen", "optuna_tune", "pymoo_evolution",
                               "nautilus_validation", "specialist_tests"} :
                    receipts[run][stage][slot].passed
              /\ Withstood(trials[run][slot])
              /\ plan[run].transfer
              /\ plan[run].family \in MultiLegFamilies =>
                    \E r \in receipts[run]["specialist_tests"][slot].records :
                        /\ r.type = "multi_leg_execution_stress"
                        /\ r.passed
                        /\ r.genome = VerdictOf(run)[slot].genome

\* The PAPER queue of a run holds at most its cap of candidates, each of them
\* passed and stored as passed under the genome that was judged; and a passed
\* candidate that scores strictly better than a queued one is only left out
\* when it was chosen and its sandbox session did not start: the chosen ones
\* are never outnumbered by better candidates (research_brain.py 1103-1142).
QueueEarned ==
    \A run \in DOMAIN plan : Queued(run) =>
        /\ Cardinality(InPaper(run)) <= plan[run].cap
        /\ \A slot \in InPaper(run) :
              /\ slot \in Passed(run)
              /\ slot \in DOMAIN experiments[run]
              /\ experiments[run][slot].state = "HIDDEN_PASS"
              /\ experiments[run][slot].genome = Finalists(run)[slot].genome
              /\ Cardinality({other \in Passed(run) :
                    VerdictOf(run)[other].score > VerdictOf(run)[slot].score}) < plan[run].cap

\* Nothing is reported that memory does not hold: once the outcomes of a run
\* count as stored, every verdict of it is an experiment, and a report counts
\* exactly those runs, whatever was interrupted and started again in between
\* (research_brain.py 1078-1101, memory_duckdb.py append, research_job.py main).
OutcomesStored ==
    /\ \A run \in DOMAIN plan : "store_outcomes" \in DOMAIN receipts[run] =>
          /\ experiments[run] = VerdictOf(run)
          /\ receipts[run]["store_outcomes"] = Cardinality(DOMAIN experiments[run])
    /\ report # <<>> => report[1] = [run \in DOMAIN plan |-> QueueOf(run)]

\* What the job promises: verdicts and queues are decided once and the report
\* names the queue, across crashes, failures and new starts.
Ledger == INSTANCE CandidateLedger WITH
    Runs <- RunIds,
    Candidates <- Genomes,
    passed <- [run \in RunIds |->
        IF run \in DOMAIN plan /\ Judged(run)
        THEN <<{VerdictOf(run)[slot].genome : slot \in Passed(run)}>> ELSE <<>>],
    queued <- [run \in RunIds |->
        IF run \in DOMAIN plan /\ Queued(run) THEN <<QueueOf(run)>> ELSE <<>>],
    published <- report

ImplementsLedger == Ledger!Spec

\* A started job ends, done, failed or cut off: the retries of a request are
\* counted and a stage that has a receipt is not done again.
JobEnds == job = "running" ~> job \notin {"running", "writing"}

=============================================================================
