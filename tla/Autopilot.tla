------------------------------ MODULE Autopilot ------------------------------
(***************************************************************************)
(* The opportunity autopilot of autopilot.py: a search cycle launches      *)
(* research jobs within a limit and rotates through the recipes, and both  *)
(* the cycle and the maintenance run, a process each, prepare the PAPER    *)
(* portfolio and start the PAPER worker.  They share the state file, the   *)
(* settings and the pid file without a lock; the scheduler starts both at  *)
(* the same poll.  TradingService contributes the emergency-stop marker    *)
(* that a PAPER worker obeys.                                              *)
(*                                                                         *)
(* A process runs as a sequence of steps, one per access to shared state,  *)
(* and may die at any of them (an exception of a loader, a kill).  The     *)
(* processes of CycleProcesses and MaintenanceProcesses are slots: each    *)
(* runs again and again.  Autopilot, preparation and start are enabled in  *)
(* the settings, and the checkout stays the same, so that candidates match *)
(* its identity.                                                           *)
(***************************************************************************)
EXTENDS ResearchJobs, FiniteSetsExt

CONSTANTS
    CycleProcesses, MaintenanceProcesses,
    MaxRunningJobs,     \* config.max_running_jobs
    RecipesPerCycle,    \* config.recipes_per_cycle
    Pids,               \* of PAPER workers; the system may give one again
    MaxCycles           \* bound of the model

Processes == CycleProcesses \cup MaintenanceProcesses

SearchedProducts == {Products[k] : k \in DOMAIN Products}

Cursors == [SearchedProducts -> Nat]

Requests == [recipe : Recipes, full : BOOLEAN]

ASSUME LimitsAssumption ==
    /\ MaxRunningJobs \in Nat
    /\ RecipesPerCycle \in Nat
    /\ MaxCycles \in Nat
    /\ IsFiniteSet(CycleProcesses)

ASSUME PidsAssumption == Absent \notin Pids

\* The jobs before the model begins were launched by the autopilot as well: no
\* long recipe has had its full window twice.
ASSUME EscalationAssumption ==
    \A past \in Histories : \A i, j \in DOMAIN past :
        past[i].full /\ past[j].full /\ past[i].recipe = past[j].recipe
            => past[i].recipe \notin LongRecipes \/ i = j

VARIABLES
    stateFile,  \* autopilot-state.json: the number of cycles and the cursor
    process,    \* the local state of each autopilot process
    portfolio,  \* the jobs whose candidates the settings name; {} for none
    pidFile,    \* paper-worker.pid
    paper,      \* the PAPER worker of each pid
    stop        \* the emergency-stop marker

paperVars == <<portfolio, pidFile, paper, stop>>

autopilotVars == <<jobVars, stateFile, process, paperVars>>

StateFiles == [cycles : Nat, cursor : Cursors]

Idle == [pc |-> "idle"]

AutopilotTypeOK ==
    /\ JobsTypeOK
    /\ stateFile \in [cycles : 0..MaxCycles,
                      cursor : [SearchedProducts -> 0..(Max({RecipeCount[p] : p \in SearchedProducts}) - 1)]]
    /\ \A p \in Processes : process[p] = Idle \/ process[p].loaded \in StateFiles
    /\ portfolio \subseteq Jobs
    /\ pidFile \in Pids \cup {Absent}
    /\ paper \in [Pids -> {"none", "starting", "trading", "exited"}]
    /\ stop \in BOOLEAN

AutopilotInit ==
    /\ JobsInit
    /\ stateFile = [cycles |-> 0, cursor |-> [product \in SearchedProducts |-> 0]]
    /\ process = [p \in Processes |-> Idle]
    /\ portfolio = {}
    /\ pidFile = Absent
    /\ paper = [pid \in Pids |-> "none"]
    /\ stop = FALSE

-----------------------------------------------------------------------------
\* What a cycle decides to launch.

\* As if only finished full-window jobs counted.
DeepCandidatesMut ==
    {receipt[job].recipe : job \in
        {j \in InStatus({"SUCCEEDED"}) :
            /\ report[j] \in {"promising", "qualified"}
            /\ ~receipt[j].full
            /\ \A other \in InStatus({"SUCCEEDED"}) :
                   receipt[other].full => receipt[other].recipe # receipt[j].recipe}}

\* _deep_validation_candidate: a promising result of a short window, of a
\* recipe that no job has given its full window yet.
DeepCandidates ==
    {receipt[job].recipe : job \in
        {j \in InStatus({"SUCCEEDED"}) :
            /\ report[j] \in {"promising", "qualified"}
            /\ ~receipt[j].full
            /\ \A other \in Launched :
                   receipt[other].full => receipt[other].recipe # receipt[j].recipe}}

DeepRequests(slots) ==
    IF DeepCandidates = {} \/ slots = 0 THEN {<<>>}
    ELSE {<<[recipe |-> recipe, full |-> TRUE]>> : recipe \in DeepCandidates}

\* _select_recipe_batch for one product: plan holds the slots left, the
\* cursor and the requests so far.
AddBatch(plan, product) ==
    LET size  == RecipeCount[product]
        count == Min({RecipesPerCycle, plan.slots, size})
        Pick(i) == <<product, (plan.cursor[product] + i - 1) % size>>
    IN [slots    |-> plan.slots - count,
        cursor   |-> [plan.cursor EXCEPT ![product] = (@ + count) % size],
        requests |-> plan.requests \o
            [i \in 1..count |-> [recipe |-> Pick(i), full |-> Pick(i) \notin LongRecipes]]]

\* As if a job counted only once its launcher has written the pid.
SlotsMut == Max({MaxRunningJobs - Cardinality(InStatus({"RUNNING"})), 0})

Slots == Max({MaxRunningJobs - Cardinality(InStatus({"STARTING", "RUNNING"})), 0})

\* The plan after each number of products.
Planned(deep, cursor) ==
    LET plan[k \in 0..Len(Products)] ==
            IF k = 0
            THEN [slots |-> Slots - Len(deep), cursor |-> cursor, requests |-> deep]
            ELSE AddBatch(plan[k - 1], Products[k])
    IN plan

Plans(cursor) == {Planned(deep, cursor)[Len(Products)] : deep \in DeepRequests(Slots)}

-----------------------------------------------------------------------------
\* The steps of a process.

At(p, pc) == process[p].pc = pc

Goto(p, pc) == process' = [process EXCEPT ![p].pc = pc]

Start(p) ==
    /\ At(p, "idle")
    /\ p \in CycleProcesses => stateFile.cycles < MaxCycles
    /\ process' = [process EXCEPT ![p] =
           [pc     |-> IF p \in CycleProcesses THEN "list" ELSE "prepare",
            loaded |-> stateFile]]
    /\ UNCHANGED <<jobVars, stateFile, paperVars>>

ListJobs(p) ==
    /\ At(p, "list")
    /\ \E plan \in Plans(process[p].loaded.cursor) :
           process' = [process EXCEPT ![p] =
               [pc |-> "launch", loaded |-> [@.loaded EXCEPT !.cursor = plan.cursor],
                requests |-> plan.requests]]
    /\ UNCHANGED <<jobVars, stateFile, paperVars>>

Launch(p) ==
    /\ At(p, "launch")
    /\ process[p].requests # <<>>
    /\ Launched # Jobs
    /\ LET job == Cardinality(Launched) + 1
       IN /\ SaveStarting(job, Head(process[p].requests))
          /\ process' = [process EXCEPT ![p] =
                 [pc |-> "spawn", loaded |-> @.loaded,
                  requests |-> Tail(@.requests), job |-> job]]
    /\ UNCHANGED <<stateFile, paperVars>>

Spawn(p) ==
    /\ At(p, "spawn")
    /\ SpawnWorker(process[p].job)
    /\ Goto(p, "write")
    /\ UNCHANGED <<stateFile, paperVars>>

WriteRunning(p) ==
    /\ At(p, "write")
    /\ WriteTemporary(process[p].job, "RUNNING")
    /\ Goto(p, "rename")
    /\ UNCHANGED <<research, stateFile, paperVars>>

RenameRunning(p) ==
    /\ At(p, "rename")
    /\ RenameTemporary(process[p].job)
    /\ process' = [process EXCEPT ![p] =
           IF temporary[@.job] = Absent THEN Idle
           ELSE [pc |-> "launch", loaded |-> @.loaded, requests |-> @.requests]]
    /\ UNCHANGED <<research, stateFile, paperVars>>

AllLaunched(p) ==
    /\ At(p, "launch")
    /\ process[p].requests = <<>>
    /\ process' = [process EXCEPT ![p] = [pc |-> "prepare", loaded |-> @.loaded]]
    /\ UNCHANGED <<jobVars, stateFile, paperVars>>

\* local_paper_candidates reads the reports, whatever the receipts say.
Qualified(product) == {job \in Launched : receipt[job].recipe[1] = product
                                          /\ report[job] = "qualified"}

Portfolios ==
    UNION {kSubset(Min({4, Cardinality(Qualified(product))}), Qualified(product)) :
           product \in {q \in SearchedProducts : Cardinality(Qualified(q)) >= 2}}

KeepPortfolio(p) ==
    /\ At(p, "prepare")
    /\ Portfolios = {} \/ portfolio # {}
    /\ Goto(p, "worker")
    /\ UNCHANGED <<jobVars, stateFile, paperVars>>

ChoosePortfolio(p) ==
    /\ At(p, "prepare")
    /\ portfolio = {}
    /\ \E chosen \in Portfolios :
           process' = [process EXCEPT ![p] =
               [pc |-> "configure", loaded |-> @.loaded, chosen |-> chosen]]
    /\ UNCHANGED <<jobVars, stateFile, paperVars>>

ConfigurePortfolio(p) ==
    /\ At(p, "configure")
    /\ portfolio' = process[p].chosen
    /\ process' = [process EXCEPT ![p] = [pc |-> "worker", loaded |-> @.loaded]]
    /\ UNCHANGED <<jobVars, stateFile, pidFile, paper, stop>>

Alive(pid) == paper[pid] \in {"starting", "trading"}

\* As if the portfolio were looked for by the worker only.
WorkerNeededMut == pidFile # Absent => ~Alive(pidFile)

WorkerNeeded == portfolio # {} /\ (pidFile # Absent => ~Alive(pidFile))

KeepWorker(p) ==
    /\ At(p, "worker")
    /\ ~WorkerNeeded
    /\ Goto(p, "save")
    /\ UNCHANGED <<jobVars, stateFile, paperVars>>

RemovePid(p) ==
    /\ At(p, "worker")
    /\ WorkerNeeded
    /\ pidFile' = Absent
    /\ Goto(p, "start")
    /\ UNCHANGED <<jobVars, stateFile, portfolio, paper, stop>>

StartWorker(p) ==
    /\ At(p, "start")
    /\ \E pid \in Pids :
           /\ ~Alive(pid)
           /\ paper' = [paper EXCEPT ![pid] = "starting"]
           /\ process' = [process EXCEPT ![p] =
                  [pc |-> "pid", loaded |-> @.loaded, pid |-> pid]]
    /\ UNCHANGED <<jobVars, stateFile, portfolio, pidFile, stop>>

WritePid(p) ==
    /\ At(p, "pid")
    /\ pidFile' = process[p].pid
    /\ process' = [process EXCEPT ![p] = [pc |-> "save", loaded |-> @.loaded]]
    /\ UNCHANGED <<jobVars, stateFile, portfolio, paper, stop>>

\* Maintenance writes the state it has loaded at its start, with its own keys.
Save(p) ==
    /\ At(p, "save")
    /\ stateFile' = IF p \in CycleProcesses
                    THEN [process[p].loaded EXCEPT !.cycles = @ + 1]
                    ELSE process[p].loaded
    /\ process' = [process EXCEPT ![p] = Idle]
    /\ UNCHANGED <<jobVars, paperVars>>

Die(p) ==
    /\ ~At(p, "idle")
    /\ process' = [process EXCEPT ![p] = Idle]
    /\ UNCHANGED <<jobVars, stateFile, paperVars>>

ProcessStep(p) ==
    \/ Start(p)
    \/ ListJobs(p)
    \/ Launch(p)
    \/ Spawn(p)
    \/ WriteRunning(p)
    \/ RenameRunning(p)
    \/ AllLaunched(p)
    \/ KeepPortfolio(p)
    \/ ChoosePortfolio(p)
    \/ ConfigurePortfolio(p)
    \/ KeepWorker(p)
    \/ RemovePid(p)
    \/ StartWorker(p)
    \/ WritePid(p)
    \/ Save(p)
    \/ Die(p)

-----------------------------------------------------------------------------
\* The PAPER worker and the emergency stop.

\* As if preflight did not look at the marker.
PreflightMut(pid) ==
    /\ paper[pid] = "starting"
    /\ paper' = [paper EXCEPT ![pid] = "trading"]
    /\ UNCHANGED <<jobVars, stateFile, process, portfolio, pidFile, stop>>

Preflight(pid) ==
    /\ paper[pid] = "starting"
    /\ paper' = [paper EXCEPT ![pid] = IF stop THEN "exited" ELSE "trading"]
    /\ UNCHANGED <<jobVars, stateFile, process, portfolio, pidFile, stop>>

\* ExecutionRuntime.run asks stop_requested at every event of its stream.
Poll(pid) ==
    /\ paper[pid] = "trading"
    /\ stop
    /\ paper' = [paper EXCEPT ![pid] = "exited"]
    /\ UNCHANGED <<jobVars, stateFile, process, portfolio, pidFile, stop>>

\* The process is killed, or its run ends by itself.
PaperLost(pid) ==
    /\ Alive(pid)
    /\ paper' = [paper EXCEPT ![pid] = "exited"]
    /\ UNCHANGED <<jobVars, stateFile, process, portfolio, pidFile, stop>>

ActivateEmergencyStop ==
    /\ stop' = TRUE
    /\ UNCHANGED <<jobVars, stateFile, process, portfolio, pidFile, paper>>

ClearEmergencyStop ==
    /\ stop' = FALSE
    /\ UNCHANGED <<jobVars, stateFile, process, portfolio, pidFile, paper>>

AutopilotNext ==
    \/ \E p \in Processes : ProcessStep(p)
    \/ \E job \in Jobs : WorkerStep(job) /\ UNCHANGED <<stateFile, process, paperVars>>
    \/ \E pid \in Pids : Preflight(pid) \/ Poll(pid) \/ PaperLost(pid)
    \/ ActivateEmergencyStop
    \/ ClearEmergencyStop

\* A started worker reaches its preflight, and a trading one the next event of
\* its stream: book tickers arrive all the time, and a connection without
\* traffic is closed by its ping timeout.
PaperFairness == \A pid \in Pids : WF_autopilotVars(Preflight(pid)) /\ WF_autopilotVars(Poll(pid))

AutopilotSpec == AutopilotInit /\ [][AutopilotNext]_autopilotVars /\ PaperFairness

-----------------------------------------------------------------------------
\* SAFETY PROPERTIES

\* "launches only a bounded number of isolated research workers": with cycles
\* that do not overlap, the workers that do research never exceed
\* max_running_jobs, although a cycle may die in the middle of a launch and the
\* next one counts receipts, not processes.
ResearchBounded == Cardinality(CycleProcesses) = 1 =>
                       Cardinality(Researching) <= MaxRunningJobs

\* A promising recipe gets its full window once, however many short windows of
\* it succeed before that job ends, fails or is lost.
EscalatedOnce ==
    Cardinality(CycleProcesses) = 1 =>
        \A recipe \in LongRecipes :
            Cardinality({job \in Launched :
                receipt[job].recipe = recipe /\ receipt[job].full}) <= 1

\* Whenever a PAPER worker was ever started, the settings name a portfolio of
\* two or more qualified candidates of one product, also after a process with
\* an older list of candidates has written them again.
PaperHasPortfolio ==
    (\E pid \in Pids : paper[pid] # "none") =>
        \E product \in SearchedProducts :
            portfolio \subseteq Qualified(product) /\ Cardinality(portfolio) >= 2

\* "One persistent local trading worker owns PAPER/LIVE strategy execution."
OneTradingWorker == Cardinality({pid \in Pids : paper[pid] = "trading"}) <= 1

-----------------------------------------------------------------------------
\* LIVENESS

\* A stop that stays active ends trading for good, although the autopilot does
\* not look at it and starts workers again and again.
StopEndsTrading == <>[]stop => <>[](\A pid \in Pids : paper[pid] # "trading")

=============================================================================
