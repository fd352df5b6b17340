------------------------------ MODULE Evidence ------------------------------
(***************************************************************************)
(* The evidence the research pipeline produces for a candidate             *)
(* (robustness.py, advanced_validation.py, asset_transfer.py,              *)
(* hidden_gate.py, holdout.py, validation.py) under the policies of the    *)
(* scheduled research job (research_job.py), and the two cycles that put   *)
(* it before the governor.  Operators only.                                *)
(*                                                                         *)
(* An evaluation is a back-test reduced to what the gates read: the number *)
(* of trades, the total return and the maximum drawdown, in percent.  A    *)
(* trial is the whole set of evaluations of one candidate:                 *)
(*   validation             the first back-test, with the scheduled costs  *)
(*   base, stressed         the first window without and with high costs   *)
(*   neighbours             the first window, parameters moved a step      *)
(*   fold, cpcv, montecarlo the second, third and fourth window            *)
(*   transfer               other instruments, first window                *)
(*   hidden                 the held-out end of the data                   *)
(* The code evaluates fold, cpcv and montecarlo a second time as its       *)
(* three regimes: same windows, same candidate, same costs, same numbers.  *)
(***************************************************************************)
EXTENDS Governor, Integers, Sequences, FiniteSets

\* Scheduled policies, percentages throughout.
Robustness == [trades |-> 5, profitable |-> 100, drawdown |-> 20, stressed |-> 0,
               degradation |-> 60, stable |-> 67]
Advanced == [evaluations |-> 1, trades |-> 5, positive |-> 100, drawdown |-> 25,
             survival |-> 100, loss |-> -10]
Transfer == [assets |-> 1, trades |-> 5, passing |-> 100, return |-> 0, drawdown |-> 25]
Hidden == [trades |-> 5, return |-> 0, drawdown |-> 20, regimes |-> 67]

\* n/d as the code reports it: rounded to two decimals, 0 when d is not positive.
RoundedPercent(n, d) == IF d <= 0 THEN 0 ELSE (200 * n + d) \div (2 * d)

\* How many members of the sequence s pass the test.
Passing(s, Test(_)) == Cardinality({i \in DOMAIN s : Test(s[i])})

\* Research bars left of the held-out end, 0 when the split is refused.
ResearchBars(bars, window) ==
    LET hidden == IF window > bars \div 5 THEN window ELSE bars \div 5
    IN IF bars - hidden >= 4 * window THEN bars - hidden ELSE 0

BacktestPassed(e) == e.trades > 0

WalkForwardPassed(folds) ==
    /\ \A i \in DOMAIN folds : /\ folds[i].trades >= Robustness.trades
                               /\ folds[i].dd <= Robustness.drawdown
    /\ RoundedPercent(Passing(folds, LAMBDA e : e.ret > 0), Len(folds))
           >= Robustness.profitable

CostStressPassed(base, stressed) ==
    /\ stressed.trades >= Robustness.trades
    /\ stressed.dd <= Robustness.drawdown
    /\ stressed.ret >= Robustness.stressed
    /\ IF base.ret > 0
       THEN 100 * (base.ret - stressed.ret) <= Robustness.degradation * base.ret
       ELSE stressed.ret >= base.ret

StableNeighbour(base, e) ==
    /\ e.trades >= Robustness.trades
    /\ e.dd <= Robustness.drawdown
    /\ IF base.ret > 0
       THEN 100 * e.ret >= (100 - Robustness.degradation) * base.ret
       ELSE e.ret >= base.ret

ParameterStabilityPassed(base, neighbours) ==
    RoundedPercent(Passing(neighbours, LAMBDA e : StableNeighbour(base, e)), Len(neighbours))
        >= Robustness.stable

AdvancedOk(evaluations) ==
    \A i \in DOMAIN evaluations : /\ evaluations[i].trades >= Advanced.trades
                                  /\ evaluations[i].dd <= Advanced.drawdown

PurgedCpcvPassed(evaluations) ==
    /\ AdvancedOk(evaluations)
    /\ 100 * Passing(evaluations, LAMBDA e : e.ret > 0)
           >= Advanced.positive * Len(evaluations)

MonteCarloPassed(paths) ==
    /\ AdvancedOk(paths)
    /\ 100 * Passing(paths, LAMBDA e : e.ret >= Advanced.loss)
           >= Advanced.survival * Len(paths)

TransferPassed(cases) ==
    100 * Passing(cases, LAMBDA e : /\ e.trades >= Transfer.trades
                                    /\ e.ret >= Transfer.return
                                    /\ e.dd <= Transfer.drawdown)
        >= Transfer.passing * Len(cases)

EvaluationPasses(e) ==
    e.trades >= Hidden.trades /\ e.ret >= Hidden.return /\ e.dd <= Hidden.drawdown

HiddenTestPassed(e) == EvaluationPasses(e)

RegimeTestPassed(regimes) ==
    RoundedPercent(Passing(regimes, EvaluationPasses), Len(regimes)) >= Hidden.regimes

-----------------------------------------------------------------------------
\* A neighbourhood of fewer than two genomes is refused.
NeighbourhoodOk(trial) == Len(trial.neighbours) >= 2

\* The records of the robustness cycle; specialist is what an earlier stage
\* recorded for the family.
RobustnessRecords(genome, trial, specialist, code, dataset) ==
    LET Record(type, passed) == EvidenceRecord(type, genome, passed, code, dataset)
    IN {Record("walk_forward", WalkForwardPassed(<<trial.fold>>)),
        Record("cost_stress", CostStressPassed(trial.base, trial.stressed)),
        Record("parameter_stability",
               ParameterStabilityPassed(trial.base, trial.neighbours)),
        Record("purged_cpcv", PurgedCpcvPassed(<<trial.cpcv>>)),
        Record("monte_carlo", MonteCarloPassed(<<trial.montecarlo>>)),
        Record("asset_transfer", TransferPassed(<<trial.transfer>>))} \cup specialist

HiddenRecords(genome, trial, code, dataset) ==
    {EvidenceRecord("hidden_test", genome, HiddenTestPassed(trial.hidden), code, dataset),
     EvidenceRecord("regime_test", genome,
        RegimeTestPassed(<<trial.fold, trial.cpcv, trial.montecarlo>>), code, dataset)}

\* What the specialist gate asks of a family; a report is bound to one genome,
\* "missing" stands for inputs nobody supplied.
SpecialistRecords(genome, family, report, code, dataset) ==
    IF report = "missing" THEN {}
    ELSE {EvidenceRecord(type, genome, report = "passed", code, dataset) :
              type \in ExtraEvidence(family, "ROBUST")}

SpecialistGate(genome, family, records) ==
    ExtraEvidence(family, "ROBUST") \subseteq ValidatedTypes(genome, records)

\* A probed sandbox session is what paper_started stands for.
PaperStartRecords(genome, connected) ==
    {EvidenceRecord("paper_started", genome, connected, "probe", "probe")}

=============================================================================
