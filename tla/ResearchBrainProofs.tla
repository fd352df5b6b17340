------------------------ MODULE ResearchBrainProofs -------------------------
(***************************************************************************)
(* Theorems of ResearchBrain, for every schedule, every set of trials and  *)
(* any number of starts: the receipts stay in order, a candidate that      *)
(* passes or is queued has earned it, what is reported is stored, and the  *)
(* job implements CandidateLedger.                                         *)
(***************************************************************************)
EXTENDS ResearchBrain, FiniteSetTheorems, TLAPS

-----------------------------------------------------------------------------
(* The order of the stages                                                 *)

Done(run, stage) == stage \in DOMAIN receipts[run]

Prefix(run) == \E n \in 0..Len(Stages) : DOMAIN receipts[run] = {Stages[i] : i \in 1..n}

\* There are thirteen stages, all different.
LEMMA StagesDistinct ==
    /\ Len(Stages) = 13
    /\ DOMAIN Stages = 1..13
    /\ \A i, j \in 1..13 : Stages[i] = Stages[j] => i = j
BY DEF Stages

\* A stage is due when exactly those in front of it are done.
LEMMA DueStage ==
    ASSUME NEW run, Prefix(run), NEW k \in 1..13, Due(run) = Stages[k]
    PROVE  DOMAIN receipts[run] = {Stages[i] : i \in 1..(k - 1)}
<1>1. PICK n \in 0..13 : DOMAIN receipts[run] = {Stages[i] : i \in 1..n}
  BY StagesDistinct DEF Prefix
<1>2. n # 13
  <2> SUFFICES ASSUME n = 13 PROVE FALSE
    OBVIOUS
  <2>1. Due(run) = "complete"
    BY <1>1, StagesDistinct DEF Due, StageNames
  <2> QED
    BY <2>1 DEF Stages
<1>3. DOMAIN receipts[run] # StageNames
  <2>1. Stages[13] \notin DOMAIN receipts[run]
    BY <1>1, <1>2, StagesDistinct
  <2> QED
    BY <2>1, StagesDistinct DEF StageNames
<1> DEFINE P(i) == /\ Stages[i] \notin DOMAIN receipts[run]
                   /\ \A j \in 1..(i - 1) : Stages[j] \in DOMAIN receipts[run]
<1>4. \A i \in 1..13 : P(i) <=> i = n + 1
  BY <1>1, <1>2, StagesDistinct
<1>5. (CHOOSE i \in DOMAIN Stages : P(i)) = n + 1
  BY <1>4, <1>2, StagesDistinct
<1>6. Due(run) = Stages[n + 1]
  BY <1>3, <1>5 DEF Due
<1>7. k = n + 1
  <2>1. n + 1 \in 1..13
    BY <1>2
  <2>2. Stages[k] = Stages[n + 1]
    BY <1>6
  <2>3. \A i, j \in 1..13 : Stages[i] = Stages[j] => i = j
    BY StagesDistinct
  <2> QED
    BY <2>1, <2>2, <2>3
<1> QED
  BY <1>1, <1>7

\* Each of the stages that later ones read is done after those it reads.
LEMMA DoneInOrder ==
    ASSUME NEW run, Prefix(run)
    PROVE  /\ Done(run, "vectorbt_screen") => Done(run, "generation_mutation")
           /\ Done(run, "optuna_tune") => Done(run, "vectorbt_screen")
           /\ Done(run, "pymoo_evolution") => Done(run, "optuna_tune")
           /\ Done(run, "nautilus_validation") => Done(run, "pymoo_evolution")
           /\ Done(run, "specialist_tests") => Done(run, "nautilus_validation")
           /\ Done(run, "hidden_robustness_stress") => Done(run, "specialist_tests")
           /\ Done(run, "store_outcomes") => Done(run, "hidden_robustness_stress")
           /\ Done(run, "queue_paper") => Done(run, "store_outcomes")
<1>1. PICK n \in 0..13 : DOMAIN receipts[run] = {Stages[i] : i \in 1..n}
  BY StagesDistinct DEF Prefix
<1>2. \A i \in 1..12 : Done(run, Stages[i + 1]) => Done(run, Stages[i])
  <2> SUFFICES ASSUME NEW i \in 1..12, Done(run, Stages[i + 1]) PROVE Done(run, Stages[i])
    OBVIOUS
  <2>1. PICK j \in 1..n : Stages[j] = Stages[i + 1]
    BY <1>1 DEF Done
  <2>2. j \in 1..13 /\ i + 1 \in 1..13
    OBVIOUS
  <2>3. j = i + 1
    BY <2>1, <2>2, StagesDistinct
  <2> QED
    BY <2>3, <1>1 DEF Done
<1>3. /\ Stages[4] = "generation_mutation" /\ Stages[5] = "vectorbt_screen"
      /\ Stages[6] = "optuna_tune" /\ Stages[7] = "pymoo_evolution"
      /\ Stages[8] = "nautilus_validation" /\ Stages[9] = "specialist_tests"
      /\ Stages[10] = "hidden_robustness_stress" /\ Stages[11] = "store_outcomes"
      /\ Stages[12] = "queue_paper"
  BY DEF Stages
<1>4. \A i \in {4, 5, 6, 7, 8, 9, 10, 11} : Done(run, Stages[i + 1]) => Done(run, Stages[i])
  BY <1>2
<1>5. /\ Done(run, Stages[5]) => Done(run, Stages[4])
      /\ Done(run, Stages[6]) => Done(run, Stages[5])
      /\ Done(run, Stages[7]) => Done(run, Stages[6])
      /\ Done(run, Stages[8]) => Done(run, Stages[7])
      /\ Done(run, Stages[9]) => Done(run, Stages[8])
      /\ Done(run, Stages[10]) => Done(run, Stages[9])
      /\ Done(run, Stages[11]) => Done(run, Stages[10])
      /\ Done(run, Stages[12]) => Done(run, Stages[11])
  BY <1>4
<1> QED
  BY <1>3, <1>5

\* What the stage due finds done.
LEMMA DueAfter ==
    ASSUME NEW run, Prefix(run), NEW stage \in StageNames, Due(run) = stage
    PROVE  /\ ~Done(run, stage)
           /\ stage = "vectorbt_screen" => Done(run, "generation_mutation")
           /\ stage = "optuna_tune" => Done(run, "vectorbt_screen")
           /\ stage = "pymoo_evolution" => Done(run, "optuna_tune")
           /\ stage = "nautilus_validation" => Done(run, "pymoo_evolution")
           /\ stage = "specialist_tests" => Done(run, "nautilus_validation")
           /\ stage = "hidden_robustness_stress" => Done(run, "specialist_tests")
           /\ stage = "store_outcomes" => Done(run, "hidden_robustness_stress")
           /\ stage = "queue_paper" => Done(run, "store_outcomes")
           /\ stage = "champion_challenger_rerank" => Done(run, "queue_paper")
           /\ \E n \in 0..Len(Stages) :
                 DOMAIN receipts[run] \cup {stage} = {Stages[i] : i \in 1..n}
<1>1. PICK k \in 1..13 : stage = Stages[k]
  BY StagesDistinct DEF StageNames
<1>2. DOMAIN receipts[run] = {Stages[i] : i \in 1..(k - 1)}
  BY <1>1, DueStage
<1>3. ~Done(run, stage)
  <2> SUFFICES ASSUME NEW i \in 1..(k - 1), Stages[i] = Stages[k] PROVE FALSE
    BY <1>1, <1>2 DEF Done
  <2>1. i \in 1..13
    OBVIOUS
  <2> QED
    BY <2>1, StagesDistinct
<1>4. k > 1 => Done(run, Stages[k - 1])
  BY <1>2 DEF Done
<1>5. DOMAIN receipts[run] \cup {stage} = {Stages[i] : i \in 1..k}
  <2>1. 1..k = 1..(k - 1) \cup {k}
    OBVIOUS
  <2> QED
    BY <2>1, <1>1, <1>2
<1>6. k \in 0..Len(Stages)
  BY StagesDistinct
<1>7. /\ Stages[1] = "verified_data" /\ Stages[2] = "load_memory"
      /\ Stages[3] = "regime_discovery"
      /\ Stages[4] = "generation_mutation" /\ Stages[5] = "vectorbt_screen"
      /\ Stages[6] = "optuna_tune" /\ Stages[7] = "pymoo_evolution"
      /\ Stages[8] = "nautilus_validation" /\ Stages[9] = "specialist_tests"
      /\ Stages[10] = "hidden_robustness_stress" /\ Stages[11] = "store_outcomes"
      /\ Stages[12] = "queue_paper" /\ Stages[13] = "champion_challenger_rerank"
  BY DEF Stages
<1>8. k \in {1, 2, 3, 4, 5, 6, 7, 8, 9, 10, 11, 12, 13}
  OBVIOUS
<1>9. /\ k = 5 => Done(run, Stages[4])
      /\ k = 6 => Done(run, Stages[5])
      /\ k = 7 => Done(run, Stages[6])
      /\ k = 8 => Done(run, Stages[7])
      /\ k = 9 => Done(run, Stages[8])
      /\ k = 10 => Done(run, Stages[9])
      /\ k = 11 => Done(run, Stages[10])
      /\ k = 12 => Done(run, Stages[11])
      /\ k = 13 => Done(run, Stages[12])
  BY <1>4
<1>10. /\ stage = "vectorbt_screen" => k = 5
       /\ stage = "optuna_tune" => k = 6
       /\ stage = "pymoo_evolution" => k = 7
       /\ stage = "nautilus_validation" => k = 8
       /\ stage = "specialist_tests" => k = 9
       /\ stage = "hidden_robustness_stress" => k = 10
       /\ stage = "store_outcomes" => k = 11
       /\ stage = "queue_paper" => k = 12
       /\ stage = "champion_challenger_rerank" => k = 13
  BY <1>1, <1>7, <1>8
<1>11. \E n \in 0..Len(Stages) :
           DOMAIN receipts[run] \cup {stage} = {Stages[i] : i \in 1..n}
  BY <1>5, <1>6
<1>12. /\ stage = "vectorbt_screen" => Done(run, "generation_mutation")
       /\ stage = "optuna_tune" => Done(run, "vectorbt_screen")
       /\ stage = "pymoo_evolution" => Done(run, "optuna_tune")
       /\ stage = "nautilus_validation" => Done(run, "pymoo_evolution")
       /\ stage = "specialist_tests" => Done(run, "nautilus_validation")
       /\ stage = "hidden_robustness_stress" => Done(run, "specialist_tests")
       /\ stage = "store_outcomes" => Done(run, "hidden_robustness_stress")
       /\ stage = "queue_paper" => Done(run, "store_outcomes")
       /\ stage = "champion_challenger_rerank" => Done(run, "queue_paper")
  BY <1>7, <1>9, <1>10
<1> QED
  BY <1>3, <1>11, <1>12

\* A run without a stage due has its queue.
LEMMA CompleteIsQueued ==
    ASSUME NEW run, Prefix(run), Due(run) = "complete"
    PROVE  Done(run, "queue_paper")
<1> SUFFICES ASSUME DOMAIN receipts[run] # StageNames PROVE FALSE
  BY DEF Done, StageNames, Stages
<1>1. PICK n \in 0..13 : DOMAIN receipts[run] = {Stages[i] : i \in 1..n}
  BY StagesDistinct DEF Prefix
<1>2. n # 13
  BY <1>1, StagesDistinct DEF StageNames
<1> DEFINE P(i) == /\ Stages[i] \notin DOMAIN receipts[run]
                   /\ \A j \in 1..(i - 1) : Stages[j] \in DOMAIN receipts[run]
<1>3. n + 1 \in DOMAIN Stages /\ P(n + 1)
  BY <1>1, <1>2, StagesDistinct
<1>4. (CHOOSE i \in DOMAIN Stages : P(i)) \in DOMAIN Stages
  BY <1>3
<1>5. Due(run) \in StageNames
  BY <1>4 DEF Due, StageNames
<1> QED
  BY <1>5 DEF StageNames, Stages

-----------------------------------------------------------------------------
(* The inductive invariant                                                 *)

Gen(run) == receipts[run]["generation_mutation"]

Out(run, stage) == receipts[run][stage]

SearchStages == {"vectorbt_screen", "optuna_tune", "pymoo_evolution",
                 "nautilus_validation", "specialist_tests"}

\* What a stage leaves of every candidate generated.
Shape(run, stage) ==
    /\ DOMAIN Out(run, stage) = Gen(run)
    /\ \A slot \in Gen(run) :
          /\ Out(run, stage)[slot].genome \in Genomes
          /\ Out(run, stage)[slot].genome.slot = slot

\* No stage brings back what an earlier one failed.
Narrows(run, earlier, later) ==
    Done(run, later) =>
        \A slot \in Gen(run) : Out(run, later)[slot].passed => Out(run, earlier)[slot].passed

GenerationOK(run) ==
    Done(run, "generation_mutation") => Gen(run) \in {{}, 1..plan[run].slots}

ShapeOK(run) == \A stage \in SearchStages : Done(run, stage) => Shape(run, stage)

NarrowsOK(run) ==
    /\ Narrows(run, "vectorbt_screen", "optuna_tune")
    /\ Narrows(run, "optuna_tune", "pymoo_evolution")
    /\ Narrows(run, "pymoo_evolution", "nautilus_validation")
    /\ Narrows(run, "nautilus_validation", "specialist_tests")

BudgetOK(run) ==
    Done(run, "nautilus_validation") =>
        Cardinality({slot \in Gen(run) : Out(run, "nautilus_validation")[slot].passed})
            <= plan[run].budget

\* The specialist records of a candidate that passed are of the types its
\* family asks for, and every one of those types counts for its genome.
SpecialistOK(run) ==
    Done(run, "specialist_tests") =>
        \A slot \in Gen(run) :
            LET outcome == Out(run, "specialist_tests")[slot]
                extra == ExtraEvidence(plan[run].family, "ROBUST")
            IN outcome.passed =>
                  /\ \A r \in outcome.records : r.type \in extra
                  /\ extra \subseteq ValidatedTypes(outcome.genome, outcome.records)

VerdictStates ==
    [genome : Genomes, state : {"HIDDEN_PASS", "QUARANTINED"}, score : Int,
     qualified : BOOLEAN]

JudgedOK(run) ==
    Judged(run) =>
        /\ VerdictOf(run) \in [Gen(run) -> VerdictStates]
        /\ \A slot \in Gen(run) :
              /\ VerdictOf(run)[slot].genome = Out(run, "specialist_tests")[slot].genome
              /\ VerdictOf(run)[slot].qualified <=> VerdictOf(run)[slot].state = "HIDDEN_PASS"
              /\ VerdictOf(run)[slot].qualified =>
                    /\ Out(run, "specialist_tests")[slot].passed
                    /\ Withstood(trials[run][slot])
                    /\ plan[run].transfer

\* Experiments are stored only after judgement, as they were judged.
ExperimentsOK(run) ==
    /\ experiments[run] \in [DOMAIN experiments[run] -> VerdictStates]
    /\ DOMAIN experiments[run] # {} => Judged(run)
    /\ \A slot \in DOMAIN experiments[run] :
          slot \in Gen(run) /\ experiments[run][slot] = VerdictOf(run)[slot]

StoredOK(run) ==
    Done(run, "store_outcomes") =>
        /\ DOMAIN experiments[run] = Gen(run)
        /\ Out(run, "store_outcomes") = Cardinality(Gen(run))

QueueOK(run) ==
    Queued(run) =>
        /\ DOMAIN Finalists(run) = Gen(run)
        /\ Cardinality(InPaper(run)) <= plan[run].cap
        /\ \A slot \in Gen(run) : Finalists(run)[slot].genome = VerdictOf(run)[slot].genome
        /\ \A slot \in InPaper(run) :
              /\ VerdictOf(run)[slot].qualified
              /\ Cardinality({other \in Passed(run) :
                    VerdictOf(run)[other].score > VerdictOf(run)[slot].score}) < plan[run].cap

RunOK(run) ==
    /\ Prefix(run)
    /\ GenerationOK(run) /\ ShapeOK(run) /\ NarrowsOK(run) /\ BudgetOK(run)
    /\ SpecialistOK(run) /\ JudgedOK(run) /\ ExperimentsOK(run) /\ StoredOK(run)
    /\ QueueOK(run)

\* What is in memory agrees with what is on disk: every run in front of the
\* cursor is queued and its queue in the payloads, and the experiments of the
\* store stage so far are stored.
MemoryOK ==
    /\ appended \in Nat
    /\ appended > 0 =>
          /\ job = "running" /\ cursor \in DOMAIN plan
          /\ Judged(cursor) /\ ~Done(cursor, "store_outcomes")
          /\ 1..appended \subseteq DOMAIN experiments[cursor]
    /\ DOMAIN payloads = 1..(cursor - 1)
    /\ payloads \in Seq(SUBSET Genomes)
    /\ \A run \in 1..(cursor - 1) : Queued(run) /\ payloads[run] = QueueOf(run)
    /\ job = "writing" => cursor = Len(plan) + 1

ReportOK ==
    \/ report = <<>>
    \/ /\ \A run \in DOMAIN plan : Queued(run)
       /\ report = <<[run \in DOMAIN plan |-> QueueOf(run)]>>

Typed ==
    /\ plan \in Plans
    /\ DOMAIN receipts = DOMAIN plan
    /\ DOMAIN experiments = DOMAIN plan
    /\ DOMAIN trials = DOMAIN plan
    /\ job \in {"idle", "running", "writing", "done", "failed"}
    /\ cursor \in 1..(Len(plan) + 1)
    /\ fetch \in [file : 1..Files, step : {"checksum", "archive"}, attempt : 1..MaxAttempts]

ResearchInv ==
    /\ Typed
    /\ \A run \in DOMAIN plan : RunOK(run)
    /\ MemoryOK
    /\ ReportOK

-----------------------------------------------------------------------------
(* What steps leave alone                                                  *)

\* A run whose durable state a step does not touch.
LEMMA RunUnchanged ==
    ASSUME NEW run, RunOK(run), plan' = plan, receipts'[run] = receipts[run],
           experiments'[run] = experiments[run], trials'[run] = trials[run]
    PROVE  RunOK(run)'
<1>1. /\ Prefix(run)' /\ GenerationOK(run)' /\ ShapeOK(run)' /\ NarrowsOK(run)'
      /\ BudgetOK(run)' /\ SpecialistOK(run)'
  BY DEF RunOK, Prefix, GenerationOK, ShapeOK, Shape, NarrowsOK, Narrows, BudgetOK,
         SpecialistOK, Done, Gen, Out
<1>2. JudgedOK(run)' /\ ExperimentsOK(run)' /\ StoredOK(run)'
  BY DEF RunOK, JudgedOK, ExperimentsOK, StoredOK, Done, Gen, Out, Judged, VerdictOf
<1>3. QueueOK(run)'
  BY DEF RunOK, QueueOK, Gen, Queued, Finalists, InPaper, Passed, VerdictOf
<1> QED
  BY <1>1, <1>2, <1>3 DEF RunOK

\* The stages in front of the one a step records.
LEMMA EarlierStages ==
    ASSUME NEW run, RunOK(run), NEW stage \in StageNames, Due(run) = stage, plan' = plan,
           DOMAIN receipts'[run] = DOMAIN receipts[run] \cup {stage},
           \A name \in DOMAIN receipts[run] : receipts'[run][name] = receipts[run][name],
           experiments'[run] = experiments[run],
           stage # "hidden_robustness_stress" => trials'[run] = trials[run]
    PROVE  /\ Prefix(run)'
           /\ stage # "generation_mutation" => GenerationOK(run)'
           /\ \A s \in SearchStages \ {stage} : Done(run, s)' => Shape(run, s)'
           /\ stage # "optuna_tune" => Narrows(run, "vectorbt_screen", "optuna_tune")'
           /\ stage # "pymoo_evolution" => Narrows(run, "optuna_tune", "pymoo_evolution")'
           /\ stage # "nautilus_validation" =>
                 Narrows(run, "pymoo_evolution", "nautilus_validation")' /\ BudgetOK(run)'
           /\ stage # "specialist_tests" =>
                 Narrows(run, "nautilus_validation", "specialist_tests")' /\ SpecialistOK(run)'
           /\ stage # "hidden_robustness_stress" => JudgedOK(run)' /\ ExperimentsOK(run)'
           /\ stage # "store_outcomes" => StoredOK(run)'
           /\ stage # "queue_paper" => QueueOK(run)'
<1> USE DEF Done
<1>2. Prefix(run)
  BY DEF RunOK
<1>0. Prefix(run)'
  <2>1. \E n \in 0..Len(Stages) :
            DOMAIN receipts[run] \cup {stage} = {Stages[i] : i \in 1..n}
    BY <1>2, DueAfter
  <2> QED
    BY <2>1 DEF Prefix
<1>3. /\ Done(run, "vectorbt_screen") => Done(run, "generation_mutation")
      /\ Done(run, "optuna_tune") => Done(run, "vectorbt_screen")
      /\ Done(run, "pymoo_evolution") => Done(run, "optuna_tune")
      /\ Done(run, "nautilus_validation") => Done(run, "pymoo_evolution")
      /\ Done(run, "specialist_tests") => Done(run, "nautilus_validation")
      /\ Done(run, "hidden_robustness_stress") => Done(run, "specialist_tests")
      /\ Done(run, "store_outcomes") => Done(run, "hidden_robustness_stress")
      /\ Done(run, "queue_paper") => Done(run, "store_outcomes")
  BY <1>2, DoneInOrder
<1>4. \A s \in SearchStages : Done(run, s) => Done(run, "generation_mutation")
  BY <1>3 DEF SearchStages
<1>5. stage # "generation_mutation" => GenerationOK(run)'
  BY DEF RunOK, GenerationOK, Gen
<1>6. \A s \in SearchStages \ {stage} : Done(run, s)' => Shape(run, s)'
  BY <1>4 DEF RunOK, ShapeOK, Shape, Gen, Out
<1>7. /\ stage # "optuna_tune" => Narrows(run, "vectorbt_screen", "optuna_tune")'
      /\ stage # "pymoo_evolution" => Narrows(run, "optuna_tune", "pymoo_evolution")'
      /\ stage # "nautilus_validation" => Narrows(run, "pymoo_evolution", "nautilus_validation")'
      /\ stage # "specialist_tests" => Narrows(run, "nautilus_validation", "specialist_tests")'
  BY <1>3 DEF RunOK, NarrowsOK, Narrows, Gen, Out
<1>8. stage # "nautilus_validation" => BudgetOK(run)'
  BY <1>3 DEF RunOK, BudgetOK, Gen, Out
<1>9. stage # "specialist_tests" => SpecialistOK(run)'
  BY <1>3 DEF RunOK, SpecialistOK, Gen, Out
<1>10. stage # "hidden_robustness_stress" => JudgedOK(run)' /\ ExperimentsOK(run)'
  BY <1>3 DEF RunOK, JudgedOK, ExperimentsOK, Gen, Out, Judged, VerdictOf
<1>11. stage # "store_outcomes" => StoredOK(run)'
  BY <1>3 DEF RunOK, StoredOK, Gen, Out
<1>12. stage # "queue_paper" => QueueOK(run)'
  BY <1>3 DEF RunOK, QueueOK, Gen, Queued, Finalists, InPaper, Passed, VerdictOf
<1> QED
  BY <1>0, <1>5, <1>6, <1>7, <1>8, <1>9, <1>10, <1>11, <1>12

\* A plan is a sequence of runs.
LEMMA RunTypes ==
    ASSUME plan \in Plans
    PROVE  /\ Len(plan) \in Nat /\ DOMAIN plan = 1..Len(plan)
           /\ \A run \in DOMAIN plan :
                 /\ plan[run] \in [family : STRING, timeframe : STRING, slots : Nat,
                                  budget : Nat, cap : Nat, class : DOMAIN Trials,
                                  numeric : BOOLEAN, bars : Nat, window : Nat,
                                  transfer : BOOLEAN]
                 /\ 1..plan[run].slots \subseteq Slots
<1> DEFINE Entries == [family : STRING, timeframe : STRING, slots : Nat,
                       budget : Nat, cap : Nat, class : DOMAIN Trials,
                       numeric : BOOLEAN, bars : Nat, window : Nat, transfer : BOOLEAN]
<1>1. plan \in Seq(Entries)
  BY PlansAssumption
<1>2. \A run \in DOMAIN plan : 1..plan[run].slots \subseteq Slots
  <2> SUFFICES ASSUME NEW run \in DOMAIN plan, NEW slot \in 1..plan[run].slots
               PROVE  slot \in Slots
    OBVIOUS
  <2> DEFINE of(schedule) == UNION {1..schedule[r].slots : r \in DOMAIN schedule}
  <2>1. slot \in of(plan)
    OBVIOUS
  <2>2. of(plan) \in {of(schedule) : schedule \in Plans}
    OBVIOUS
  <2>3. Slots = UNION {of(schedule) : schedule \in Plans}
    BY DEF Slots
  <2> HIDE DEF of
  <2> QED
    BY <2>1, <2>2, <2>3
<1>3. /\ Len(plan) \in Nat /\ DOMAIN plan = 1..Len(plan)
      /\ \A run \in DOMAIN plan : plan[run] \in Entries
  <2> HIDE DEF Entries
  <2> QED
    BY <1>1
<1> QED
  BY <1>2, <1>3

\* A stage recorded: what the run at the cursor has afterwards.
LEMMA Recording ==
    ASSUME ResearchInv, NEW stage \in StageNames, NEW artifact, Record(stage, artifact)
    PROVE  /\ Working
           /\ cursor \in DOMAIN plan /\ RunOK(cursor) /\ Prefix(cursor)
           /\ Due(cursor) = stage /\ ~Done(cursor, stage)
           /\ UNCHANGED <<plan, experiments, report, job, volatile, starts>>
           /\ DOMAIN receipts' = DOMAIN plan
           /\ DOMAIN receipts'[cursor] = DOMAIN receipts[cursor] \cup {stage}
           /\ receipts'[cursor][stage] = artifact
           /\ \A name \in DOMAIN receipts[cursor] :
                 receipts'[cursor][name] = receipts[cursor][name]
           /\ \A run \in DOMAIN plan \ {cursor} : receipts'[run] = receipts[run]
<1>1. /\ Working /\ Due(cursor) = stage
      /\ UNCHANGED <<plan, experiments, report, job, volatile, starts>>
      /\ receipts' = Recorded(stage, artifact)
  BY DEF Record
<1>2. cursor \in DOMAIN plan /\ RunOK(cursor) /\ Prefix(cursor)
  BY <1>1 DEF Working, ResearchInv, RunOK
<1>3. ~Done(cursor, stage)
  BY <1>1, <1>2, DueAfter
<1>4. DOMAIN receipts = DOMAIN plan
  BY DEF ResearchInv, Typed
<1> QED
  BY <1>1, <1>2, <1>3, <1>4 DEF Recorded, Done

\* The instruments sets generated are slots.
LEMMA GeneratedSlots ==
    ASSUME ResearchInv, NEW run \in DOMAIN plan, Done(run, "generation_mutation")
    PROVE  /\ Gen(run) \in {{}, 1..plan[run].slots}
           /\ Gen(run) \subseteq Slots
           /\ IsFiniteSet(Gen(run))
<1>1. Gen(run) \in {{}, 1..plan[run].slots}
  BY DEF ResearchInv, RunOK, GenerationOK
<1>2. 1..plan[run].slots \subseteq Slots /\ plan[run].slots \in Nat
  BY RunTypes DEF ResearchInv, Typed
<1>3. IsFiniteSet({}) /\ IsFiniteSet(1..plan[run].slots)
  BY <1>2, FS_EmptySet, FS_Interval
<1> QED
  BY <1>1, <1>2, <1>3

-----------------------------------------------------------------------------
(* The stages up to the judgement                                          *)

\* The runs the job is not at.
LEMMA OtherRuns ==
    ASSUME ResearchInv, plan' = plan,
           \A run \in DOMAIN plan \ {cursor} :
               /\ receipts'[run] = receipts[run]
               /\ experiments'[run] = experiments[run]
               /\ trials'[run] = trials[run]
    PROVE  \A run \in DOMAIN plan \ {cursor} : RunOK(run)'
BY RunUnchanged DEF ResearchInv

\* A stage whose artifact no later property is about, but for the slots generated.
LEMMA PlainStage ==
    ASSUME ResearchInv, NEW run, run = cursor,
           NEW stage \in {"verified_data", "load_memory", "regime_discovery",
                         "generation_mutation", "champion_challenger_rerank"},
           NEW artifact, Record(stage, artifact), UNCHANGED trials,
           stage = "generation_mutation" => artifact \in {{}, 1..plan[run].slots}
    PROVE  RunOK(run)'
<1>1. stage \in StageNames
  BY DEF StageNames, Stages
<1>2. /\ RunOK(run) /\ Due(run) = stage
      /\ UNCHANGED <<plan, experiments>>
      /\ DOMAIN receipts'[run] = DOMAIN receipts[run] \cup {stage}
      /\ receipts'[run][stage] = artifact
      /\ \A name \in DOMAIN receipts[run] : receipts'[run][name] = receipts[run][name]
  BY <1>1, Recording
<1>3. /\ Prefix(run)'
      /\ stage # "generation_mutation" => GenerationOK(run)'
      /\ \A s \in SearchStages : Done(run, s)' => Shape(run, s)'
      /\ NarrowsOK(run)' /\ BudgetOK(run)' /\ SpecialistOK(run)'
      /\ JudgedOK(run)' /\ ExperimentsOK(run)' /\ StoredOK(run)' /\ QueueOK(run)'
  BY <1>1, <1>2, EarlierStages DEF SearchStages, NarrowsOK
<1>4. stage = "generation_mutation" => GenerationOK(run)'
  BY <1>2 DEF GenerationOK, Gen
<1> QED
  BY <1>3, <1>4 DEF RunOK, ShapeOK

\* The stages that judge no candidate keep the run in order.
LEMMA PlainStages ==
    ASSUME ResearchInv, NEW run, run = cursor,
           VerifyData \/ LoadMemory \/ DiscoverRegimes \/ Generate \/ Rerank
    PROVE  RunOK(run)'
<1>1. CASE VerifyData
  BY <1>1, PlainStage DEF VerifyData
<1>2. CASE LoadMemory
  BY <1>2, PlainStage DEF LoadMemory
<1>3. CASE DiscoverRegimes
  BY <1>3, PlainStage DEF DiscoverRegimes
<1>4. CASE Generate
  BY <1>4, PlainStage DEF Generate, Run
<1>5. CASE Rerank
  BY <1>5, PlainStage DEF Rerank
<1> QED
  BY <1>1, <1>2, <1>3, <1>4, <1>5

\* The artifact of a stage gives every candidate an outcome of the right shape
\* and lets through no candidate that the stage before it failed.
Lets(run, artifact, earlier) ==
    \A slot \in Gen(run) : artifact[slot].passed => Out(run, earlier)[slot].passed

Fits(run, stage, artifact) ==
    /\ DOMAIN artifact = Gen(run)
    /\ \A slot \in Gen(run) :
          artifact[slot].genome \in Genomes /\ artifact[slot].genome.slot = slot
    /\ stage = "optuna_tune" => Lets(run, artifact, "vectorbt_screen")
    /\ stage = "pymoo_evolution" => Lets(run, artifact, "optuna_tune")
    /\ stage = "nautilus_validation" =>
          /\ Lets(run, artifact, "pymoo_evolution")
          /\ Cardinality({slot \in Gen(run) : artifact[slot].passed}) <= plan[run].budget
    /\ stage = "specialist_tests" =>
          /\ Lets(run, artifact, "nautilus_validation")
          /\ \A slot \in Gen(run) :
                LET extra == ExtraEvidence(plan[run].family, "ROBUST")
                IN artifact[slot].passed =>
                      /\ \A r \in artifact[slot].records : r.type \in extra
                      /\ extra \subseteq ValidatedTypes(artifact[slot].genome,
                                                       artifact[slot].records)

\* A stage that judges candidates keeps the run in order when what it records
\* fits what came before.
LEMMA OutcomeStage ==
    ASSUME ResearchInv, NEW run, run = cursor, NEW stage \in SearchStages,
           NEW artifact, Record(stage, artifact), UNCHANGED trials,
           Fits(run, stage, artifact)
    PROVE  RunOK(run)'
<1>1. stage \in StageNames /\ stage # "generation_mutation"
      /\ stage \notin {"hidden_robustness_stress", "store_outcomes", "queue_paper"}
  BY DEF StageNames, Stages, SearchStages
<1>2. /\ RunOK(run) /\ Due(run) = stage /\ Prefix(run)
      /\ UNCHANGED <<plan, experiments>>
      /\ DOMAIN receipts'[run] = DOMAIN receipts[run] \cup {stage}
      /\ receipts'[run][stage] = artifact
      /\ \A name \in DOMAIN receipts[run] : receipts'[run][name] = receipts[run][name]
  BY <1>1, Recording
<1>3. /\ stage = "vectorbt_screen" => Done(run, "generation_mutation")
      /\ stage = "optuna_tune" => Done(run, "vectorbt_screen")
      /\ stage = "pymoo_evolution" => Done(run, "optuna_tune")
      /\ stage = "nautilus_validation" => Done(run, "pymoo_evolution")
      /\ stage = "specialist_tests" => Done(run, "nautilus_validation")
  BY <1>1, <1>2, DueAfter
<1>4. Done(run, "generation_mutation")
  BY <1>2, <1>3, DoneInOrder DEF SearchStages
<1>5. Gen(run)' = Gen(run)
  BY <1>2, <1>4 DEF Gen, Done
<1>6. Out(run, stage)' = artifact
  BY <1>2 DEF Out
<1>7. /\ Prefix(run)' /\ GenerationOK(run)'
      /\ \A s \in SearchStages \ {stage} : Done(run, s)' => Shape(run, s)'
      /\ stage # "optuna_tune" => Narrows(run, "vectorbt_screen", "optuna_tune")'
      /\ stage # "pymoo_evolution" => Narrows(run, "optuna_tune", "pymoo_evolution")'
      /\ stage # "nautilus_validation" =>
            Narrows(run, "pymoo_evolution", "nautilus_validation")' /\ BudgetOK(run)'
      /\ stage # "specialist_tests" =>
            Narrows(run, "nautilus_validation", "specialist_tests")' /\ SpecialistOK(run)'
      /\ JudgedOK(run)' /\ ExperimentsOK(run)' /\ StoredOK(run)' /\ QueueOK(run)'
  BY <1>1, <1>2, EarlierStages
<1>8. Shape(run, stage)'
  BY <1>5, <1>6 DEF Shape, Fits
<1>9. ShapeOK(run)'
  BY <1>7, <1>8 DEF ShapeOK
<1>10. NarrowsOK(run)'
  <2>1. \A s : Done(run, s) /\ s # stage => Out(run, s)' = Out(run, s)
    BY <1>2 DEF Out, Done
  <2>2. CASE stage = "optuna_tune"
    BY <2>1, <2>2, <1>3, <1>5, <1>6, <1>7 DEF NarrowsOK, Narrows, Fits, Lets
  <2>3. CASE stage = "pymoo_evolution"
    BY <2>1, <2>3, <1>3, <1>5, <1>6, <1>7 DEF NarrowsOK, Narrows, Fits, Lets
  <2>4. CASE stage = "nautilus_validation"
    BY <2>1, <2>4, <1>3, <1>5, <1>6, <1>7 DEF NarrowsOK, Narrows, Fits, Lets
  <2>5. CASE stage = "specialist_tests"
    BY <2>1, <2>5, <1>3, <1>5, <1>6, <1>7 DEF NarrowsOK, Narrows, Fits, Lets
  <2>6. CASE stage = "vectorbt_screen"
    BY <2>6, <1>7 DEF NarrowsOK
  <2> QED
    BY <2>2, <2>3, <2>4, <2>5, <2>6 DEF SearchStages
<1>11. BudgetOK(run)'
  <2>1. CASE stage = "nautilus_validation"
    <3>1. {slot \in Gen(run) : Out(run, "nautilus_validation")[slot].passed}'
              = {slot \in Gen(run) : artifact[slot].passed}
      BY <2>1, <1>5, <1>6
    <3> QED
      BY <2>1, <3>1, <1>2 DEF BudgetOK, Fits
  <2> QED
    BY <2>1, <1>7
<1>12. SpecialistOK(run)'
  BY <1>2, <1>5, <1>6, <1>7 DEF SpecialistOK, Fits
<1> QED
  BY <1>7, <1>9, <1>10, <1>11, <1>12 DEF RunOK

\* Counting a set along a strict total order: at most cap members have fewer
\* than cap members in front of them.
LEMMA RankBound ==
    ASSUME NEW S, IsFiniteSet(S), NEW R, NEW cap \in Nat,
           \A x \in S : <<x, x>> \notin R,
           \A x, y, z \in S : <<x, y>> \in R /\ <<y, z>> \in R => <<x, z>> \in R,
           \A x, y \in S : x # y => <<x, y>> \in R \/ <<y, x>> \in R
    PROVE  Cardinality({x \in S : Cardinality({y \in S : <<y, x>> \in R}) < cap}) <= cap
<1> DEFINE Ahead(x) == {y \in S : <<y, x>> \in R}
           T == {x \in S : Cardinality(Ahead(x)) < cap}
           rank == [x \in T |-> Cardinality(Ahead(x))]
<1>1. \A x \in S : IsFiniteSet(Ahead(x)) /\ Cardinality(Ahead(x)) \in Nat
  BY FS_Subset, FS_CardinalityType
<1>2. \A x, y \in S : <<x, y>> \in R => Cardinality(Ahead(x)) # Cardinality(Ahead(y))
  <2> SUFFICES ASSUME NEW x \in S, NEW y \in S, <<x, y>> \in R,
                      Cardinality(Ahead(x)) = Cardinality(Ahead(y))
               PROVE  FALSE
    OBVIOUS
  <2>1. Ahead(x) \in SUBSET Ahead(y)
    OBVIOUS
  <2>2. x \in Ahead(y) /\ x \notin Ahead(x)
    OBVIOUS
  <2>3. Ahead(x) = Ahead(y)
    BY <2>1, <1>1, FS_Subset
  <2> QED
    BY <2>2, <2>3
<1>3. IsFiniteSet(0..(cap - 1)) /\ Cardinality(0..(cap - 1)) = cap
  BY FS_Interval
<1>4. rank \in Injection(T, 0..(cap - 1))
  <2>1. rank \in [T -> 0..(cap - 1)]
    BY <1>1
  <2>2. \A x \in T : x \in S /\ rank[x] = Cardinality(Ahead(x))
    OBVIOUS
  <2> HIDE DEF Ahead, rank, T
  <2>3. \A x, y \in T : x # y => rank[x] # rank[y]
    <3> SUFFICES ASSUME NEW x \in T, NEW y \in T, x # y PROVE rank[x] # rank[y]
      OBVIOUS
    <3>1. <<x, y>> \in R \/ <<y, x>> \in R
      BY <2>2
    <3> QED
      BY <3>1, <2>2, <1>2
  <2> QED
    BY <2>1, <2>3 DEF Injection, IsInjective
<1>5. Cardinality(T) <= Cardinality(0..(cap - 1))
  <2> HIDE DEF rank, T
  <2> QED
    BY <1>3, <1>4, FS_Injection
<1> QED
  BY <1>3, <1>5

\* What a stage finds of the run it works on.
LEMMA AtStage ==
    ASSUME ResearchInv, NEW run, run = cursor, NEW stage \in SearchStages,
           Working, Due(cursor) = stage
    PROVE  /\ run \in DOMAIN plan /\ RunOK(run)
           /\ Done(run, "generation_mutation")
           /\ Generated = Gen(run) /\ Gen(run) \subseteq Slots /\ IsFiniteSet(Gen(run))
           /\ \A s : Artifact(s) = Out(run, s)
           /\ stage = "optuna_tune" => Shape(run, "vectorbt_screen")
           /\ stage = "pymoo_evolution" => Shape(run, "optuna_tune")
           /\ stage = "nautilus_validation" => Shape(run, "pymoo_evolution")
           /\ stage = "specialist_tests" => Shape(run, "nautilus_validation")
<1>1. stage \in StageNames
  BY DEF StageNames, Stages, SearchStages
<1>2. run \in DOMAIN plan /\ RunOK(run) /\ Prefix(run)
  BY DEF ResearchInv, RunOK, Working
<1>3. /\ stage = "vectorbt_screen" => Done(run, "generation_mutation")
      /\ stage = "optuna_tune" => Done(run, "vectorbt_screen")
      /\ stage = "pymoo_evolution" => Done(run, "optuna_tune")
      /\ stage = "nautilus_validation" => Done(run, "pymoo_evolution")
      /\ stage = "specialist_tests" => Done(run, "nautilus_validation")
  BY <1>1, <1>2, DueAfter
<1>4. Done(run, "generation_mutation")
  BY <1>2, <1>3, DoneInOrder DEF SearchStages
<1>5. /\ stage = "optuna_tune" => Shape(run, "vectorbt_screen")
      /\ stage = "pymoo_evolution" => Shape(run, "optuna_tune")
      /\ stage = "nautilus_validation" => Shape(run, "pymoo_evolution")
      /\ stage = "specialist_tests" => Shape(run, "nautilus_validation")
  BY <1>2, <1>3 DEF RunOK, ShapeOK, SearchStages
<1>6. Generated = Gen(run) /\ \A s : Artifact(s) = Out(run, s)
  BY DEF Generated, Artifact, Gen, Out
<1> QED
  BY <1>2, <1>4, <1>5, <1>6, GeneratedSlots

\* The screen records what fits.
LEMMA ScreenStep ==
    ASSUME ResearchInv, NEW run, run = cursor, Screen
    PROVE  RunOK(run)'
<1>1. PICK profitable \in SUBSET Generated :
          Record("vectorbt_screen",
                 [slot \in Generated |-> ScreenOutcome(slot, slot \in profitable)])
  BY DEF Screen
<1> DEFINE artifact == [slot \in Generated |-> ScreenOutcome(slot, slot \in profitable)]
<1>2. Generated = Gen(run) /\ Gen(run) \subseteq Slots
  BY AtStage DEF Screen, SearchStages
<1>3. /\ DOMAIN artifact = Gen(run)
      /\ \A slot \in Gen(run) : artifact[slot].genome = [slot |-> slot, form |-> "drawn"]
  BY <1>2 DEF ScreenOutcome, Outcome
<1>4. Record("vectorbt_screen", artifact)
  BY <1>1
<1>5. "vectorbt_screen" \in SearchStages /\ UNCHANGED trials
  BY DEF SearchStages, Screen
<1> HIDE DEF artifact
<1>6. Fits(run, "vectorbt_screen", artifact)
  <2>0. \A slot \in Slots : /\ [slot |-> slot, form |-> "drawn"] \in Genomes
                            /\ [slot |-> slot, form |-> "drawn"].slot = slot
    BY DEF Genomes, Forms
  <2>1. \A slot \in Gen(run) : artifact[slot].genome \in Genomes
    BY <1>2, <1>3, <2>0
  <2>2. \A slot \in Gen(run) : artifact[slot].genome.slot = slot
    BY <1>2, <1>3, <2>0
  <2> QED
    BY <2>1, <2>2, <1>3 DEF Fits
<1> QED
  BY <1>4, <1>5, <1>6, OutcomeStage

\* Both searches: what they return for a survivor is a form of its slot, and
\* nothing else passes.
LEMMA SearchStep ==
    ASSUME ResearchInv, NEW run, run = cursor,
           NEW earlier, NEW stage, NEW form \in Forms,
           \/ earlier = "vectorbt_screen" /\ stage = "optuna_tune"
           \/ earlier = "optuna_tune" /\ stage = "pymoo_evolution",
           Working, Due(cursor) = stage, UNCHANGED trials,
           NEW results \in SearchResults(earlier, form), NEW artifact,
           artifact = [slot \in Generated |->
                          IF slot \in Survivors(earlier) THEN Searched(earlier, slot, results)
                          ELSE Artifact(earlier)[slot]],
           Record(stage, artifact)
    PROVE  RunOK(run)'
<1>0. stage \in SearchStages
  BY DEF SearchStages
<1>1. /\ Generated = Gen(run) /\ Gen(run) \subseteq Slots /\ Shape(run, earlier)
      /\ Artifact(earlier) = Out(run, earlier)
  BY <1>0, AtStage
<1>2. \A slot \in Gen(run) : /\ Out(run, earlier)[slot].genome \in Genomes
                             /\ Out(run, earlier)[slot].genome.slot = slot
                             /\ Out(run, earlier)[slot].genome.form \in Forms
  BY <1>1 DEF Shape, Genomes
<1>3. /\ DOMAIN results \subseteq Survivors(earlier)
      /\ \A slot \in DOMAIN results : results[slot] \in Forms
  <2>1. CASE ~Run.numeric
    BY <2>1, <1>1, <1>2 DEF SearchResults, Survivors
  <2>2. CASE Run.numeric
    <3>1. PICK found \in SUBSET Survivors(earlier) : results \in [found -> Forms]
      BY <2>2 DEF SearchResults
    <3> QED
      BY <3>1
  <2> QED
    BY <2>1, <2>2
<1>4. DOMAIN artifact = Gen(run)
  BY <1>1
<1>5. \A slot \in Gen(run) :
         /\ artifact[slot].genome \in Genomes /\ artifact[slot].genome.slot = slot
         /\ artifact[slot].passed => Out(run, earlier)[slot].passed
  <2> SUFFICES ASSUME NEW slot \in Gen(run)
               PROVE  /\ artifact[slot].genome \in Genomes
                      /\ artifact[slot].genome.slot = slot
                      /\ artifact[slot].passed => Out(run, earlier)[slot].passed
    OBVIOUS
  <2>1. CASE slot \notin Survivors(earlier)
    <3>1. artifact[slot] = Out(run, earlier)[slot]
      BY <2>1, <1>1
    <3> QED
      BY <3>1, <1>2
  <2>2. CASE slot \in Survivors(earlier)
    <3>1. artifact[slot] = Searched(earlier, slot, results)
      BY <2>2, <1>1
    <3>2. Out(run, earlier)[slot].passed
      BY <2>2, <1>1 DEF Survivors
    <3>3. CASE slot \in DOMAIN results
      <4>1. artifact[slot].genome = [slot |-> slot, form |-> results[slot]]
        BY <3>1, <3>3 DEF Searched, Outcome
      <4> QED
        BY <4>1, <3>2, <3>3, <1>1, <1>3 DEF Genomes
    <3>4. CASE slot \notin DOMAIN results
      <4>1. artifact[slot].genome = Out(run, earlier)[slot].genome
        BY <3>1, <3>4, <1>1 DEF Searched, Outcome
      <4> QED
        BY <4>1, <3>2, <1>2
    <3> QED
      BY <3>3, <3>4
  <2> QED
    BY <2>1, <2>2
<1>6. Fits(run, stage, artifact)
  BY <1>4, <1>5 DEF Fits, Lets
<1> QED
  BY <1>0, <1>6, OutcomeStage

\* The tuning records what fits the screen.
LEMMA TuneStep ==
    ASSUME ResearchInv, NEW run, run = cursor, Tune
    PROVE  RunOK(run)'
<1>1. PICK results \in SearchResults("vectorbt_screen", "tuned") :
          Record("optuna_tune",
                 [slot \in Generated |->
                    IF slot \in Survivors("vectorbt_screen")
                    THEN Searched("vectorbt_screen", slot, results)
                    ELSE Artifact("vectorbt_screen")[slot]])
  BY DEF Tune, Carry
<1>2. "tuned" \in Forms /\ Working /\ Due(cursor) = "optuna_tune" /\ UNCHANGED trials
  BY DEF Tune, Forms
<1> QED
  BY <1>1, <1>2, SearchStep

\* The evolution records what fits the tuning.
LEMMA EvolveStep ==
    ASSUME ResearchInv, NEW run, run = cursor, Evolve
    PROVE  RunOK(run)'
<1>1. PICK results \in SearchResults("optuna_tune", "evolved") :
          Record("pymoo_evolution",
                 [slot \in Generated |->
                    IF slot \in Survivors("optuna_tune")
                    THEN Searched("optuna_tune", slot, results)
                    ELSE Artifact("optuna_tune")[slot]])
  BY DEF Evolve, Carry
<1>2. "evolved" \in Forms /\ Working /\ Due(cursor) = "pymoo_evolution" /\ UNCHANGED trials
  BY DEF Evolve, Forms
<1> QED
  BY <1>1, <1>2, SearchStep

\* The validation records what fits the evolution, within its budget.
LEMMA ValidateStep ==
    ASSUME ResearchInv, NEW run, run = cursor, Validate
    PROVE  RunOK(run)'
<1>1. PICK closed \in [Admitted -> {0, 1}] :
          Record("nautilus_validation",
                 [slot \in Generated |->
                    IF slot \in Survivors("pymoo_evolution")
                    THEN ValidationOutcome(slot, closed)
                    ELSE Artifact("pymoo_evolution")[slot]])
  BY DEF Validate, Carry
<1> DEFINE artifact == [slot \in Generated |->
                            IF slot \in Survivors("pymoo_evolution")
                            THEN ValidationOutcome(slot, closed)
                            ELSE Artifact("pymoo_evolution")[slot]]
<1>2. /\ run \in DOMAIN plan /\ Generated = Gen(run) /\ IsFiniteSet(Gen(run))
      /\ Artifact("pymoo_evolution") = Out(run, "pymoo_evolution")
      /\ Shape(run, "pymoo_evolution")
      /\ Done(run, "generation_mutation")
  BY AtStage DEF Validate, SearchStages
<1>3. DOMAIN artifact = Gen(run)
  BY <1>2
<1>4. \A slot \in Gen(run) :
         /\ artifact[slot].genome = Out(run, "pymoo_evolution")[slot].genome
         /\ artifact[slot].passed => Out(run, "pymoo_evolution")[slot].passed
         /\ artifact[slot].passed => slot \in Admitted
  BY <1>2 DEF ValidationOutcome, Outcome, Survivors
<1>5. \A slot \in Gen(run) :
         artifact[slot].genome \in Genomes /\ artifact[slot].genome.slot = slot
  BY <1>2, <1>4 DEF Shape
<1>6. Cardinality({slot \in Gen(run) : artifact[slot].passed}) <= plan[run].budget
  <2> DEFINE S == Survivors("pymoo_evolution")
             R == {pair \in S \X S : pair[1] < pair[2]}
             budget == plan[run].budget
  <2>1. budget \in Nat /\ Gen(run) \subseteq Nat
    <3>1. plan \in Plans
      BY DEF ResearchInv, Typed
    <3>2. budget \in Nat /\ plan[run].slots \in Nat
      BY <1>2, <3>1, RunTypes
    <3>3. Gen(run) \in {{}, 1..plan[run].slots}
      BY <1>2, GeneratedSlots
    <3> QED
      BY <3>2, <3>3
  <2>2. S \subseteq Gen(run) /\ IsFiniteSet(S)
    <3>1. S \in SUBSET Gen(run)
      BY <1>2 DEF Survivors
    <3> QED
      BY <3>1, <1>2, FS_Subset
  <2>3. Admitted = {x \in S : Cardinality({y \in S : <<y, x>> \in R}) < budget}
    <3>1. \A x \in S : {y \in S : <<y, x>> \in R} = {y \in S : y < x}
      OBVIOUS
    <3>2. Admitted = {x \in S : Cardinality({y \in S : y < x}) < budget}
      BY DEF Admitted, Run
    <3> HIDE DEF S, R, budget
    <3> QED
      BY <3>1, <3>2
  <2>4. Cardinality(Admitted) <= budget
    <3>1. /\ \A x \in S : <<x, x>> \notin R
          /\ \A x, y, z \in S : <<x, y>> \in R /\ <<y, z>> \in R => <<x, z>> \in R
          /\ \A x, y \in S : x # y => <<x, y>> \in R \/ <<y, x>> \in R
      <4> HIDE DEF S
      <4> QED
        BY <2>1, <2>2
    <3> HIDE DEF S, R, budget
    <3>2. Cardinality({x \in S : Cardinality({y \in S : <<y, x>> \in R}) < budget}) <= budget
      BY <2>1, <2>2, <3>1, RankBound
    <3> QED
      BY <2>3, <3>2
  <2>5. {slot \in Gen(run) : artifact[slot].passed} \in SUBSET Admitted
    BY <1>4
  <2>6. IsFiniteSet(Admitted)
    <3>1. Admitted \in SUBSET S
      BY <2>3
    <3> QED
      BY <3>1, <2>2, FS_Subset
  <2> HIDE DEF S, R, artifact
  <2>7. /\ IsFiniteSet({slot \in Gen(run) : artifact[slot].passed})
        /\ Cardinality({slot \in Gen(run) : artifact[slot].passed}) <= Cardinality(Admitted)
    BY <2>5, <2>6, FS_Subset
  <2> QED
    BY <2>1, <2>4, <2>6, <2>7, FS_CardinalityType
<1>7. Record("nautilus_validation", artifact) /\ UNCHANGED trials
  BY <1>1 DEF Validate
<1> HIDE DEF artifact
<1>8. Fits(run, "nautilus_validation", artifact)
  BY <1>3, <1>4, <1>5, <1>6 DEF Fits, Lets
<1> QED
  BY <1>7, <1>8, OutcomeStage DEF SearchStages

\* The specialist records of a report are of the types the family asks for.
LEMMA SpecialistStep ==
    ASSUME ResearchInv, NEW run, run = cursor, Specialist
    PROVE  RunOK(run)'
<1> DEFINE earlier == "nautilus_validation"
<1>1. PICK reports \in [Survivors(earlier) -> Reports] :
          Record("specialist_tests",
                 [slot \in Generated |->
                    IF slot \in Survivors(earlier)
                    THEN SpecialistOutcome(slot, reports)
                    ELSE Artifact(earlier)[slot]])
  BY DEF Specialist, Carry
<1> DEFINE artifact == [slot \in Generated |->
                            IF slot \in Survivors(earlier)
                            THEN SpecialistOutcome(slot, reports)
                            ELSE Artifact(earlier)[slot]]
           extra == ExtraEvidence(plan[run].family, "ROBUST")
<1>2. /\ Generated = Gen(run)
      /\ Artifact(earlier) = Out(run, earlier)
      /\ Shape(run, earlier)
  BY AtStage DEF Specialist, SearchStages
<1>3. DOMAIN artifact = Gen(run)
  BY <1>2
<1>4. \A slot \in Gen(run) :
         /\ artifact[slot].genome = Out(run, earlier)[slot].genome
         /\ artifact[slot].passed => Out(run, earlier)[slot].passed
  BY <1>2 DEF SpecialistOutcome, Outcome, Survivors
<1>5. \A slot \in Gen(run) :
         artifact[slot].genome \in Genomes /\ artifact[slot].genome.slot = slot
  BY <1>2, <1>4 DEF Shape
<1>6. ASSUME NEW slot \in Gen(run), artifact[slot].passed
      PROVE  /\ \A r \in artifact[slot].records : r.type \in extra
             /\ extra \subseteq ValidatedTypes(artifact[slot].genome, artifact[slot].records)
  <2>1. slot \in Survivors(earlier)
    BY <1>2, <1>4, <1>6 DEF Survivors
  <2>2. artifact[slot] = SpecialistOutcome(slot, reports)
    BY <2>1, <1>2
  <2> DEFINE genome == Out(run, earlier)[slot].genome
             records == SpecialistRecords(genome, plan[run].family, reports[slot],
                                          "code", "data")
  <2>3. /\ artifact[slot].records = records /\ artifact[slot].genome = genome
        /\ artifact[slot].passed = SpecialistGate(genome, plan[run].family, records)
    BY <2>2, <1>2 DEF SpecialistOutcome, Outcome, Run
  <2>4. \A r \in records : r.type \in extra
    BY DEF SpecialistRecords, EvidenceRecord
  <2> HIDE DEF artifact
  <2> QED
    BY <2>3, <2>4, <1>6 DEF SpecialistGate
<1>7. Record("specialist_tests", artifact) /\ UNCHANGED trials
  BY <1>1 DEF Specialist
<1> HIDE DEF artifact
<1>8. Fits(run, "specialist_tests", artifact)
  BY <1>3, <1>4, <1>5, <1>6 DEF Fits, Lets
<1> QED
  BY <1>7, <1>8, OutcomeStage DEF SearchStages

-----------------------------------------------------------------------------
(* What the gates mean on the numbers                                      *)

\* Intervals are finite.
LEMMA IntervalFinite == \A n \in Nat : IsFiniteSet(1..n)
BY FS_Interval

\* One element is counted once or not at all.
LEMMA OneOf ==
    ASSUME NEW e, NEW Q, NEW n, n = Cardinality({i \in DOMAIN <<e>> : <<e>>[i] \in Q})
    PROVE  n \in {0, 1} /\ (n = 1 => e \in Q)
<1> DEFINE H == {i \in DOMAIN <<e>> : <<e>>[i] \in Q}
<1>1. H = IF e \in Q THEN {1} ELSE {}
  OBVIOUS
<1> HIDE DEF H
<1>2. Cardinality({}) = 0 /\ Cardinality({1}) = 1
  BY FS_EmptySet, FS_Singleton
<1> QED
  BY <1>1, <1>2 DEF H

\* Percentages the code rounds to two decimals, read back as fractions.
LEMMA Rounding ==
    /\ \A n \in {0, 1} : RoundedPercent(n, 1) >= 100 => n = 1
    /\ \A n \in Nat : RoundedPercent(n, 3) >= 67 => n >= 2
    /\ \A n \in Nat, d \in 2..MaxNeighbours : RoundedPercent(n, d) >= 67 => 3 * n >= 2 * d
<1>1. \A n \in {0, 1} : RoundedPercent(n, 1) >= 100 => n = 1
  BY DEF RoundedPercent
<1>2. \A n \in Nat : RoundedPercent(n, 3) >= 67 => n >= 2
  BY DEF RoundedPercent
<1>3. \A n \in Nat, d \in 2..MaxNeighbours : RoundedPercent(n, d) >= 67 => 3 * n >= 2 * d
  <2> SUFFICES ASSUME NEW n \in Nat, NEW d \in 2..MaxNeighbours, RoundedPercent(n, d) >= 67
               PROVE  3 * n >= 2 * d
    OBVIOUS
  <2>1. CASE d = 2
    BY <2>1 DEF RoundedPercent
  <2>2. CASE d = 3
    BY <2>2 DEF RoundedPercent
  <2>3. CASE d = 4
    BY <2>3 DEF RoundedPercent
  <2> QED
    BY <2>1, <2>2, <2>3 DEF MaxNeighbours
<1> QED
  BY <1>1, <1>2, <1>3

\* The thresholds a walk-forward of one fold stands for, its rounding undone.
LEMMA FoldWithstood ==
    ASSUME NEW e \in Evaluations, WalkForwardPassed(<<e>>)
    PROVE  e.trades >= 5 /\ e.dd <= 20 /\ e.ret > 0
<1>1. e.trades >= 5 /\ e.dd <= 20
  BY DEF WalkForwardPassed, Robustness
<1> DEFINE Q == {x \in Evaluations : x.ret > 0}
           n == Cardinality({i \in DOMAIN <<e>> : <<e>>[i] \in Q})
<1>2. {i \in DOMAIN <<e>> : <<e>>[i].ret > 0} = {i \in DOMAIN <<e>> : <<e>>[i] \in Q}
  OBVIOUS
<1>3. RoundedPercent(n, 1) >= 100
  BY <1>2 DEF WalkForwardPassed, Robustness, Passing
<1>4. n \in {0, 1} /\ (n = 1 => e \in Q)
  <2> HIDE DEF Q
  <2> QED
    BY OneOf
<1> HIDE DEF n
<1> QED
  BY <1>1, <1>3, <1>4, Rounding

\* Those of purged cross-validation.
LEMMA CpcvWithstood ==
    ASSUME NEW e \in Evaluations, PurgedCpcvPassed(<<e>>)
    PROVE  e.trades >= 5 /\ e.dd <= 25 /\ e.ret > 0
<1>1. e.trades >= 5 /\ e.dd <= 25
  BY DEF PurgedCpcvPassed, AdvancedOk, Advanced
<1> DEFINE Q == {x \in Evaluations : x.ret > 0}
           n == Cardinality({i \in DOMAIN <<e>> : <<e>>[i] \in Q})
<1>2. {i \in DOMAIN <<e>> : <<e>>[i].ret > 0} = {i \in DOMAIN <<e>> : <<e>>[i] \in Q}
  OBVIOUS
<1>3. 100 * n >= 100
  BY <1>2 DEF PurgedCpcvPassed, Advanced, Passing
<1>4. n \in {0, 1} /\ (n = 1 => e \in Q)
  <2> HIDE DEF Q
  <2> QED
    BY OneOf
<1> HIDE DEF n
<1> QED
  BY <1>1, <1>3, <1>4

\* Those of the Monte Carlo test.
LEMMA MonteCarloWithstood ==
    ASSUME NEW e \in Evaluations, MonteCarloPassed(<<e>>)
    PROVE  e.trades >= 5 /\ e.dd <= 25 /\ e.ret >= -10
<1>1. e.trades >= 5 /\ e.dd <= 25
  BY DEF MonteCarloPassed, AdvancedOk, Advanced
<1> DEFINE Q == {x \in Evaluations : x.ret >= -10}
           n == Cardinality({i \in DOMAIN <<e>> : <<e>>[i] \in Q})
<1>2. {i \in DOMAIN <<e>> : <<e>>[i].ret >= Advanced.loss} = {i \in DOMAIN <<e>> : <<e>>[i] \in Q}
  BY DEF Advanced
<1>3. 100 * n >= 100
  <2>1. 100 * Cardinality({i \in DOMAIN <<e>> : <<e>>[i].ret >= Advanced.loss})
            >= Advanced.survival * Len(<<e>>)
    BY DEF MonteCarloPassed, Passing
  <2> HIDE DEF Q
  <2> QED
    BY <1>2, <2>1 DEF Advanced
<1>4. n \in {0, 1} /\ (n = 1 => e \in Q)
  <2> HIDE DEF Q
  <2> QED
    BY OneOf
<1> HIDE DEF n
<1> QED
  BY <1>1, <1>3, <1>4

\* Those of the transfer to another asset.
LEMMA TransferWithstood ==
    ASSUME NEW e \in Evaluations, TransferPassed(<<e>>)
    PROVE  e.trades >= 5 /\ e.dd <= 25 /\ e.ret >= 0
<1> DEFINE Q == {x \in Evaluations : x.trades >= 5 /\ x.ret >= 0 /\ x.dd <= 25}
           n == Cardinality({i \in DOMAIN <<e>> : <<e>>[i] \in Q})
<1>2. {i \in DOMAIN <<e>> : /\ <<e>>[i].trades >= 5 /\ <<e>>[i].ret >= 0
                            /\ <<e>>[i].dd <= 25}
          = {i \in DOMAIN <<e>> : <<e>>[i] \in Q}
  OBVIOUS
<1>3. 100 * n >= 100
  BY <1>2 DEF TransferPassed, Transfer, Passing
<1>4. n \in {0, 1} /\ (n = 1 => e \in Q)
  <2> HIDE DEF Q
  <2> QED
    BY OneOf
<1> HIDE DEF n
<1> QED
  BY <1>3, <1>4

\* Those of the stressed costs, relative to the base.
LEMMA StressWithstood ==
    ASSUME NEW base \in Evaluations, NEW e \in Evaluations, CostStressPassed(base, e)
    PROVE  /\ e.trades >= 5 /\ e.dd <= 20 /\ e.ret >= 0
           /\ base.ret > 0 => 5 * e.ret >= 2 * base.ret
BY DEF CostStressPassed, Robustness, Evaluations

\* Those of the neighbouring parameters, of which two in three must hold.
LEMMA NeighboursWithstood ==
    ASSUME NEW base \in Evaluations, NEW s \in Seq(Evaluations), Len(s) \in 2..MaxNeighbours,
           ParameterStabilityPassed(base, s)
    PROVE  LET steady == {i \in DOMAIN s :
                            LET e == s[i]
                            IN /\ e.trades >= 5 /\ e.dd <= 20
                               /\ IF base.ret > 0 THEN 5 * e.ret >= 2 * base.ret
                                  ELSE e.ret >= base.ret}
           IN 3 * Cardinality(steady) >= 2 * Len(s)
<1> DEFINE steady == {i \in DOMAIN s :
                        LET e == s[i]
                        IN /\ e.trades >= 5 /\ e.dd <= 20
                           /\ IF base.ret > 0 THEN 5 * e.ret >= 2 * base.ret
                              ELSE e.ret >= base.ret}
           stable == {i \in DOMAIN s : StableNeighbour(base, s[i])}
<1>1. DOMAIN s = 1..Len(s) /\ \A i \in DOMAIN s : s[i] \in Evaluations
  <2> HIDE DEF steady, stable
  <2> QED
    OBVIOUS
<1>2. ASSUME NEW i \in DOMAIN s, StableNeighbour(base, s[i])
      PROVE  i \in steady
  <2>1. /\ s[i].trades \in Nat /\ s[i].dd \in Nat /\ s[i].ret \in Int /\ base.ret \in Int
    BY <1>1 DEF Evaluations
  <2>2. /\ s[i].trades >= 5 /\ s[i].dd <= 20
        /\ IF base.ret > 0 THEN 100 * s[i].ret >= 40 * base.ret ELSE s[i].ret >= base.ret
    BY <1>2 DEF StableNeighbour, Robustness
  <2>3. base.ret > 0 => 5 * s[i].ret >= 2 * base.ret
    BY <2>1, <2>2
  <2> QED
    BY <2>2, <2>3
<1>3. stable \in SUBSET steady /\ steady \in SUBSET (1..Len(s))
  BY <1>1, <1>2
<1>4. RoundedPercent(Cardinality(stable), Len(s)) >= 67
  BY DEF ParameterStabilityPassed, Robustness, Passing
<1> HIDE DEF steady, stable
<1>5. Len(s) \in Nat /\ IsFiniteSet(1..Len(s))
  BY FS_Interval
<1>6. IsFiniteSet(steady) /\ IsFiniteSet(stable)
      /\ Cardinality(stable) <= Cardinality(steady)
  BY <1>3, <1>5, FS_Subset
<1>7. Cardinality(steady) \in Nat /\ Cardinality(stable) \in Nat
  BY <1>6, FS_CardinalityType
<1>8. 3 * Cardinality(stable) >= 2 * Len(s)
  BY <1>4, <1>7, Rounding
<1>9. 3 * Cardinality(steady) >= 2 * Len(s)
  BY <1>5, <1>6, <1>7, <1>8
<1> QED
  BY <1>9 DEF steady

\* Those of the regimes, of which two in three must hold.
LEMMA RegimesWithstood ==
    ASSUME NEW a \in Evaluations, NEW b \in Evaluations, NEW c \in Evaluations,
           RegimeTestPassed(<<a, b, c>>)
    PROVE  LET calm == {i \in 1..3 : LET e == <<a, b, c>>[i] IN e.dd <= 20 /\ e.ret >= 0}
           IN Cardinality(calm) >= 2
<1> DEFINE calm == {i \in 1..3 : LET e == <<a, b, c>>[i] IN e.dd <= 20 /\ e.ret >= 0}
           passing == {i \in DOMAIN <<a, b, c>> : EvaluationPasses(<<a, b, c>>[i])}
<1>0. IsFiniteSet(1..3)
  BY IntervalFinite
<1>1. passing \in SUBSET calm /\ calm \in SUBSET (1..3)
  BY DEF EvaluationPasses, Hidden
<1>2. RoundedPercent(Cardinality(passing), 3) >= 67
  BY DEF RegimeTestPassed, Hidden, Passing
<1> HIDE DEF passing, calm
<1>4. IsFiniteSet(calm) /\ IsFiniteSet(passing)
      /\ Cardinality(passing) <= Cardinality(calm)
  BY <1>0, <1>1, FS_Subset
<1>5. Cardinality(calm) \in Nat /\ Cardinality(passing) \in Nat
  BY <1>4, FS_CardinalityType
<1>6. Cardinality(calm) >= 2
  BY <1>2, <1>4, <1>5, Rounding
<1> QED
  BY <1>6 DEF calm

\* A record of a type that the specialist stage does not produce is the cycle's own.
LEMMA RobustGates ==
    ASSUME NEW family, NEW genome, NEW trial, NEW specialist,
           \A r \in specialist : r.type \in ExtraEvidence(family, "ROBUST"),
           EvaluateValidatedPromotion("BACKTESTED", "ROBUST", family, genome,
               RobustnessRecords(genome, trial, specialist, "code", "data"))
    PROVE  /\ WalkForwardPassed(<<trial.fold>>)
           /\ CostStressPassed(trial.base, trial.stressed)
           /\ ParameterStabilityPassed(trial.base, trial.neighbours)
           /\ PurgedCpcvPassed(<<trial.cpcv>>)
           /\ MonteCarloPassed(<<trial.montecarlo>>)
           /\ TransferPassed(<<trial.transfer>>)
<1> DEFINE records == RobustnessRecords(genome, trial, specialist, "code", "data")
           Own == {"walk_forward", "cost_stress", "parameter_stability",
                   "purged_cpcv", "monte_carlo", "asset_transfer"}
<1>1. Own \subseteq ValidatedTypes(genome, records)
  BY DEF EvaluateValidatedPromotion, EvaluatePromotion, RequiredEvidence, TerminalStates
<1>2. \A r \in specialist : r.type \notin Own
  BY DEF ExtraEvidence
<1>3. ASSUME NEW type \in Own
      PROVE  \E r \in records \ specialist : r.type = type /\ r.passed
  BY <1>1, <1>2 DEF ValidatedTypes, Accepted
<1> DEFINE gate(type) ==
        CASE type = "walk_forward" -> WalkForwardPassed(<<trial.fold>>)
          [] type = "cost_stress" -> CostStressPassed(trial.base, trial.stressed)
          [] type = "parameter_stability" ->
                ParameterStabilityPassed(trial.base, trial.neighbours)
          [] type = "purged_cpcv" -> PurgedCpcvPassed(<<trial.cpcv>>)
          [] type = "monte_carlo" -> MonteCarloPassed(<<trial.montecarlo>>)
          [] type = "asset_transfer" -> TransferPassed(<<trial.transfer>>)
<1>4. ASSUME NEW r \in records \ specialist, r.passed PROVE gate(r.type)
  <2>1. PICK type \in Own :
           \E passed : /\ r = EvidenceRecord(type, genome, passed, "code", "data")
                       /\ passed => gate(type)
    BY DEF RobustnessRecords
  <2>2. PICK passed : /\ r = EvidenceRecord(type, genome, passed, "code", "data")
                      /\ passed => gate(type)
    BY <2>1
  <2>3. r.type = type /\ r.passed = passed
    BY <2>2 DEF EvidenceRecord
  <2> QED
    BY <2>2, <2>3, <1>4
<1>5. \A type \in Own : gate(type)
  BY <1>3, <1>4
<1> QED
  BY <1>5

\* The hidden promotion rests on the hidden test and on the regimes.
LEMMA HiddenGates ==
    ASSUME NEW family, NEW genome, NEW trial,
           EvaluateValidatedPromotion("ROBUST", "HIDDEN_PASS", family, genome,
               HiddenRecords(genome, trial, "code", "data"))
    PROVE  /\ HiddenTestPassed(trial.hidden)
           /\ RegimeTestPassed(<<trial.fold, trial.cpcv, trial.montecarlo>>)
<1> DEFINE records == HiddenRecords(genome, trial, "code", "data")
           Own == {"hidden_test", "regime_test"}
           gate(type) == IF type = "hidden_test" THEN HiddenTestPassed(trial.hidden)
                         ELSE RegimeTestPassed(<<trial.fold, trial.cpcv, trial.montecarlo>>)
<1>1. Own \subseteq ValidatedTypes(genome, records)
  BY DEF EvaluateValidatedPromotion, EvaluatePromotion, RequiredEvidence, TerminalStates,
         ExtraEvidence
<1>2. ASSUME NEW type \in Own
      PROVE  \E r \in records : r.type = type /\ r.passed
  BY <1>1 DEF ValidatedTypes, Accepted
<1>3. ASSUME NEW r \in records, r.passed PROVE gate(r.type)
  <2>1. PICK type \in Own :
           \E passed : /\ r = EvidenceRecord(type, genome, passed, "code", "data")
                       /\ passed => gate(type)
    BY DEF HiddenRecords
  <2>2. PICK passed : /\ r = EvidenceRecord(type, genome, passed, "code", "data")
                      /\ passed => gate(type)
    BY <2>1
  <2>3. r.type = type /\ r.passed = passed
    BY <2>2 DEF EvidenceRecord
  <2> QED
    BY <2>2, <2>3, <1>3
<1>4. \A type \in Own : gate(type)
  BY <1>2, <1>3
<1> QED
  BY <1>4

\* A candidate that qualifies withstood its trial.
LEMMA QualifiedWithstood ==
    ASSUME NEW slot, NEW trial \in AllTrials, Qualified(slot, trial),
           \A r \in Artifact("specialist_tests")[slot].records :
               r.type \in ExtraEvidence(Run.family, "ROBUST")
    PROVE  Withstood(trial) /\ Run.transfer
<1> DEFINE outcome == Artifact("specialist_tests")[slot]
<1>1. /\ Run.transfer /\ NeighbourhoodOk(trial)
      /\ EvaluateValidatedPromotion("BACKTESTED", "ROBUST", Run.family, outcome.genome,
             RobustnessRecords(outcome.genome, trial, outcome.records, "code", "data"))
      /\ EvaluateValidatedPromotion("ROBUST", "HIDDEN_PASS", Run.family, outcome.genome,
             HiddenRecords(outcome.genome, trial, "code", "data"))
  BY DEF Qualified
<1>2. /\ WalkForwardPassed(<<trial.fold>>)
      /\ CostStressPassed(trial.base, trial.stressed)
      /\ ParameterStabilityPassed(trial.base, trial.neighbours)
      /\ PurgedCpcvPassed(<<trial.cpcv>>)
      /\ MonteCarloPassed(<<trial.montecarlo>>)
      /\ TransferPassed(<<trial.transfer>>)
  <2> HIDE DEF outcome
  <2> QED
    BY <1>1, RobustGates DEF outcome
<1>3. /\ HiddenTestPassed(trial.hidden)
      /\ RegimeTestPassed(<<trial.fold, trial.cpcv, trial.montecarlo>>)
  BY <1>1, HiddenGates
<1>4. /\ trial.base \in Evaluations /\ trial.stressed \in Evaluations
      /\ trial.fold \in Evaluations /\ trial.cpcv \in Evaluations
      /\ trial.montecarlo \in Evaluations /\ trial.transfer \in Evaluations
      /\ trial.hidden \in Evaluations
  <2> HIDE DEF Evaluations
  <2> QED
    BY DEF AllTrials
<1>5. /\ trial.neighbours \in Seq(Evaluations) /\ Len(trial.neighbours) \in 2..MaxNeighbours
  <2>1. trial.neighbours \in Seq(Evaluations) /\ Len(trial.neighbours) <= MaxNeighbours
    BY DEF AllTrials
  <2>2. Len(trial.neighbours) \in Nat /\ Len(trial.neighbours) >= 2
    BY <1>1, <2>1 DEF NeighbourhoodOk
  <2>3. \A n \in Nat : n >= 2 /\ n <= MaxNeighbours => n \in 2..MaxNeighbours
    BY DEF MaxNeighbours
  <2> QED
    BY <2>1, <2>2, <2>3
<1>6. /\ trial.fold.trades >= 5 /\ trial.fold.dd <= 20 /\ trial.fold.ret > 0
      /\ trial.cpcv.trades >= 5 /\ trial.cpcv.dd <= 25 /\ trial.cpcv.ret > 0
      /\ trial.montecarlo.trades >= 5 /\ trial.montecarlo.dd <= 25
      /\ trial.montecarlo.ret >= -10
      /\ trial.transfer.trades >= 5 /\ trial.transfer.dd <= 25 /\ trial.transfer.ret >= 0
  BY <1>2, <1>4, FoldWithstood, CpcvWithstood, MonteCarloWithstood, TransferWithstood
<1>7. /\ trial.stressed.trades >= 5 /\ trial.stressed.dd <= 20 /\ trial.stressed.ret >= 0
      /\ trial.base.ret > 0 => 5 * trial.stressed.ret >= 2 * trial.base.ret
  BY <1>2, <1>4, StressWithstood
<1>8. trial.hidden.trades >= 5 /\ trial.hidden.ret >= 0 /\ trial.hidden.dd <= 20
  BY <1>3 DEF HiddenTestPassed, EvaluationPasses, Hidden
<1>9. LET calm == {i \in 1..3 : LET e == <<trial.fold, trial.cpcv, trial.montecarlo>>[i]
                               IN e.dd <= 20 /\ e.ret >= 0}
      IN Cardinality(calm) >= 2
  BY <1>3, <1>4, RegimesWithstood
<1>10. LET steady == {i \in DOMAIN trial.neighbours :
                        LET e == trial.neighbours[i]
                        IN /\ e.trades >= 5 /\ e.dd <= 20
                           /\ IF trial.base.ret > 0 THEN 5 * e.ret >= 2 * trial.base.ret
                              ELSE e.ret >= trial.base.ret}
       IN Len(trial.neighbours) >= 2 /\ 3 * Cardinality(steady) >= 2 * Len(trial.neighbours)
  <2>1. PICK base, s : base = trial.base /\ s = trial.neighbours
    OBVIOUS
  <2>2. /\ base \in Evaluations /\ s \in Seq(Evaluations) /\ Len(s) \in 2..MaxNeighbours
        /\ ParameterStabilityPassed(base, s)
    BY <2>1, <1>2, <1>4, <1>5
  <2>3. Len(s) >= 2
    BY <2>2 DEF MaxNeighbours
  <2>4. LET steady == {i \in DOMAIN s :
                        LET e == s[i]
                        IN /\ e.trades >= 5 /\ e.dd <= 20
                           /\ IF base.ret > 0 THEN 5 * e.ret >= 2 * base.ret
                              ELSE e.ret >= base.ret}
        IN 3 * Cardinality(steady) >= 2 * Len(s)
    BY <2>2, NeighboursWithstood
  <2> QED
    BY <2>1, <2>3, <2>4
<1> QED
  BY <1>1, <1>6, <1>7, <1>8, <1>9, <1>10 DEF Withstood

-----------------------------------------------------------------------------
(* Judgement, storing and the queue                                        *)

\* The verdicts of a judgement, and the trials they stand on.
LEMMA JudgeFacts ==
    ASSUME ResearchInv, NEW run, run = cursor, Judge
    PROVE  /\ run \in DOMAIN plan /\ RunOK(run) /\ Due(run) = "hidden_robustness_stress"
           /\ Done(run, "specialist_tests") /\ Done(run, "generation_mutation")
           /\ \E artifact : Record("hidden_robustness_stress", artifact)
           /\ VerdictOf(run)' \in [Gen(run) -> VerdictStates]
           /\ \A slot \in Gen(run) :
                 LET verdict == VerdictOf(run)'[slot]
                 IN /\ verdict.genome = Out(run, "specialist_tests")[slot].genome
                    /\ verdict.qualified <=> verdict.state = "HIDDEN_PASS"
                    /\ verdict.qualified =>
                          /\ Out(run, "specialist_tests")[slot].passed
                          /\ Withstood(trials'[run][slot])
                          /\ plan[run].transfer
           /\ \A other \in DOMAIN plan \ {run} : trials'[other] = trials[other]
<1> DEFINE artifact(met) == [slot \in Generated |-> Verdict(slot, met)]
<1>1. PICK met \in [Survivors("specialist_tests") -> Trials[Run.class]] :
          /\ Record("hidden_robustness_stress", artifact(met))
          /\ trials' = [trials EXCEPT ![cursor] = met]
  BY DEF Judge
<1>2. Working /\ Due(run) = "hidden_robustness_stress"
  BY DEF Judge
<1>3. run \in DOMAIN plan /\ RunOK(run) /\ Prefix(run)
  BY <1>2 DEF Working, ResearchInv, RunOK
<1>4. Done(run, "specialist_tests")
  BY <1>2, <1>3, DueAfter DEF StageNames, Stages
<1>5. Done(run, "generation_mutation")
  BY <1>3, <1>4, DoneInOrder
<1>6. /\ Generated = Gen(run) /\ Artifact("specialist_tests") = Out(run, "specialist_tests")
      /\ Shape(run, "specialist_tests") /\ SpecialistOK(run)
  BY <1>3, <1>4 DEF Generated, Artifact, Gen, Out, RunOK, ShapeOK, SearchStages
<1>7. VerdictOf(run)' = artifact(met)
  <2>1. "hidden_robustness_stress" \in StageNames
    BY DEF StageNames, Stages
  <2> HIDE DEF artifact
  <2>2. receipts'[run]["hidden_robustness_stress"] = artifact(met)
    BY <2>1, <1>1, Recording
  <2> QED
    BY <2>2 DEF VerdictOf
<1>8. Run.class \in DOMAIN Trials /\ plan[run] = Run
  BY <1>3, RunTypes DEF Run, ResearchInv, Typed
<1>9. ASSUME NEW slot \in Gen(run)
      PROVE  /\ artifact(met)[slot] \in VerdictStates
             /\ LET verdict == artifact(met)[slot]
                IN /\ verdict.genome = Out(run, "specialist_tests")[slot].genome
                   /\ verdict.qualified <=> verdict.state = "HIDDEN_PASS"
                   /\ verdict.qualified =>
                         /\ Out(run, "specialist_tests")[slot].passed
                         /\ Withstood(met[slot])
                         /\ plan[run].transfer
  <2> DEFINE qualified == slot \in DOMAIN met /\ Qualified(slot, met[slot])
             genome == Out(run, "specialist_tests")[slot].genome
  <2>1. artifact(met)[slot] =
            [genome |-> genome, state |-> IF qualified THEN "HIDDEN_PASS" ELSE "QUARANTINED",
             score |-> IF qualified THEN met[slot].hidden.ret ELSE 0, qualified |-> qualified]
    BY <1>6 DEF Verdict
  <2> HIDE DEF artifact, qualified
  <2>2. genome \in Genomes
    BY <1>6 DEF Shape
  <2> HIDE DEF genome
  <2>3. CASE ~qualified
    <3>1. artifact(met)[slot] = [genome |-> genome, state |-> "QUARANTINED", score |-> 0,
                                 qualified |-> FALSE]
      <4>1. qualified = FALSE
        BY <2>3 DEF qualified
      <4> QED
        BY <2>1, <4>1
    <3> QED
      BY <3>1, <2>2 DEF VerdictStates, genome
  <2>4. CASE qualified
    <3>1. slot \in Survivors("specialist_tests") /\ met[slot] \in AllTrials
      BY <2>4, <1>8, TrialsAssumption DEF qualified
    <3>2. Out(run, "specialist_tests")[slot].passed
      BY <3>1, <1>6 DEF Survivors
    <3>3. \A r \in Artifact("specialist_tests")[slot].records :
              r.type \in ExtraEvidence(Run.family, "ROBUST")
      BY <3>2, <1>4, <1>6, <1>8 DEF SpecialistOK
    <3>4. Withstood(met[slot]) /\ Run.transfer
      BY <2>4, <3>1, <3>3, QualifiedWithstood DEF qualified
    <3>5. met[slot].hidden.ret \in Int
      BY <3>1 DEF AllTrials, Evaluations
    <3>6. artifact(met)[slot] = [genome |-> genome, state |-> "HIDDEN_PASS",
                                 score |-> met[slot].hidden.ret, qualified |-> TRUE]
      BY <2>1, <2>4
    <3>7. artifact(met)[slot] \in VerdictStates
      BY <3>5, <3>6, <2>2 DEF VerdictStates
    <3> QED
      BY <3>2, <3>4, <3>6, <3>7, <1>8 DEF genome
  <2> QED
    BY <2>3, <2>4
<1>10. DOMAIN trials = DOMAIN plan
  BY DEF ResearchInv, Typed
<1>11. /\ trials'[run] = met
       /\ \A other \in DOMAIN plan \ {run} : trials'[other] = trials[other]
  BY <1>1, <1>3, <1>10
<1>12. artifact(met) \in [Gen(run) -> VerdictStates]
  <2>1. \A slot \in Gen(run) : artifact(met)[slot] \in VerdictStates
    BY <1>9
  <2> QED
    BY <2>1, <1>6
<1>13. \E a : Record("hidden_robustness_stress", a)
  BY <1>1
<1> HIDE DEF artifact
<1>14. VerdictOf(run)' \in [Gen(run) -> VerdictStates]
  BY <1>7, <1>12
<1>15. \A slot \in Gen(run) :
          LET verdict == VerdictOf(run)'[slot]
          IN /\ verdict.genome = Out(run, "specialist_tests")[slot].genome
             /\ verdict.qualified <=> verdict.state = "HIDDEN_PASS"
             /\ verdict.qualified =>
                   /\ Out(run, "specialist_tests")[slot].passed
                   /\ Withstood(trials'[run][slot])
                   /\ plan[run].transfer
  BY <1>7, <1>9, <1>11
<1> QED
  BY <1>2, <1>3, <1>4, <1>5, <1>11, <1>13, <1>14, <1>15

\* The hidden judgement passes only what withstood every gate.
LEMMA JudgeStep ==
    ASSUME ResearchInv, NEW run, run = cursor, Judge
    PROVE  RunOK(run)'
<1> DEFINE stage == "hidden_robustness_stress"
<1>1. /\ run \in DOMAIN plan /\ RunOK(run) /\ Due(run) = stage
      /\ Done(run, "specialist_tests") /\ Done(run, "generation_mutation")
      /\ VerdictOf(run)' \in [Gen(run) -> VerdictStates]
      /\ \A slot \in Gen(run) :
            LET verdict == VerdictOf(run)'[slot]
            IN /\ verdict.genome = Out(run, "specialist_tests")[slot].genome
               /\ verdict.qualified <=> verdict.state = "HIDDEN_PASS"
               /\ verdict.qualified =>
                     /\ Out(run, "specialist_tests")[slot].passed
                     /\ Withstood(trials'[run][slot])
                     /\ plan[run].transfer
  BY JudgeFacts
<1>2. PICK artifact : Record(stage, artifact)
  BY JudgeFacts
<1>3. stage \in StageNames
  BY DEF StageNames, Stages
<1>4. /\ UNCHANGED <<plan, experiments>>
      /\ DOMAIN receipts'[run] = DOMAIN receipts[run] \cup {stage}
      /\ \A name \in DOMAIN receipts[run] : receipts'[run][name] = receipts[run][name]
      /\ ~Done(run, stage)
  BY <1>2, <1>3, Recording
<1>5. /\ Prefix(run)' /\ GenerationOK(run)'
      /\ \A s \in SearchStages : Done(run, s)' => Shape(run, s)'
      /\ NarrowsOK(run)' /\ BudgetOK(run)' /\ SpecialistOK(run)'
      /\ StoredOK(run)' /\ QueueOK(run)'
  BY <1>1, <1>3, <1>4, EarlierStages DEF SearchStages, NarrowsOK
<1>6. Gen(run)' = Gen(run) /\ Out(run, "specialist_tests")' = Out(run, "specialist_tests")
  BY <1>1, <1>4 DEF Gen, Out, Done
<1>7. JudgedOK(run)'
  BY <1>1, <1>4, <1>6 DEF JudgedOK
<1>8. ExperimentsOK(run)'
  <2>1. DOMAIN experiments[run] = {}
    BY <1>1, <1>4 DEF RunOK, ExperimentsOK, Judged, Done
  <2>2. experiments[run] \in [DOMAIN experiments[run] -> VerdictStates]
    BY <1>1 DEF RunOK, ExperimentsOK
  <2> QED
    BY <2>1, <2>2, <1>4 DEF ExperimentsOK
<1> QED
  BY <1>5, <1>7, <1>8 DEF RunOK, ShapeOK

\* What the stages after the judgement find.
LEMMA AfterJudgement ==
    ASSUME ResearchInv, NEW run, run = cursor, Working,
           NEW stage \in {"store_outcomes", "queue_paper"}, Due(run) = stage
    PROVE  /\ run \in DOMAIN plan /\ RunOK(run) /\ ~Done(run, stage)
           /\ Done(run, "hidden_robustness_stress") /\ Done(run, "generation_mutation")
           /\ Generated = Gen(run) /\ Verdicts = VerdictOf(run)
           /\ VerdictOf(run) \in [Gen(run) -> VerdictStates]
           /\ IsFiniteSet(Gen(run)) /\ Gen(run) \subseteq Nat
<1>1. run \in DOMAIN plan /\ RunOK(run) /\ Prefix(run)
  BY DEF Working, ResearchInv, RunOK
<1>2. stage \in StageNames
  BY DEF StageNames, Stages
<1>3. /\ ~Done(run, stage)
      /\ stage = "store_outcomes" => Done(run, "hidden_robustness_stress")
      /\ stage = "queue_paper" => Done(run, "store_outcomes")
  BY <1>1, <1>2, DueAfter
<1>4. /\ Done(run, "store_outcomes") => Done(run, "hidden_robustness_stress")
      /\ Done(run, "hidden_robustness_stress") => Done(run, "specialist_tests")
      /\ Done(run, "specialist_tests") => Done(run, "generation_mutation")
  BY <1>1, DoneInOrder
<1>5. Done(run, "hidden_robustness_stress") /\ Done(run, "generation_mutation")
  BY <1>3, <1>4
<1>6. /\ Generated = Gen(run) /\ Verdicts = VerdictOf(run)
  BY DEF Generated, Verdicts, Artifact, Gen, VerdictOf
<1>7. VerdictOf(run) \in [Gen(run) -> VerdictStates]
  BY <1>1, <1>5 DEF RunOK, JudgedOK, Judged, Done
<1>8. /\ Gen(run) \in {{}, 1..plan[run].slots} /\ IsFiniteSet(Gen(run))
      /\ plan[run].slots \in Nat
  BY <1>1, <1>5, GeneratedSlots, RunTypes DEF ResearchInv, Typed
<1> QED
  BY <1>1, <1>3, <1>5, <1>6, <1>7, <1>8

\* An experiment is stored as it was judged.
LEMMA AppendStep ==
    ASSUME ResearchInv, NEW run, run = cursor, AppendExperiment
    PROVE  RunOK(run)'
<1>1. /\ run \in DOMAIN plan /\ RunOK(run) /\ ~Done(run, "store_outcomes")
      /\ Done(run, "hidden_robustness_stress")
      /\ Generated = Gen(run) /\ Verdicts = VerdictOf(run)
      /\ VerdictOf(run) \in [Gen(run) -> VerdictStates]
  BY AfterJudgement DEF AppendExperiment
<1>2. /\ plan' = plan /\ receipts' = receipts /\ trials' = trials
      /\ appended + 1 \in Gen(run)
  BY <1>1 DEF AppendExperiment
<1>3. CASE experiments' = experiments
  BY <1>1, <1>2, <1>3, RunUnchanged
<1>4. CASE experiments' = [experiments EXCEPT ![cursor] =
                [s \in DOMAIN @ \cup {appended + 1} |->
                    IF s = appended + 1 THEN Verdicts[appended + 1] ELSE @[s]]]
  <2> DEFINE slot == appended + 1
             E == experiments[run]
  <2>1. DOMAIN experiments = DOMAIN plan
    BY DEF ResearchInv, Typed
  <2>2. experiments'[run] = [s \in DOMAIN E \cup {slot} |->
                                IF s = slot THEN VerdictOf(run)[slot] ELSE E[s]]
    BY <2>1, <1>1, <1>4
  <2>3. /\ E \in [DOMAIN E -> VerdictStates]
        /\ \A s \in DOMAIN E : s \in Gen(run) /\ E[s] = VerdictOf(run)[s]
    BY <1>1 DEF RunOK, ExperimentsOK
  <2>4. slot \in Gen(run)
    BY <1>2
  <2> HIDE DEF slot, E
  <2>5. /\ experiments'[run] \in [DOMAIN experiments'[run] -> VerdictStates]
        /\ \A s \in DOMAIN experiments'[run] :
              s \in Gen(run) /\ experiments'[run][s] = VerdictOf(run)[s]
    BY <1>1, <2>2, <2>3, <2>4
  <2>6. Gen(run)' = Gen(run) /\ VerdictOf(run)' = VerdictOf(run) /\ Judged(run)'
    BY <1>1, <1>2 DEF Gen, VerdictOf, Judged, Done
  <2>7. ExperimentsOK(run)'
    BY <2>5, <2>6 DEF ExperimentsOK
  <2>8. StoredOK(run)'
    BY <1>1, <1>2 DEF StoredOK, Done
  <2>9. /\ Prefix(run)' /\ GenerationOK(run)' /\ ShapeOK(run)' /\ NarrowsOK(run)'
        /\ BudgetOK(run)' /\ SpecialistOK(run)'
    BY <1>1, <1>2 DEF RunOK, Prefix, GenerationOK, ShapeOK, Shape, NarrowsOK, Narrows,
                      BudgetOK, SpecialistOK, Done, Gen, Out
  <2>10. JudgedOK(run)'
    BY <1>1, <1>2 DEF RunOK, JudgedOK, Gen, Out, Judged, VerdictOf
  <2>11. QueueOK(run)'
    <3>1. QueueOK(run) /\ plan' = plan /\ receipts'[run] = receipts[run]
      BY <1>1, <1>2 DEF RunOK
    <3> QED
      BY <3>1 DEF QueueOK, Gen, VerdictOf, Queued, Finalists, InPaper, Passed
  <2> QED
    BY <2>7, <2>8, <2>9, <2>10, <2>11 DEF RunOK
<1> QED
  BY <1>3, <1>4 DEF AppendExperiment

\* The store stage ends when every verdict is stored.
LEMMA StoreStep ==
    ASSUME ResearchInv, NEW run, run = cursor, StoreOutcomes
    PROVE  RunOK(run)'
<1> DEFINE stage == "store_outcomes"
<1>1. /\ run \in DOMAIN plan /\ RunOK(run) /\ ~Done(run, stage) /\ Due(run) = stage
      /\ Done(run, "hidden_robustness_stress") /\ Done(run, "generation_mutation")
      /\ Generated = Gen(run) /\ Gen(run) \subseteq Nat /\ IsFiniteSet(Gen(run))
  BY AfterJudgement DEF StoreOutcomes
<1>2. /\ receipts' = Recorded(stage, Cardinality(Gen(run)))
      /\ UNCHANGED <<plan, experiments, trials>>
      /\ appended >= Cardinality(Gen(run))
  BY <1>1 DEF StoreOutcomes, AllAppended
<1>3. DOMAIN receipts = DOMAIN plan
  BY DEF ResearchInv, Typed
<1>4. /\ DOMAIN receipts'[run] = DOMAIN receipts[run] \cup {stage}
      /\ receipts'[run][stage] = Cardinality(Gen(run))
      /\ \A name \in DOMAIN receipts[run] : receipts'[run][name] = receipts[run][name]
  BY <1>1, <1>2, <1>3 DEF Recorded, Done
<1>5. stage \in StageNames
  BY DEF StageNames, Stages
<1>6. /\ Prefix(run)' /\ GenerationOK(run)'
      /\ \A s \in SearchStages : Done(run, s)' => Shape(run, s)'
      /\ NarrowsOK(run)' /\ BudgetOK(run)' /\ SpecialistOK(run)'
      /\ JudgedOK(run)' /\ ExperimentsOK(run)' /\ QueueOK(run)'
  BY <1>1, <1>2, <1>4, <1>5, EarlierStages DEF SearchStages, NarrowsOK
<1>7. DOMAIN experiments[run] = Gen(run)
  <2>1. DOMAIN experiments[run] \subseteq Gen(run)
    BY <1>1 DEF RunOK, ExperimentsOK
  <2>2. Gen(run) \in {{}, 1..plan[run].slots} /\ plan[run].slots \in Nat
    BY <1>1, GeneratedSlots, RunTypes DEF ResearchInv, Typed
  <2>3. CASE Gen(run) = {}
    BY <2>1, <2>3
  <2>4. CASE Gen(run) = 1..plan[run].slots /\ Gen(run) # {}
    <3>1. Cardinality(Gen(run)) = plan[run].slots /\ plan[run].slots > 0
      BY <2>2, <2>4, FS_Interval
    <3>2. appended \in Nat /\ appended > 0
      BY <1>2, <2>2, <3>1 DEF ResearchInv, MemoryOK
    <3>3. 1..appended \subseteq DOMAIN experiments[run]
      BY <3>2 DEF ResearchInv, MemoryOK
    <3>4. 1..plan[run].slots \subseteq 1..appended
      BY <2>2, <3>1, <3>2, <1>2
    <3> QED
      BY <2>1, <2>4, <3>3, <3>4
  <2> QED
    BY <2>2, <2>3, <2>4
<1>8. StoredOK(run)'
  <2>1. Gen(run)' = Gen(run)
    BY <1>1, <1>4 DEF Gen, Done
  <2>2. Out(run, stage)' = Cardinality(Gen(run))
    BY <1>4 DEF Out
  <2> QED
    BY <2>1, <2>2, <1>2, <1>7 DEF StoredOK
<1> QED
  BY <1>6, <1>8 DEF RunOK, ShapeOK

\* The candidates selected for the queue: at most the cap, and none of them
\* with cap better candidates in front of it.
LEMMA SelectedFacts ==
    ASSUME ResearchInv, NEW run, run = cursor, Working, Due(run) = "queue_paper"
    PROVE  /\ IsFiniteSet(Selected) /\ Cardinality(Selected) <= plan[run].cap
           /\ plan[run].cap \in Nat
           /\ \A slot \in Selected :
                 /\ slot \in Gen(run) /\ VerdictOf(run)[slot].qualified
                 /\ Cardinality({other \in Passed(run) :
                       VerdictOf(run)[other].score > VerdictOf(run)[slot].score})
                         < plan[run].cap
<1> DEFINE S == {slot \in Gen(run) : VerdictOf(run)[slot].qualified}
           R == {pair \in S \X S : Before(pair[1], pair[2])}
           cap == plan[run].cap
<1>1. /\ run \in DOMAIN plan /\ RunOK(run)
      /\ Done(run, "hidden_robustness_stress")
      /\ Generated = Gen(run) /\ Verdicts = VerdictOf(run)
      /\ VerdictOf(run) \in [Gen(run) -> VerdictStates]
      /\ IsFiniteSet(Gen(run)) /\ Gen(run) \subseteq Nat
  BY AfterJudgement
<1>2. cap \in Nat /\ plan[run] = Run
  BY <1>1, RunTypes DEF ResearchInv, Typed, Run
<1>3. S \subseteq Gen(run) /\ IsFiniteSet(S)
  <2>1. S \in SUBSET Gen(run)
    OBVIOUS
  <2> QED
    BY <2>1, <1>1, FS_Subset
<1>4. \A slot \in S : VerdictOf(run)[slot].score \in Int /\ slot \in Nat
  <2> SUFFICES ASSUME NEW slot \in S PROVE VerdictOf(run)[slot].score \in Int
    BY <1>1
  <2>1. VerdictOf(run)[slot] \in VerdictStates
    BY <1>1
  <2> QED
    BY <2>1 DEF VerdictStates
<1>5. Passed(run) = S
  BY <1>1 DEF Passed, RunOK, JudgedOK, Judged, Done
<1>6. \A x \in S : {y \in S : <<y, x>> \in R} = {y \in S : Before(y, x)}
  OBVIOUS
<1>7. Selected = {x \in S : Cardinality({y \in S : Before(y, x)}) < cap}
  <2>1. \A x : {y \in Gen(run) : VerdictOf(run)[y].qualified /\ Before(y, x)}
                   = {y \in S : Before(y, x)}
    OBVIOUS
  <2> QED
    BY <2>1, <1>1, <1>2 DEF Selected
<1>8. Selected = {x \in S : Cardinality({y \in S : <<y, x>> \in R}) < cap}
  <2> HIDE DEF S, R, cap
  <2> QED
    BY <1>6, <1>7
<1>9. /\ \A x \in S : <<x, x>> \notin R
      /\ \A x, y, z \in S : <<x, y>> \in R /\ <<y, z>> \in R => <<x, z>> \in R
      /\ \A x, y \in S : x # y => <<x, y>> \in R \/ <<y, x>> \in R
  <2>1. \A x, y \in S : Before(x, y) <=>
            \/ VerdictOf(run)[x].score > VerdictOf(run)[y].score
            \/ VerdictOf(run)[x].score = VerdictOf(run)[y].score /\ x < y
    BY <1>1 DEF Before
  <2>2. \A x, y \in S : <<x, y>> \in R <=> Before(x, y)
    OBVIOUS
  <2> HIDE DEF S, R
  <2> QED
    BY <1>4, <2>1, <2>2
<1>10. Cardinality(Selected) <= cap
  <2> HIDE DEF S, R, cap
  <2>1. Cardinality({x \in S : Cardinality({y \in S : <<y, x>> \in R}) < cap}) <= cap
    BY <1>2, <1>3, <1>9, RankBound
  <2> QED
    BY <2>1, <1>8
<1>11. IsFiniteSet(Selected)
  <2>1. Selected \in SUBSET S
    BY <1>7
  <2> QED
    BY <2>1, <1>3, FS_Subset
<1>12. ASSUME NEW slot \in Selected
       PROVE  /\ slot \in Gen(run) /\ VerdictOf(run)[slot].qualified
              /\ Cardinality({other \in Passed(run) :
                    VerdictOf(run)[other].score > VerdictOf(run)[slot].score}) < cap
  <2> DEFINE Better == {other \in Passed(run) :
                            VerdictOf(run)[other].score > VerdictOf(run)[slot].score}
             Ahead == {y \in S : Before(y, slot)}
  <2>1. slot \in S /\ Cardinality(Ahead) < cap
    BY <1>7
  <2>2. Better \in SUBSET Ahead /\ Ahead \in SUBSET S
    BY <1>1, <1>5 DEF Before
  <2>3. slot \in Gen(run) /\ VerdictOf(run)[slot].qualified
    BY <2>1
  <2> HIDE DEF Better, Ahead, S, cap
  <2>4. IsFiniteSet(Ahead)
    BY <2>2, <1>3, FS_Subset
  <2>5. IsFiniteSet(Better) /\ Cardinality(Better) <= Cardinality(Ahead)
    BY <2>2, <2>4, FS_Subset
  <2>6. Cardinality(Better) \in Nat /\ Cardinality(Ahead) \in Nat
    BY <2>4, <2>5, FS_CardinalityType
  <2>7. Cardinality(Better) < cap
    BY <2>1, <2>5, <2>6, <1>2
  <2> QED
    BY <2>3, <2>7 DEF Better
<1> QED
  BY <1>2, <1>10, <1>11, <1>12

\* The queue takes passed candidates only, and the best of them.
LEMMA QueueStep ==
    ASSUME ResearchInv, NEW run, run = cursor, QueuePaper
    PROVE  /\ RunOK(run)' /\ InPaper(run)' \subseteq Passed(run)
<1> DEFINE stage == "queue_paper"
<1>1. /\ run \in DOMAIN plan /\ RunOK(run) /\ ~Done(run, stage) /\ Due(run) = stage
      /\ Done(run, "hidden_robustness_stress") /\ Done(run, "generation_mutation")
      /\ Generated = Gen(run) /\ Verdicts = VerdictOf(run)
  BY AfterJudgement DEF QueuePaper
<1>2. PICK connected \in SUBSET Selected :
          Record(stage, [slot \in Generated |-> Finalist(slot, connected)])
  BY DEF QueuePaper
<1> DEFINE artifact == [slot \in Generated |-> Finalist(slot, connected)]
<1>3. /\ DOMAIN artifact = Gen(run)
      /\ \A slot \in Gen(run) : /\ artifact[slot].genome = VerdictOf(run)[slot].genome
                                /\ artifact[slot].state = "PAPER" => slot \in Selected
  BY <1>1 DEF Finalist
<1>4. stage \in StageNames
  BY DEF StageNames, Stages
<1>5. Record(stage, artifact) /\ UNCHANGED trials
  BY <1>2 DEF QueuePaper
<1> HIDE DEF artifact
<1>6. /\ UNCHANGED <<plan, experiments>>
      /\ DOMAIN receipts'[run] = DOMAIN receipts[run] \cup {stage}
      /\ receipts'[run][stage] = artifact
      /\ \A name \in DOMAIN receipts[run] : receipts'[run][name] = receipts[run][name]
  BY <1>4, <1>5, Recording
<1>7. /\ Prefix(run)' /\ GenerationOK(run)'
      /\ \A s \in SearchStages : Done(run, s)' => Shape(run, s)'
      /\ NarrowsOK(run)' /\ BudgetOK(run)' /\ SpecialistOK(run)'
      /\ JudgedOK(run)' /\ ExperimentsOK(run)' /\ StoredOK(run)'
  BY <1>1, <1>4, <1>5, <1>6, EarlierStages DEF SearchStages, NarrowsOK
<1>8. /\ Gen(run)' = Gen(run) /\ VerdictOf(run)' = VerdictOf(run)
      /\ Passed(run)' = Passed(run) /\ Finalists(run)' = artifact
  BY <1>1, <1>6 DEF Gen, VerdictOf, Passed, Finalists, Done
<1>9. InPaper(run)' \in SUBSET Selected
  <2>1. InPaper(run)' = {slot \in Gen(run) : artifact[slot].state = "PAPER"}
    BY <1>3, <1>8 DEF InPaper
  <2>2. \A slot \in Gen(run) : artifact[slot].state = "PAPER" => slot \in Selected
    BY <1>3
  <2> QED
    BY <2>1, <2>2
<1>10. /\ IsFiniteSet(Selected) /\ Cardinality(Selected) <= plan[run].cap
       /\ plan[run].cap \in Nat
       /\ \A slot \in Selected :
             /\ slot \in Gen(run) /\ VerdictOf(run)[slot].qualified
             /\ Cardinality({other \in Passed(run) :
                   VerdictOf(run)[other].score > VerdictOf(run)[slot].score}) < plan[run].cap
  BY <1>1, SelectedFacts DEF QueuePaper
<1>11. Cardinality(InPaper(run)') <= plan[run].cap
  <2>1. /\ IsFiniteSet(InPaper(run)')
        /\ Cardinality(InPaper(run)') <= Cardinality(Selected)
    BY <1>9, <1>10, FS_Subset
  <2>2. Cardinality(InPaper(run)') \in Nat /\ Cardinality(Selected) \in Nat
    BY <2>1, <1>10, FS_CardinalityType
  <2> QED
    BY <2>1, <2>2, <1>10
<1>12. QueueOK(run)'
  <2>1. DOMAIN Finalists(run)' = Gen(run)'
    BY <1>3, <1>8
  <2>2. Cardinality(InPaper(run)') <= plan'[run].cap
    BY <1>6, <1>11
  <2>3. \A slot \in Gen(run)' : Finalists(run)'[slot].genome = VerdictOf(run)'[slot].genome
    BY <1>3, <1>8
  <2>4. \A slot \in InPaper(run)' :
           /\ VerdictOf(run)'[slot].qualified
           /\ Cardinality({other \in Passed(run)' :
                 VerdictOf(run)'[other].score > VerdictOf(run)'[slot].score}) < plan'[run].cap
    <3> SUFFICES ASSUME NEW slot \in InPaper(run)'
                 PROVE  /\ VerdictOf(run)'[slot].qualified
                        /\ Cardinality({other \in Passed(run)' :
                              VerdictOf(run)'[other].score > VerdictOf(run)'[slot].score})
                                < plan'[run].cap
      OBVIOUS
    <3>1. {other \in Passed(run)' : VerdictOf(run)'[other].score > VerdictOf(run)'[slot].score}
              = {other \in Passed(run) : VerdictOf(run)[other].score > VerdictOf(run)[slot].score}
      BY <1>8
    <3> QED
      BY <3>1, <1>6, <1>8, <1>9, <1>10
  <2> QED
    BY <2>1, <2>2, <2>3, <2>4 DEF QueueOK
<1>13. InPaper(run)' \subseteq Passed(run)
  BY <1>1, <1>9, <1>10 DEF Passed, RunOK, JudgedOK, Judged, Done
<1> QED
  BY <1>7, <1>12, <1>13 DEF RunOK, ShapeOK

-----------------------------------------------------------------------------
(* Every step                                                              *)

\* A stage records something, and it is none of the stages that decide.
PlainRecord ==
    /\ UNCHANGED trials
    /\ \E stage \in StageNames \ {"hidden_robustness_stress", "queue_paper", "store_outcomes"} :
          \E artifact : Record(stage, artifact)

\* The stages without a property of their own.
LEMMA PlainRecords ==
    ASSUME \/ VerifyData \/ LoadMemory \/ DiscoverRegimes \/ Generate \/ Rerank
           \/ Screen \/ Tune \/ Evolve \/ Validate \/ Specialist
    PROVE  PlainRecord
<1>1. CASE VerifyData \/ LoadMemory \/ DiscoverRegimes \/ Generate \/ Rerank
  BY <1>1 DEF VerifyData, LoadMemory, DiscoverRegimes, Generate, Rerank, PlainRecord,
              StageNames, Stages
<1>2. CASE Screen \/ Tune \/ Evolve \/ Validate \/ Specialist
  <2>1. /\ UNCHANGED trials
        /\ \E stage \in SearchStages : \E artifact : Record(stage, artifact)
    <3>1. CASE Screen
      BY <3>1 DEF Screen, SearchStages
    <3>2. CASE Tune
      BY <3>2 DEF Tune, SearchStages
    <3>3. CASE Evolve
      BY <3>3 DEF Evolve, SearchStages
    <3>4. CASE Validate
      BY <3>4 DEF Validate, SearchStages
    <3>5. CASE Specialist
      BY <3>5 DEF Specialist, SearchStages
    <3> QED
      BY <1>2, <3>1, <3>2, <3>3, <3>4, <3>5
  <2>2. SearchStages \subseteq
            StageNames \ {"hidden_robustness_stress", "queue_paper", "store_outcomes"}
    BY DEF SearchStages, StageNames, Stages
  <2> QED
    BY <2>1, <2>2 DEF PlainRecord
<1> QED
  BY <1>1, <1>2

\* What a step may do to the receipts.
LEMMA StepKinds ==
    ASSUME Next
    PROVE  /\ plan' = plan
           /\ \/ UNCHANGED <<receipts, trials>>
              \/ PlainRecord
              \/ Judge
              \/ StoreOutcomes
              \/ QueuePaper
<1>1. CASE \/ Start \/ Crash \/ FetchSucceeds \/ FetchRetried \/ FetchFails
           \/ AppendExperiment \/ StageRaises \/ FinishRun \/ OpenReport \/ WriteReport
  BY <1>1 DEF Start, Crash, FetchSucceeds, FetchRetried, FetchFails, AppendExperiment,
              StageRaises, FinishRun, OpenReport, WriteReport, durable
<1>2. CASE \/ VerifyData \/ LoadMemory \/ DiscoverRegimes \/ Generate \/ Rerank
           \/ Screen \/ Tune \/ Evolve \/ Validate \/ Specialist
  BY <1>2, PlainRecords DEF PlainRecord, Record
<1>4. CASE Judge
  BY <1>4 DEF Judge, Record
<1>5. CASE StoreOutcomes
  BY <1>5 DEF StoreOutcomes
<1>6. CASE QueuePaper
  BY <1>6 DEF QueuePaper, Record
<1> QED
  BY <1>1, <1>2, <1>4, <1>5, <1>6 DEF Next, Step

\* Receipts are added, for the run at the cursor, and none is replaced.
LEMMA ReceiptsAdded ==
    ASSUME ResearchInv, Next
    PROVE  /\ DOMAIN receipts' = DOMAIN plan
           /\ \A run \in DOMAIN plan : \A name \in DOMAIN receipts[run] :
                 name \in DOMAIN receipts'[run] /\ receipts'[run][name] = receipts[run][name]
           /\ \A run \in DOMAIN plan \ {cursor} : receipts'[run] = receipts[run]
           /\ PlainRecord =>
                 \A run \in DOMAIN plan :
                    \A name \in {"hidden_robustness_stress", "queue_paper", "store_outcomes"} :
                       Done(run, name)' <=> Done(run, name)
<1> DEFINE Goal ==
        /\ DOMAIN receipts' = DOMAIN plan
        /\ \A run \in DOMAIN plan : \A name \in DOMAIN receipts[run] :
              name \in DOMAIN receipts'[run] /\ receipts'[run][name] = receipts[run][name]
        /\ \A run \in DOMAIN plan \ {cursor} : receipts'[run] = receipts[run]
<1>1. ASSUME NEW stage \in StageNames, NEW artifact, Record(stage, artifact)
      PROVE  /\ Goal
             /\ \A run \in DOMAIN plan, name \in StageNames \ {stage} :
                   Done(run, name)' <=> Done(run, name)
  <2>1. /\ cursor \in DOMAIN plan /\ DOMAIN receipts' = DOMAIN plan
        /\ DOMAIN receipts'[cursor] = DOMAIN receipts[cursor] \cup {stage}
        /\ \A name \in DOMAIN receipts[cursor] : receipts'[cursor][name] = receipts[cursor][name]
        /\ \A run \in DOMAIN plan \ {cursor} : receipts'[run] = receipts[run]
    BY <1>1, Recording
  <2> QED
    BY <2>1 DEF Done
<1>2. \A run \in DOMAIN plan : DOMAIN receipts = DOMAIN plan
  BY DEF ResearchInv, Typed
<1>3. CASE receipts' = receipts
  <2>1. Goal
    BY <1>2, <1>3 DEF ResearchInv, Typed
  <2>2. \A run, name : Done(run, name)' <=> Done(run, name)
    BY <1>3 DEF Done
  <2> QED
    BY <2>1, <2>2
<1>4. CASE PlainRecord
  <2>1. PICK stage \in StageNames \ {"hidden_robustness_stress", "queue_paper", "store_outcomes"} :
             \E artifact : Record(stage, artifact)
    BY <1>4 DEF PlainRecord
  <2>2. {"hidden_robustness_stress", "queue_paper", "store_outcomes"} \subseteq StageNames \ {stage}
    BY DEF StageNames, Stages
  <2>3. /\ Goal
        /\ \A run \in DOMAIN plan, name \in StageNames \ {stage} :
              Done(run, name)' <=> Done(run, name)
    BY <2>1, <1>1
  <2> QED
    BY <2>2, <2>3
<1>5. CASE Judge \/ QueuePaper
  <2>1. \E stage \in {"hidden_robustness_stress", "queue_paper"} :
            \E artifact : Record(stage, artifact)
    BY <1>5 DEF Judge, QueuePaper
  <2>2. {"hidden_robustness_stress", "queue_paper"} \subseteq StageNames
    BY DEF StageNames, Stages
  <2>3. Goal
    BY <2>1, <2>2, <1>1
  <2>4. ~PlainRecord
    <3>1. \A stage, artifact : Record(stage, artifact) => Due(cursor) = stage
      BY DEF Record
    <3> QED
      BY <2>1, <3>1 DEF PlainRecord
  <2> QED
    BY <2>3, <2>4
<1>6. CASE StoreOutcomes
  <2>1. /\ Working /\ Due(cursor) = "store_outcomes"
        /\ receipts' = Recorded("store_outcomes", Cardinality(Generated))
    BY <1>6 DEF StoreOutcomes
  <2>2. /\ cursor \in DOMAIN plan /\ ~Done(cursor, "store_outcomes")
    BY <2>1, AfterJudgement
  <2>3. DOMAIN receipts = DOMAIN plan
    BY DEF ResearchInv, Typed
  <2>4. Goal
    BY <2>1, <2>2, <2>3 DEF Recorded, Done
  <2>5. ~PlainRecord
    <3>1. \A stage, artifact : Record(stage, artifact) => Due(cursor) = stage
      BY DEF Record
    <3> QED
      BY <2>1, <3>1 DEF PlainRecord
  <2> QED
    BY <2>4, <2>5
<1> QED
  BY <1>3, <1>4, <1>5, <1>6, StepKinds

\* What a run has judged or queued stays as it is.
LEMMA Kept ==
    ASSUME ResearchInv, Next, NEW run \in DOMAIN plan
    PROVE  /\ Judged(run) =>
                 Judged(run)' /\ VerdictOf(run)' = VerdictOf(run) /\ Passed(run)' = Passed(run)
           /\ Queued(run) =>
                 /\ Queued(run)' /\ Finalists(run)' = Finalists(run)
                 /\ QueueOf(run)' = QueueOf(run)
<1>1. \A name \in DOMAIN receipts[run] :
          name \in DOMAIN receipts'[run] /\ receipts'[run][name] = receipts[run][name]
  BY ReceiptsAdded
<1>2. Judged(run) => Judged(run)' /\ VerdictOf(run)' = VerdictOf(run)
  BY <1>1 DEF Judged, VerdictOf
<1>3. Queued(run) => Queued(run)' /\ Finalists(run)' = Finalists(run)
  BY <1>1 DEF Queued, Finalists
<1>4. Finalists(run)' = Finalists(run) => QueueOf(run)' = QueueOf(run)
  BY DEF QueueOf, InPaper
<1>5. VerdictOf(run)' = VerdictOf(run) => Passed(run)' = Passed(run)
  BY DEF Passed
<1> QED
  BY <1>2, <1>3, <1>4, <1>5

\* Every step keeps every run in order.
LEMMA RunsPreserved ==
    ASSUME ResearchInv, Next
    PROVE  \A run \in DOMAIN plan' : RunOK(run)'
<1>1. plan' = plan
  BY StepKinds
<1>2. ASSUME NEW run \in DOMAIN plan, run = cursor PROVE RunOK(run)'
  <2>1. CASE VerifyData \/ LoadMemory \/ DiscoverRegimes \/ Generate \/ Rerank
    BY <2>1, <1>2, PlainStages
  <2>2. CASE Screen
    BY <2>2, <1>2, ScreenStep
  <2>3. CASE Tune
    BY <2>3, <1>2, TuneStep
  <2>4. CASE Evolve
    BY <2>4, <1>2, EvolveStep
  <2>5. CASE Validate
    BY <2>5, <1>2, ValidateStep
  <2>6. CASE Specialist
    BY <2>6, <1>2, SpecialistStep
  <2>7. CASE Judge
    BY <2>7, <1>2, JudgeStep
  <2>8. CASE AppendExperiment
    BY <2>8, <1>2, AppendStep
  <2>9. CASE StoreOutcomes
    BY <2>9, <1>2, StoreStep
  <2>10. CASE QueuePaper
    BY <2>10, <1>2, QueueStep
  <2>11. CASE UNCHANGED <<receipts, experiments, trials>>
    <3>1. RunOK(run)
      BY DEF ResearchInv
    <3> QED
      BY <3>1, <2>11, <1>1, RunUnchanged
  <2>12. CASE \/ Start \/ Crash \/ FetchSucceeds \/ FetchRetried \/ FetchFails
              \/ StageRaises \/ FinishRun \/ OpenReport \/ WriteReport
    BY <2>11, <2>12 DEF Start, Crash, FetchSucceeds, FetchRetried, FetchFails, StageRaises,
                        FinishRun, OpenReport, WriteReport, durable
  <2> QED
    BY <2>1, <2>2, <2>3, <2>4, <2>5, <2>6, <2>7, <2>8, <2>9, <2>10, <2>12 DEF Next, Step
<1>3. \A run \in DOMAIN plan \ {cursor} : receipts'[run] = receipts[run]
  BY ReceiptsAdded
<1>4. \A run \in DOMAIN plan \ {cursor} : trials'[run] = trials[run]
  <2>1. CASE trials' = trials
    BY <2>1
  <2>2. CASE Judge
    BY <2>2, JudgeFacts
  <2> QED
    BY <2>1, <2>2, StepKinds DEF PlainRecord, StoreOutcomes, QueuePaper
<1>5. \A run \in DOMAIN plan \ {cursor} : experiments'[run] = experiments[run]
  <2>1. CASE experiments' = experiments
    BY <2>1
  <2>2. CASE AppendExperiment
    BY <2>2 DEF AppendExperiment, ResearchInv, Typed
  <2> QED
    BY <2>1, <2>2 DEF Next, Step, Start, Crash, FetchSucceeds, FetchRetried, FetchFails,
        VerifyData, LoadMemory, DiscoverRegimes, Generate, Screen, Tune, Evolve, Validate,
        Specialist, Judge, StoreOutcomes, QueuePaper, Rerank, StageRaises, FinishRun,
        OpenReport, WriteReport, durable, Record
<1>6. \A run \in DOMAIN plan \ {cursor} : RunOK(run)'
  BY <1>1, <1>3, <1>4, <1>5, OtherRuns
<1> QED
  BY <1>1, <1>2, <1>6

\* Every step keeps the types.
LEMMA TypedPreserved ==
    ASSUME ResearchInv, Next
    PROVE  Typed'
<1> USE DEF ResearchInv, Typed
<1>1. plan' = plan /\ plan \in Plans
  BY StepKinds
<1>2. DOMAIN receipts' = DOMAIN plan
  BY ReceiptsAdded
<1>3. DOMAIN trials' = DOMAIN plan
  <2>1. CASE Judge
    BY <2>1 DEF Judge
  <2> QED
    BY <2>1, StepKinds DEF PlainRecord, StoreOutcomes, QueuePaper
<1>4. /\ Len(plan) \in Nat /\ DOMAIN plan = 1..Len(plan)
  BY <1>1, RunTypes
<1>5. ASSUME UNCHANGED <<experiments, volatile>>, job' \in {"running", "writing"} \cup {job}
      PROVE  Typed'
  BY <1>1, <1>2, <1>3, <1>5 DEF volatile
<1>6. FirstRequest \in [file : 1..Files, step : {"checksum", "archive"}, attempt : 1..MaxAttempts]
  BY BoundsAssumption DEF FirstRequest
<1>7. ASSUME NEW status \in {"idle", "done", "failed"}, Ended(status), UNCHANGED experiments
      PROVE  Typed'
  BY <1>1, <1>2, <1>3, <1>4, <1>6, <1>7 DEF Ended
<1>8. CASE Start
  BY <1>5, <1>8 DEF Start, durable
<1>9. CASE Crash \/ FetchFails \/ StageRaises \/ WriteReport
  BY <1>7, <1>9 DEF Crash, FetchFails, StageRaises, WriteReport, durable
<1>10. CASE FetchSucceeds
  <2>1. fetch' \in [file : 1..Files, step : {"checksum", "archive"}, attempt : 1..MaxAttempts]
    <3>1. /\ fetch.file \in 1..Files /\ fetch.attempt \in 1..MaxAttempts
          /\ fetch \in [file : 1..Files, step : {"checksum", "archive"},
                        attempt : 1..MaxAttempts]
      OBVIOUS
    <3>2. CASE fetch' = [fetch EXCEPT !.step = "archive", !.attempt = 1]
      <4>1. 1 \in 1..MaxAttempts
        BY BoundsAssumption
      <4> QED
        BY <3>1, <3>2, <4>1
    <3>3. CASE fetch.file < Files /\ fetch' = [FirstRequest EXCEPT !.file = fetch.file + 1]
      BY <3>1, <3>3, BoundsAssumption DEF FirstRequest
    <3>4. CASE fetch' = FirstRequest
      BY <3>4, <1>6
    <3> QED
      BY <1>10, <3>2, <3>3, <3>4 DEF FetchSucceeds
  <2> QED
    BY <2>1, <1>1, <1>2, <1>3, <1>10 DEF FetchSucceeds, durable
<1>11. CASE FetchRetried
  <2>1. fetch' \in [file : 1..Files, step : {"checksum", "archive"}, attempt : 1..MaxAttempts]
    BY <1>11, BoundsAssumption DEF FetchRetried, MayRetry, NextAttempt
  <2> QED
    BY <2>1, <1>1, <1>2, <1>3, <1>11 DEF FetchRetried, durable
<1>12. CASE PlainRecord \/ Judge \/ QueuePaper
  <2>1. \E stage, artifact : Record(stage, artifact)
    BY <1>12 DEF PlainRecord, Judge, QueuePaper
  <2> QED
    BY <2>1, <1>5 DEF Record
<1>13. CASE StoreOutcomes
  BY <1>1, <1>2, <1>3, <1>13 DEF StoreOutcomes
<1>14. CASE AppendExperiment
  <2>1. CASE Ended("failed") /\ UNCHANGED experiments
    BY <2>1, <1>7
  <2>2. CASE ~Ended("failed")
    BY <2>2, <1>1, <1>2, <1>3, <1>14 DEF AppendExperiment
  <2> QED
    BY <2>1, <2>2, <1>1, <1>2, <1>3, <1>14 DEF AppendExperiment
<1>15. CASE FinishRun
  <2>1. cursor \in DOMAIN plan /\ UNCHANGED experiments
    BY <1>15 DEF FinishRun, Working, durable
  <2>2. CASE Ended("failed")
    BY <2>1, <2>2, <1>7
  <2>3. CASE cursor' = cursor + 1 /\ UNCHANGED <<job, fetch>>
    BY <2>1, <2>3, <1>1, <1>2, <1>3, <1>4
  <2> QED
    BY <2>2, <2>3, <1>15 DEF FinishRun
<1>16. CASE OpenReport
  BY <1>5, <1>16 DEF OpenReport
<1> HIDE DEF ResearchInv, Typed
<1> QED
  BY <1>8, <1>9, <1>10, <1>11, <1>12, <1>13, <1>14, <1>15, <1>16, PlainRecords
     DEF Next, Step

\* The queue of a run names genomes of its slots.
LEMMA QueueTypes ==
    ASSUME ResearchInv, NEW run \in DOMAIN plan, Queued(run)
    PROVE  /\ InPaper(run) \subseteq Passed(run) /\ Judged(run)
           /\ DOMAIN VerdictOf(run) = Gen(run)
           /\ \A slot \in InPaper(run) :
                 Finalists(run)[slot].genome = VerdictOf(run)[slot].genome
           /\ \A slot \in Gen(run) : VerdictOf(run)[slot].genome \in Genomes
           /\ QueueOf(run) \in SUBSET Genomes
<1>1. RunOK(run) /\ Prefix(run)
  BY DEF ResearchInv, RunOK
<1>2. Judged(run)
  BY <1>1, DoneInOrder DEF Queued, Judged, Done
<1>3. /\ VerdictOf(run) \in [Gen(run) -> VerdictStates]
      /\ \A slot \in Gen(run) :
            VerdictOf(run)[slot].qualified <=> VerdictOf(run)[slot].state = "HIDDEN_PASS"
  BY <1>1, <1>2 DEF RunOK, JudgedOK
<1>4. /\ InPaper(run) \subseteq Gen(run)
      /\ \A slot \in Gen(run) : Finalists(run)[slot].genome = VerdictOf(run)[slot].genome
      /\ \A slot \in InPaper(run) : VerdictOf(run)[slot].qualified
  BY <1>1 DEF RunOK, QueueOK, InPaper
<1>5. \A slot \in Gen(run) : VerdictOf(run)[slot].genome \in Genomes
  BY <1>3 DEF VerdictStates
<1>6. InPaper(run) \subseteq Passed(run)
  BY <1>3, <1>4 DEF Passed
<1>7. QueueOf(run) \in SUBSET Genomes
  BY <1>4, <1>5 DEF QueueOf
<1> QED
  BY <1>2, <1>3, <1>4, <1>5, <1>6, <1>7

\* Every step keeps the memory of the job in agreement with its tables.
LEMMA MemoryPreserved ==
    ASSUME ResearchInv, Next
    PROVE  MemoryOK'
<1>1. /\ plan' = plan /\ Len(plan) \in Nat /\ DOMAIN plan = 1..Len(plan)
      /\ cursor \in 1..(Len(plan) + 1)
  BY StepKinds, RunTypes DEF ResearchInv, Typed
<1>2. \A run \in 1..(cursor - 1) :
         run \in DOMAIN plan /\ Queued(run)' /\ payloads[run] = QueueOf(run)'
  <2>1. ASSUME NEW run \in 1..(cursor - 1)
        PROVE  run \in DOMAIN plan /\ Queued(run) /\ payloads[run] = QueueOf(run)
    BY <1>1 DEF ResearchInv, MemoryOK
  <2> QED
    BY <2>1, Kept
<1>3. ASSUME NEW status \in {"idle", "done", "failed"}, Ended(status)
      PROVE  MemoryOK'
  BY <1>3 DEF MemoryOK, Ended
<1>4. /\ appended \in Nat /\ DOMAIN payloads = 1..(cursor - 1)
      /\ payloads \in Seq(SUBSET Genomes)
      /\ appended > 0 =>
            /\ job = "running" /\ cursor \in DOMAIN plan
            /\ Judged(cursor) /\ ~Done(cursor, "store_outcomes")
            /\ 1..appended \subseteq DOMAIN experiments[cursor]
  BY DEF ResearchInv, MemoryOK
<1>5. ASSUME UNCHANGED <<cursor, payloads>>, job' = "writing" => cursor = Len(plan) + 1,
             \/ appended' = 0
             \/ /\ appended' \in Nat /\ job' = "running" /\ cursor \in DOMAIN plan
                /\ Judged(cursor)' /\ ~Done(cursor, "store_outcomes")'
                /\ 1..appended' \subseteq DOMAIN experiments'[cursor]
      PROVE  MemoryOK'
  <2>1. \A run \in 1..(cursor' - 1) : Queued(run)' /\ payloads'[run] = QueueOf(run)'
    BY <1>2, <1>5
  <2>2. /\ DOMAIN payloads' = 1..(cursor' - 1) /\ payloads' \in Seq(SUBSET Genomes)'
        /\ job' = "writing" => cursor' = Len(plan') + 1
    BY <1>1, <1>4, <1>5 DEF Genomes, Slots
  <2>3. appended' \in Nat /\ (appended' > 0 =>
              /\ job' = "running" /\ cursor' \in DOMAIN plan'
              /\ Judged(cursor)' /\ ~Done(cursor, "store_outcomes")'
              /\ 1..appended' \subseteq DOMAIN experiments'[cursor'])
    BY <1>1, <1>5
  <2> QED
    BY <2>1, <2>2, <2>3 DEF MemoryOK
<1>6. job = "writing" => cursor = Len(plan) + 1
  BY DEF ResearchInv, MemoryOK
<1>7. CASE Start
  <2>1. appended = 0
    BY <1>4, <1>7 DEF Start
  <2> QED
    BY <1>5, <1>7, <2>1 DEF Start, volatile
<1>8. CASE Crash \/ FetchFails \/ StageRaises \/ WriteReport
  BY <1>3, <1>8 DEF Crash, FetchFails, StageRaises, WriteReport
<1>9. CASE FetchSucceeds \/ FetchRetried
  <2>1. UNCHANGED <<receipts, experiments, job, cursor, payloads, appended>> /\ job = "running"
    BY <1>9 DEF FetchSucceeds, FetchRetried, Fetching, durable
  <2> QED
    BY <2>1, <1>4, <1>5 DEF Judged, Done
<1>10. CASE PlainRecord
  <2>1. \E stage, artifact : Record(stage, artifact)
    BY <1>10 DEF PlainRecord
  <2>2. UNCHANGED <<experiments, job, cursor, payloads, appended>> /\ job = "running"
    BY <2>1 DEF Record, volatile, Working
  <2>3. cursor \in DOMAIN plan /\ Judged(cursor) /\ ~Done(cursor, "store_outcomes") =>
            Judged(cursor)' /\ ~Done(cursor, "store_outcomes")'
    <3>1. \A run \in DOMAIN plan : /\ Done(run, "hidden_robustness_stress") => Judged(run)'
                                   /\ ~Done(run, "store_outcomes")
                                         => ~Done(run, "store_outcomes")'
      BY <1>10, ReceiptsAdded DEF Done, Judged
    <3> QED
      BY <3>1, <2>2 DEF Judged, Done
  <2> QED
    BY <2>2, <2>3, <1>4, <1>5
<1>11. CASE Judge \/ QueuePaper
  <2>1. PICK stage \in {"hidden_robustness_stress", "queue_paper"} :
            /\ \E artifact : Record(stage, artifact)
            /\ Due(cursor) = stage /\ cursor \in DOMAIN plan
    BY <1>11 DEF Judge, QueuePaper, Working
  <2>2. UNCHANGED <<experiments, job, cursor, payloads, appended>> /\ job = "running"
    BY <2>1 DEF Record, volatile, Working
  <2>3. Prefix(cursor)
    BY <2>1 DEF ResearchInv, RunOK
  <2>4. stage \in StageNames
    BY DEF StageNames, Stages
  <2>5. Judged(cursor) => Done(cursor, "store_outcomes")
    BY <2>1, <2>3, <2>4, DueAfter DEF Judged, Done
  <2>6. appended = 0
    BY <2>5, <1>4
  <2> QED
    BY <2>2, <2>6, <1>5
<1>12. CASE StoreOutcomes
  BY <1>5, <1>12 DEF StoreOutcomes, Working
<1>13. CASE AppendExperiment
  <2>1. CASE Ended("failed")
    BY <2>1, <1>3
  <2>2. CASE ~Ended("failed")
    <3> DEFINE slot == appended + 1
    <3>1. /\ cursor \in DOMAIN plan /\ job = "running" /\ UNCHANGED <<job, cursor, payloads>>
          /\ UNCHANGED receipts /\ appended' = slot
          /\ experiments' = [experiments EXCEPT ![cursor] =
                [s \in DOMAIN @ \cup {slot} |-> IF s = slot THEN Verdicts[slot] ELSE @[s]]]
      BY <2>2, <1>13 DEF AppendExperiment, Working
    <3>2. DOMAIN experiments'[cursor] = DOMAIN experiments[cursor] \cup {slot}
      <4>1. DOMAIN experiments = DOMAIN plan
        BY DEF ResearchInv, Typed
      <4> QED
        BY <3>1, <4>1
    <3>3. 1..appended' \subseteq DOMAIN experiments'[cursor]
      <4>1. 1..slot = 1..appended \cup {slot}
        BY <1>4
      <4> QED
        BY <4>1, <3>1, <3>2, <1>4
    <3>4. Judged(cursor) /\ ~Done(cursor, "store_outcomes")
      BY <1>13, AfterJudgement DEF AppendExperiment, Judged, Done
    <3>5. Judged(cursor)' /\ ~Done(cursor, "store_outcomes")'
      BY <3>1, <3>4 DEF Judged, Done
    <3>6. appended' \in Nat /\ job' = "running"
      BY <3>1, <1>4
    <3> QED
      BY <3>1, <3>3, <3>5, <3>6, <1>5
  <2> QED
    BY <2>1, <2>2
<1>14. CASE FinishRun
  <2>1. CASE Ended("failed")
    BY <2>1, <1>3
  <2>2. CASE ~Ended("failed")
    <3>1. /\ cursor \in DOMAIN plan /\ Due(cursor) = "complete" /\ job = "running"
          /\ payloads' = Append(payloads, QueueOf(cursor)) /\ cursor' = cursor + 1
          /\ UNCHANGED <<job, appended, receipts>>
      BY <2>2, <1>14 DEF FinishRun, Working, QueueOf, durable
    <3>2. Queued(cursor) /\ Done(cursor, "store_outcomes")
      <4>1. Prefix(cursor)
        BY <3>1 DEF ResearchInv, RunOK
      <4> QED
        BY <4>1, <3>1, CompleteIsQueued, DoneInOrder DEF Queued, Done
    <3>3. appended = 0
      BY <3>2, <1>4
    <3>4. QueueOf(cursor) \in SUBSET Genomes
      BY <3>1, <3>2, QueueTypes
    <3>5. PICK n \in Nat : n = cursor - 1 /\ Len(payloads) = n
      <4>1. Len(payloads) \in Nat /\ DOMAIN payloads = 1..Len(payloads)
        BY <1>4
      <4>2. cursor - 1 \in Nat /\ 1..Len(payloads) = 1..(cursor - 1)
        BY <4>1, <1>1, <1>4
      <4>3. \A m, n \in Nat : 1..m = 1..n => m = n
        <5>1. ASSUME NEW m \in Nat, NEW n \in Nat, 1..m = 1..n, m < n PROVE FALSE
          <6>1. n \in 1..n /\ n \notin 1..m
            BY <5>1
          <6> QED
            BY <5>1, <6>1
        <5> QED
          BY <5>1
      <4> QED
        BY <4>1, <4>2, <4>3
    <3>6. /\ payloads' \in Seq(SUBSET Genomes) /\ DOMAIN payloads' = 1..(cursor' - 1)
          /\ payloads'[cursor] = QueueOf(cursor)
          /\ \A run \in 1..(cursor - 1) : payloads'[run] = payloads[run]
      BY <3>1, <3>4, <3>5, <1>1, <1>4
    <3>7. PICK c : c = cursor
      OBVIOUS
    <3>8. Queued(c)' /\ QueueOf(c)' = QueueOf(c)
      BY <3>1, <3>2, <3>7, Kept
    <3>9. \A run \in 1..(cursor' - 1) : Queued(run)' /\ payloads'[run] = QueueOf(run)'
      <4> SUFFICES ASSUME NEW run \in 1..cursor
                   PROVE  Queued(run)' /\ payloads'[run] = QueueOf(run)'
        <5>1. cursor' - 1 = cursor
          BY <3>1, <1>1
        <5> QED
          BY <5>1
      <4>1. CASE run = c
        BY <4>1, <3>6, <3>7, <3>8
      <4>2. CASE run # c
        <5>1. run \in 1..(cursor - 1)
          BY <4>2, <3>7, <1>1
        <5> QED
          BY <5>1, <3>6, <1>2
      <4> QED
        BY <4>1, <4>2
    <3>10. payloads' \in Seq(SUBSET Genomes)' /\ appended' = 0 /\ job' # "writing"
      BY <3>1, <3>3, <3>6 DEF Genomes, Slots
    <3> QED
      BY <3>6, <3>9, <3>10 DEF MemoryOK
  <2> QED
    BY <2>1, <2>2
<1>15. CASE OpenReport
  <2>1. cursor = Len(plan) + 1 /\ appended = 0
    BY <1>1, <1>4, <1>15 DEF OpenReport
  <2> QED
    BY <2>1, <1>5, <1>15 DEF OpenReport, volatile
<1> QED
  BY <1>7, <1>8, <1>9, <1>10, <1>11, <1>12, <1>13, <1>14, <1>15, PlainRecords
     DEF Next, Step

\* In the end the payloads are the queues of all runs.
LEMMA AllQueued ==
    ASSUME ResearchInv, cursor = Len(plan) + 1
    PROVE  /\ \A run \in DOMAIN plan : Queued(run)
           /\ payloads = [run \in DOMAIN plan |-> QueueOf(run)]
<1>1. DOMAIN plan = 1..(cursor - 1) /\ DOMAIN payloads = 1..(cursor - 1)
  BY RunTypes DEF ResearchInv, Typed, MemoryOK
<1>2. \A run \in DOMAIN plan : Queued(run) /\ payloads[run] = QueueOf(run)
  BY <1>1 DEF ResearchInv, MemoryOK
<1>3. payloads = [run \in DOMAIN payloads |-> payloads[run]]
  <2>1. payloads \in Seq(SUBSET Genomes)
    BY DEF ResearchInv, MemoryOK
  <2> QED
    BY <2>1
<1> QED
  BY <1>1, <1>2, <1>3

\* Every step keeps the report true to the queues.
LEMMA ReportPreserved ==
    ASSUME ResearchInv, Next
    PROVE  ReportOK'
<1>1. plan' = plan
  BY StepKinds
<1>2. \A run \in DOMAIN plan : Queued(run) => Queued(run)' /\ QueueOf(run)' = QueueOf(run)
  BY Kept
<1>3. CASE report' = <<>>
  BY <1>3 DEF ReportOK
<1>4. CASE report' = report
  <2>1. CASE report = <<>>
    BY <2>1, <1>4 DEF ReportOK
  <2>2. CASE report # <<>>
    <3>1. /\ \A run \in DOMAIN plan : Queued(run)
          /\ report = <<[run \in DOMAIN plan |-> QueueOf(run)]>>
      BY <2>2 DEF ResearchInv, ReportOK
    <3>2. [run \in DOMAIN plan |-> QueueOf(run)]' = [run \in DOMAIN plan |-> QueueOf(run)]
      BY <3>1, <1>1, <1>2
    <3> QED
      BY <3>1, <3>2, <1>1, <1>2, <1>4 DEF ReportOK
  <2> QED
    BY <2>1, <2>2
<1>5. CASE WriteReport
  <2>1. cursor = Len(plan) + 1 /\ report' = <<payloads>>
    BY <1>5 DEF WriteReport, ResearchInv, MemoryOK
  <2>2. /\ \A run \in DOMAIN plan : Queued(run)
        /\ payloads = [run \in DOMAIN plan |-> QueueOf(run)]
    BY <2>1, AllQueued
  <2>3. [run \in DOMAIN plan |-> QueueOf(run)]' = [run \in DOMAIN plan |-> QueueOf(run)]
    BY <2>2, <1>1, <1>2
  <2>4. \A run \in DOMAIN plan' : Queued(run)'
    BY <2>2, <1>1, <1>2
  <2>5. report' = <<[run \in DOMAIN plan |-> QueueOf(run)]>>'
    BY <2>1, <2>2, <2>3
  <2> QED
    BY <2>4, <2>5 DEF ReportOK
<1>6. report' = report \/ report' = <<>> \/ WriteReport
  <2>1. CASE \E stage, artifact : Record(stage, artifact)
    BY <2>1 DEF Record
  <2> QED
    BY <2>1, PlainRecords DEF Next, Step, PlainRecord, Start, Crash, FetchSucceeds,
        FetchRetried, FetchFails, Judge, AppendExperiment, StoreOutcomes, QueuePaper,
        StageRaises, FinishRun, OpenReport, durable
<1> QED
  BY <1>3, <1>4, <1>5, <1>6

\* The invariant holds at first.
LEMMA ResearchInit == Init => ResearchInv
<1> SUFFICES ASSUME Init PROVE ResearchInv
  OBVIOUS
<1>1. /\ Len(plan) \in Nat /\ DOMAIN plan = 1..Len(plan)
  BY RunTypes DEF Init
<1>2. FirstRequest \in [file : 1..Files, step : {"checksum", "archive"}, attempt : 1..MaxAttempts]
  BY BoundsAssumption DEF FirstRequest
<1>3. Typed
  BY <1>1, <1>2 DEF Init, Typed
<1>4. MemoryOK
  BY <1>1 DEF Init, MemoryOK
<1>5. ReportOK
  BY DEF Init, ReportOK
<1>6. ASSUME NEW run \in DOMAIN plan PROVE RunOK(run)
  <2>1. receipts[run] = <<>> /\ experiments[run] = <<>> /\ DOMAIN receipts[run] = {}
    BY DEF Init
  <2>2. Prefix(run)
    <3>1. 0 \in 0..Len(Stages) /\ {Stages[i] : i \in 1..0} = {}
      BY StagesDistinct
    <3> QED
      BY <2>1, <3>1 DEF Prefix
  <2>3. \A stage : ~Done(run, stage)
    BY <2>1 DEF Done
  <2>4. ExperimentsOK(run)
    BY <2>1 DEF ExperimentsOK
  <2> QED
    BY <2>2, <2>3, <2>4 DEF RunOK, GenerationOK, ShapeOK, NarrowsOK, Narrows, BudgetOK,
        SpecialistOK, JudgedOK, StoredOK, QueueOK, Judged, Queued, Done
<1> QED
  BY <1>3, <1>4, <1>5, <1>6 DEF ResearchInv

\* Every step keeps the invariant.
LEMMA ResearchStep == ResearchInv /\ [Next]_vars => ResearchInv'
<1> SUFFICES ASSUME ResearchInv, [Next]_vars PROVE ResearchInv'
  OBVIOUS
<1>1. CASE Next
  BY <1>1, TypedPreserved, RunsPreserved, MemoryPreserved, ReportPreserved DEF ResearchInv
<1>2. CASE UNCHANGED vars
  <2>1. /\ UNCHANGED <<plan, receipts, experiments, trials, report>>
        /\ UNCHANGED <<job, cursor, loaded, fetch, appended, payloads, starts>>
    BY <1>2 DEF vars, durable, volatile
  <2>2. Typed'
    BY <2>1 DEF ResearchInv, Typed
  <2>3. \A run \in DOMAIN plan' : RunOK(run)'
    BY <2>1, RunUnchanged DEF ResearchInv
  <2>4. MemoryOK'
    BY <2>1 DEF ResearchInv, MemoryOK, Judged, Done, Queued, QueueOf, InPaper, Finalists,
               Genomes, Slots
  <2>5. ReportOK'
    BY <2>1 DEF ResearchInv, ReportOK, Queued, QueueOf, InPaper, Finalists
  <2> QED
    BY <2>2, <2>3, <2>4, <2>5 DEF ResearchInv
<1> QED
  BY <1>1, <1>2

-----------------------------------------------------------------------------
(* The theorems                                                            *)

\* Receipts are always a prefix of the stages, whatever is interrupted, and a
\* judgement is about the candidates generated.
THEOREM ResearchTyped == Spec => []ResearchTypeOK
<1>1. ResearchInv => ResearchTypeOK
  <2> SUFFICES ASSUME ResearchInv PROVE ResearchTypeOK
    OBVIOUS
  <2>1. ASSUME NEW run \in DOMAIN plan
        PROVE  /\ \E n \in 0..Len(Stages) : DOMAIN receipts[run] = {Stages[i] : i \in 1..n}
               /\ Judged(run) =>
                     /\ DOMAIN VerdictOf(run) = receipts[run]["generation_mutation"]
                     /\ \A slot \in DOMAIN VerdictOf(run) :
                           /\ VerdictOf(run)[slot].genome \in Genomes
                           /\ VerdictOf(run)[slot].genome.slot = slot
    <3>1. RunOK(run) /\ Prefix(run)
      BY DEF ResearchInv, RunOK
    <3>2. CASE Judged(run)
      <4>1. Done(run, "specialist_tests")
        BY <3>1, <3>2, DoneInOrder DEF Judged, Done
      <4>2. Shape(run, "specialist_tests")
        BY <3>1, <4>1 DEF RunOK, ShapeOK, SearchStages
      <4>3. /\ DOMAIN VerdictOf(run) = Gen(run)
            /\ \A slot \in Gen(run) :
                  VerdictOf(run)[slot].genome = Out(run, "specialist_tests")[slot].genome
        BY <3>1, <3>2 DEF RunOK, JudgedOK
      <4> QED
        BY <3>1, <4>2, <4>3 DEF Shape, Gen, Prefix
    <3> QED
      BY <3>1, <3>2 DEF Prefix
  <2> QED
    BY <2>1 DEF ResearchInv, Typed, ResearchTypeOK
<1> QED
  BY <1>1, ResearchInit, ResearchStep, PTL DEF Spec

\* No crash, failure or new start lets a candidate pass that did not come
\* through every stage, within the budget and through a trial that meets every
\* threshold of the scheduled policies.
THEOREM HiddenPassIsEarned == Spec => []HiddenPassEarned
<1>1. ResearchInv => HiddenPassEarned
  <2> SUFFICES ASSUME ResearchInv, NEW run \in DOMAIN plan, Judged(run)
               PROVE  /\ Cardinality({slot \in DOMAIN VerdictOf(run) :
                            receipts[run]["nautilus_validation"][slot].passed})
                                <= plan[run].budget
                      /\ \A slot \in Passed(run) :
                            /\ \A stage \in SearchStages : receipts[run][stage][slot].passed
                            /\ Withstood(trials[run][slot])
                            /\ plan[run].transfer
                            /\ plan[run].family \in MultiLegFamilies =>
                                  \E r \in receipts[run]["specialist_tests"][slot].records :
                                      /\ r.type = "multi_leg_execution_stress"
                                      /\ r.passed
                                      /\ r.genome = VerdictOf(run)[slot].genome
    BY DEF HiddenPassEarned, SearchStages
  <2>1. RunOK(run) /\ Prefix(run)
    BY DEF ResearchInv, RunOK
  <2>2. /\ Done(run, "specialist_tests") /\ Done(run, "nautilus_validation")
        /\ Done(run, "pymoo_evolution") /\ Done(run, "optuna_tune")
    BY <2>1, DoneInOrder DEF Judged, Done
  <2>3. DOMAIN VerdictOf(run) = Gen(run)
    BY <2>1 DEF RunOK, JudgedOK
  <2>4. Cardinality({slot \in DOMAIN VerdictOf(run) :
            receipts[run]["nautilus_validation"][slot].passed}) <= plan[run].budget
    BY <2>1, <2>2, <2>3 DEF RunOK, BudgetOK, Out
  <2>5. ASSUME NEW slot \in Passed(run)
        PROVE  /\ \A stage \in SearchStages : Out(run, stage)[slot].passed
               /\ Withstood(trials[run][slot])
               /\ plan[run].transfer
               /\ plan[run].family \in MultiLegFamilies =>
                     \E r \in Out(run, "specialist_tests")[slot].records :
                         /\ r.type = "multi_leg_execution_stress"
                         /\ r.passed
                         /\ r.genome = VerdictOf(run)[slot].genome
    <3>1. /\ slot \in Gen(run) /\ VerdictOf(run)[slot].qualified
          /\ VerdictOf(run)[slot].genome = Out(run, "specialist_tests")[slot].genome
          /\ Out(run, "specialist_tests")[slot].passed
          /\ Withstood(trials[run][slot])
          /\ plan[run].transfer
      BY <2>1, <2>3 DEF RunOK, JudgedOK, Passed
    <3>2. /\ Out(run, "nautilus_validation")[slot].passed
          /\ Out(run, "pymoo_evolution")[slot].passed
          /\ Out(run, "optuna_tune")[slot].passed
          /\ Out(run, "vectorbt_screen")[slot].passed
      BY <2>1, <2>2, <3>1 DEF RunOK, NarrowsOK, Narrows
    <3>3. CASE plan[run].family \in MultiLegFamilies
      <4>1. "multi_leg_execution_stress" \in ExtraEvidence(plan[run].family, "ROBUST")
        BY <3>3 DEF ExtraEvidence
      <4>2. "multi_leg_execution_stress"
                \in ValidatedTypes(Out(run, "specialist_tests")[slot].genome,
                                   Out(run, "specialist_tests")[slot].records)
        BY <2>1, <2>2, <3>1, <4>1 DEF RunOK, SpecialistOK
      <4>3. \E r \in Out(run, "specialist_tests")[slot].records :
               /\ r.type = "multi_leg_execution_stress" /\ r.passed
               /\ r.genome = Out(run, "specialist_tests")[slot].genome
        BY <4>2 DEF ValidatedTypes, Accepted
      <4> QED
        BY <4>3, <3>1, <3>2 DEF SearchStages
    <3> QED
      BY <3>1, <3>2, <3>3 DEF SearchStages
  <2> QED
    BY <2>4, <2>5 DEF Out
<1> QED
  BY <1>1, ResearchInit, ResearchStep, PTL DEF Spec

\* The queue of a run keeps to its cap and names only candidates that passed,
\* are stored as passed, and are not outnumbered by better ones.
THEOREM QueueIsEarned == Spec => []QueueEarned
<1>1. ResearchInv => QueueEarned
  <2> SUFFICES ASSUME ResearchInv, NEW run \in DOMAIN plan, Queued(run)
               PROVE  /\ Cardinality(InPaper(run)) <= plan[run].cap
                      /\ \A slot \in InPaper(run) :
                            /\ slot \in Passed(run)
                            /\ slot \in DOMAIN experiments[run]
                            /\ experiments[run][slot].state = "HIDDEN_PASS"
                            /\ experiments[run][slot].genome = Finalists(run)[slot].genome
                            /\ Cardinality({other \in Passed(run) :
                                  VerdictOf(run)[other].score > VerdictOf(run)[slot].score})
                                      < plan[run].cap
    BY DEF QueueEarned
  <2>1. RunOK(run) /\ Prefix(run)
    BY DEF ResearchInv, RunOK
  <2>2. Done(run, "store_outcomes")
    BY <2>1, DoneInOrder DEF Queued, Done
  <2>3. /\ InPaper(run) \subseteq Passed(run) /\ DOMAIN VerdictOf(run) = Gen(run)
        /\ \A slot \in InPaper(run) :
              Finalists(run)[slot].genome = VerdictOf(run)[slot].genome
    BY QueueTypes
  <2>4. DOMAIN experiments[run] = Gen(run)
    BY <2>1, <2>2 DEF RunOK, StoredOK
  <2>5. \A slot \in Gen(run) : experiments[run][slot] = VerdictOf(run)[slot]
    BY <2>1, <2>4 DEF RunOK, ExperimentsOK
  <2>6. /\ Cardinality(InPaper(run)) <= plan[run].cap
        /\ \A slot \in InPaper(run) : Cardinality({other \in Passed(run) :
              VerdictOf(run)[other].score > VerdictOf(run)[slot].score}) < plan[run].cap
    BY <2>1 DEF RunOK, QueueOK
  <2> QED
    BY <2>3, <2>4, <2>5, <2>6 DEF Passed
<1> QED
  BY <1>1, ResearchInit, ResearchStep, PTL DEF Spec

\* Once outcomes count as stored, memory holds every verdict of the run, and a
\* report names the queue of every run.
THEOREM OutcomesAreStored == Spec => []OutcomesStored
<1>1. ResearchInv => OutcomesStored
  <2> SUFFICES ASSUME ResearchInv PROVE OutcomesStored
    OBVIOUS
  <2>1. ASSUME NEW run \in DOMAIN plan, "store_outcomes" \in DOMAIN receipts[run]
        PROVE  /\ experiments[run] = VerdictOf(run)
               /\ receipts[run]["store_outcomes"] = Cardinality(DOMAIN experiments[run])
    <3>1. RunOK(run) /\ Prefix(run) /\ Done(run, "store_outcomes")
      BY <2>1 DEF ResearchInv, RunOK, Done
    <3>2. Judged(run)
      BY <3>1, DoneInOrder DEF Judged, Done
    <3>3. /\ VerdictOf(run) \in [Gen(run) -> VerdictStates]
          /\ DOMAIN experiments[run] = Gen(run)
          /\ experiments[run] \in [DOMAIN experiments[run] -> VerdictStates]
          /\ \A slot \in Gen(run) : experiments[run][slot] = VerdictOf(run)[slot]
      BY <3>1, <3>2 DEF RunOK, JudgedOK, StoredOK, ExperimentsOK
    <3>4. experiments[run] = VerdictOf(run)
      <4> HIDE DEF VerdictStates
      <4> QED
        BY <3>3
    <3> QED
      BY <3>1, <3>3, <3>4 DEF RunOK, StoredOK, Out
  <2>2. report # <<>> => report[1] = [run \in DOMAIN plan |-> QueueOf(run)]
    BY DEF ResearchInv, ReportOK
  <2> QED
    BY <2>1, <2>2 DEF OutcomesStored
<1> QED
  BY <1>1, ResearchInit, ResearchStep, PTL DEF Spec

-----------------------------------------------------------------------------
(* The job implements the ledger                                           *)

\* The refinement mapping of ImplementsLedger.
PassedMap ==
    [run \in RunIds |->
        IF run \in DOMAIN plan /\ Judged(run)
        THEN <<{VerdictOf(run)[slot].genome : slot \in Passed(run)}>> ELSE <<>>]

QueuedMap ==
    [run \in RunIds |->
        IF run \in DOMAIN plan /\ Queued(run) THEN <<QueueOf(run)>> ELSE <<>>]

\* The runs of a plan are runs of the ledger.
LEMMA RunIsId == ASSUME plan \in Plans PROVE DOMAIN plan \subseteq RunIds
<1>1. DOMAIN plan \in {DOMAIN schedule : schedule \in Plans}
  OBVIOUS
<1> QED
  BY <1>1 DEF RunIds

\* A step judges, queues and reports nothing, unless it is one of four actions.
LEMMA PassedKept ==
    ASSUME ResearchInv, Next, \A run \in DOMAIN plan : Judged(run)' => Judged(run)
    PROVE  PassedMap' = PassedMap
<1>1. plan' = plan /\ RunIds' = RunIds
  BY StepKinds DEF RunIds
<1>2. ASSUME NEW run \in DOMAIN plan
      PROVE  /\ Judged(run)' <=> Judged(run)
             /\ Judged(run) => VerdictOf(run)' = VerdictOf(run) /\ Passed(run)' = Passed(run)
  BY Kept
<1> QED
  BY <1>1, <1>2 DEF PassedMap

\* A step that queues no run leaves the queues of the ledger alone.
LEMMA QueuedKept ==
    ASSUME ResearchInv, Next, \A run \in DOMAIN plan : Queued(run)' => Queued(run)
    PROVE  QueuedMap' = QueuedMap
<1>1. plan' = plan /\ RunIds' = RunIds
  BY StepKinds DEF RunIds
<1>2. ASSUME NEW run \in DOMAIN plan
      PROVE  /\ Queued(run)' <=> Queued(run)
             /\ Queued(run) => QueueOf(run)' = QueueOf(run)
  BY Kept
<1> QED
  BY <1>1, <1>2 DEF QueuedMap

\* The hidden judgement is the ledger's verdict.
LEMMA LedgerJudges ==
    ASSUME ResearchInv, Judge
    PROVE  \E run \in RunIds :
               /\ PassedMap[run] = <<>>
               /\ \E good \in SUBSET Genomes : PassedMap' = [PassedMap EXCEPT ![run] = <<good>>]
               /\ UNCHANGED <<QueuedMap, report>>
<1>0. Next
  BY DEF Next, Step
<1>1. PICK run : run = cursor
  OBVIOUS
<1>2. /\ run \in DOMAIN plan /\ RunOK(run) /\ Due(run) = "hidden_robustness_stress"
      /\ VerdictOf(run)' \in [Gen(run) -> VerdictStates]
      /\ \E artifact : Record("hidden_robustness_stress", artifact)
  BY <1>1, JudgeFacts
<1>3. "hidden_robustness_stress" \in StageNames
  BY DEF StageNames, Stages
<1>4. /\ UNCHANGED <<plan, report>> /\ ~Judged(run) /\ Judged(run)'
      /\ Queued(run)' => Queued(run)
      /\ \A other \in DOMAIN plan \ {run} : receipts'[other] = receipts[other]
  BY <1>1, <1>2, <1>3, Recording DEF Done, Judged, Queued
<1> DEFINE good == {VerdictOf(run)'[slot].genome : slot \in Passed(run)'}
<1>5. good \in SUBSET Genomes
  <2>1. Passed(run)' \subseteq Gen(run)
    BY <1>2 DEF Passed
  <2>2. \A slot \in Gen(run) : VerdictOf(run)'[slot].genome \in Genomes
    BY <1>2 DEF VerdictStates
  <2> QED
    BY <2>1, <2>2
<1>6. run \in RunIds /\ RunIds' = RunIds
  BY <1>2, RunIsId DEF ResearchInv, Typed, RunIds
<1>7. PassedMap[run] = <<>>
  BY <1>4, <1>6 DEF PassedMap
<1>8. PassedMap' = [PassedMap EXCEPT ![run] = <<good>>]
  <2>1. PassedMap'[run] = <<good>> /\ DOMAIN PassedMap' = RunIds
    BY <1>2, <1>4, <1>6 DEF PassedMap
  <2>2. ASSUME NEW other \in RunIds \ {run} PROVE PassedMap'[other] = PassedMap[other]
    <3>1. CASE other \in DOMAIN plan
      <4>1. /\ Judged(other)' <=> Judged(other)
            /\ VerdictOf(other)' = VerdictOf(other) /\ Passed(other)' = Passed(other)
        BY <3>1, <1>4 DEF Judged, VerdictOf, Passed
      <4> QED
        BY <4>1, <1>4, <1>6 DEF PassedMap
    <3>2. CASE other \notin DOMAIN plan
      BY <3>2, <1>4, <1>6 DEF PassedMap
    <3> QED
      BY <3>1, <3>2
  <2>3. PassedMap' = [r \in RunIds |-> PassedMap'[r]]
        /\ PassedMap = [r \in RunIds |-> PassedMap[r]]
    BY <1>6 DEF PassedMap
  <2> HIDE DEF good
  <2> QED
    BY <2>1, <2>2, <2>3, <1>6
<1>9. QueuedMap' = QueuedMap
  <2>1. \A other \in DOMAIN plan : Queued(other)' => Queued(other)
    BY <1>4 DEF Queued
  <2> QED
    BY <2>1, <1>0, QueuedKept
<1> QED
  BY <1>4, <1>5, <1>6, <1>7, <1>8, <1>9

\* The queue stage is the ledger's queue, chosen from what passed.
LEMMA LedgerQueues ==
    ASSUME ResearchInv, QueuePaper
    PROVE  \E run \in RunIds :
               /\ PassedMap[run] # <<>> /\ QueuedMap[run] = <<>>
               /\ \E chosen \in SUBSET PassedMap[run][1] :
                     QueuedMap' = [QueuedMap EXCEPT ![run] = <<chosen>>]
               /\ UNCHANGED <<PassedMap, report>>
<1>0. Next
  BY DEF Next, Step
<1>1. PICK run : run = cursor
  OBVIOUS
<1>2. /\ run \in DOMAIN plan /\ RunOK(run) /\ ~Done(run, "queue_paper") /\ Judged(run)
  BY <1>1, AfterJudgement DEF QueuePaper, Done, Judged
<1>3. "queue_paper" \in StageNames
  BY DEF StageNames, Stages
<1>4. /\ UNCHANGED <<plan, report>> /\ ~Queued(run) /\ Queued(run)'
      /\ \A other \in DOMAIN plan \ {run} : receipts'[other] = receipts[other]
  BY <1>1, <1>2, <1>3, Recording DEF QueuePaper, Done, Queued
<1>5. run \in RunIds /\ RunIds' = RunIds
  BY <1>2, RunIsId DEF ResearchInv, Typed, RunIds
<1>6. VerdictOf(run)' = VerdictOf(run) /\ Passed(run)' = Passed(run)
  BY <1>0, <1>2, Kept
<1>7. QueueOf(run)' \subseteq {VerdictOf(run)[slot].genome : slot \in Passed(run)}
  <2>1. RunOK(run)' /\ InPaper(run)' \subseteq Passed(run)
    BY <1>1, QueueStep
  <2>2. \A slot \in InPaper(run)' :
            Finalists(run)'[slot].genome = VerdictOf(run)[slot].genome
    BY <2>1, <1>4, <1>6 DEF RunOK, QueueOK, InPaper
  <2> QED
    BY <2>1, <2>2 DEF QueueOf
<1>8. PassedMap[run] = <<{VerdictOf(run)[slot].genome : slot \in Passed(run)}>>
  BY <1>2, <1>5 DEF PassedMap
<1>9. QueuedMap[run] = <<>>
  BY <1>4, <1>5 DEF QueuedMap
<1> DEFINE chosen == QueueOf(run)'
<1>10. chosen \in SUBSET PassedMap[run][1] /\ PassedMap[run] # <<>>
  BY <1>7, <1>8
<1>11. QueuedMap' = [QueuedMap EXCEPT ![run] = <<chosen>>]
  <2>1. QueuedMap'[run] = <<chosen>> /\ DOMAIN QueuedMap' = RunIds
    BY <1>2, <1>4, <1>5 DEF QueuedMap
  <2>2. ASSUME NEW other \in RunIds \ {run} PROVE QueuedMap'[other] = QueuedMap[other]
    <3>1. CASE other \in DOMAIN plan
      <4>1. (Queued(other)' <=> Queued(other)) /\ QueueOf(other)' = QueueOf(other)
        BY <3>1, <1>4 DEF Queued, QueueOf, Finalists, InPaper
      <4> QED
        BY <4>1, <1>4, <1>5 DEF QueuedMap
    <3>2. CASE other \notin DOMAIN plan
      BY <3>2, <1>4, <1>5 DEF QueuedMap
    <3> QED
      BY <3>1, <3>2
  <2>3. QueuedMap' = [r \in RunIds |-> QueuedMap'[r]]
        /\ QueuedMap = [r \in RunIds |-> QueuedMap[r]]
    BY <1>5 DEF QueuedMap
  <2> HIDE DEF chosen
  <2> QED
    BY <2>1, <2>2, <2>3, <1>5
<1>12. PassedMap' = PassedMap
  <2>1. \A other \in DOMAIN plan : Judged(other)' => Judged(other)
    BY <1>2, <1>4 DEF Judged
  <2> QED
    BY <2>1, <1>0, PassedKept
<1> QED
  BY <1>4, <1>5, <1>9, <1>10, <1>11, <1>12

\* The other steps neither judge nor queue, and report at most what is queued.
LEMMA LedgerRests ==
    ASSUME ResearchInv, Next, ~Judge, ~QueuePaper
    PROVE  /\ UNCHANGED <<PassedMap, QueuedMap>>
           /\ \/ report' = report
              \/ report' = <<>>
              \/ \E finished \in SUBSET RunIds :
                    /\ \A run \in finished : QueuedMap[run] # <<>>
                    /\ report' = <<[run \in finished |-> QueuedMap[run][1]]>>
<1>1. \A run \in DOMAIN plan : (Judged(run)' => Judged(run)) /\ (Queued(run)' => Queued(run))
  <2>1. CASE UNCHANGED receipts
    BY <2>1 DEF Judged, Queued
  <2>2. CASE PlainRecord
    BY <2>2, ReceiptsAdded DEF Judged, Queued, Done
  <2>3. CASE StoreOutcomes
    <3>1. receipts' = Recorded("store_outcomes", Cardinality(Generated))
      BY <2>3 DEF StoreOutcomes
    <3>2. DOMAIN receipts = DOMAIN plan
      BY DEF ResearchInv, Typed
    <3> QED
      BY <3>1, <3>2 DEF Recorded, Judged, Queued
  <2> QED
    BY <2>1, <2>2, <2>3, StepKinds
<1>2. UNCHANGED <<PassedMap, QueuedMap>>
  BY <1>1, PassedKept, QueuedKept
<1>3. CASE WriteReport
  <2>1. report' = <<payloads>> /\ cursor = Len(plan) + 1
    BY <1>3 DEF WriteReport, ResearchInv, MemoryOK
  <2>2. /\ \A run \in DOMAIN plan : Queued(run)
        /\ payloads = [run \in DOMAIN plan |-> QueueOf(run)]
    BY <2>1, AllQueued
  <2>3. DOMAIN plan \in SUBSET RunIds
    BY RunIsId DEF ResearchInv, Typed
  <2>4. \A run \in DOMAIN plan : QueuedMap[run] = <<QueueOf(run)>>
    BY <2>2, <2>3 DEF QueuedMap
  <2>5. payloads = [run \in DOMAIN plan |-> QueuedMap[run][1]]
    BY <2>2, <2>4
  <2> QED
    BY <2>1, <2>3, <2>4, <2>5, <1>2
<1>4. report' = report \/ report' = <<>> \/ WriteReport
  <2>1. CASE \E stage, artifact : Record(stage, artifact)
    BY <2>1 DEF Record
  <2> QED
    BY <2>1, PlainRecords DEF Next, Step, PlainRecord, Start, Crash, FetchSucceeds,
        FetchRetried, FetchFails, AppendExperiment, StoreOutcomes,
        StageRaises, FinishRun, OpenReport, durable
<1> QED
  BY <1>2, <1>3, <1>4

\* The research job implements CandidateLedger: across crashes, failures and
\* new starts, verdicts and queues are decided once and a report names the queue.
THEOREM ResearchImplementsLedger == Spec => ImplementsLedger
<1>1. Init => Ledger!Init
  <2> SUFFICES ASSUME Init PROVE Ledger!Init
    OBVIOUS
  <2>1. \A run \in DOMAIN plan : receipts[run] = <<>> /\ DOMAIN receipts[run] = {}
    BY DEF Init
  <2>2. \A run \in DOMAIN plan : ~Judged(run) /\ ~Queued(run)
    BY <2>1 DEF Judged, Queued
  <2>3. report = <<>>
    BY DEF Init
  <2> QED
    BY <2>2, <2>3 DEF Ledger!Init
<1>2. ResearchInv /\ [Next]_vars => [Ledger!Next]_(Ledger!vars)
  <2> SUFFICES ASSUME ResearchInv, [Next]_vars PROVE [Ledger!Next]_(Ledger!vars)
    OBVIOUS
  <2>1. CASE Judge
    <3>1. \E run \in RunIds : Ledger!Judge(run)
      BY <2>1, LedgerJudges DEF Ledger!Judge, PassedMap, QueuedMap
    <3> QED
      BY <3>1 DEF Ledger!Next
  <2>2. CASE QueuePaper
    <3>1. \E run \in RunIds : Ledger!Queue(run)
      BY <2>2, LedgerQueues DEF Ledger!Queue, PassedMap, QueuedMap
    <3> QED
      BY <3>1 DEF Ledger!Next
  <2>3. CASE Next /\ ~Judge /\ ~QueuePaper
    BY <2>3, LedgerRests DEF Ledger!Next, Ledger!Publish, Ledger!Withdraw, Ledger!vars,
                             PassedMap, QueuedMap
  <2>4. CASE UNCHANGED vars
    BY <2>4 DEF vars, durable, volatile, Ledger!vars, Judged, Queued, VerdictOf, Passed,
                QueueOf, InPaper, Finalists, RunIds
  <2> QED
    BY <2>1, <2>2, <2>3, <2>4
<1> QED
  BY <1>1, <1>2, ResearchInit, ResearchStep, PTL DEF Spec, ImplementsLedger, Ledger!Spec

=============================================================================
