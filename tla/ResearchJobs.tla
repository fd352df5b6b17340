---------------------------- MODULE ResearchJobs ----------------------------
(***************************************************************************)
(* Local research jobs: launch_research_job of local_jobs.py, the steps of *)
(* a launcher on the job it launches, and local_job_worker.py, the process *)
(* it starts.                                                              *)
(*                                                                         *)
(* A job is a directory with a receipt.  The launcher writes STARTING,     *)
(* starts the worker and writes RUNNING; the worker writes the final       *)
(* status.  Nothing orders the last two writes, and save_receipt sends     *)
(* both through one receipt.tmp: each is a write of that file and a rename *)
(* of whatever it holds by then.                                           *)
(*                                                                         *)
(* Abstractions.  A receipt keeps what the autopilot reads: the recipe,    *)
(* whether the window is the full history, and the status.  A report keeps *)
(* the verdict on its best finalist.  The text written to receipt.tmp is   *)
(* written in one piece.                                                   *)
(***************************************************************************)
EXTENDS Integers, Sequences, FiniteSets

CONSTANTS
    Products,       \* config.products, in order
    RecipeCount,    \* the number of scheduled public recipes of each product
    LongRecipes,    \* those that recommend more than six months of history
    Verdicts,       \* "weak": no score above zero; "promising": a score, and
                    \* no PAPER candidate; "qualified": a candidate
    Histories,      \* sequences of the jobs that succeeded before the model
                    \* begins: a request and a verdict each
    MaxJobs,        \* bound of the model
    Absent

Jobs == 1..MaxJobs

Recipes == UNION {{<<product, i>> : i \in 0..(RecipeCount[product] - 1)} :
                  product \in {Products[k] : k \in DOMAIN Products}}

Statuses == {"STARTING", "RUNNING", "SUCCEEDED", "FAILED"}

Receipts == [recipe : Recipes, full : BOOLEAN, status : Statuses]

ASSUME VerdictAssumption == Verdicts \subseteq {"weak", "promising", "qualified"}

\* "no runnable public recipes" is an error of the code.
ASSUME RecipesAssumption ==
    /\ Products \in Seq({Products[k] : k \in DOMAIN Products})
    /\ \A k \in DOMAIN Products : RecipeCount[Products[k]] \in Nat \ {0}

ASSUME HistoriesAssumption ==
    /\ MaxJobs \in Nat
    /\ \A past \in Histories :
           /\ past \in Seq([recipe : Recipes, full : BOOLEAN, verdict : Verdicts])
           /\ Len(past) <= MaxJobs

ASSUME AbsentAssumption == Absent \notin Receipts \cup Statuses \cup Verdicts \cup {"qualified"}

VARIABLES
    receipt,    \* receipt.json of each job
    temporary,  \* the status held by receipt.tmp of each job
    research,   \* the worker of each job
    report      \* research-report.json of each job

jobVars == <<receipt, temporary, research, report>>

JobsTypeOK ==
    /\ receipt \in [Jobs -> Receipts \cup {Absent}]
    /\ temporary \in [Jobs -> Statuses \cup {Absent}]
    /\ research \in [Jobs -> {"none", "working", "reported", "saving", "exited"}]
    /\ report \in [Jobs -> Verdicts \cup {Absent}]

JobsInit ==
    \E past \in Histories :
        /\ receipt = [job \in Jobs |->
               IF job \notin DOMAIN past THEN Absent
               ELSE [recipe |-> past[job].recipe, full |-> past[job].full,
                     status |-> "SUCCEEDED"]]
        /\ temporary = [job \in Jobs |-> Absent]
        /\ research = [job \in Jobs |-> IF job \in DOMAIN past THEN "exited" ELSE "none"]
        /\ report = [job \in Jobs |-> IF job \in DOMAIN past THEN past[job].verdict ELSE Absent]

Launched == {job \in Jobs : receipt[job] # Absent}

InStatus(statuses) == {job \in Launched : receipt[job].status \in statuses}

Researching == {job \in Jobs : research[job] \in {"working", "reported"}}

-----------------------------------------------------------------------------
\* The launcher.

SaveStarting(job, request) ==
    /\ receipt' = [receipt EXCEPT ![job] =
           [recipe |-> request.recipe, full |-> request.full, status |-> "STARTING"]]
    /\ UNCHANGED <<temporary, research, report>>

SpawnWorker(job) ==
    /\ research' = [research EXCEPT ![job] = "working"]
    /\ UNCHANGED <<receipt, temporary, report>>

\* The two halves of save_receipt.
WriteTemporary(job, status) ==
    /\ temporary' = [temporary EXCEPT ![job] = status]
    /\ UNCHANGED <<receipt, report>>

\* As if the second rename left a receipt without a status.
RenameTemporaryMut(job) ==
    /\ receipt' = [receipt EXCEPT ![job].status = temporary[job]]
    /\ temporary' = [temporary EXCEPT ![job] = Absent]
    /\ UNCHANGED report

\* Path.replace raises when the other writer has renamed the file already.
RenameTemporary(job) ==
    /\ receipt' = IF temporary[job] = Absent THEN receipt
                  ELSE [receipt EXCEPT ![job].status = temporary[job]]
    /\ temporary' = [temporary EXCEPT ![job] = Absent]
    /\ UNCHANGED report

-----------------------------------------------------------------------------
\* The worker.

WriteReport(job) ==
    /\ research[job] = "working"
    /\ research' = [research EXCEPT ![job] = "reported"]
    /\ \E verdict \in Verdicts : report' = [report EXCEPT ![job] = verdict]
    /\ UNCHANGED <<receipt, temporary>>

\* As if a failure were reported as a success.
FinalStatusMut(job) == "SUCCEEDED"

FinalStatus(job) == IF research[job] = "reported" THEN "SUCCEEDED" ELSE "FAILED"

WriteFinal(job) ==
    /\ job \in Researching
    /\ research' = [research EXCEPT ![job] = "saving"]
    /\ WriteTemporary(job, FinalStatus(job))

RenameFinal(job) ==
    /\ research[job] = "saving"
    /\ research' = [research EXCEPT ![job] = "exited"]
    /\ RenameTemporary(job)

\* The process is killed, or the machine restarts.
WorkerLost(job) ==
    /\ research[job] \in {"working", "reported", "saving"}
    /\ research' = [research EXCEPT ![job] = "exited"]
    /\ UNCHANGED <<receipt, temporary, report>>

WorkerStep(job) ==
    \/ WriteReport(job)
    \/ WriteFinal(job)
    \/ RenameFinal(job)
    \/ WorkerLost(job)

-----------------------------------------------------------------------------
\* SAFETY PROPERTIES

\* A receipt that says SUCCEEDED has a report beside it, and no receipt is
\* final while its worker still does research: whichever of the two writers of
\* a receipt comes last, and whatever it finds in the shared temporary file.
FinalReceiptsTrue ==
    \A job \in InStatus({"SUCCEEDED", "FAILED"}) :
        /\ job \notin Researching
        /\ receipt[job].status = "SUCCEEDED" => report[job] # Absent

=============================================================================
