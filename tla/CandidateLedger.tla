-------------------------- MODULE CandidateLedger ---------------------------
(***************************************************************************)
(* What the research job promises, whatever interrupts it: the candidates  *)
(* of a run are judged once, together; some of those that passed are then  *)
(* queued for PAPER, once; and a report, when there is one to read, names  *)
(* exactly the candidates queued.  Nothing judged or queued is ever judged *)
(* or queued again, and a report may disappear while it is being replaced. *)
(***************************************************************************)
CONSTANTS Runs,       \* the runs of the job
          Candidates  \* whatever a candidate is

VARIABLES passed,     \* per run, <<>> or <<the candidates that passed>>
          queued,     \* per run, <<>> or <<the candidates queued for PAPER>>
          published   \* <<>> or <<the queue of every run reported>>

vars == <<passed, queued, published>>

Init ==
    /\ passed = [run \in Runs |-> <<>>]
    /\ queued = [run \in Runs |-> <<>>]
    /\ published = <<>>

Judge(run) ==
    /\ passed[run] = <<>>
    /\ \E good \in SUBSET Candidates : passed' = [passed EXCEPT ![run] = <<good>>]
    /\ UNCHANGED <<queued, published>>

Queue(run) ==
    /\ passed[run] # <<>>
    /\ queued[run] = <<>>
    /\ \E chosen \in SUBSET passed[run][1] :
           queued' = [queued EXCEPT ![run] = <<chosen>>]
    /\ UNCHANGED <<passed, published>>

Publish ==
    /\ \E finished \in SUBSET Runs :
          /\ \A run \in finished : queued[run] # <<>>
          /\ published' = <<[run \in finished |-> queued[run][1]]>>
    /\ UNCHANGED <<passed, queued>>

Withdraw ==
    /\ published' = <<>>
    /\ UNCHANGED <<passed, queued>>

Next ==
    \/ \E run \in Runs : Judge(run) \/ Queue(run)
    \/ Publish
    \/ Withdraw

Spec == Init /\ [][Next]_vars

=============================================================================
