------------------------------ MODULE Governor ------------------------------
(***************************************************************************)
(* The promotion governor: which state of a candidate may follow which,    *)
(* and the evidence each step demands (governor.py, validation.py and the  *)
(* identity rule of live_readiness.py).  Operators only: the modules that  *)
(* ask the governor extend this one.                                       *)
(*                                                                         *)
(* An evidence record has the fields type, genome, passed, supporting,     *)
(* code and dataset.  A genome stands for its hash, which also covers the  *)
(* strategy id, so the two comparisons of the code are one here.           *)
(***************************************************************************)

States == {"IDEA", "SCREENED", "BACKTESTED", "ROBUST", "HIDDEN_PASS", "PAPER",
           "CHALLENGER", "CHAMPION", "LIVE_ELIGIBLE", "QUARANTINED", "REJECTED"}

\* Always granted: the fail-safe end of a candidate.
TerminalStates == {"QUARANTINED", "REJECTED"}

LiveEvidence == {"risk_review", "reconciliation_test", "kill_switch_test",
                 "testnet_smoke"}

RequiredEvidence ==
    [SCREENED      |-> {"screen"},
     BACKTESTED    |-> {"nautilus_backtest"},
     ROBUST        |-> {"walk_forward", "cost_stress", "parameter_stability",
                        "purged_cpcv", "monte_carlo", "asset_transfer"},
     HIDDEN_PASS   |-> {"hidden_test"},
     PAPER         |-> {"paper_started"},
     CHALLENGER    |-> {"paper_minimum_evidence"},
     CHAMPION      |-> {"champion_comparison"},
     LIVE_ELIGIBLE |-> LiveEvidence]

NextState ==
    [IDEA |-> "SCREENED", SCREENED |-> "BACKTESTED", BACKTESTED |-> "ROBUST",
     ROBUST |-> "HIDDEN_PASS", HIDDEN_PASS |-> "PAPER", PAPER |-> "CHALLENGER",
     CHALLENGER |-> "CHAMPION", CHAMPION |-> "LIVE_ELIGIBLE"]

MultiLegFamilies == {"stat_arb", "cross_venue_arb", "funding_basis", "delta_neutral"}

HftFamilies == {"scalping", "grid", "market_making", "order_book", "cross_venue_arb"}

ExtraEvidenceMut(family, target) ==   \* only the options family is special
    IF target = "ROBUST" /\ family = "options"
    THEN {"options_greeks_validation", "volatility_surface_stress"} ELSE {}

\* What a family has to show beyond the evidence every candidate shows.
ExtraEvidence(family, target) ==
    CASE target = "ROBUST" ->
            (IF family \in MultiLegFamilies THEN {"multi_leg_execution_stress"} ELSE {})
            \cup (IF family \in HftFamilies THEN {"hft_real_l2"} ELSE {})
            \cup (IF family = "options"
                  THEN {"options_greeks_validation", "volatility_surface_stress"} ELSE {})
      [] target = "HIDDEN_PASS" -> {"regime_test"}
      [] OTHER -> {}

EvidenceRecord(type, genome, passed, code, dataset) ==
    [type |-> type, genome |-> genome, passed |-> passed, supporting |-> FALSE,
     code |-> code, dataset |-> dataset]

\* The records that count for a genome: passed, promotion grade, its own.
Accepted(genome, records) ==
    {r \in records : r.passed /\ ~r.supporting /\ r.genome = genome}

ValidatedTypes(genome, records) == {r.type : r \in Accepted(genome, records)}

\* One code and one dataset cover every LIVE probe.
BundleIdentityOk(genome, records) ==
    \E witness \in Accepted(genome, records) :
        \A type \in LiveEvidence :
            \E r \in Accepted(genome, records) :
                /\ r.type = type
                /\ r.code = witness.code /\ r.dataset = witness.dataset

EvaluatePromotion(current, target, types) ==
    \/ target \in TerminalStates
    \/ /\ current \in DOMAIN NextState
       /\ NextState[current] = target
       /\ RequiredEvidence[target] \subseteq types

EvaluateValidatedPromotion(current, target, family, genome, records) ==
    /\ EvaluatePromotion(current, target, ValidatedTypes(genome, records))
    /\ target \notin TerminalStates =>
          ExtraEvidence(family, target) \subseteq ValidatedTypes(genome, records)
    /\ target = "LIVE_ELIGIBLE" => BundleIdentityOk(genome, records)

=============================================================================
