----------------------------- MODULE Promotion ------------------------------
(***************************************************************************)
(* What follows PAPER for one candidate: the archived forward windows are  *)
(* judged for CHALLENGER and CHAMPION (paper_forward.py,                   *)
(* paper_challenger.py, champion.py, forward_scheduler.py), a real order   *)
(* is tried on the exchange's test network (testnet_smoke.py), and the     *)
(* safety probes and that order make the bundle the governor wants before  *)
(* it calls the candidate LIVE_ELIGIBLE (testnet_candidate.py,             *)
(* live_evidence.py, live_readiness.py).                                   *)
(*                                                                         *)
(* The code under all of this is replaced while it happens.  Money is a    *)
(* whole number, returns and drawdowns are percentages; a code version     *)
(* stands for the code hash and the engine version it is locked to.        *)
(***************************************************************************)
EXTENDS Governor, Integers, FiniteSets, SequencesExt

CONSTANTS Genome, Family,
          MaxCode,          \* bound: code versions deployed
          Forward,          \* bound, for each environment: reports (windows archived),
                            \* windows (what each may show: duration, trades, ret, dd,
                            \* sound), incumbents (paper evidence of a champion in office)
          NoIncumbent,
          PaperPolicy,      \* sessions, duration, trades, ret, dd
          ChampionPolicy,   \* trades, improvement, ratio
          Manifests,        \* what the owner may dispatch: code, dataset, cap
          Environments,     \* mode, withdrawal, credentials
          Rules,            \* of the exchange: notional, step, quantity
          Prices            \* limit prices below the best bid

ASSUME BoundAssumption == MaxCode \in Nat \ {0}

\* "runner" is the genome of an order that was tried for no candidate.
ASSUME GenomeAssumption == Genome # "runner"

\* The exchange's constraints are refused unless they are positive.
ASSUME RulesAssumption ==
    /\ Rules \subseteq [notional : Nat \ {0}, step : Nat \ {0}, quantity : Nat \ {0}]
    /\ Prices \subseteq Int

\* Reports and policies refuse negative counts, drawdowns and margins, and a
\* ratio that is not positive.
ASSUME ForwardAssumption ==
    /\ \A e \in Environments :
          /\ Forward[e].reports \in Nat
          /\ Forward[e].windows \subseteq
                [duration : Nat, trades : Nat, ret : Int, dd : Nat, sound : BOOLEAN]
          /\ \A i \in Forward[e].incumbents \ {NoIncumbent} : i.ret \in Int /\ i.dd \in Nat
    /\ PaperPolicy.sessions \in Nat \ {0}
    /\ PaperPolicy.dd \in Nat
    /\ ChampionPolicy.improvement \in Nat /\ ChampionPolicy.ratio \in Nat \ {0}

VARIABLES code,         \* the version checked out
          archive,      \* windows archived, each with its code version
          cycle,        \* the last forward evaluation
          environment,  \* of the smoke process
          manifest,     \* the dispatched candidate, or NoManifest
          rules,        \* what the exchange answers for the symbol
          smoke,        \* the smoke process: phase, order, what the threads share
          evidence,     \* the smoke record in its file, or NoEvidence
          accepted,     \* history: what the test network accepted an order for
          bundle,       \* records and verdict of the last bundle
          live          \* the governor's last answer

forward == <<archive, cycle>>
probe == <<environment, manifest, rules, smoke, evidence, accepted>>
vars == <<code, forward, probe, bundle, live>>

NoManifest == [code |-> 0, dataset |-> "none", cap |-> 0]

NoCycle == [state |-> "PAPER", of |-> <<>>, incumbent |-> NoIncumbent]

NoOrder == [status |-> "none", quantity |-> 0, price |-> 0]

IdleSmoke == [phase |-> "idle", code |-> 0, manifest |-> NoManifest, order |-> NoOrder,
              found |-> FALSE, done |-> FALSE, accepted |-> FALSE, expired |-> FALSE, stop |-> FALSE]

NoEvidence == [records |-> {}, status |-> "none", at |-> 0, left |-> "none"]

NoBundle == [records |-> {}, eligible |-> FALSE]

Init ==
    /\ code = 1
    /\ archive = <<>>
    /\ cycle = NoCycle
    /\ environment \in Environments
    /\ manifest = NoManifest
    /\ rules \in Rules
    /\ smoke = IdleSmoke
    /\ evidence = NoEvidence
    /\ accepted = {}
    /\ bundle = NoBundle
    /\ live = FALSE

Deploy ==
    /\ code < MaxCode
    /\ code' = code + 1
    /\ UNCHANGED <<forward, probe, bundle, live>>

-----------------------------------------------------------------------------
(***************************************************************************)
(* Forward evidence.                                                       *)
(***************************************************************************)
ArchiveWindow ==
    /\ Len(archive) < Forward[environment].reports
    /\ \E window \in Forward[environment].windows : archive' = Append(archive, [window |-> window, code |-> code])
    /\ UNCHANGED <<code, cycle, probe, bundle, live>>

Total(reports, field) == FoldLeft(LAMBDA sum, r : sum + r.window[field], 0, reports)

\* The product of the first k factors, for every k.
Compounding(factors) ==
    LET growth[k \in 0..Len(factors)] == IF k = 0 THEN 1 ELSE growth[k - 1] * factors[k]
    IN growth

Compounded(factors) == Compounding(factors)[Len(factors)]

\* The compounded growth, times 100 per window; Unchanged is that of windows
\* that end where they began.
Growth(reports) == Compounded([i \in DOMAIN reports |-> 100 + reports[i].window.ret])

Unchanged(reports) == Compounded([i \in DOMAIN reports |-> 100])

WorstDrawdown(reports) == Max({0} \cup {reports[i].window.dd : i \in DOMAIN reports})

ReturnAtLeast(reports, percent) ==
    100 * Growth(reports) >= (100 + percent) * Unchanged(reports)

\* Windows of two versions cannot be added up: the evaluation raises.
OneVersion(reports) == \A i, j \in DOMAIN reports : reports[i].code = reports[j].code

\* sound: completed, provenance verified, reconciled without an error, and
\* without an unhealthy moment or a missing bar.
PaperMinimumPassed(reports) ==
    /\ Len(reports) >= PaperPolicy.sessions
    /\ Total(reports, "duration") >= PaperPolicy.duration
    /\ Total(reports, "trades") >= PaperPolicy.trades
    /\ ReturnAtLeast(reports, PaperPolicy.ret)
    /\ WorstDrawdown(reports) <= PaperPolicy.dd
    /\ \A i \in DOMAIN reports : reports[i].window.sound

AheadMut(reports, incumbent) ==      \* its own drawdown is forgotten
    ReturnAtLeast(reports, incumbent.ret - incumbent.dd + ChampionPolicy.improvement)

\* The score, return minus drawdown, against the incumbent's by a margin.
Ahead(reports, incumbent) ==
    ReturnAtLeast(reports, WorstDrawdown(reports) + incumbent.ret - incumbent.dd
                               + ChampionPolicy.improvement)

ComparisonPassed(reports, incumbent) ==
    /\ PaperMinimumPassed(reports)
    /\ Total(reports, "trades") >= ChampionPolicy.trades
    /\ incumbent # NoIncumbent =>
          /\ incumbent.passed
          /\ Ahead(reports, incumbent)
          /\ IF incumbent.dd = 0 THEN WorstDrawdown(reports) = 0
             ELSE 100 * WorstDrawdown(reports) <= ChampionPolicy.ratio * incumbent.dd

Paper(type, passed) == EvidenceRecord(type, Genome, passed, "paper", "paper")

Challenger(reports) ==
    EvaluateValidatedPromotion("PAPER", "CHALLENGER", Family, Genome,
        {Paper("paper_minimum_evidence", PaperMinimumPassed(reports))})

Champion(reports, incumbent) ==
    EvaluateValidatedPromotion("CHALLENGER", "CHAMPION", Family, Genome,
        {Paper("champion_comparison", ComparisonPassed(reports, incumbent))})

\* One call judges the whole archive; it remembers nothing of an earlier call.
EvaluateForward ==
    /\ \E incumbent \in Forward[environment].incumbents :
          cycle' = [state |-> IF ~OneVersion(archive) THEN "PAPER"
                              ELSE IF ~Challenger(archive) THEN "PAPER"
                              ELSE IF ~Champion(archive, incumbent) THEN "CHALLENGER"
                              ELSE "CHAMPION",
                    of |-> archive, incumbent |-> incumbent]
    /\ UNCHANGED <<code, archive, probe, bundle, live>>

-----------------------------------------------------------------------------
(***************************************************************************)
(* The smoke order.  The node's thread and the watchdog share done; the    *)
(* venue answers when it likes, or never.                                  *)
(***************************************************************************)
Dispatch ==
    /\ manifest' \in Manifests
    /\ UNCHANGED <<code, forward, environment, rules, smoke, evidence, accepted, bundle, live>>

\* Without a manifest the order is the runner's own and proves no candidate.
SmokeRecords(m, version, passed) ==
    {IF m = NoManifest THEN EvidenceRecord("testnet_smoke", "runner", passed, version, "rules")
     ELSE EvidenceRecord("testnet_smoke", Genome, passed, m.code, m.dataset)}

TestnetRuntime == environment.mode = "TESTNET" /\ ~environment.withdrawal

ManifestMatchesMut == TRUE       \* any manifest will do

ManifestMatches == manifest = NoManifest \/ manifest.code = code

\* The process starts, unless it refuses its mode, its credentials' powers,
\* the manifest or the exchange's minimum.
StartSmoke ==
    /\ smoke.phase = "idle"
    /\ TestnetRuntime
    /\ ManifestMatches
    /\ environment.credentials
    /\ manifest # NoManifest => rules.notional <= manifest.cap
    /\ smoke' = [IdleSmoke EXCEPT !.phase = "connecting", !.code = code,
                                  !.manifest = manifest]
    /\ UNCHANGED <<code, forward, environment, manifest, rules, evidence, accepted, bundle, live>>

\* Without credentials the owner is asked for them and nothing is sent.
SmokeBlocked ==
    /\ smoke.phase = "idle"
    /\ TestnetRuntime
    /\ ManifestMatches
    /\ ~environment.credentials
    /\ evidence' = [records |-> SmokeRecords(manifest, code, FALSE),
                    status |-> "CREDENTIALS_UNAVAILABLE", at |-> code, left |-> "none"]
    /\ UNCHANGED <<code, forward, environment, manifest, rules, smoke, accepted, bundle, live>>

Running == smoke.phase \in {"connecting", "quoting"}

NodeStarts ==
    /\ smoke.phase = "connecting"
    /\ \E found \in BOOLEAN :       \* the instrument, in the node's cache
          smoke' = [smoke EXCEPT !.phase = "quoting", !.found = found, !.done = ~found]
    /\ UNCHANGED <<code, forward, environment, manifest, rules, evidence, accepted, bundle, live>>

\* The smallest multiple of the step that meets both minimums.
CeilingMut(a, b) == a \div b

Ceiling(a, b) == (a + b - 1) \div b

OrderQuantity(price) ==
    LET required == IF rules.quantity > Ceiling(rules.notional, price)
                    THEN rules.quantity ELSE Ceiling(rules.notional, price)
    IN Ceiling(required, rules.step) * rules.step

\* A price of zero or less ends the probe, though not at once: until the node stops
\* a later quote may still bring the order.
OnQuote ==
    /\ smoke.phase = "quoting"
    /\ smoke.found
    /\ smoke.order.status = "none"
    /\ \E price \in Prices :
          smoke' = IF price <= 0 THEN [smoke EXCEPT !.done = TRUE]
                   ELSE [smoke EXCEPT !.order = [status |-> "inflight", price |-> price,
                                                 quantity |-> OrderQuantity(price)]]
    /\ UNCHANGED <<code, forward, environment, manifest, rules, evidence, accepted, bundle, live>>

OnOrderAccepted ==
    /\ Running
    /\ smoke.order.status = "inflight"
    /\ smoke' = [smoke EXCEPT !.order.status = "resting", !.accepted = TRUE, !.done = TRUE]
    /\ accepted' = accepted \cup {[code |-> smoke.code, manifest |-> smoke.manifest]}
    /\ UNCHANGED <<code, forward, environment, manifest, rules, evidence, bundle, live>>

OnOrderRejected ==
    /\ Running
    /\ smoke.order.status = "inflight"
    /\ smoke' = [smoke EXCEPT !.order.status = "closed", !.done = TRUE]
    /\ UNCHANGED <<code, forward, environment, manifest, rules, evidence, accepted, bundle, live>>

VenueFills ==
    /\ Running
    /\ smoke.order.status = "resting"
    /\ smoke' = [smoke EXCEPT !.order.status = "filled"]
    /\ UNCHANGED <<code, forward, environment, manifest, rules, evidence, accepted, bundle, live>>

DeadlinePasses ==
    /\ Running
    /\ ~smoke.expired
    /\ smoke' = [smoke EXCEPT !.expired = TRUE]
    /\ UNCHANGED <<code, forward, environment, manifest, rules, evidence, accepted, bundle, live>>

StopDueMut == smoke.done      \* no deadline

StopDue == smoke.done \/ smoke.expired

WatchdogStops ==
    /\ Running
    /\ StopDue
    /\ ~smoke.stop
    /\ smoke' = [smoke EXCEPT !.stop = TRUE]
    /\ UNCHANGED <<code, forward, environment, manifest, rules, evidence, accepted, bundle, live>>

\* Stopping asks the venue to cancel what rests there; an order it has not
\* answered yet may or may not be caught.
CancelledMut(status) == {status}     \* nothing is cancelled on the way out

Cancelled(status) ==
    CASE status = "resting" -> {"cancelling"}
      [] status = "inflight" -> {"inflight", "cancelling"}
      [] OTHER -> {status}

EndedMut == [smoke EXCEPT !.phase = "idle"]     \* what the threads shared survives

Ended == IdleSmoke

\* The result is read when the node is gone, and written to the file; left is
\* history: what became of the order.
NodeStops ==
    /\ Running
    /\ smoke.stop
    /\ \E status \in Cancelled(smoke.order.status) :
          evidence' = [records |-> SmokeRecords(smoke.manifest, smoke.code, smoke.accepted),
                       at |-> smoke.code, left |-> status,
                       status |-> IF smoke.accepted THEN "COMPLETED" ELSE "FAILED"]
    /\ smoke' = Ended
    /\ UNCHANGED <<code, forward, environment, manifest, rules, accepted, bundle, live>>

\* The node raises: the process ends without evidence, the file is as before.
NodeRaises ==
    /\ Running
    /\ smoke' = Ended
    /\ UNCHANGED <<code, forward, environment, manifest, rules, evidence, accepted, bundle, live>>

-----------------------------------------------------------------------------
(***************************************************************************)
(* The safety probes and the bundle.                                       *)
(***************************************************************************)
Limits == [order |-> manifest.cap, symbol |-> 2 * manifest.cap,
           portfolio |-> 5 * manifest.cap, loss |-> 2 * manifest.cap,
           drawdown |-> 20, rate |-> 10]

\* The pre-trade verdict on a snapshot (risk.py).
Verdict(limits, s) ==
    CASE s.stop \/ s.stale \/ ~s.reconciled -> "KILL_SYSTEM"
      [] -s.pnl >= limits.loss \/ s.drawdown >= limits.drawdown -> "KILL_STRATEGY"
      [] s.orders >= limits.rate -> "BLOCK_ORDER"
      [] s.order > limits.order -> "BLOCK_ORDER"
      [] s.symbol + s.order > limits.symbol -> "BLOCK_ORDER"
      [] s.portfolio + s.order > limits.portfolio -> "BLOCK_ORDER"
      [] OTHER -> "ALLOW"

Calm(order) == [order |-> order, symbol |-> 0, portfolio |-> 0, pnl |-> 0, drawdown |-> 0,
                orders |-> 0, stale |-> FALSE, reconciled |-> TRUE, stop |-> FALSE]

\* Each limit, tried one at a time.
RiskReviewPassed(limits) ==
    LET half == limits.order \div 2
        Says(snapshot, verdict) == Verdict(limits, snapshot) = verdict
    IN /\ Says(Calm(half), "ALLOW")
       /\ Says([Calm(1) EXCEPT !.stale = TRUE], "KILL_SYSTEM")
       /\ Says([Calm(1) EXCEPT !.reconciled = FALSE], "KILL_SYSTEM")
       /\ Says([Calm(1) EXCEPT !.pnl = -limits.loss], "KILL_STRATEGY")
       /\ Says([Calm(1) EXCEPT !.drawdown = limits.drawdown], "KILL_STRATEGY")
       /\ Says([Calm(1) EXCEPT !.orders = limits.rate], "BLOCK_ORDER")
       /\ Says(Calm(limits.order + 1), "BLOCK_ORDER")
       /\ Says([Calm(half) EXCEPT !.symbol = limits.symbol], "BLOCK_ORDER")
       /\ Says([Calm(half) EXCEPT !.portfolio = limits.portfolio], "BLOCK_ORDER")
       /\ Says([Calm(1) EXCEPT !.stop = TRUE], "KILL_SYSTEM")

\* An order that passes, a kill of the system, and the same order again: a
\* killed runtime answers before it looks at anything else.
KillSwitchPassed(limits) == Verdict(limits, Calm(limits.order \div 2)) = "ALLOW"

ProbeRecords(testnet) ==
    LET Probe(type, passed) == EvidenceRecord(type, Genome, testnet /\ passed,
                                              manifest.code, manifest.dataset)
    IN {Probe("risk_review", RiskReviewPassed(Limits)),
        Probe("reconciliation_test", TRUE),     \* one state, reconciled with itself
        Probe("kill_switch_test", KillSwitchPassed(Limits))}

\* A smoke record of another manifest is refused.
SmokeIdentity ==
    \A r \in evidence.records :
        r.genome = Genome /\ r.code = manifest.code /\ r.dataset = manifest.dataset

BundleEligible(records) ==
    BundleIdentityOk(Genome, {r \in records : /\ r.code = manifest.code
                                              /\ r.dataset = manifest.dataset})

BuildBundle ==
    /\ manifest # NoManifest
    /\ evidence # NoEvidence
    /\ SmokeIdentity
    /\ LET records == ProbeRecords(environment.mode = "TESTNET") \cup evidence.records
       IN bundle' = [records |-> records, eligible |-> BundleEligible(records)]
    /\ UNCHANGED <<code, forward, probe, live>>

\* The governor is asked with the state the last evaluation gave and the
\* records of the last bundle.
AskGovernor ==
    /\ live' = EvaluateValidatedPromotion(cycle.state, "LIVE_ELIGIBLE", Family, Genome,
                                          bundle.records)
    /\ UNCHANGED <<code, forward, probe, bundle>>

Thread == NodeStarts \/ DeadlinePasses \/ WatchdogStops \/ NodeStops

Next ==
    \/ Deploy \/ ArchiveWindow \/ EvaluateForward
    \/ Dispatch \/ StartSmoke \/ SmokeBlocked
    \/ OnQuote \/ OnOrderAccepted \/ OnOrderRejected \/ VenueFills \/ NodeRaises
    \/ Thread
    \/ BuildBundle \/ AskGovernor

Spec == Init /\ [][Next]_vars

\* Threads of a running process run and clocks go on; venues need not answer.
FairSpec == Spec /\ WF_vars(NodeStarts) /\ WF_vars(DeadlinePasses)
                 /\ WF_vars(WatchdogStops) /\ WF_vars(NodeStops)

-----------------------------------------------------------------------------
\* Type correctness of the chain's state.
PromotionTypeOK ==
    /\ code \in 1..MaxCode
    /\ \A i \in DOMAIN archive : archive[i].window \in Forward[environment].windows /\ archive[i].code \in 1..code
    /\ cycle.state \in {"PAPER", "CHALLENGER", "CHAMPION"}
    /\ {manifest, smoke.manifest} \subseteq Manifests \cup {NoManifest}
    /\ smoke.phase \in {"idle", "connecting", "quoting"}
    /\ smoke.order.status \in {"none", "inflight", "resting", "filled", "cancelling", "closed"}
    /\ smoke.phase = "idle" => smoke = IdleSmoke
    /\ evidence.at \in 0..code
    /\ live \in BOOLEAN

\* A CHALLENGER or CHAMPION was judged on sound windows of one code version
\* only, long and busy enough, that grew enough and of which none fell too far;
\* and a CHAMPION beats the incumbent by the margin even if the drawdown of any
\* of its windows is taken from its return, while none of them fell further
\* than the incumbent's drawdown allows (paper_forward.py 90-176, champion.py
\* 42-96): no window of the archive, of whatever version, was left out.
ChampionEarned ==
    cycle.state # "PAPER" =>
        /\ \E version \in 1..code : \A i \in DOMAIN cycle.of :
              cycle.of[i].code = version /\ cycle.of[i].window.sound
        /\ Len(cycle.of) >= PaperPolicy.sessions
        /\ Total(cycle.of, "duration") >= PaperPolicy.duration
        /\ Total(cycle.of, "trades") >= PaperPolicy.trades
        /\ 100 * Growth(cycle.of) >= (100 + PaperPolicy.ret) * Unchanged(cycle.of)
        /\ \A i \in DOMAIN cycle.of : cycle.of[i].window.dd <= PaperPolicy.dd
        /\ cycle.state = "CHAMPION" =>
              /\ Total(cycle.of, "trades") >= ChampionPolicy.trades
              /\ cycle.incumbent # NoIncumbent =>
                    /\ cycle.incumbent.passed
                    /\ \A i \in DOMAIN cycle.of :
                          /\ 100 * Growth(cycle.of) >=
                                (100 + cycle.of[i].window.dd + cycle.incumbent.ret
                                     - cycle.incumbent.dd + ChampionPolicy.improvement)
                                    * Unchanged(cycle.of)
                          /\ 100 * cycle.of[i].window.dd <=
                                ChampionPolicy.ratio * cycle.incumbent.dd

\* LIVE_ELIGIBLE is granted only to the CHAMPION of the last evaluation, and
\* only after the test network accepted an order for its genome while the very
\* code version every probe is bound to was checked out, within the cap of the
\* manifest (testnet_smoke.py 344-412, testnet_candidate.py 127-284,
\* governor.py 67-89).
LiveEarned ==
    [][live' /\ ~live =>
          /\ cycle.state = "CHAMPION"
          /\ \E a \in accepted :
                /\ a.manifest.code = a.code
                /\ rules.notional <= a.manifest.cap
                /\ \A type \in LiveEvidence : \E r \in bundle.records :
                      /\ r.type = type /\ r.passed
                      /\ r.code = a.code /\ r.dataset = a.manifest.dataset]_vars

\* What the smoke leaves behind: its record carries the version it ran under,
\* it passes only if the test network accepted an order, and the order it
\* passed with was asked to be cancelled (testnet_smoke.py 240-309).
SmokeHonest ==
    \A r \in evidence.records :
        /\ r.code = evidence.at
        /\ r.passed => \E a \in accepted : a.code = r.code
        /\ r.passed => evidence.left # "resting"

\* The smoke order meets every rule of the exchange, and is the smallest that
\* does (testnet_smoke.py calculate_minimum_order_quantity).
OrderWithinRules ==
    smoke.order.quantity > 0 =>
        LET q == smoke.order.quantity
            p == smoke.order.price
            Ok(n) == n >= rules.quantity /\ n * p >= rules.notional
        IN q % rules.step = 0 /\ Ok(q) /\ ~Ok(q - rules.step)

\* The smoke process ends whether or not the exchange answers.
SmokeEnds == smoke.phase # "idle" ~> smoke.phase = "idle"

=============================================================================
