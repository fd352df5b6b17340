---------------------------- MODULE RiskGovernor ----------------------------
(***************************************************************************)
(* The risk governor every order passes before it reaches the execution    *)
(* engine: the limit evaluation of risk.py, the stateful RiskRuntime of    *)
(* risk_runtime.py (kill switches, duplicate window, orders per minute),   *)
(* the state providers of risk_state.py and the strategy hook of           *)
(* nautilus_risk_hook.py that submits an order or drops it.                *)
(*                                                                         *)
(* Time is a number of ticks.  The code reads a monotonic clock for the    *)
(* order history and the wall clock for the age of the market and          *)
(* reconciliation states; the model has one clock for both, so it assumes  *)
(* that the wall clock is not set back.                                    *)
(*                                                                         *)
(* Thresholds that are only compared with their limit are kept as the      *)
(* verdict of the comparison: "loss" stands for daily_pnl and drawdown,    *)
(* "capped" for leverage and the correlated exposure, "abnormal" for       *)
(* spread and volatility, "healthy" for the health flag with the error     *)
(* rate and the latency.  max() and "and" of two readings, which is how    *)
(* check_order merges them, commute with those verdicts.                   *)
(***************************************************************************)
EXTENDS Naturals, Sequences

CONSTANTS
    Strategies, Symbols, Venues, Portfolios,  \* identities in an order intent
    Orders,            \* the orders strategies may submit
    KillTargets,       \* the scoped kill switches an operator may throw
    Providers,         \* kinds of state_provider a runtime is built with
    Prices,            \* reference prices; 0 is a missing or invalid price
    AccountStates,     \* what update_account_state may report
    Absent,            \* no state reported yet
    MaxNotional, MaxSymbolExposure, MaxPortfolioExposure,
    MaxOrdersPerMinute,
    Minute,            \* ticks in the 60 s of the order rate
    DuplicateWindow,   \* duplicate_order_window_seconds
    MaxMarketAge,      \* max_market_age_seconds of the provider
    MaxReconAge,       \* max_reconciliation_age_seconds
    MaxTime, MaxAttempts  \* bounds of the model, for each kind of provider:
                          \* ticks, orders submitted by a strategy

Intents ==
    [strategy : Strategies, symbol : Symbols, venue : Venues,
     portfolio : Portfolios, side : {"BUY", "SELL"}, qty : Nat \ {0}]

Accounts == [symbolExposure : Nat, portfolioExposure : Nat,
             loss : BOOLEAN, capped : BOOLEAN]

Markets == [observedAt : Nat, abnormal : BOOLEAN]

Reconciliations == [ok : BOOLEAN, observedAt : Nat]

KillActions == {"KILL_VENUE", "KILL_PORTFOLIO", "KILL_STRATEGY", "KILL_SYMBOL",
                "KILL_SYSTEM"}

Actions == KillActions \cup {"ALLOW", "BLOCK_ORDER"}

Telemetry == [attempted : Nat, allowed : Nat, rejected : Nat,
              lastRejection : Actions \cup {Absent}]

\* RiskLimits.__post_init__: no limit is negative, the order rate is positive.
ASSUME LimitsAssumption ==
    /\ MaxNotional \in Nat /\ MaxSymbolExposure \in Nat
    /\ MaxPortfolioExposure \in Nat
    /\ MaxOrdersPerMinute \in Nat \ {0}
    /\ Minute \in Nat /\ DuplicateWindow \in Nat
    /\ MaxMarketAge \in Nat /\ MaxReconAge \in Nat
    /\ MaxTime \in [Providers -> Nat] /\ MaxAttempts \in [Providers -> Nat]

ASSUME InputsAssumption ==
    /\ Orders \subseteq [intent : Intents, reduceOnly : BOOLEAN]
    /\ Prices \subseteq Nat
    /\ KillTargets \subseteq
          [scope : {"STRATEGY"}, key : Strategies] \cup [scope : {"SYMBOL"}, key : Symbols]
          \cup [scope : {"VENUE"}, key : Venues]
          \cup [scope : {"PORTFOLIO"}, key : Portfolios]
    /\ Providers \subseteq {"owned", "simulation", "none"}
    /\ AccountStates \subseteq Accounts
    /\ Absent \notin Accounts \cup Markets \cup Reconciliations \cup BOOLEAN \cup Nat

VARIABLES
    now,           \* the clock
    provider,      \* "owned", "simulation" or "none": RiskRuntime.state_provider
    accounts,      \* RiskStateProvider._accounts
    markets,       \* RiskStateProvider._markets
    recon,         \* RiskStateProvider._reconciliation
    venues,        \* RiskStateProvider._venues
    health,        \* RiskRuntime._venue_health
    correlated,    \* RiskRuntime._portfolio_correlated_exposure, as over the cap
    systemKilled,  \* RiskRuntime._system_kill_reason is set
    kills,         \* RiskRuntime._kills: the keys with a reason, per scope
    lastAllowed,   \* RiskRuntime._last_allowed
    orderTimes,    \* RiskRuntime._allowed_order_times
    accepted,      \* RiskRuntime.accepted_decisions
    telemetry      \* the counters of NautilusRiskMixin, per strategy

providerVars == <<accounts, markets, recon, venues>>
runtimeVars == <<health, correlated, systemKilled, kills>>
orderVars == <<lastAllowed, orderTimes, accepted, telemetry>>
vars == <<now, provider, providerVars, runtimeVars, orderVars>>

-----------------------------------------------------------------------------
(* The state providers                                                     *)

\* The identity an order is hashed under: every field of the intent, and not
\* whether the order only reduces a position.
Fingerprint(order) == order.intent

Fingerprints == {Fingerprint(order) : order \in Orders}

Notional(intent, price) == intent.qty * price

Elapsed(since) == IF since <= now THEN now - since ELSE 0

MarketStaleMut(symbol) ==   \* a report one tick too old still counts
    \/ markets[symbol] = Absent
    \/ Elapsed(markets[symbol].observedAt) > MaxMarketAge + 1

MarketStale(symbol) ==
    \/ markets[symbol] = Absent
    \/ Elapsed(markets[symbol].observedAt) > MaxMarketAge

ReconciliationOk ==
    /\ recon # Absent
    /\ recon.ok
    /\ Elapsed(recon.observedAt) <= MaxReconAge

EmergencyStopMut(account, price) == price = 0   \* a missing account counts as flat

EmergencyStop(account, price) == account = Absent \/ price = 0

\* RiskStateProvider.snapshot: what was never reported counts as unhealthy.
OwnedSnapshot(intent, price) ==
    LET account == accounts[<<intent.portfolio, intent.symbol>>]
        market == markets[intent.symbol]
        venue == venues[intent.venue] IN
    [notional |-> Notional(intent, price),
     symbolExposure |-> IF account = Absent THEN 0 ELSE account.symbolExposure,
     portfolioExposure |-> IF account = Absent THEN 0 ELSE account.portfolioExposure,
     loss |-> account # Absent /\ account.loss,
     capped |-> account # Absent /\ account.capped,
     abnormal |-> market # Absent /\ market.abnormal,
     stale |-> MarketStale(intent.symbol),
     reconciled |-> ReconciliationOk,
     stop |-> EmergencyStop(account, price),
     healthy |-> venue = TRUE]

\* SimulationRiskStateProvider.snapshot: only an invalid price stops an order.
SimulationSnapshot(intent, price) ==
    [notional |-> Notional(intent, price), symbolExposure |-> 0,
     portfolioExposure |-> 0, loss |-> FALSE, capped |-> FALSE,
     abnormal |-> FALSE, stale |-> FALSE, reconciled |-> TRUE,
     stop |-> price = 0, healthy |-> TRUE]

\* RiskRuntime.snapshot_for_order without a provider: nothing is trusted.
ClosedSnapshot(intent, price) ==
    [SimulationSnapshot(intent, price) EXCEPT
        !.stale = TRUE, !.reconciled = FALSE, !.stop = TRUE, !.healthy = FALSE]

SnapshotForOrder(intent, price) ==
    CASE provider = "owned"      -> OwnedSnapshot(intent, price)
      [] provider = "simulation" -> SimulationSnapshot(intent, price)
      [] OTHER                   -> ClosedSnapshot(intent, price)

-----------------------------------------------------------------------------
(* RiskRuntime: how an order is judged                                     *)

\* _manual_kill: the first kill switch that covers the intent.
ManualKill(intent) ==
    IF intent.venue \in kills.VENUE THEN "KILL_VENUE"
    ELSE IF intent.portfolio \in kills.PORTFOLIO THEN "KILL_PORTFOLIO"
    ELSE IF intent.strategy \in kills.STRATEGY THEN "KILL_STRATEGY"
    ELSE "KILL_SYMBOL"

KilledMut(intent) ==   \* the symbol switch is not consulted
    \/ systemKilled
    \/ intent.venue \in kills.VENUE \/ intent.portfolio \in kills.PORTFOLIO
    \/ intent.strategy \in kills.STRATEGY

\* A kill switch, the system's or one of the scoped ones, covers the intent.
Killed(intent) ==
    \/ systemKilled
    \/ intent.venue \in kills.VENUE \/ intent.portfolio \in kills.PORTFOLIO
    \/ intent.strategy \in kills.STRATEGY \/ intent.symbol \in kills.SYMBOL

DuplicateMut(intent) ==   \* the window is compared from the wrong side
    /\ lastAllowed[intent] # Absent
    /\ DuplicateWindow > 0
    /\ now - lastAllowed[intent] > DuplicateWindow

\* The same fingerprint was allowed inside the configured window.
Duplicate(intent) ==
    /\ lastAllowed[intent] # Absent
    /\ DuplicateWindow > 0
    /\ now - lastAllowed[intent] < DuplicateWindow

Expired(t) == t + Minute <= now

\* The loop of _accepted_orders_last_minute pops exactly k entries.
Pops(k) ==
    /\ k \in 0..Len(orderTimes)
    /\ \A i \in 1..k : Expired(orderTimes[i])
    /\ k < Len(orderTimes) => ~Expired(orderTimes[k + 1])

OverLimit(s) ==
    \/ s.notional > MaxNotional
    \/ s.symbolExposure + s.notional > MaxSymbolExposure
    \/ s.portfolioExposure + s.notional > MaxPortfolioExposure
    \/ s.capped
    \/ s.abnormal

RateReachedMut(count) == count > MaxOrdersPerMinute   \* off by one

RateReached(count) == count >= MaxOrdersPerMinute

\* evaluate_risk, in the order of the code: the system, the strategy, the order.
EvaluateRisk(s, count) ==
    IF s.stop \/ s.stale \/ ~s.reconciled \/ ~s.healthy THEN "KILL_SYSTEM"
    ELSE IF s.loss THEN "KILL_STRATEGY"
    ELSE IF s.duplicate \/ RateReached(count) \/ OverLimit(s) THEN "BLOCK_ORDER"
    ELSE "ALLOW"

\* The snapshot of the provider with what the runtime itself knows merged in.
Effective(intent, price) ==
    LET s == SnapshotForOrder(intent, price) IN
    [notional |-> s.notional, symbolExposure |-> s.symbolExposure,
     portfolioExposure |-> s.portfolioExposure, loss |-> s.loss,
     capped |-> s.capped \/ correlated[intent.portfolio],
     abnormal |-> s.abnormal, stale |-> s.stale, reconciled |-> s.reconciled,
     stop |-> s.stop, healthy |-> s.healthy /\ health[intent.venue] # FALSE,
     duplicate |-> Duplicate(intent)]

-----------------------------------------------------------------------------
(* The steps                                                               *)

Init ==
    /\ now = 0
    /\ provider \in Providers
    /\ accounts = [key \in Portfolios \X Symbols |-> Absent]
    /\ markets = [symbol \in Symbols |-> Absent]
    /\ recon = Absent
    /\ venues = [venue \in Venues |-> Absent]
    /\ health = [venue \in Venues |-> Absent]
    /\ correlated = [portfolio \in Portfolios |-> FALSE]
    /\ systemKilled = FALSE
    /\ kills = [STRATEGY |-> {}, SYMBOL |-> {}, VENUE |-> {}, PORTFOLIO |-> {}]
    /\ lastAllowed = [intent \in Fingerprints |-> Absent]
    /\ orderTimes = <<>>
    /\ accepted = <<>>
    /\ telemetry = [strategy \in Strategies |->
                       [attempted |-> 0, allowed |-> 0, rejected |-> 0,
                        lastRejection |-> Absent]]

Tick ==
    /\ now < MaxTime[provider]
    /\ now' = now + 1
    /\ UNCHANGED <<provider, providerVars, runtimeVars, orderVars>>

\* The updates of the provider; the other two providers have no such methods.
UpdateAccountState(portfolio, symbol) ==
    /\ provider = "owned"
    /\ \E state \in AccountStates :
          accounts' = [accounts EXCEPT ![<<portfolio, symbol>>] = state]
    /\ UNCHANGED <<now, provider, markets, recon, venues, runtimeVars, orderVars>>

\* An event carries the venue's time, which may lie in the past of this clock.
UpdateMarketState(symbol) ==
    /\ provider = "owned"
    /\ \E observed \in 0..now, abnormal \in BOOLEAN :
          markets' = [markets EXCEPT
                        ![symbol] = [observedAt |-> observed, abnormal |-> abnormal]]
    /\ UNCHANGED <<now, provider, accounts, recon, venues, runtimeVars, orderVars>>

UpdateReconciliation ==
    /\ provider = "owned"
    /\ \E ok \in BOOLEAN : recon' = [ok |-> ok, observedAt |-> now]
    /\ UNCHANGED <<now, provider, accounts, markets, venues, runtimeVars, orderVars>>

\* Kept by the runtime and, with an owned provider, handed on to it.
UpdateApiHealth(venue) ==
    /\ \E healthy \in BOOLEAN :
          /\ health' = [health EXCEPT ![venue] = healthy]
          /\ venues' = IF provider = "owned"
                       THEN [venues EXCEPT ![venue] = healthy] ELSE venues
    /\ UNCHANGED <<now, provider, accounts, markets, recon, correlated,
                   systemKilled, kills, orderVars>>

UpdateCorrelatedExposure(portfolio) ==
    /\ \E over \in BOOLEAN : correlated' = [correlated EXCEPT ![portfolio] = over]
    /\ UNCHANGED <<now, provider, providerVars, health, systemKilled, kills, orderVars>>

\* kill() only ever adds: nothing in the code takes a switch back.
KillSystem ==
    /\ systemKilled' = TRUE
    /\ UNCHANGED <<now, provider, providerVars, health, correlated, kills, orderVars>>

KillKey(scope, key) ==
    /\ kills' = [kills EXCEPT ![scope] = @ \cup {key}]
    /\ UNCHANGED <<now, provider, providerVars, health, correlated, systemKilled, orderVars>>

Attempts(strategy) == telemetry[strategy].attempted

CountRejectedMut(t, action) ==   \* takes an allowed order back for the rejected one
    [attempted |-> t.attempted + 1, allowed |-> t.allowed - 1,
     rejected |-> t.rejected + 1, lastRejection |-> action]

CountRejected(t, action) ==
    [attempted |-> t.attempted + 1, allowed |-> t.allowed,
     rejected |-> t.rejected + 1, lastRejection |-> action]

CountAllowed(t) ==
    [attempted |-> t.attempted + 1, allowed |-> t.allowed + 1,
     rejected |-> t.rejected, lastRejection |-> t.lastRejection]

\* The order is not sent: the decision is recorded, nothing else is remembered.
Reject(strategy, action) ==
    /\ telemetry' = [telemetry EXCEPT ![strategy] = CountRejected(@, action)]
    /\ UNCHANGED <<lastAllowed, accepted>>

Allow(intent) ==
    /\ telemetry' = [telemetry EXCEPT ![intent.strategy] = CountAllowed(@)]
    /\ lastAllowed' = [lastAllowed EXCEPT ![intent] = now]
    /\ accepted' = Append(accepted, [intent |-> intent, at |-> now])

\* submit_order of the hook with a kill switch on: history is not even trimmed.
SubmitKilled(order) ==
    LET intent == Fingerprint(order) IN
    /\ Attempts(intent.strategy) < MaxAttempts[provider]
    /\ Killed(intent)
    /\ Reject(intent.strategy,
              IF systemKilled THEN "KILL_SYSTEM" ELSE ManualKill(intent))
    /\ UNCHANGED <<now, provider, providerVars, runtimeVars, orderTimes>>

\* submit_order otherwise: the history is trimmed, the snapshot is evaluated at
\* the strategy's reference price.
SubmitAt(order, price) ==
    LET intent == Fingerprint(order) IN
    /\ Attempts(intent.strategy) < MaxAttempts[provider]
    /\ ~Killed(intent)
    /\ \E k \in 0..Len(orderTimes) :
          LET rest == SubSeq(orderTimes, k + 1, Len(orderTimes))
              action == EvaluateRisk(Effective(intent, price), Len(rest)) IN
          /\ Pops(k)
          /\ IF action = "ALLOW"
             THEN Allow(intent) /\ orderTimes' = Append(rest, now)
             ELSE Reject(intent.strategy, action) /\ orderTimes' = rest
    /\ UNCHANGED <<now, provider, providerVars, runtimeVars>>

SubmitEvaluated(order) == \E price \in Prices : SubmitAt(order, price)

Next ==
    \/ Tick
    \/ \E portfolio \in Portfolios, symbol \in Symbols :
          UpdateAccountState(portfolio, symbol)
    \/ \E symbol \in Symbols : UpdateMarketState(symbol)
    \/ UpdateReconciliation
    \/ \E venue \in Venues : UpdateApiHealth(venue)
    \/ \E portfolio \in Portfolios : UpdateCorrelatedExposure(portfolio)
    \/ KillSystem
    \/ \E target \in KillTargets : KillKey(target.scope, target.key)
    \/ \E order \in Orders : SubmitKilled(order) \/ SubmitEvaluated(order)

Spec == Init /\ [][Next]_vars

-----------------------------------------------------------------------------
(* Properties                                                              *)

\* Every variable of the governor has its type: the histories hold times and
\* intents, the states of risk_state.py are absent or complete.
TypeOK ==
    /\ now \in Nat
    /\ provider \in Providers
    /\ accounts \in [Portfolios \X Symbols -> Accounts \cup {Absent}]
    /\ markets \in [Symbols -> Markets \cup {Absent}]
    /\ recon \in Reconciliations \cup {Absent}
    /\ venues \in [Venues -> BOOLEAN \cup {Absent}]
    /\ health \in [Venues -> BOOLEAN \cup {Absent}]
    /\ correlated \in [Portfolios -> BOOLEAN]
    /\ systemKilled \in BOOLEAN
    /\ kills \in [STRATEGY : SUBSET Strategies, SYMBOL : SUBSET Symbols,
                  VENUE : SUBSET Venues, PORTFOLIO : SUBSET Portfolios]
    /\ lastAllowed \in [Fingerprints -> Nat \cup {Absent}]
    /\ orderTimes \in Seq(Nat)
    /\ accepted \in Seq([intent : Fingerprints, at : Nat])
    /\ telemetry \in [Strategies -> Telemetry]

\* However time passes and the order history is trimmed (risk_runtime.py:258),
\* no interval of one minute ever holds more accepted orders than the limit:
\* the order that comes a full quota after another comes a minute later.
OrderRateBounded ==
    \A i \in 1..Len(accepted) :
        i + MaxOrdersPerMinute <= Len(accepted)
            => accepted[i + MaxOrdersPerMinute].at >= accepted[i].at + Minute

\* Two accepted orders with one fingerprint lie at least the duplicate window
\* apart, whatever was rejected, killed or submitted between them
\* (risk_runtime.py:282).
DuplicatesSpaced ==
    \A i, j \in 1..Len(accepted) :
        i < j /\ accepted[i].intent = accepted[j].intent
            => accepted[j].at >= accepted[i].at + DuplicateWindow

\* The key each scoped kill switch knows an intent by.
KeyOf(intent) == [STRATEGY |-> intent.strategy, SYMBOL |-> intent.symbol,
                  VENUE |-> intent.venue, PORTFOLIO |-> intent.portfolio]

CoveredByKill(intent) ==
    \/ systemKilled
    \/ \E scope \in {"STRATEGY", "SYMBOL", "VENUE", "PORTFOLIO"} :
          KeyOf(intent)[scope] \in kills[scope]

KillStep ==
    \A order \in Orders :
        LET intent == Fingerprint(order) IN
        CoveredByKill(intent) =>
            /\ CoveredByKill(intent)'
            /\ accepted' # accepted => accepted'[Len(accepted')].intent # intent

\* Once a kill switch covers an intent no order of that intent is accepted any
\* more, and the switch stays on (risk_runtime.py:176, 245, 268).
KilledNeverTrades == [][KillStep]_vars

ReportedStateStep ==
    accepted' # accepted =>
        LET intent == accepted'[Len(accepted')].intent IN
        \/ provider = "simulation"
        \/ /\ provider = "owned"
           /\ \E account \in AccountStates, price \in Prices \ {0} :
                 /\ accounts[<<intent.portfolio, intent.symbol>>] = account
                 /\ ~account.loss /\ ~account.capped
                 /\ account.symbolExposure + Notional(intent, price)
                       <= MaxSymbolExposure
                 /\ account.portfolioExposure + Notional(intent, price)
                       <= MaxPortfolioExposure
           /\ markets[intent.symbol] # Absent
           /\ now <= markets[intent.symbol].observedAt + MaxMarketAge
           /\ recon # Absent /\ recon.ok /\ now <= recon.observedAt + MaxReconAge
           /\ venues[intent.venue] = TRUE /\ health[intent.venue] # FALSE

\* An execution path owns its risk state: an order is accepted only while
\* every state it depends on has been reported and is in order, the exposure it
\* adds fits the caps, and the market and reconciliation reports are recent
\* (RiskStateProvider: "never interprets absent execution state as healthy",
\* risk_state.py:82).
AcceptedOnlyOnReportedState == [][ReportedStateStep]_vars

=============================================================================
