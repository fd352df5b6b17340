--------------------------- MODULE MCRiskGovernor ---------------------------
(***************************************************************************)
(* Small instance of RiskGovernor for TLC: two orders of two strategies on *)
(* one symbol, the second also submitted to reduce a position, which its   *)
(* fingerprint does not tell.  Exposure 1 plus an order of notional 1      *)
(* reaches the caps, notional 2 passes them.                               *)
(***************************************************************************)
EXTENDS RiskGovernor, TLC

CONSTANTS s1, s2, eth, binance, main

MCIntent(strategy, side) ==
    [strategy |-> strategy, symbol |-> eth, venue |-> binance,
     portfolio |-> main, side |-> side, qty |-> 1]

MCOrders ==
    {[intent |-> MCIntent(s1, "BUY"), reduceOnly |-> FALSE],
     [intent |-> MCIntent(s2, "SELL"), reduceOnly |-> TRUE]}

MCAccount(symbol, portfolio, loss) ==
    [symbolExposure |-> symbol, portfolioExposure |-> portfolio,
     loss |-> loss, capped |-> FALSE]

MCAccountStates == {MCAccount(0, 0, FALSE), MCAccount(1, 2, FALSE), MCAccount(0, 0, TRUE)}

MCTarget(scope, key) == [scope |-> scope, key |-> key]

\* One scope that hits a single strategy, and two that hit both.
MCTargets == {MCTarget("STRATEGY", s1), MCTarget("SYMBOL", eth)}

\* Reports multiply the states of an owned provider, so it has time for reports
\* to age and an order of each strategy; the simulation provider has no reports
\* and gets the time that two orders of each strategy spread over.
MCMaxTime == ("owned" :> 2) @@ ("none" :> 2) @@ ("simulation" :> 5)

MCMaxAttempts == ("owned" :> 1) @@ ("none" :> 1) @@ ("simulation" :> 2)

=============================================================================
