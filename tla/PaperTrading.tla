---------------------------- MODULE PaperTrading ----------------------------
(***************************************************************************)
(* One shared PAPER portfolio trading under the risk governor: the         *)
(* dispatch of a market event by execution_runtime.py and                  *)
(* paper_portfolio.py, the decisions of execution_policy.py, the orders    *)
(* nautilus_bar_strategy.py makes of them, and RiskGovernor, which every   *)
(* order passes.                                                           *)
(*                                                                         *)
(* Every event carries a price of its instrument, at which the positions   *)
(* are valued before its strategies are asked.  They all see the positions *)
(* and the account state of that moment: the sandbox fills what was        *)
(* accepted after the last of them returned, and the account state is      *)
(* refreshed again after that.                                             *)
(*                                                                         *)
(* Abstractions.  Bars arrive in order; the sandbox fills every market     *)
(* order it is given; equity is not kept, so that a loss is reported       *)
(* freely and leverage, which a cash account does not take, stays under    *)
(* its cap.  Which signal or exit fires is chosen freely.  A kill ends the *)
(* worker's loop, so no order is submitted after one.                      *)
(***************************************************************************)
EXTENDS RiskGovernor, Integers, FiniteSetsExt

CONSTANTS
    InstrumentOf,   \* the one instrument each strategy trades
    Size,           \* trade_size of each strategy
    ShortSellers,   \* the strategies whose genome has allow_short
    Product,        \* "SPOT" or "USD_M"
    RawSymbol,      \* the symbol of the venue a USD-M perpetual is streamed under
    Venue, Portfolio,
    MaxCorrelatedExposure,
    BarAges,        \* how old a bar may be when it is delivered
    MaxEvents       \* bound of the model

Instruments == {InstrumentOf[strategy] : strategy \in Strategies}

Directions == {-1, 0, 1}   \* SHORT, FLAT, LONG

Decisions == [direction : Directions, close : BOOLEAN]

ASSUME TradingAssumption ==
    /\ IsFiniteSet(Strategies)
    /\ Absent \notin Decisions
    /\ InstrumentOf \in [Strategies -> Symbols]
    /\ Size \in [Strategies -> Nat \ {0}]
    /\ ShortSellers \subseteq Strategies
    /\ Product \in {"SPOT", "USD_M"}
    /\ RawSymbol \in [Instruments -> Symbols]
    /\ Venue \in Venues /\ Portfolio \in Portfolios
    /\ MaxCorrelatedExposure \in Nat
    /\ BarAges \subseteq Nat /\ MaxEvents \in Nat

VARIABLES
    events,     \* market events begun
    phase,      \* "idle" between two events, "event" during one
    measured,   \* the event came with a spread and a volatility
    waiting,    \* strategies the bar is still to be delivered to
    asked,      \* orders of the strategy at work, not submitted yet
    sent,       \* signed quantity accepted of each strategy and not filled yet
    filling,    \* how many orders that is
    price,      \* the latest price of each instrument, 0 before its first event
    position,   \* the open position of each strategy, signed
    decision    \* last_decision of each strategy, Absent before its first bar

tradeVars == <<events, phase, measured, waiting, asked, sent, filling, price,
               position, decision>>

-----------------------------------------------------------------------------
(* The account                                                             *)

Sign(n) == IF n > 0 THEN 1 ELSE IF n < 0 THEN -1 ELSE 0

Magnitude(n) == IF n < 0 THEN -n ELSE n

\* What Portfolio.is_flat, is_net_long and is_net_short look at: the positions
\* of all strategies on the instrument.
Net(positions, instrument) ==
    MapThenSumSet(LAMBDA strategy : positions[strategy],
                  {strategy \in Strategies : InstrumentOf[strategy] = instrument})

\* _latest_prices values the net position.
Exposure(positions, prices, instrument) ==
    Magnitude(Net(positions, instrument)) * prices[instrument]

PortfolioExposure(positions, prices) ==
    MapThenSumSet(LAMBDA instrument : Exposure(positions, prices, instrument),
                  Instruments)

\* What is reported of an instrument of the account.
Account(positions, prices, loss, instrument) ==
    [symbolExposure |-> Exposure(positions, prices, instrument),
     portfolioExposure |-> PortfolioExposure(positions, prices),
     loss |-> loss,
     capped |-> PortfolioExposure(positions, prices) > MaxCorrelatedExposure]

RefreshedMut(positions, prices, loss) ==   \* the account state is never refreshed
    accounts

StaleMut(positions, prices, loss) ==   \* refreshed at the prices before the event
    [key \in Portfolios \X Symbols |->
        IF key[1] = Portfolio /\ key[2] \in Instruments
        THEN Account(positions, price, loss, key[2]) ELSE accounts[key]]

\* _refresh_account_risk: the state of the account, reported per instrument.
Refreshed(positions, prices, loss) ==
    [key \in Portfolios \X Symbols |->
        IF key[1] = Portfolio /\ key[2] \in Instruments
        THEN Account(positions, prices, loss, key[2]) ELSE accounts[key]]

\* ExecutionRuntime._risk_symbol: the symbol the event came with, qualified
\* with the venue.  A perpetual is streamed under the name of its spot pair.
RiskSymbol(instrument) ==
    IF Product = "SPOT" THEN instrument ELSE RawSymbol[instrument]

-----------------------------------------------------------------------------
(* A strategy at a bar                                                     *)

\* evaluate_execution_policy: a flat strategy follows its signal; one with a
\* position holds it, closes it, or closes it for the opposite direction.
Policy(strategy) ==
    LET own == Sign(position[strategy]) IN
    IF own = 0 THEN [direction : Directions, close : {FALSE}]
    ELSE {[direction |-> own, close |-> FALSE], [direction |-> 0, close |-> TRUE]}
           \cup {[direction |-> -own, close |-> TRUE] :
                    d \in IF own = -1 \/ strategy \in ShortSellers THEN {own} ELSE {}}

\* _apply_decision closes the strategy's positions because the decision says so
\* and the account is not flat, or because the account is net on the other side.
Closing(strategy, d) ==
    LET net == Net(position, InstrumentOf[strategy]) IN
    \/ d.close /\ net # 0
    \/ d.direction # 0 /\ d.direction * net < 0

EnteringMut(strategy, d) ==   \* enters again on the side the account is on
    d.direction = 1 \/ (d.direction = -1 /\ strategy \in ShortSellers)

\* ... and enters unless the account is net on that side already.
Entering(strategy, d) ==
    /\ d.direction = 1 \/ (d.direction = -1 /\ strategy \in ShortSellers)
    /\ d.direction * Net(position, InstrumentOf[strategy]) <= 0

MarketOrder(strategy, quantity, reduceOnly) ==
    [intent |-> [strategy |-> strategy, symbol |-> InstrumentOf[strategy],
                 venue |-> Venue, portfolio |-> Portfolio,
                 side |-> IF quantity > 0 THEN "BUY" ELSE "SELL",
                 qty |-> Magnitude(quantity)],
     reduceOnly |-> reduceOnly]

Signed(intent) == IF intent.side = "BUY" THEN intent.qty ELSE -intent.qty

\* The orders of one decision: close_all_positions, then _submit_market.
Wanted(strategy, d) ==
    (IF Closing(strategy, d) /\ position[strategy] # 0
     THEN <<MarketOrder(strategy, -position[strategy], TRUE)>> ELSE <<>>)
    \o
    (IF Entering(strategy, d)
     THEN <<MarketOrder(strategy, d.direction * Size[strategy], FALSE)>> ELSE <<>>)

-----------------------------------------------------------------------------
(* The steps                                                               *)

NoPosition == [strategy \in Strategies |-> 0]

\* runtime_factory: an empty account is reported and the venue is healthy.
TradingInit ==
    /\ now = 0
    /\ provider = "owned"
    /\ accounts = [key \in Portfolios \X Symbols |->
                     IF key[1] = Portfolio /\ key[2] \in Instruments
                     THEN [symbolExposure |-> 0, portfolioExposure |-> 0,
                           loss |-> FALSE, capped |-> FALSE]
                     ELSE Absent]
    /\ markets = [symbol \in Symbols |-> Absent]
    /\ recon = Absent
    /\ venues = [venue \in Venues |-> IF venue = Venue THEN TRUE ELSE Absent]
    /\ health = venues
    /\ correlated = [portfolio \in Portfolios |-> FALSE]
    /\ systemKilled = FALSE
    /\ kills = [STRATEGY |-> {}, SYMBOL |-> {}, VENUE |-> {}, PORTFOLIO |-> {}]
    /\ lastAllowed = [intent \in Fingerprints |-> Absent]
    /\ orderTimes = <<>>
    /\ accepted = <<>>
    /\ telemetry = [strategy \in Strategies |->
                       [attempted |-> 0, allowed |-> 0, rejected |-> 0,
                        lastRejection |-> Absent]]
    /\ events = 0
    /\ phase = "idle"
    /\ measured = FALSE
    /\ waiting = {}
    /\ asked = <<>>
    /\ sent = NoPosition
    /\ filling = 0
    /\ price = [instrument \in Instruments |-> 0]
    /\ position = NoPosition
    /\ decision = [strategy \in Strategies |-> Absent]

\* The strategies that subscribe to the bars of an instrument.
Subscribers(instrument) ==
    {strategy \in Strategies : InstrumentOf[strategy] = instrument}

\* dispatch: the price of the event, then the account state at that price.  The
\* first event is preceded by the startup reconciliation.
BeginEvent(instrument, recipients, metrics) ==
    /\ phase = "idle"
    /\ events < MaxEvents
    /\ events' = events + 1
    /\ recon' = IF recon = Absent THEN [ok |-> TRUE, observedAt |-> now] ELSE recon
    /\ \E latest \in Prices : price' = [price EXCEPT ![instrument] = latest]
    /\ \E loss \in BOOLEAN : accounts' = Refreshed(position, price', loss)
    /\ phase' = "event"
    /\ measured' = metrics
    /\ waiting' = recipients
    /\ UNCHANGED <<now, provider, venues, runtimeVars, orderVars, asked, sent,
                   filling, position, decision>>

\* A quote, with the time the worker read it at; no strategy subscribes to it.
BeginQuote(instrument) ==
    /\ BeginEvent(instrument, {}, TRUE)
    /\ markets' = [markets EXCEPT ![RiskSymbol(instrument)] =
                     [observedAt |-> now, abnormal |-> FALSE]]

\* A closed bar, with the time it closed at.
BeginBar(instrument) ==
    /\ BeginEvent(instrument, Subscribers(instrument), TRUE)
    /\ \E age \in BarAges :
          /\ age <= now
          /\ markets' = [markets EXCEPT ![RiskSymbol(instrument)] =
                           [observedAt |-> now - age, abnormal |-> FALSE]]

\* An event before the stream has seen two quotes has no volatility, and
\* _refresh_market_risk_state returns without an update.
BeginUnmeasured(instrument) ==
    /\ markets[RiskSymbol(instrument)] = Absent
    /\ \E recipients \in {{}, Subscribers(instrument)} :
          BeginEvent(instrument, recipients, FALSE)
    /\ UNCHANGED markets

\* on_bar: the strategy decides, and its orders go to submit_order.
OnBar(strategy) ==
    /\ phase = "event"
    /\ strategy \in waiting
    /\ asked = <<>>
    /\ \E d \in Policy(strategy) :
          /\ decision' = [decision EXCEPT ![strategy] = d]
          /\ asked' = Wanted(strategy, d)
    /\ waiting' = waiting \ {strategy}
    /\ UNCHANGED <<now, provider, providerVars, runtimeVars, orderVars, events,
                   phase, measured, sent, filling, price, position>>

\* The order is judged at the close of the strategy's last bar: the latest price.
SubmitOrder ==
    /\ asked # <<>>
    /\ LET order == Head(asked)
           strategy == order.intent.strategy IN
       /\ SubmitAt(order, price[order.intent.symbol])
       /\ IF accepted' = accepted THEN UNCHANGED <<sent, filling>>
          ELSE /\ sent' = [sent EXCEPT ![strategy] = @ + Signed(order.intent)]
               /\ filling' = filling + 1
    /\ asked' = Tail(asked)
    /\ UNCHANGED <<events, phase, measured, waiting, price, position, decision>>

\* The sandbox fills; the account state, the reconciliation and the journal follow.
EndEvent ==
    /\ phase = "event"
    /\ waiting = {} /\ asked = <<>>
    /\ position' = [strategy \in Strategies |-> position[strategy] + sent[strategy]]
    /\ sent' = NoPosition
    /\ filling' = 0
    /\ \E loss \in BOOLEAN : accounts' = Refreshed(position', price, loss)
    /\ recon' = [ok |-> TRUE, observedAt |-> now]
    /\ phase' = "idle"
    /\ UNCHANGED <<now, provider, markets, venues, runtimeVars, orderVars, events,
                   measured, waiting, asked, price, decision>>

TradingNext ==
    \/ Tick /\ UNCHANGED tradeVars
    \/ \E instrument \in Instruments :
          \/ BeginQuote(instrument)
          \/ BeginBar(instrument)
          \/ BeginUnmeasured(instrument)
    \/ \E strategy \in Strategies : OnBar(strategy)
    \/ SubmitOrder
    \/ EndEvent

TradingSpec == TradingInit /\ [][TradingNext]_<<vars, tradeVars>>

-----------------------------------------------------------------------------
(* Properties                                                              *)

\* No other strategy trades the instrument of this one.
Alone(strategy) == Subscribers(InstrumentOf[strategy]) = {strategy}

CapStep ==
    \A strategy \in Strategies :
        Alone(strategy) /\ position'[strategy] # position[strategy] =>
            /\ Exposure(position', price', InstrumentOf[strategy]) <= MaxSymbolExposure
            /\ PortfolioExposure(position', price') <= MaxPortfolioExposure

\* An event that trades for a strategy alone on its instrument leaves the account
\* within both caps at the price of that event, although its close and its entry
\* are each judged by the account as it was before them and the price may have
\* carried the account past a cap since the last event ("hard limits for ...
\* portfolio exposure", MASTER_PLAN.md:159; paper_portfolio.py:447-457, 534-541).
TradesKeepCaps == [][CapStep]_<<vars, tradeVars>>

OvershootStep ==
    \A strategy \in Strategies :
        position'[strategy] # position[strategy] =>
            LET instrument == InstrumentOf[strategy]
                before == Exposure(position, price', instrument)
                total == PortfolioExposure(position, price') IN
            /\ Exposure(position', price', instrument)
                  <= before + filling * (MaxSymbolExposure - before)
            /\ PortfolioExposure(position', price')
                  <= total + filling * (MaxPortfolioExposure - total)

\* Strategies that share an instrument are judged one by one by the account as it
\* was before any of them, so that one event may pass a cap; but each order finds
\* the same room, and an account that the price has carried past a cap has none,
\* so that nothing is traded: n orders take at most n times the room there was
\* (paper_portfolio.py:536-540, risk.py:101).
OvershootBounded == [][OvershootStep]_<<vars, tradeVars>>

\* What a decision may make of the position of the strategy that took it: a
\* hold leaves it, an exit or a reversal closes it, a direction is entered once,
\* and the risk governor may refuse any of the orders.
Permitted(strategy, before, d) ==
    IF d = Absent \/ (Sign(before) # 0 /\ d.direction = Sign(before)) THEN {before}
    ELSE {before, 0, d.direction * Size[strategy]}

DecisionStep ==
    \A strategy \in Strategies :
        position'[strategy] \in
            Permitted(strategy, position[strategy], decision[strategy])

\* The position of a strategy follows its own decisions, whatever the other
\* strategies of the account hold ("per-strategy StrategyGenome semantics",
\* README.md:91; nautilus_bar_strategy.py:198-224).
DecisionsKept == [][DecisionStep]_<<vars, tradeVars>>

LoneDecisionStep ==
    \A strategy \in Strategies :
        Alone(strategy) =>
            position'[strategy] \in
                Permitted(strategy, position[strategy], decision[strategy])

\* The same for the strategies alone on their instrument, while others of the
\* account share one: what a hold, an exit or a reversal may make of a position,
\* whichever of the two orders the governor refuses.
LoneDecisionsKept == [][LoneDecisionStep]_<<vars, tradeVars>>

\* A strategy that is given a bar the stream has metrics for has a market state
\* it may submit against ("Fresh market state must exist before a strategy can
\* submit against this event", execution_runtime.py:269).
MarketStateReported ==
    measured =>
        \A strategy \in waiting : markets[InstrumentOf[strategy]] # Absent

=============================================================================
