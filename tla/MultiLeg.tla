------------------------------ MODULE MultiLeg ------------------------------
(***************************************************************************)
(* A strategy of two or more legs (nautilus_multileg_strategy.py) with its *)
(* entry signals (execution_signals.py) and exit policies                  *)
(* (execution_policy.py), the governor that may refuse any of its orders   *)
(* and the venue that answers them.                                        *)
(*                                                                         *)
(* Prices are abstracted: where the code compares them with a threshold    *)
(* either outcome is possible.  Weights are tenths, quantities multiples   *)
(* of an instrument's smallest unit.  Orders are answered before the next  *)
(* bar, as the Nautilus back-test does; a stop may come in between.        *)
(*                                                                         *)
(* A spot venue nets: a leg has one position at most.  A margin venue      *)
(* hedges (nautilus_evaluation.py 144-154): every order of a decision      *)
(* opens a position of its own, the quantity of a leg is their sum, and a  *)
(* stop closes them one by one.                                            *)
(***************************************************************************)
EXTENDS Integers, Sequences, FiniteSets, Functions

CONSTANTS Legs,         \* the instruments of the genome, in its order
          Policies,     \* entry, exit, window, ratio, periods, shorts; on margin or spot
          Instruments,  \* of each leg: step, min, max
          BaseSize,     \* trade size
          MaxBars       \* bound: bars of a leg

\* Instruments are unique and sizes positive; a hedge ratio and the number of
\* periods are positive.
ASSUME LegsAssumption == Legs \in Seq(STRING) /\ Len(Legs) >= 2 /\ IsInjective(Legs)

\* The families pair entries and exits and have two legs, but for the rotation
\* (strategy_families.py, research/generator.py 195-199); a z-score needs two
\* values.
Families == {<<"cointegration_spread", "spread_mean_exit">>, <<"funding_basis", "edge_decay">>,
             <<"hedged_basis", "drift">>, <<"strategy_rotation", "periods">>}

ASSUME PoliciesAssumption ==
    /\ Policies \subseteq
           [entry : {"cointegration_spread", "funding_basis", "hedged_basis", "strategy_rotation"},
            exit : {"spread_mean_exit", "edge_decay", "drift", "periods"},
            window : Nat, ratio : Nat \ {0}, periods : Nat \ {0},
            shorts : BOOLEAN, margin : BOOLEAN]
    /\ \A p \in Policies :
           /\ <<p.entry, p.exit>> \in Families
           /\ p.entry # "strategy_rotation" => Len(Legs) = 2
           /\ p.entry = "cointegration_spread" => p.window >= 2

ASSUME SizesAssumption ==
    /\ Instruments \in [{Legs[i] : i \in DOMAIN Legs} -> [step : Nat \ {0}, min : Nat, max : Nat]]
    /\ BaseSize \in Nat \ {0}
    /\ MaxBars \in Nat

VARIABLES policy,       \* of the genome
          bars,         \* bars received of each leg
          lastLegs,     \* the weights the strategy believes it holds
          barsHeld,
          positions,    \* of each leg: signed quantities, 0 once closed
          orders,       \* unanswered: leg, delta, the position it closes or 0
          status,       \* running, failed (a handler raised) or stopped
          missed        \* history: legs whose last target was not reached

vars == <<policy, bars, lastLegs, barsHeld, positions, orders, status, missed>>

LegSet == {Legs[i] : i \in DOMAIN Legs}

NoLegs == <<>>

ZeroLegs == [leg \in LegSet |-> 0]

IsOpen(legs) == \E leg \in LegSet : legs[leg] # 0

Init ==
    /\ policy \in Policies
    /\ bars = ZeroLegs
    /\ lastLegs = ZeroLegs
    /\ barsHeld = 0
    /\ positions = [leg \in LegSet |-> <<>>]
    /\ orders = {}
    /\ status = "running"
    /\ missed = {}

Abs(n) == IF n < 0 THEN -n ELSE n

\* Bars every leg has: the longer histories are cut at their old end.
Aligned(count) == CHOOSE n \in {count[leg] : leg \in LegSet} :
                      \A leg \in LegSet : n <= count[leg]

-----------------------------------------------------------------------------
(***************************************************************************)
(* Decisions.                                                              *)
(***************************************************************************)
Pair(left, right) == [leg \in LegSet |-> IF leg = Legs[1] THEN left ELSE right]

\* What the market may make of the entry rule; NoLegs is its flat answer.  The
\* bars carry no funding state, so that the edge of a funding basis is zero.
Signals(count) ==
    CASE policy.entry = "cointegration_spread" ->
            {NoLegs} \cup (IF count <= policy.window THEN {} ELSE {Pair(-10, 10), Pair(10, -10)})
      [] policy.entry = "funding_basis" -> {NoLegs}
      [] policy.entry = "hedged_basis" ->
            {NoLegs, Pair(-10, policy.ratio), Pair(10, -policy.ratio)}
      [] policy.entry = "strategy_rotation" ->
            {NoLegs} \cup (IF count <= policy.window THEN {}
                           ELSE {[leg \in LegSet |-> IF leg = winner THEN 10 ELSE 0] :
                                    winner \in LegSet})

\* A rotation divides by the price its look-back starts from.
SignalRaises(count) == policy.entry = "strategy_rotation" /\ count > policy.window

Entry(count) == {[legs |-> legs, rebalance |-> FALSE] : legs \in Signals(count)}

Hold == [legs |-> lastLegs, rebalance |-> FALSE]

Close == [legs |-> ZeroLegs, rebalance |-> FALSE]

Rebalance(count) == {[legs |-> legs, rebalance |-> TRUE] : legs \in Signals(count)}

\* What an open strategy may decide.  The decay of an edge and the drift of a
\* hedge need market state that the strategy's bars do not carry.
Due == barsHeld # 0 /\ barsHeld % policy.periods = 0

Exit(count) ==
    CASE policy.exit = "spread_mean_exit" ->
            IF count <= policy.window THEN {Hold} ELSE {Hold, Close}
      [] policy.exit \in {"edge_decay", "drift"} -> {}
      [] policy.exit = "periods" -> IF Due THEN Rebalance(count) ELSE {Hold}

ExitRaises(count) ==
    \/ policy.exit \in {"edge_decay", "drift"}
    \/ policy.exit = "periods" /\ Due /\ SignalRaises(count)

Decisions(count) == IF IsOpen(lastLegs) THEN Exit(count) ELSE Entry(count)

DecisionRaises(count) == IF IsOpen(lastLegs) THEN ExitRaises(count) ELSE SignalRaises(count)

-----------------------------------------------------------------------------
(***************************************************************************)
(* From weights to orders.                                                 *)
(***************************************************************************)
Weight(weight) == IF weight < 0 /\ ~policy.shorts THEN 0 ELSE weight

RoundedDown(leg, quantity) == (quantity \div Instruments[leg].step) * Instruments[leg].step

Tradable(leg, quantity) ==
    /\ quantity % Instruments[leg].step = 0
    /\ quantity >= Instruments[leg].min /\ quantity <= Instruments[leg].max

\* The quantity a weight stands for.
Target(leg, weight) ==
    LET magnitude == RoundedDown(leg, (BaseSize * Abs(weight)) \div 10)
    IN IF weight >= 0 THEN magnitude ELSE -magnitude

\* The sums of the first n quantities, for every n.
Sums(quantities) ==
    LET sum[n \in 0..Len(quantities)] ==
            IF n = 0 THEN 0 ELSE sum[n - 1] + quantities[n]
    IN sum

Total(quantities) == Sums(quantities)[Len(quantities)]

\* The signed quantity of a leg, all its open positions together.
Net(leg) == Total(positions[leg])

\* Only the first of a leg's positions is looked at.
DeltaMut(leg, weight) ==
    Target(leg, Weight(weight)) - IF positions[leg] = <<>> THEN 0 ELSE Head(positions[leg])

Delta(leg, weight) == Target(leg, Weight(weight)) - Net(leg)

\* The code raises on a target that rounds to zero or is out of the
\* instrument's range, and on an order that is: a reversal is twice a target.
Raises(leg, weight) ==
    LET target == Target(leg, Weight(weight))
    IN \/ Weight(weight) # 0 /\ (target = 0 \/ ~Tradable(leg, Abs(target)))
       \/ Delta(leg, weight) # 0 /\ ~Tradable(leg, Abs(Delta(leg, weight)))

\* Legs in front of the first one that raises.
Reached(legs) == {i \in DOMAIN Legs : \A j \in 1..i : ~Raises(Legs[j], legs[Legs[j]])}

Holding(legs) == IF ~IsOpen(legs) THEN 0 ELSE IF IsOpen(lastLegs) THEN barsHeld + 1 ELSE 1

\* One bar of one leg.  The strategy believes its targets reached when it has
\* sent the orders, whatever the governor and the venue make of them; it sends
\* those of the legs before one that raises.
OnBar(leg) ==
    /\ status = "running" /\ orders = {}
    /\ bars[leg] < MaxBars
    /\ bars' = [bars EXCEPT ![leg] = @ + 1]
    /\ \/ /\ \E other \in LegSet : bars'[other] = 0
          /\ UNCHANGED <<lastLegs, barsHeld, orders, status, missed>>
       \/ /\ \A other \in LegSet : bars'[other] # 0
          /\ DecisionRaises(Aligned(bars'))
          /\ status' = "failed"
          /\ UNCHANGED <<lastLegs, barsHeld, orders, missed>>
       \/ /\ \A other \in LegSet : bars'[other] # 0
          /\ \E decision \in Decisions(Aligned(bars')), refused \in SUBSET LegSet :
             LET targets == IF decision.legs = NoLegs THEN ZeroLegs ELSE decision.legs
                 applies == targets # lastLegs \/ decision.rebalance
                 reached == {Legs[i] : i \in Reached(targets)}
                 needed == {l \in reached : Delta(l, targets[l]) # 0}
             IN IF ~applies \/ decision.legs = NoLegs
                THEN /\ refused = {}
                     /\ UNCHANGED <<orders, status>>
                     /\ missed' = IF applies THEN LegSet ELSE missed
                     /\ lastLegs' = targets /\ barsHeld' = Holding(targets)
                ELSE /\ refused \subseteq needed
                     /\ orders' = {[leg |-> l, delta |-> Delta(l, targets[l]), closes |-> 0] :
                                      l \in needed \ refused}
                     /\ IF reached = LegSet
                        THEN /\ missed' = refused
                             /\ lastLegs' = targets /\ barsHeld' = Holding(targets)
                             /\ UNCHANGED status
                        ELSE /\ missed' = LegSet
                             /\ status' = "failed"
                             /\ UNCHANGED <<lastLegs, barsHeld>>
    /\ UNCHANGED <<policy, positions>>

\* A close is reduce-only: it takes away at most what is there.
Netted(net, order) ==
    IF order.closes = 0 THEN net + order.delta
    ELSE IF net * order.delta >= 0 THEN net
    ELSE IF Abs(order.delta) >= Abs(net) THEN 0
    ELSE net + order.delta

\* What a fill makes of the leg's positions: on margin an order of a decision
\* opens a position, and a close ends the one it names.
Filled(order) ==
    LET held == positions[order.leg]
        net == Netted(Net(order.leg), order)
    IN IF ~policy.margin THEN IF net = 0 THEN <<>> ELSE <<net>>
       ELSE IF order.closes = 0 THEN Append(held, order.delta)
       ELSE [held EXCEPT ![order.closes] = 0]

\* The venue answers the orders of a leg as they were sent: that of the last
\* decision before the closes of a stop.
Answerable == {order \in orders :
                  \A other \in orders : other.leg = order.leg => order.closes <= other.closes}

VenueFills ==
    \E order \in Answerable :
        /\ positions' = [positions EXCEPT ![order.leg] = Filled(order)]
        /\ orders' = orders \ {order}
        /\ UNCHANGED <<policy, bars, lastLegs, barsHeld, status, missed>>

VenueRejects ==
    \E order \in Answerable :
        /\ missed' = missed \cup {order.leg}
        /\ orders' = orders \ {order}
        /\ UNCHANGED <<policy, bars, lastLegs, barsHeld, positions, status>>

\* Only the first of a leg's positions is closed.
ClosesOfMut(leg) ==
    {[leg |-> leg, delta |-> -positions[leg][i], closes |-> i] :
        i \in {j \in DOMAIN positions[leg] : j = 1 /\ positions[leg][j] # 0}}

\* One order for each open position of a leg.
ClosesOf(leg) ==
    {[leg |-> leg, delta |-> -positions[leg][i], closes |-> i] :
        i \in {j \in DOMAIN positions[leg] : positions[leg][j] # 0}}

Closes == UNION {ClosesOf(leg) : leg \in LegSet}

\* Stopping closes the positions the engine knows, each by an order that may be
\* refused alone; what an unanswered order still brings stays open.
OnStop ==
    /\ status # "stopped"
    /\ \E refused \in SUBSET Closes :
          /\ orders' = orders \cup (Closes \ refused)
          /\ missed' = {order.leg : order \in refused \cup orders}
    /\ status' = "stopped"
    /\ UNCHANGED <<policy, bars, lastLegs, barsHeld, positions>>

Next ==
    \/ \E leg \in LegSet : OnBar(leg)
    \/ VenueFills \/ VenueRejects
    \/ OnStop

Spec == Init /\ [][Next]_vars

-----------------------------------------------------------------------------
Weights == {0, 10, -10, policy.ratio, -policy.ratio}

\* Once its orders are answered a leg stands at the target of the last
\* decision, or flat after a stop, unless the governor refused its order, the
\* venue rejected it, a target raised, or a rebalance found no signal and sent
\* nothing (nautilus_multileg_strategy.py 149-236).
LegsAtTarget ==
    orders = {} =>
        \A leg \in LegSet \ missed :
            Net(leg) = IF status = "stopped" THEN 0
                       ELSE Target(leg, Weight(lastLegs[leg]))

\* However many orders are refused, rejected or cut short, the positions of a
\* leg add up to nothing or to exactly what one of the genome's weights stands
\* for, and never to a short the genome does not allow
\* (calculate_leg_order_delta).  A stop on a margin venue is excepted: each
\* position is closed, refused or rejected alone, and what stays of a leg may
\* be several targets or a short.
PositionsOnTarget ==
    ~(policy.margin /\ status = "stopped") =>
        \A leg \in LegSet :
            /\ \E weight \in Weights : Net(leg) = Target(leg, weight)
            /\ Net(leg) < 0 => policy.shorts

=============================================================================
