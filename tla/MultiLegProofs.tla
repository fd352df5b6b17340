---------------------------- MODULE MultiLegProofs ----------------------------
(***************************************************************************)
(* Theorems about MultiLeg, for any genomes, instruments and sizes: after  *)
(* its orders are answered a leg that missed nothing stands at its target, *)
(* and whatever is refused, rejected or cut short, no leg ever holds       *)
(* anything but a target, before a stop and after one that nets.           *)
(*                                                                         *)
(* Neither is inductive.  A leg knows one size only (Size), so that the    *)
(* close of a netted position finds what it expects or nothing it could    *)
(* halve; an unanswered order leads from where the leg stands to a target  *)
(* (OrdersInv); and every position that a stop has to close and did not    *)
(* miss waits for an order that names it (ReachInv).                       *)
(***************************************************************************)
EXTENDS MultiLeg, NaturalsInduction, SequenceTheorems, WellFoundedInduction, TLAPS

-----------------------------------------------------------------------------
\* THE INDUCTIVE INVARIANT

Orders == [leg : LegSet, delta : Int, closes : Nat]

\* The one weight a leg of this genome has, up to its sign, and what the leg
\* holds for it.
LegWeight(leg) == IF policy.entry = "hedged_basis" /\ leg = Legs[2] THEN policy.ratio ELSE 10

Size(leg) == Target(leg, LegWeight(leg))

WeightsOf(leg) == {0, LegWeight(leg), -LegWeight(leg)}

\* What a leg may hold.
Held(leg, quantity) ==
    /\ quantity \in {0, Size(leg), -Size(leg)}
    /\ quantity < 0 => policy.shorts

\* A margin venue closes position by position.
Loose == policy.margin /\ status = "stopped"

MultiLegTyped ==
    /\ policy \in Policies
    /\ bars \in [LegSet -> Nat]
    /\ lastLegs \in [LegSet -> Int]
    /\ barsHeld \in Nat
    /\ positions \in [LegSet -> Seq(Int)]
    /\ orders \subseteq Orders
    /\ status \in {"running", "failed", "stopped"}
    /\ missed \subseteq LegSet

WeightsInv == \A leg \in LegSet : lastLegs[leg] \in WeightsOf(leg)

\* A venue that nets keeps one position at most.
NettingInv ==
    ~policy.margin =>
        \A leg \in LegSet : positions[leg] = IF Net(leg) = 0 THEN <<>> ELSE <<Net(leg)>>

PositionsInv == ~Loose => \A leg \in LegSet : Held(leg, Net(leg))

\* An order of a decision leads to a target; a close comes with a stop and is
\* of a whole size where the venue nets, of a known position where it hedges.
OrdersInv ==
    /\ \A order \in orders :
          order.closes = 0 /\ ~Loose => Held(order.leg, Net(order.leg) + order.delta)
    /\ \A order \in orders :
          order.closes # 0 =>
              /\ status = "stopped"
              /\ IF policy.margin THEN order.closes \in DOMAIN positions[order.leg]
                 ELSE /\ order.closes = 1 /\ order.delta # 0
                      /\ order.delta \in {Size(order.leg), -Size(order.leg)}
    /\ \A order, other \in orders :
          order.leg = other.leg /\ order.closes = other.closes => order = other

Goal(leg) == Target(leg, Weight(lastLegs[leg]))

\* A leg that missed nothing is on its way: it waits for the one order that
\* takes it there, or it has arrived; after a stop each of its positions is
\* closed or waits for its close.
ReachInv ==
    \A leg \in LegSet \ missed :
        IF status = "stopped"
        THEN /\ \A order \in orders : order.leg = leg =>
                   order.closes # 0 /\ (~policy.margin => order.delta = -Net(leg))
             /\ \A i \in DOMAIN positions[leg] :
                   positions[leg][i] # 0 =>
                       \E order \in orders : order.leg = leg /\ order.closes = i
        ELSE /\ (\A order \in orders : order.leg # leg) => Net(leg) = Goal(leg)
             /\ \A order \in orders : order.leg = leg => Net(leg) + order.delta = Goal(leg)

MultiLegInv ==
    /\ MultiLegTyped
    /\ WeightsInv
    /\ NettingInv
    /\ PositionsInv
    /\ OrdersInv
    /\ ReachInv

-----------------------------------------------------------------------------
\* COUNTING UP

\* What holds of 0 and of k + 1 whenever of k holds up to n.
LEMMA CountUp ==
    ASSUME NEW n \in Nat, NEW F, 0 \in F, \A k \in 0..(n - 1) : k \in F => k + 1 \in F
    PROVE  \A k \in 0..n : k \in F
<1> SUFFICES ASSUME NEW k \in 0..n, k \notin F PROVE FALSE
    OBVIOUS
<1> DEFINE Bad == {m \in 0..n : m \notin F}
           Less == OpToRel(<, Nat)
<1>1. IsWellFoundedOn(Less, Nat)
    BY NatLessThanWellFounded
<1>2. Bad \subseteq Nat /\ Bad # {}
    OBVIOUS
<1>3. PICK m \in Bad : \A l \in Bad : <<l, m>> \notin Less
    <2> HIDE DEF Bad, Less
    <2> QED
        BY <1>1, <1>2, WFMin
<1>4. m \in 0..n /\ m # 0 /\ m - 1 \in 0..(n - 1) /\ (m - 1) + 1 = m
    OBVIOUS
<1>5. m - 1 \notin Bad
    <2>1. <<m - 1, m>> \in Less
        BY <1>4 DEF OpToRel
    <2> QED
        BY <2>1, <1>3
<1> HIDE DEF Less
<1>6. m - 1 \in F
    BY <1>4, <1>5
<1>7. m \in F
    BY <1>4, <1>6
<1> QED
    BY <1>7

-----------------------------------------------------------------------------
\* SUMS OF POSITIONS

\* The recursive function of the sums satisfies its equation.
LEMMA SumsSteps ==
    ASSUME NEW s \in Seq(Int)
    PROVE  \A k \in 0..Len(s) : Sums(s)[k] = IF k = 0 THEN 0 ELSE Sums(s)[k - 1] + s[k]
<1> DEFINE Step(f, k) == IF k = 0 THEN 0 ELSE f[k - 1] + s[k]
           L == Len(s)
           F == {m \in 0..L : \E f : f = [k \in 0..m |-> Step(f, k)]}
<1>1. L \in Nat
    OBVIOUS
<1>2. Sums(s) = CHOOSE f : f = [k \in 0..L |-> Step(f, k)]
    BY DEF Sums
<1> HIDE DEF L
<1>3. 0 \in F
    <2> DEFINE f == [k \in 0..0 |-> 0]
    <2>1. f = [k \in 0..0 |-> Step(f, k)]
        OBVIOUS
    <2> HIDE DEF f
    <2> QED
        BY <2>1, <1>1
<1>4. ASSUME NEW m \in 0..(L - 1), m \in F
      PROVE  m + 1 \in F
    <2>1. PICK f : f = [k \in 0..m |-> Step(f, k)]
        BY <1>4
    <2> DEFINE g == [k \in 0..(m + 1) |-> IF k = m + 1 THEN f[m] + s[m + 1] ELSE f[k]]
    <2>2. ASSUME NEW k \in 0..(m + 1)
          PROVE  g[k] = Step(g, k)
        <3>1. CASE k = m + 1
            <4>1. k # 0 /\ k - 1 = m /\ m # m + 1 /\ m \in 0..(m + 1)
                BY <3>1, <1>1
            <4> QED
                BY <4>1, <3>1
        <3>2. CASE k # m + 1
            <4>1. k \in 0..m
                BY <3>2, <1>1
            <4>2. g[k] = f[k]
                BY <3>2
            <4>3. f[k] = Step(f, k)
                BY <2>1, <4>1
            <4>4. k # 0 => k - 1 \in 0..m /\ k - 1 # m + 1 /\ k - 1 \in 0..(m + 1)
                BY <4>1, <1>1
            <4> QED
                BY <4>2, <4>3, <4>4
        <3> QED
            BY <3>1, <3>2
    <2>3. g = [k \in 0..(m + 1) |-> Step(g, k)]
        BY <2>2
    <2> HIDE DEF g
    <2>4. m + 1 \in 0..L
        BY <1>1
    <2> QED
        BY <2>3, <2>4
<1> HIDE DEF F
<1>5. L \in F
    <2>1. L \in 0..L /\ \A k \in 0..(L - 1) : k \in F => k + 1 \in F
        BY <1>1, <1>4
    <2> QED
        BY <1>1, <1>3, <2>1, CountUp
<1>6. \E f : f = [k \in 0..L |-> Step(f, k)]
    BY <1>5 DEF F
<1> HIDE DEF Step
<1>7. Sums(s) = [k \in 0..L |-> Step(Sums(s), k)]
    BY <1>2, <1>6
<1> QED
    BY <1>7 DEF Step, L

\* Sums of quantities are quantities, none if every quantity is.
LEMMA SumsTyped ==
    ASSUME NEW s \in Seq(Int)
    PROVE  /\ Total(s) \in Int
           /\ (\A i \in DOMAIN s : s[i] = 0) => Total(s) = 0
<1> DEFINE L == Len(s)
           F == {k \in 0..L : Sums(s)[k] \in Int}
           Z == {k \in 0..L : Sums(s)[k] = 0}
<1>1. L \in Nat /\ L \in 0..L /\ DOMAIN s = 1..L /\ \A i \in 1..L : s[i] \in Int
    OBVIOUS
<1>2. \A k \in 0..L : Sums(s)[k] = IF k = 0 THEN 0 ELSE Sums(s)[k - 1] + s[k]
    BY SumsSteps
<1> HIDE DEF L
<1>3. ASSUME NEW k \in 0..(L - 1)
      PROVE  k + 1 \in 0..L /\ k + 1 \in 1..L /\ Sums(s)[k + 1] = Sums(s)[k] + s[k + 1]
    <2>1. k + 1 \in 0..L /\ k + 1 \in 1..L /\ k + 1 # 0 /\ (k + 1) - 1 = k
        BY <1>1
    <2> QED
        BY <1>2, <2>1
<1>4. 0 \in F /\ 0 \in Z
    BY <1>1, <1>2
<1>5. \A k \in 0..(L - 1) : k \in F => k + 1 \in F
    BY <1>1, <1>3
<1>6. L \in F
    <2> HIDE DEF F
    <2> QED
        BY <1>1, <1>4, <1>5, CountUp
<1>7. ASSUME \A i \in DOMAIN s : s[i] = 0 PROVE L \in Z
    <2>1. \A k \in 0..(L - 1) : k \in Z => k + 1 \in Z
        BY <1>1, <1>3, <1>7
    <2> HIDE DEF Z
    <2> QED
        BY <1>1, <1>4, <2>1, CountUp
<1> QED
    BY <1>6, <1>7 DEF Total, L

\* One more quantity adds to the sum.
LEMMA TotalAppends ==
    ASSUME NEW s \in Seq(Int), NEW x \in Int
    PROVE  Total(Append(s, x)) = Total(s) + x
<1> DEFINE L == Len(s)
           t == Append(s, x)
           F == {k \in 0..L : Sums(t)[k] = Sums(s)[k]}
<1>1. /\ t \in Seq(Int) /\ Len(t) = L + 1 /\ t[L + 1] = x
      /\ L \in Nat /\ \A i \in 1..L : t[i] = s[i]
    OBVIOUS
<1>2. \A k \in 0..L : Sums(s)[k] = IF k = 0 THEN 0 ELSE Sums(s)[k - 1] + s[k]
    BY SumsSteps
<1> HIDE DEF t
<1>3. \A k \in 0..(L + 1) : Sums(t)[k] = IF k = 0 THEN 0 ELSE Sums(t)[k - 1] + t[k]
    BY <1>1, SumsSteps
<1> HIDE DEF L
<1>4. 0 \in F
    BY <1>1, <1>2, <1>3
<1>5. ASSUME NEW k \in 0..(L - 1), k \in F PROVE k + 1 \in F
    <2>1. /\ k + 1 \in 0..L /\ k + 1 \in 0..(L + 1) /\ k + 1 \in 1..L
          /\ k + 1 # 0 /\ (k + 1) - 1 = k
        BY <1>1
    <2>2. Sums(s)[k + 1] = Sums(s)[k] + s[k + 1] /\ Sums(t)[k + 1] = Sums(t)[k] + t[k + 1]
        BY <1>2, <1>3, <2>1
    <2> QED
        BY <1>1, <1>5, <2>1, <2>2
<1> HIDE DEF F
<1>6. L \in F
    <2>1. L \in 0..L /\ \A k \in 0..(L - 1) : k \in F => k + 1 \in F
        BY <1>1, <1>5
    <2> QED
        BY <1>1, <1>4, <2>1, CountUp
<1>7. Sums(t)[L + 1] = Sums(t)[L] + x
    <2>1. L + 1 \in 0..(L + 1) /\ L + 1 # 0 /\ (L + 1) - 1 = L
        BY <1>1
    <2> QED
        BY <1>1, <1>3, <2>1
<1> QED
    BY <1>1, <1>6, <1>7 DEF F, L, t, Total

\* What a venue that nets makes of a quantity.
LEMMA TotalOfOne ==
    ASSUME NEW x \in Int
    PROVE  /\ Total(<<>>) = 0
           /\ Total(<<x>>) = x
           /\ (IF x = 0 THEN <<>> ELSE <<x>>) \in Seq(Int)
<1>1. <<>> \in Seq(Int) /\ DOMAIN <<>> = {} /\ <<x>> \in Seq(Int) /\ <<x>> = Append(<<>>, x)
    OBVIOUS
<1>2. Total(<<>>) = 0
    BY <1>1, SumsTyped
<1>3. Total(<<x>>) = 0 + x
    BY <1>1, <1>2, TotalAppends
<1> QED
    BY <1>1, <1>2, <1>3

-----------------------------------------------------------------------------
\* WEIGHTS, TARGETS AND DECISIONS

\* A target is a quantity, none for no weight, and odd in the weight.
LEMMA TargetFacts ==
    ASSUME NEW leg \in LegSet, NEW weight \in Int
    PROVE  /\ Target(leg, weight) \in Int
           /\ Target(leg, 0) = 0
           /\ weight >= 0 => Target(leg, weight) >= 0 /\ Target(leg, -weight) = -Target(leg, weight)
<1>1. Instruments[leg].step \in Nat \ {0}
    BY SizesAssumption DEF LegSet
<1>2. \A q \in Nat : RoundedDown(leg, q) \in Nat
    <2> TAKE q \in Nat
    <2>1. q \div Instruments[leg].step \in Nat
        BY <1>1
    <2> QED
        BY <1>1, <2>1 DEF RoundedDown
<1>3. RoundedDown(leg, 0) = 0
    <2>1. 0 \div Instruments[leg].step = 0
        BY <1>1
    <2> QED
        BY <1>1, <2>1 DEF RoundedDown
<1>4. Abs(weight) \in Nat /\ Abs(-weight) = Abs(weight) /\ Abs(0) = 0
    BY DEF Abs
<1>5. (BaseSize * Abs(weight)) \div 10 \in Nat
    <2>1. BaseSize * Abs(weight) \in Nat
        BY <1>4, SizesAssumption
    <2> QED
        BY <2>1
<1>6. (BaseSize * Abs(0)) \div 10 = 0
    BY <1>4, SizesAssumption
<1>7. Target(leg, 0) = 0
    BY <1>3, <1>6 DEF Target
<1> DEFINE magnitude == RoundedDown(leg, (BaseSize * Abs(weight)) \div 10)
<1>8. magnitude \in Nat
    BY <1>2, <1>5
<1>9. Target(leg, weight) = IF weight >= 0 THEN magnitude ELSE -magnitude
    BY DEF Target
<1>10. Target(leg, -weight) = IF -weight >= 0 THEN magnitude ELSE -magnitude
    BY <1>4 DEF Target
<1>11. weight = 0 => magnitude = 0
    BY <1>3, <1>6
<1> HIDE DEF magnitude
<1> QED
    BY <1>7, <1>8, <1>9, <1>10, <1>11

\* Every weight of a genome stands for something a leg may hold.
LEMMA SizeFacts ==
    ASSUME MultiLegTyped, NEW leg \in LegSet
    PROVE  /\ LegWeight(leg) \in Nat \ {0}
           /\ Size(leg) \in Nat
           /\ \A w \in WeightsOf(leg) : w \in Int /\ Held(leg, Target(leg, Weight(w)))
           /\ Held(leg, 0)
<1>1. policy.ratio \in Nat \ {0} /\ policy.shorts \in BOOLEAN
    BY PoliciesAssumption DEF MultiLegTyped
<1>2. LegWeight(leg) \in Nat \ {0}
    BY <1>1 DEF LegWeight
<1>3. Size(leg) \in Nat /\ Target(leg, -LegWeight(leg)) = -Size(leg) /\ Target(leg, 0) = 0
    BY <1>2, TargetFacts DEF Size
<1>4. Held(leg, 0)
    BY DEF Held
<1>5. ASSUME NEW w \in WeightsOf(leg)
      PROVE  w \in Int /\ Held(leg, Target(leg, Weight(w)))
    <2>1. w \in Int
        BY <1>2 DEF WeightsOf
    <2>2. CASE w >= 0
        <3>1. Weight(w) = w /\ w \in {0, LegWeight(leg)}
            BY <1>2, <2>1, <2>2 DEF Weight, WeightsOf
        <3>2. Target(leg, w) \in {0, Size(leg)}
            BY <1>3, <3>1 DEF Size
        <3> QED
            BY <1>3, <2>1, <3>1, <3>2 DEF Held
    <2>3. CASE w < 0 /\ policy.shorts
        <3>1. Weight(w) = w /\ w = -LegWeight(leg)
            BY <1>2, <2>1, <2>3 DEF Weight, WeightsOf
        <3> QED
            BY <1>3, <2>1, <2>3, <3>1 DEF Held
    <2>4. CASE w < 0 /\ ~policy.shorts
        BY <1>3, <1>4, <2>1, <2>4 DEF Weight
    <2> QED
        BY <2>1, <2>2, <2>3, <2>4
<1> QED
    BY <1>2, <1>3, <1>4, <1>5

\* A decision weighs every leg with 0 or its one weight.
Weighed(legs) ==
    legs # NoLegs =>
        /\ legs \in [LegSet -> Int]
        /\ \A leg \in LegSet : legs[leg] \in WeightsOf(leg)

\* A signal gives every leg its one weight, up to its sign, or none.
LEMMA SignalsWeigh ==
    ASSUME MultiLegTyped, NEW count
    PROVE  \A legs \in Signals(count) : Weighed(legs)
<1>1. /\ policy.ratio \in Nat \ {0}
      /\ policy.entry \in {"cointegration_spread", "funding_basis", "hedged_basis",
                           "strategy_rotation"}
    BY PoliciesAssumption DEF MultiLegTyped
<1>2. \A i, j \in DOMAIN Legs : Legs[i] = Legs[j] => i = j
    BY LegsAssumption DEF IsInjective
<1>3. Legs[1] # Legs[2]
    BY <1>2, LegsAssumption
<1>4. \A left, right \in Int : Pair(left, right) \in [LegSet -> Int]
    BY DEF Pair
<1>5. ASSUME policy.entry = "cointegration_spread"
      PROVE  Weighed(Pair(-10, 10)) /\ Weighed(Pair(10, -10))
    <2>1. \A leg \in LegSet : WeightsOf(leg) = {0, 10, -10}
        BY <1>5 DEF WeightsOf, LegWeight
    <2>2. \A leg \in LegSet : Pair(-10, 10)[leg] \in {0, 10, -10} /\ Pair(10, -10)[leg] \in {0, 10, -10}
        BY DEF Pair
    <2> QED
        BY <1>4, <2>1, <2>2 DEF Weighed
<1>6. ASSUME policy.entry = "hedged_basis"
      PROVE  Weighed(Pair(-10, policy.ratio)) /\ Weighed(Pair(10, -policy.ratio))
    <2>1. \A leg \in LegSet :
              WeightsOf(leg) = IF leg = Legs[2] THEN {0, policy.ratio, -policy.ratio}
                               ELSE {0, 10, -10}
        BY <1>6 DEF WeightsOf, LegWeight
    <2>2. \A leg \in LegSet :
              /\ Pair(-10, policy.ratio)[leg] \in WeightsOf(leg)
              /\ Pair(10, -policy.ratio)[leg] \in WeightsOf(leg)
        <3> TAKE leg \in LegSet
        <3>1. CASE leg = Legs[1]
            BY <1>3, <2>1, <3>1 DEF Pair
        <3>2. CASE leg = Legs[2]
            BY <1>3, <2>1, <3>2 DEF Pair
        <3>3. leg \in {Legs[1], Legs[2]}
            <4>1. Len(Legs) = 2
                BY <1>6, PoliciesAssumption DEF MultiLegTyped
            <4> QED
                BY <4>1, LegsAssumption DEF LegSet
        <3> QED
            BY <3>1, <3>2, <3>3
    <2>3. -policy.ratio \in Int /\ policy.ratio \in Int
        BY <1>1
    <2> QED
        BY <1>4, <2>2, <2>3 DEF Weighed
<1>7. ASSUME policy.entry = "strategy_rotation", NEW winner \in LegSet
      PROVE  Weighed([leg \in LegSet |-> IF leg = winner THEN 10 ELSE 0])
    BY <1>7 DEF Weighed, WeightsOf, LegWeight
<1>8. Weighed(NoLegs)
    BY DEF Weighed
<1>9. CASE policy.entry = "cointegration_spread"
    <2>1. Signals(count) \subseteq {NoLegs, Pair(-10, 10), Pair(10, -10)}
        BY <1>9 DEF Signals
    <2> QED
        BY <1>5, <1>8, <1>9, <2>1
<1>10. CASE policy.entry = "funding_basis"
    BY <1>8, <1>10 DEF Signals
<1>11. CASE policy.entry = "hedged_basis"
    <2>1. Signals(count) = {NoLegs, Pair(-10, policy.ratio), Pair(10, -policy.ratio)}
        BY <1>11 DEF Signals
    <2> QED
        BY <1>6, <1>8, <1>11, <2>1
<1>12. CASE policy.entry = "strategy_rotation"
    <2>1. Signals(count) \subseteq
              {NoLegs} \cup {[leg \in LegSet |-> IF leg = winner THEN 10 ELSE 0] :
                                winner \in LegSet}
        BY <1>12 DEF Signals
    <2> QED
        BY <1>7, <1>8, <1>12, <2>1
<1> QED
    BY <1>1, <1>9, <1>10, <1>11, <1>12

\* So does every decision, an exit and a hold included.
LEMMA DecisionsWeigh ==
    ASSUME MultiLegTyped, WeightsInv, NEW count, NEW decision \in Decisions(count)
    PROVE  Weighed(decision.legs)
<1>1. Weighed(lastLegs)
    BY DEF MultiLegTyped, WeightsInv, Weighed
<1>2. Weighed(ZeroLegs)
    BY DEF ZeroLegs, Weighed, WeightsOf
<1>3. \A d \in Entry(count) \cup Rebalance(count) : Weighed(d.legs)
    BY SignalsWeigh DEF Entry, Rebalance
<1>4. Weighed(Hold.legs) /\ Weighed(Close.legs)
    BY <1>1, <1>2 DEF Hold, Close
<1>5. policy.exit \in {"spread_mean_exit", "edge_decay", "drift", "periods"}
    BY PoliciesAssumption DEF MultiLegTyped
<1>6. Exit(count) \subseteq {Hold, Close} \cup Rebalance(count)
    BY <1>5 DEF Exit
<1>7. decision \in {Hold, Close} \cup Entry(count) \cup Rebalance(count)
    BY <1>6 DEF Decisions
<1> QED
    BY <1>3, <1>4, <1>7

-----------------------------------------------------------------------------
\* THE STEPS

\* What a state says of one leg is kept by a step that changes none of it.
LEMMA Kept ==
    ASSUME UNCHANGED policy, NEW leg
    PROVE  /\ LegWeight(leg)' = LegWeight(leg) /\ Size(leg)' = Size(leg)
           /\ WeightsOf(leg)' = WeightsOf(leg)
           /\ \A q : Held(leg, q)' <=> Held(leg, q)
           /\ lastLegs'[leg] = lastLegs[leg] => Goal(leg)' = Goal(leg)
           /\ positions'[leg] = positions[leg] => Net(leg)' = Net(leg)
BY DEF LegWeight, Size, WeightsOf, Held, Goal, Weight, Target, RoundedDown, Net

\* The quantity of a leg, and its target, are numbers.
LEMMA NetTyped ==
    ASSUME MultiLegTyped, NEW leg \in LegSet
    PROVE  positions[leg] \in Seq(Int) /\ Net(leg) \in Int
BY SumsTyped DEF MultiLegTyped, Net

\* The invariant holds at first.
LEMMA InitInv == Init => MultiLegInv
<1> SUFFICES ASSUME Init PROVE MultiLegInv
    OBVIOUS
<1>1. MultiLegTyped
    <2>1. ZeroLegs \in [LegSet -> Nat] /\ ZeroLegs \in [LegSet -> Int]
        BY DEF ZeroLegs
    <2>2. [leg \in LegSet |-> <<>>] \in [LegSet -> Seq(Int)]
        OBVIOUS
    <2> QED
        BY <2>1, <2>2 DEF Init, MultiLegTyped
<1>2. WeightsInv
    BY DEF Init, WeightsInv, WeightsOf, ZeroLegs
<1>3. \A leg \in LegSet : positions[leg] = <<>> /\ Net(leg) = 0 /\ Held(leg, 0)
    <2> TAKE leg \in LegSet
    <2>1. positions[leg] = <<>> /\ Held(leg, 0)
        BY <1>1, SizeFacts DEF Init
    <2>2. Total(<<>>) = 0
        BY 0 \in Int, TotalOfOne
    <2> QED
        BY <2>1, <2>2 DEF Net
<1>4. NettingInv /\ PositionsInv /\ OrdersInv
    BY <1>3 DEF Init, NettingInv, PositionsInv, OrdersInv
<1>5. ReachInv
    <2>1. \A leg \in LegSet : Goal(leg) = 0
        <3> TAKE leg \in LegSet
        <3>1. lastLegs[leg] = 0 /\ Weight(0) = 0
            BY DEF Init, ZeroLegs, Weight
        <3>2. Target(leg, 0) = 0
            BY TargetFacts
        <3> QED
            BY <3>1, <3>2 DEF Goal
    <2> QED
        BY <1>3, <2>1 DEF Init, ReachInv
<1> QED
    BY <1>1, <1>2, <1>4, <1>5 DEF MultiLegInv

\* A bar that sends no order.
LEMMA QuietStep ==
    ASSUME MultiLegInv, status = "running", orders = {}, UNCHANGED <<policy, positions, orders>>,
           bars' \in [LegSet -> Nat],
           lastLegs' \in [LegSet -> Int], \A l \in LegSet : lastLegs'[l] \in WeightsOf(l),
           barsHeld' \in Nat, status' \in {"running", "failed"},
           missed' = LegSet \/ (lastLegs' = lastLegs /\ missed' = missed)
    PROVE  MultiLegInv'
<1>1. MultiLegTyped /\ NettingInv /\ PositionsInv /\ ReachInv
    BY DEF MultiLegInv
<1>2. MultiLegTyped'
    BY <1>1 DEF MultiLegTyped
<1>3. \A l \in LegSet : Net(l)' = Net(l) /\ WeightsOf(l)' = WeightsOf(l)
                        /\ \A q : Held(l, q)' <=> Held(l, q)
    BY Kept
<1>4. WeightsInv' /\ NettingInv' /\ OrdersInv'
    BY <1>1, <1>3 DEF WeightsInv, NettingInv, OrdersInv
<1>5. PositionsInv'
    BY <1>1, <1>3 DEF PositionsInv, Loose
<1>6. ReachInv'
    <2>1. CASE missed' = LegSet
        BY <2>1 DEF ReachInv
    <2>2. CASE lastLegs' = lastLegs /\ missed' = missed
        <3>1. \A l : Goal(l)' = Goal(l)
            BY <2>2, Kept
        <3> QED
            BY <1>1, <1>3, <2>2, <3>1 DEF ReachInv
    <2> QED
        BY <2>1, <2>2
<1> QED
    BY <1>2, <1>4, <1>5, <1>6 DEF MultiLegInv

\* A bar that sends orders: of the legs that need one those the governor lets
\* pass.
LEMMA DecideStep ==
    ASSUME MultiLegInv, status = "running", orders = {},
           UNCHANGED <<policy, positions>>, bars' \in [LegSet -> Nat],
           NEW targets \in [LegSet -> Int], \A leg \in LegSet : targets[leg] \in WeightsOf(leg),
           NEW sent \in SUBSET LegSet, NEW refused \in SUBSET LegSet, sent \cap refused = {},
           orders' = {[leg |-> l, delta |-> Delta(l, targets[l]), closes |-> 0] : l \in sent},
           \/ /\ missed' = refused
              /\ \A l \in LegSet \ (sent \cup refused) : Delta(l, targets[l]) = 0
              /\ lastLegs' = targets /\ barsHeld' = Holding(targets)
              /\ UNCHANGED status
           \/ /\ missed' = LegSet
              /\ status' = "failed"
              /\ UNCHANGED <<lastLegs, barsHeld>>
    PROVE  MultiLegInv'
<1>1. MultiLegTyped /\ WeightsInv /\ NettingInv /\ PositionsInv
    BY DEF MultiLegInv
<1>2. \A l \in LegSet :
          /\ Net(l) \in Int
          /\ Target(l, Weight(targets[l])) \in Int
          /\ Held(l, Target(l, Weight(targets[l])))
    <2> TAKE l \in LegSet
    <2>1. Weight(targets[l]) \in Int
        BY DEF Weight
    <2> QED
        BY <1>1, <2>1, NetTyped, SizeFacts, TargetFacts
<1>3. \A l \in LegSet : /\ Delta(l, targets[l]) \in Int
                        /\ Net(l) + Delta(l, targets[l]) = Target(l, Weight(targets[l]))
    BY <1>2 DEF Delta
<1>4. \A order \in orders' : /\ order \in Orders
                             /\ order.leg \in sent
                             /\ order.delta = Delta(order.leg, targets[order.leg])
                             /\ order.closes = 0
    BY <1>3 DEF Orders
<1>5. \A l \in LegSet : Net(l)' = Net(l) /\ WeightsOf(l)' = WeightsOf(l)
                        /\ \A q : Held(l, q)' <=> Held(l, q)
    BY Kept
<1>6. MultiLegTyped'
    <2>1. Holding(targets) \in Nat
        BY <1>1 DEF Holding, MultiLegTyped
    <2>2. orders' \subseteq Orders
        BY <1>4
    <2> QED
        BY <1>1, <2>1, <2>2 DEF MultiLegTyped
<1>7. WeightsInv' /\ NettingInv' /\ PositionsInv'
    <2>1. WeightsInv'
        BY <1>1, <1>5 DEF WeightsInv
    <2>2. NettingInv'
        BY <1>1, <1>5 DEF NettingInv
    <2>3. PositionsInv'
        BY <1>1, <1>5 DEF PositionsInv, Loose
    <2> QED
        BY <2>1, <2>2, <2>3
<1>8. OrdersInv'
    <2>1. \A order \in orders' : Held(order.leg, Net(order.leg) + order.delta)'
        <3> SUFFICES ASSUME NEW order \in orders'
                     PROVE  Held(order.leg, Net(order.leg) + order.delta)'
            OBVIOUS
        <3>1. order.leg \in LegSet /\ order.delta = Delta(order.leg, targets[order.leg])
            BY <1>4
        <3>2. Held(order.leg, Net(order.leg) + order.delta)
            BY <1>2, <1>3, <3>1
        <3> QED
            BY <1>5, <3>1, <3>2
    <2>2. \A order, other \in orders' : order.leg = other.leg => order = other
        OBVIOUS
    <2> QED
        BY <1>4, <2>1, <2>2 DEF OrdersInv
<1>9. ReachInv'
    <2>1. CASE missed' = LegSet
        BY <2>1 DEF ReachInv
    <2>2. CASE /\ missed' = refused
               /\ \A l \in LegSet \ (sent \cup refused) : Delta(l, targets[l]) = 0
               /\ lastLegs' = targets
               /\ UNCHANGED status
        <3> SUFFICES ASSUME NEW l \in LegSet \ refused
                     PROVE  /\ (\A order \in orders' : order.leg # l) => Net(l) = Goal(l)'
                            /\ \A order \in orders' : order.leg = l =>
                                   Net(l) + order.delta = Goal(l)'
            BY <1>5, <2>2 DEF ReachInv
        <3>1. Goal(l)' = Target(l, Weight(targets[l]))
            BY <2>2 DEF Goal, Weight, Target, RoundedDown
        <3>2. CASE l \in sent
            <4> DEFINE own == [leg |-> l, delta |-> Delta(l, targets[l]), closes |-> 0]
            <4>1. own \in orders' /\ own.leg = l
                BY <3>2
            <4> HIDE DEF own
            <4> QED
                BY <1>3, <1>4, <3>1, <4>1
        <3>3. CASE l \notin sent
            <4>1. Delta(l, targets[l]) = 0
                BY <2>2, <3>3
            <4>2. Net(l) = Target(l, Weight(targets[l]))
                BY <1>2, <1>3, <4>1
            <4> QED
                BY <1>4, <3>1, <3>3, <4>2
        <3> QED
            BY <3>2, <3>3
    <2> QED
        BY <2>1, <2>2
<1> QED
    BY <1>6, <1>7, <1>8, <1>9 DEF MultiLegInv

\* A bar, with all the orders it leads to, keeps the invariant.
LEMMA OnBarStep ==
    ASSUME MultiLegInv, NEW leg \in LegSet, OnBar(leg)
    PROVE  MultiLegInv'
<1>1. /\ status = "running" /\ orders = {}
      /\ bars' = [bars EXCEPT ![leg] = @ + 1]
      /\ UNCHANGED <<policy, positions>>
    BY DEF OnBar
<1>2. MultiLegTyped /\ WeightsInv
    BY DEF MultiLegInv
<1>3. bars' \in [LegSet -> Nat]
    BY <1>1, <1>2 DEF MultiLegTyped
<1>4. lastLegs \in [LegSet -> Int] /\ (\A l \in LegSet : lastLegs[l] \in WeightsOf(l)) /\ barsHeld \in Nat
    BY <1>2 DEF MultiLegTyped, WeightsInv
<1>5. CASE UNCHANGED <<lastLegs, barsHeld, orders, missed>> /\ status' \in {"running", "failed"}
    BY <1>1, <1>3, <1>4, <1>5, QuietStep
<1>6. ASSUME NEW decision \in Decisions(Aligned(bars')), NEW refused \in SUBSET LegSet,
             LET targets == IF decision.legs = NoLegs THEN ZeroLegs ELSE decision.legs
                 applies == targets # lastLegs \/ decision.rebalance
                 reached == {Legs[i] : i \in Reached(targets)}
                 needed == {l \in reached : Delta(l, targets[l]) # 0}
             IN IF ~applies \/ decision.legs = NoLegs
                THEN /\ refused = {}
                     /\ UNCHANGED <<orders, status>>
                     /\ missed' = IF applies THEN LegSet ELSE missed
                     /\ lastLegs' = targets /\ barsHeld' = Holding(targets)
                ELSE /\ refused \subseteq needed
                     /\ orders' = {[leg |-> l, delta |-> Delta(l, targets[l]), closes |-> 0] :
                                      l \in needed \ refused}
                     /\ IF reached = LegSet
                        THEN /\ missed' = refused
                             /\ lastLegs' = targets /\ barsHeld' = Holding(targets)
                             /\ UNCHANGED status
                        ELSE /\ missed' = LegSet
                             /\ status' = "failed"
                             /\ UNCHANGED <<lastLegs, barsHeld>>
      PROVE  MultiLegInv'
    <2> DEFINE targets == IF decision.legs = NoLegs THEN ZeroLegs ELSE decision.legs
               applies == targets # lastLegs \/ decision.rebalance
               reached == {Legs[i] : i \in Reached(targets)}
               needed == {l \in reached : Delta(l, targets[l]) # 0}
    <2>1. Weighed(decision.legs)
        BY <1>2, DecisionsWeigh
    <2>2. targets \in [LegSet -> Int] /\ \A l \in LegSet : targets[l] \in WeightsOf(l)
        BY <2>1 DEF Weighed, ZeroLegs, WeightsOf
    <2>3. Holding(targets) \in Nat
        BY <1>4 DEF Holding
    <2>4. CASE ~applies \/ decision.legs = NoLegs
        <3>1. /\ UNCHANGED <<orders, status>>
              /\ missed' = IF applies THEN LegSet ELSE missed
              /\ lastLegs' = targets /\ barsHeld' = Holding(targets)
            BY <1>6, <2>4
        <3>2. ~applies => lastLegs = targets
            OBVIOUS
        <3> HIDE DEF applies, targets
        <3> QED
            BY <1>1, <1>3, <2>2, <2>3, <3>1, <3>2, QuietStep
    <2>5. CASE ~(~applies \/ decision.legs = NoLegs)
        <3>1. /\ refused \subseteq needed
              /\ orders' = {[leg |-> l, delta |-> Delta(l, targets[l]), closes |-> 0] :
                               l \in needed \ refused}
              /\ IF reached = LegSet
                 THEN /\ missed' = refused
                      /\ lastLegs' = targets /\ barsHeld' = Holding(targets)
                      /\ UNCHANGED status
                 ELSE /\ missed' = LegSet
                      /\ status' = "failed"
                      /\ UNCHANGED <<lastLegs, barsHeld>>
            BY <1>6, <2>5
        <3>2. reached \in SUBSET LegSet
            BY DEF LegSet, Reached
        <3> HIDE DEF targets, reached
        <3> DEFINE sent == needed \ refused
        <3>3. sent \in SUBSET LegSet /\ sent \cap refused = {}
            BY <3>2
        <3>4. \/ /\ missed' = refused
                 /\ \A l \in LegSet \ (sent \cup refused) : Delta(l, targets[l]) = 0
                 /\ lastLegs' = targets /\ barsHeld' = Holding(targets)
                 /\ UNCHANGED status
              \/ /\ missed' = LegSet
                 /\ status' = "failed"
                 /\ UNCHANGED <<lastLegs, barsHeld>>
            BY <3>1
        <3>5. orders' = {[leg |-> l, delta |-> Delta(l, targets[l]), closes |-> 0] : l \in sent}
            BY <3>1
        <3> HIDE DEF sent, needed
        <3> QED
            BY <1>1, <1>3, <2>2, <3>3, <3>4, <3>5, DecideStep
    <2> QED
        BY <2>4, <2>5
<1> QED
    BY <1>1, <1>5, <1>6 DEF OnBar

\* The close of a netted position finds the size it closes or nothing.
LEMMA CloseNets ==
    ASSUME NEW order \in Orders, order.closes # 0, order.delta # 0,
           NEW size \in Nat, order.delta \in {size, -size},
           NEW net \in {0, size, -size}
    PROVE  /\ Netted(net, order) \in {0, net}
           /\ order.delta = -net => Netted(net, order) = 0
<1> DEFINE delta == order.delta
<1>1. net \in Int /\ delta \in Int /\ size # 0
    BY DEF Orders
<1>2. Netted(net, order) = IF net * delta >= 0 THEN net
                           ELSE IF Abs(delta) >= Abs(net) THEN 0 ELSE net + delta
    BY DEF Netted
<1>3. Abs(delta) = size /\ Abs(net) \in {0, size}
    BY DEF Abs
<1>4. delta \in {size, -size}
    OBVIOUS
<1>5. size * size > 0 /\ size * (-size) = -(size * size) /\ (-size) * size = -(size * size)
    BY <1>1
<1> HIDE DEF delta
<1>6. delta = -net => net * delta = -(size * size)
    BY <1>1, <1>4, <1>5
<1>7. size * size \in Int /\ net * delta \in Int
    BY <1>1
<1>8. Netted(net, order) \in {0, net}
    BY <1>1, <1>2, <1>3
<1>9. delta = -net => Netted(net, order) = 0
    BY <1>2, <1>3, <1>5, <1>6, <1>7
<1> QED
    BY <1>8, <1>9 DEF delta

\* What an answered order leaves: the other orders of its leg are closes.
LEMMA AnsweredFacts ==
    ASSUME MultiLegTyped, OrdersInv, NEW order \in Answerable
    PROVE  /\ order \in orders /\ order \in Orders
           /\ \A other \in orders \ {order} : other.leg = order.leg =>
                 other.closes # order.closes /\ other.closes # 0
<1>1. order \in orders /\ order \in Orders /\ \A other \in orders : other \in Orders
    BY DEF Answerable, MultiLegTyped
<1> SUFFICES ASSUME NEW other \in orders \ {order}, other.leg = order.leg
             PROVE  other.closes # order.closes /\ other.closes # 0
    BY <1>1
<1>2. other.closes # order.closes
    BY <1>1 DEF OrdersInv
<1>3. order.closes <= other.closes
    BY DEF Answerable
<1>4. order.closes \in Nat /\ other.closes \in Nat
    BY <1>1 DEF Orders
<1> QED
    BY <1>2, <1>3, <1>4

\* What a fill makes of its leg where the venue nets.
LEMMA NettedFill ==
    ASSUME MultiLegInv, NEW order \in orders, ~policy.margin
    PROVE  LET new == Netted(Net(order.leg), order)
           IN /\ Filled(order) = IF new = 0 THEN <<>> ELSE <<new>>
              /\ Filled(order) \in Seq(Int) /\ Total(Filled(order)) = new
              /\ Held(order.leg, new)
              /\ order.closes = 0 => new = Net(order.leg) + order.delta
              /\ order.closes # 0 /\ order.delta = -Net(order.leg) => new = 0
<1> DEFINE leg == order.leg
           net == Net(leg)
           new == Netted(net, order)
<1>1. MultiLegTyped /\ OrdersInv /\ PositionsInv
    BY DEF MultiLegInv
<1>2. order \in Orders /\ leg \in LegSet /\ order.delta \in Int
    BY <1>1 DEF MultiLegTyped, Orders
<1>3. net \in Int /\ Held(leg, net) /\ Size(leg) \in Nat /\ Held(leg, 0)
    BY <1>1, <1>2, NetTyped, SizeFacts DEF PositionsInv, Loose
<1>4. Filled(order) = IF new = 0 THEN <<>> ELSE <<new>>
    BY DEF Filled
<1>5. CASE order.closes = 0
    <2>1. new = net + order.delta
        BY <1>5 DEF Netted
    <2>2. Held(leg, net + order.delta)
        BY <1>1, <1>5 DEF OrdersInv, Loose
    <2>3. new \in Int
        BY <1>2, <1>3, <2>1
    <2> HIDE DEF new, net
    <2>4. Filled(order) \in Seq(Int) /\ Total(Filled(order)) = new
        BY <1>4, <2>3, TotalOfOne
    <2> QED
        BY <1>4, <1>5, <2>1, <2>2, <2>4 DEF new, net
<1>6. CASE order.closes # 0
    <2>1. order.delta # 0 /\ order.delta \in {Size(leg), -Size(leg)}
        BY <1>1, <1>6 DEF OrdersInv
    <2>2. net \in {0, Size(leg), -Size(leg)}
        BY <1>3 DEF Held
    <2>3. new \in {0, net} /\ (order.delta = -net => new = 0)
        BY <1>2, <1>3, <1>6, <2>1, <2>2, CloseNets
    <2>4. new \in Int /\ Held(leg, new)
        BY <1>3, <2>3
    <2> HIDE DEF new, net
    <2>5. Filled(order) \in Seq(Int) /\ Total(Filled(order)) = new
        BY <1>4, <2>4, TotalOfOne
    <2> QED
        BY <1>4, <1>6, <2>3, <2>4, <2>5 DEF new, net
<1> QED
    BY <1>5, <1>6

\* What a fill makes of its leg where the venue hedges.
LEMMA HedgedFill ==
    ASSUME MultiLegInv, NEW order \in orders, policy.margin
    PROVE  /\ Filled(order) \in Seq(Int)
           /\ DOMAIN positions[order.leg] \subseteq DOMAIN Filled(order)
           /\ order.closes = 0 => Total(Filled(order)) = Net(order.leg) + order.delta
           /\ order.closes # 0 =>
                 /\ status = "stopped"
                 /\ DOMAIN Filled(order) = DOMAIN positions[order.leg]
                 /\ Filled(order)[order.closes] = 0
                 /\ \A i \in DOMAIN Filled(order) :
                       i # order.closes => Filled(order)[i] = positions[order.leg][i]
<1> DEFINE held == positions[order.leg]
<1>1. MultiLegTyped /\ OrdersInv
    BY DEF MultiLegInv
<1>2. order.leg \in LegSet /\ order.delta \in Int /\ held \in Seq(Int)
    BY <1>1 DEF MultiLegTyped, Orders
<1>3. CASE order.closes = 0
    <2>1. Filled(order) = Append(held, order.delta)
        BY <1>3 DEF Filled
    <2>2. Total(Filled(order)) = Net(order.leg) + order.delta
        BY <1>2, <2>1, TotalAppends DEF Net
    <2>3. Filled(order) \in Seq(Int) /\ DOMAIN held \subseteq DOMAIN Filled(order)
        BY <1>2, <2>1
    <2> QED
        BY <1>3, <2>2, <2>3
<1>4. CASE order.closes # 0
    <2>1. Filled(order) = [held EXCEPT ![order.closes] = 0]
        BY <1>4 DEF Filled
    <2>2. status = "stopped" /\ order.closes \in DOMAIN held
        BY <1>1, <1>4 DEF OrdersInv
    <2>3. order.closes \in 1..Len(held)
        BY <1>2, <2>2
    <2> HIDE DEF held
    <2>4. Filled(order) \in Seq(Int)
        BY <1>2, <2>1, <2>3, ExceptSeq
    <2> USE DEF held
    <2> QED
        BY <1>4, <2>1, <2>2, <2>4
<1> QED
    BY <1>3, <1>4

\* A fill takes the leg where its order leads.
LEMMA VenueFillsStep ==
    ASSUME MultiLegInv, VenueFills
    PROVE  MultiLegInv'
<1>1. PICK order \in Answerable :
          /\ positions' = [positions EXCEPT ![order.leg] = Filled(order)]
          /\ orders' = orders \ {order}
          /\ UNCHANGED <<policy, bars, lastLegs, barsHeld, status, missed>>
    BY DEF VenueFills
<1> DEFINE leg == order.leg
<1>2. MultiLegTyped /\ WeightsInv /\ NettingInv /\ PositionsInv /\ OrdersInv /\ ReachInv
    BY DEF MultiLegInv
<1>3. /\ order \in orders /\ order \in Orders
      /\ \A other \in orders' : other.leg = leg => other.closes # order.closes /\ other.closes # 0
    BY <1>1, <1>2, AnsweredFacts
<1>4. leg \in LegSet /\ order.delta \in Int /\ order.closes \in Nat
    BY <1>3 DEF Orders
<1>5. Filled(order) \in Seq(Int)
    BY <1>3, NettedFill, HedgedFill
<1>6. /\ positions' \in [LegSet -> Seq(Int)]
      /\ positions'[leg] = Filled(order) /\ Net(leg)' = Total(Filled(order))
      /\ \A l \in LegSet \ {leg} : positions'[l] = positions[l] /\ Net(l)' = Net(l)
    BY <1>1, <1>2, <1>4, <1>5 DEF MultiLegTyped, Net
<1>7. \A l : /\ LegWeight(l)' = LegWeight(l) /\ Size(l)' = Size(l)
             /\ WeightsOf(l)' = WeightsOf(l) /\ Goal(l)' = Goal(l)
             /\ \A q : Held(l, q)' <=> Held(l, q)
    BY <1>1, Kept
<1>8. MultiLegTyped' /\ WeightsInv'
    <2>1. MultiLegTyped'
        BY <1>1, <1>2, <1>6 DEF MultiLegTyped
    <2>2. WeightsInv'
        BY <1>1, <1>2, <1>7 DEF WeightsInv
    <2> QED
        BY <2>1, <2>2
\* Where the venue nets.
<1>9. CASE ~policy.margin
    <2> DEFINE new == Netted(Net(leg), order)
    <2>1. /\ positions'[leg] = IF new = 0 THEN <<>> ELSE <<new>>
          /\ Net(leg)' = new
          /\ Held(leg, new)
          /\ order.closes = 0 => new = Net(leg) + order.delta
          /\ order.closes # 0 /\ order.delta = -Net(leg) => new = 0
        BY <1>3, <1>6, <1>9, NettedFill
    <2> HIDE DEF new
    <2>2. NettingInv'
        BY <1>1, <1>2, <1>6, <1>9, <2>1 DEF NettingInv
    <2>3. PositionsInv'
        <3> SUFFICES ASSUME NEW l \in LegSet PROVE Held(l, Net(l))'
            BY DEF PositionsInv
        <3>1. CASE l = leg
            BY <1>7, <2>1, <3>1
        <3>2. CASE l # leg
            <4>1. Held(l, Net(l)) /\ Net(l)' = Net(l)
                BY <1>2, <1>6, <1>9, <3>2 DEF PositionsInv, Loose
            <4> QED
                BY <1>7, <4>1
        <3> QED
            BY <3>1, <3>2
    <2>4. OrdersInv'
        <3>1. ASSUME NEW other \in orders', other.closes = 0
              PROVE  Held(other.leg, Net(other.leg) + other.delta)'
            <4>1. other \in orders /\ other.leg # leg /\ other.leg \in LegSet
                BY <1>1, <1>2, <1>3, <3>1 DEF MultiLegTyped, Orders
            <4>2. Held(other.leg, Net(other.leg) + other.delta) /\ Net(other.leg)' = Net(other.leg)
                BY <1>2, <1>6, <1>9, <3>1, <4>1 DEF OrdersInv, Loose
            <4> QED
                BY <1>7, <4>2
        <3>2. \A other \in orders' : other.closes # 0 =>
                  /\ status' = "stopped"
                  /\ other.closes = 1 /\ other.delta # 0
                  /\ other.delta \in {Size(other.leg)', -Size(other.leg)'}
            BY <1>1, <1>2, <1>7, <1>9 DEF OrdersInv
        <3>3. \A one, other \in orders' :
                  one.leg = other.leg /\ one.closes = other.closes => one = other
            BY <1>1, <1>2 DEF OrdersInv
        <3>4. ~policy'.margin
            BY <1>1, <1>9
        <3> QED
            BY <3>1, <3>2, <3>3, <3>4 DEF OrdersInv
    <2>5. ASSUME leg \notin missed
          PROVE  /\ status = "stopped" => Net(leg)' = 0 /\ positions'[leg] = <<>>
                 /\ status # "stopped" => Net(leg)' = Goal(leg)
        <3>1. CASE status = "stopped"
            <4>1. order.closes # 0 /\ order.delta = -Net(leg)
                BY <1>2, <1>3, <1>4, <1>9, <2>5, <3>1 DEF ReachInv
            <4> QED
                BY <2>1, <3>1, <4>1
        <3>2. CASE status # "stopped"
            <4>1. order.closes = 0 /\ Net(leg) + order.delta = Goal(leg)
                BY <1>2, <1>3, <1>4, <2>5, <3>2 DEF OrdersInv, ReachInv
            <4> QED
                BY <2>1, <3>2, <4>1
        <3> QED
            BY <3>1, <3>2
    <2>6. ASSUME NEW other \in orders', other.leg = leg, leg \notin missed PROVE FALSE
        <3>1. other \in orders /\ other.closes # order.closes /\ other.closes # 0 /\ status = "stopped"
            BY <1>1, <1>2, <1>3, <2>6 DEF OrdersInv
        <3>2. order.closes # 0
            BY <1>2, <1>3, <1>4, <2>6, <3>1 DEF ReachInv
        <3>3. order.closes = 1 /\ other.closes = 1
            BY <1>2, <1>3, <1>9, <3>1, <3>2 DEF OrdersInv
        <3> QED
            BY <3>1, <3>3
    <2>7. ReachInv'
        <3> SUFFICES ASSUME NEW l \in LegSet \ missed
                     PROVE  IF status = "stopped"
                            THEN /\ \A other \in orders' : other.leg = l =>
                                        other.closes # 0 /\ other.delta = -Net(l)'
                                 /\ \A i \in DOMAIN positions'[l] : positions'[l][i] # 0 =>
                                        \E other \in orders' : other.leg = l /\ other.closes = i
                            ELSE /\ (\A other \in orders' : other.leg # l) => Net(l)' = Goal(l)
                                 /\ \A other \in orders' : other.leg = l =>
                                        Net(l)' + other.delta = Goal(l)
            BY <1>1, <1>7 DEF ReachInv
        <3>1. CASE l = leg
            BY <2>5, <2>6, <3>1
        <3>2. CASE l # leg
            <4>1. /\ positions'[l] = positions[l] /\ Net(l)' = Net(l)
                  /\ \A other \in orders : other.leg = l => other \in orders'
                BY <1>1, <1>6, <3>2
            <4> QED
                BY <1>1, <1>2, <1>9, <4>1 DEF ReachInv
        <3> QED
            BY <3>1, <3>2
    <2> QED
        BY <1>8, <2>2, <2>3, <2>4, <2>7 DEF MultiLegInv
\* Where the venue hedges.
<1>10. CASE policy.margin
    <2>1. /\ DOMAIN positions[leg] \subseteq DOMAIN positions'[leg]
          /\ order.closes = 0 => Net(leg)' = Net(leg) + order.delta
          /\ order.closes # 0 =>
                /\ status = "stopped"
                /\ DOMAIN positions'[leg] = DOMAIN positions[leg]
                /\ positions'[leg][order.closes] = 0
                /\ \A i \in DOMAIN positions'[leg] :
                      i # order.closes => positions'[leg][i] = positions[leg][i]
        BY <1>3, <1>6, <1>10, HedgedFill
    <2>2. NettingInv'
        BY <1>1, <1>10 DEF NettingInv
    <2>3. ASSUME status # "stopped"
          PROVE  order.closes = 0 /\ Held(leg, Net(leg) + order.delta)
        BY <1>2, <1>3, <2>3 DEF OrdersInv, Loose
    <2>4. PositionsInv'
        <3> SUFFICES ASSUME status # "stopped", NEW l \in LegSet PROVE Held(l, Net(l))'
            BY <1>1, <1>10 DEF PositionsInv, Loose
        <3>1. CASE l = leg
            BY <1>7, <2>1, <2>3, <3>1
        <3>2. CASE l # leg
            <4>1. Held(l, Net(l)) /\ Net(l)' = Net(l)
                BY <1>2, <1>6, <3>2 DEF PositionsInv, Loose
            <4> QED
                BY <1>7, <4>1
        <3> QED
            BY <3>1, <3>2
    <2>5. OrdersInv'
        <3>1. ASSUME NEW other \in orders', other.closes = 0, status # "stopped"
              PROVE  Held(other.leg, Net(other.leg) + other.delta)'
            <4>1. other \in orders /\ other.leg # leg /\ other.leg \in LegSet
                BY <1>1, <1>2, <1>3, <3>1 DEF MultiLegTyped, Orders
            <4>2. Held(other.leg, Net(other.leg) + other.delta) /\ Net(other.leg)' = Net(other.leg)
                BY <1>2, <1>6, <3>1, <4>1 DEF OrdersInv, Loose
            <4> QED
                BY <1>7, <4>2
        <3>2. \A other \in orders' : other.closes # 0 =>
                  status' = "stopped" /\ other.closes \in DOMAIN positions'[other.leg]
            <4> TAKE other \in orders'
            <4>1. other \in orders /\ other.leg \in LegSet
                BY <1>1, <1>2 DEF MultiLegTyped, Orders
            <4>2. other.closes # 0 =>
                      status = "stopped" /\ other.closes \in DOMAIN positions[other.leg]
                BY <1>2, <1>10, <4>1 DEF OrdersInv
            <4>3. DOMAIN positions[other.leg] \subseteq DOMAIN positions'[other.leg]
                BY <1>6, <2>1, <4>1
            <4> QED
                BY <1>1, <4>2, <4>3
        <3>3. \A one, other \in orders' :
                  one.leg = other.leg /\ one.closes = other.closes => one = other
            BY <1>1, <1>2 DEF OrdersInv
        <3>4. policy'.margin /\ status' = status
            BY <1>1, <1>10
        <3> QED
            BY <3>1, <3>2, <3>3, <3>4 DEF OrdersInv, Loose
    <2>6. ReachInv'
        <3> SUFFICES ASSUME NEW l \in LegSet \ missed
                     PROVE  IF status = "stopped"
                            THEN /\ \A other \in orders' : other.leg = l => other.closes # 0
                                 /\ \A i \in DOMAIN positions'[l] : positions'[l][i] # 0 =>
                                        \E other \in orders' : other.leg = l /\ other.closes = i
                            ELSE /\ (\A other \in orders' : other.leg # l) => Net(l)' = Goal(l)
                                 /\ \A other \in orders' : other.leg = l =>
                                        Net(l)' + other.delta = Goal(l)
            BY <1>1, <1>7, <1>10 DEF ReachInv
        <3>1. CASE l # leg
            <4>1. /\ positions'[l] = positions[l] /\ Net(l)' = Net(l)
                  /\ \A other \in orders : other.leg = l => other \in orders'
                BY <1>1, <1>6, <3>1
            <4> QED
                BY <1>1, <1>2, <4>1 DEF ReachInv
        <3>2. CASE l = leg /\ status = "stopped"
            <4>1. order.closes # 0
                BY <1>2, <1>3, <3>2 DEF ReachInv
            <4>2. ASSUME NEW i \in DOMAIN positions'[l], positions'[l][i] # 0
                  PROVE  \E other \in orders' : other.leg = l /\ other.closes = i
                <5>1. i # order.closes /\ i \in DOMAIN positions[l] /\ positions[l][i] # 0
                    BY <2>1, <3>2, <4>1, <4>2
                <5>2. PICK other \in orders : other.leg = l /\ other.closes = i
                    BY <1>2, <3>2, <5>1 DEF ReachInv
                <5> QED
                    BY <1>1, <5>1, <5>2
            <4> QED
                BY <1>3, <3>2, <4>2
        <3>3. CASE l = leg /\ status # "stopped"
            <4>1. order.closes = 0 /\ Net(leg) + order.delta = Goal(leg)
                BY <1>2, <1>3, <2>3, <3>3 DEF ReachInv
            <4>2. \A other \in orders' : other.leg # leg
                <5> SUFFICES ASSUME NEW other \in orders', other.leg = leg PROVE FALSE
                    OBVIOUS
                <5>1. other \in orders /\ other.closes # 0
                    BY <1>1, <1>3
                <5> QED
                    BY <1>2, <3>3, <5>1 DEF OrdersInv
            <4> QED
                BY <2>1, <3>3, <4>1, <4>2
        <3> QED
            BY <3>1, <3>2, <3>3
    <2> QED
        BY <1>8, <2>2, <2>4, <2>5, <2>6 DEF MultiLegInv
<1> QED
    BY <1>9, <1>10

\* A rejection leaves the leg where it is, and the leg counts as missed.
LEMMA VenueRejectsStep ==
    ASSUME MultiLegInv, VenueRejects
    PROVE  MultiLegInv'
<1>1. PICK order \in Answerable :
          /\ missed' = missed \cup {order.leg}
          /\ orders' = orders \ {order}
          /\ UNCHANGED <<policy, bars, lastLegs, barsHeld, positions, status>>
    BY DEF VenueRejects
<1>2. MultiLegTyped /\ WeightsInv /\ NettingInv /\ PositionsInv /\ OrdersInv /\ ReachInv
    BY DEF MultiLegInv
<1>3. order.leg \in LegSet
    BY <1>2, AnsweredFacts DEF Orders
<1>4. \A l : /\ LegWeight(l)' = LegWeight(l) /\ Size(l)' = Size(l)
             /\ WeightsOf(l)' = WeightsOf(l) /\ Goal(l)' = Goal(l) /\ Net(l)' = Net(l)
             /\ \A q : Held(l, q)' <=> Held(l, q)
    BY <1>1, Kept
<1>5. MultiLegTyped'
    BY <1>1, <1>2, <1>3 DEF MultiLegTyped
<1>6. WeightsInv' /\ NettingInv'
    BY <1>1, <1>2, <1>4 DEF WeightsInv, NettingInv
<1>7. PositionsInv'
    BY <1>1, <1>2, <1>4 DEF PositionsInv, Loose
<1>8. OrdersInv'
    <2>1. \A other \in orders' : other.closes = 0 /\ ~Loose =>
              Held(other.leg, Net(other.leg) + other.delta)'
        <3> SUFFICES ASSUME NEW other \in orders', other.closes = 0, ~Loose
                     PROVE  Held(other.leg, Net(other.leg) + other.delta)'
            OBVIOUS
        <3>1. Held(other.leg, Net(other.leg) + other.delta)
            BY <1>1, <1>2 DEF OrdersInv
        <3> QED
            BY <1>4, <3>1
    <2>2. \A other \in orders' : other.closes # 0 =>
              /\ status' = "stopped"
              /\ IF policy'.margin THEN other.closes \in DOMAIN positions'[other.leg]
                 ELSE /\ other.closes = 1 /\ other.delta # 0
                      /\ other.delta \in {Size(other.leg)', -Size(other.leg)'}
        BY <1>1, <1>2, <1>4 DEF OrdersInv
    <2>3. \A one, other \in orders' :
              one.leg = other.leg /\ one.closes = other.closes => one = other
        BY <1>1, <1>2 DEF OrdersInv
    <2>4. Loose' <=> Loose
        BY <1>1 DEF Loose
    <2> QED
        BY <2>1, <2>2, <2>3, <2>4 DEF OrdersInv
<1>9. ReachInv'
    <2>1. \A l \in LegSet \ missed' : \A other \in orders : other.leg = l => other \in orders'
        BY <1>1
    <2> QED
        BY <1>1, <1>2, <1>4, <2>1 DEF ReachInv
<1> QED
    BY <1>5, <1>6, <1>7, <1>8, <1>9 DEF MultiLegInv

\* A stop closes what is held, behind the orders that are still unanswered.
LEMMA OnStopStep ==
    ASSUME MultiLegInv, OnStop
    PROVE  MultiLegInv'
<1>1. PICK refused \in SUBSET Closes :
          /\ orders' = orders \cup (Closes \ refused)
          /\ missed' = {order.leg : order \in refused \cup orders}
    BY DEF OnStop
<1>2. /\ status # "stopped" /\ status' = "stopped"
      /\ UNCHANGED <<policy, bars, lastLegs, barsHeld, positions>>
    BY DEF OnStop
<1>3. MultiLegTyped /\ WeightsInv /\ NettingInv /\ PositionsInv /\ OrdersInv
    BY DEF MultiLegInv
<1>4. \A order \in orders : order \in Orders /\ order.leg \in LegSet /\ order.closes = 0
    BY <1>2, <1>3 DEF OrdersInv, MultiLegTyped, Orders
<1>5. ASSUME NEW order \in Closes
      PROVE  /\ order \in Orders /\ order.leg \in LegSet
             /\ order.closes # 0 /\ order.closes \in DOMAIN positions[order.leg]
             /\ positions[order.leg][order.closes] # 0
             /\ order.delta = -positions[order.leg][order.closes]
    <2>1. PICK leg \in LegSet : order \in ClosesOf(leg)
        BY DEF Closes
    <2>2. PICK i \in DOMAIN positions[leg] :
              positions[leg][i] # 0 /\ order = [leg |-> leg, delta |-> -positions[leg][i], closes |-> i]
        BY <2>1 DEF ClosesOf
    <2>3. positions[leg] \in Seq(Int)
        BY <1>3 DEF MultiLegTyped
    <2>4. i \in Nat \ {0} /\ positions[leg][i] \in Int
        BY <2>3
    <2> QED
        BY <2>2, <2>4 DEF Orders
<1>6. \A order, other \in Closes :
          order.leg = other.leg /\ order.closes = other.closes => order = other
    <2> SUFFICES ASSUME NEW order \in Closes, NEW other \in Closes,
                        order.leg = other.leg, order.closes = other.closes
                 PROVE  order = other
        OBVIOUS
    <2>1. order \in Orders /\ other \in Orders /\ order.delta = other.delta
        BY <1>5
    <2> QED
        BY <2>1 DEF Orders
<1>7. \A l : /\ LegWeight(l)' = LegWeight(l) /\ Size(l)' = Size(l)
             /\ WeightsOf(l)' = WeightsOf(l) /\ Net(l)' = Net(l)
             /\ \A q : Held(l, q)' <=> Held(l, q)
    BY <1>2, Kept
<1>8. MultiLegTyped'
    <2>1. orders' \subseteq Orders /\ missed' \subseteq LegSet
        BY <1>1, <1>4, <1>5
    <2> QED
        BY <1>2, <1>3, <2>1 DEF MultiLegTyped
<1>9. WeightsInv' /\ NettingInv'
    BY <1>2, <1>3, <1>7 DEF WeightsInv, NettingInv
<1>10. \A l \in LegSet : Held(l, Net(l)) /\ Net(l) \in Int
    BY <1>2, <1>3, NetTyped DEF PositionsInv, Loose
<1>11. PositionsInv'
    BY <1>7, <1>10 DEF PositionsInv
\* Where the venue nets, the one position of a leg is its quantity.
<1>12. ASSUME ~policy.margin, NEW order \in Closes
       PROVE  /\ order.closes = 1 /\ order.delta # 0 /\ order.delta = -Net(order.leg)
              /\ order.delta \in {Size(order.leg), -Size(order.leg)}
    <2> DEFINE l == order.leg
    <2>1. /\ l \in LegSet /\ order.closes \in DOMAIN positions[l]
          /\ positions[l][order.closes] # 0
          /\ order.delta = -positions[l][order.closes]
        BY <1>5
    <2>2. positions[l] = IF Net(l) = 0 THEN <<>> ELSE <<Net(l)>>
        BY <1>3, <1>12, <2>1 DEF NettingInv
    <2>3. order.closes = 1 /\ positions[l][order.closes] = Net(l)
        BY <2>1, <2>2
    <2>4. Net(l) \in {0, Size(l), -Size(l)} /\ Net(l) \in Int /\ Size(l) \in Nat
        BY <1>3, <1>10, <2>1, SizeFacts DEF Held
    <2> HIDE DEF l
    <2>5. order.delta # 0 /\ order.delta = -Net(l) /\ order.delta \in {Size(l), -Size(l)}
        BY <2>1, <2>3, <2>4
    <2> QED
        BY <2>3, <2>5 DEF l
<1>13. OrdersInv'
    <2>1. ASSUME NEW order \in orders', order.closes = 0
          PROVE  Held(order.leg, Net(order.leg) + order.delta)'
        <3>1. order \in orders
            BY <1>1, <1>5, <2>1
        <3>2. Held(order.leg, Net(order.leg) + order.delta)
            BY <1>2, <1>3, <2>1, <3>1 DEF OrdersInv, Loose
        <3> QED
            BY <1>7, <3>2
    <2>2. \A order \in orders' : order.closes # 0 =>
              IF policy.margin THEN order.closes \in DOMAIN positions[order.leg]
              ELSE /\ order.closes = 1 /\ order.delta # 0
                   /\ order.delta \in {Size(order.leg), -Size(order.leg)}
        BY <1>1, <1>4, <1>5, <1>12
    <2>3. \A order, other \in orders' :
              order.leg = other.leg /\ order.closes = other.closes => order = other
        BY <1>1, <1>3, <1>4, <1>5, <1>6 DEF OrdersInv
    <2>4. \A order \in orders' : order.closes # 0 =>
              /\ status' = "stopped"
              /\ IF policy'.margin THEN order.closes \in DOMAIN positions'[order.leg]
                 ELSE /\ order.closes = 1 /\ order.delta # 0
                      /\ order.delta \in {Size(order.leg)', -Size(order.leg)'}
        BY <1>2, <1>7, <2>2
    <2> QED
        BY <2>1, <2>3, <2>4 DEF OrdersInv
<1>14. ReachInv'
    <2> SUFFICES ASSUME NEW l \in LegSet \ missed'
                 PROVE  /\ \A order \in orders' : order.leg = l =>
                               order.closes # 0 /\ (~policy.margin => order.delta = -Net(l))
                        /\ \A i \in DOMAIN positions[l] : positions[l][i] # 0 =>
                               \E order \in orders' : order.leg = l /\ order.closes = i
        BY <1>2, <1>7 DEF ReachInv
    <2>1. \A order \in refused \cup orders : order.leg # l
        BY <1>1
    <2>2. \A order \in orders' : order.leg = l =>
              order.closes # 0 /\ (~policy.margin => order.delta = -Net(l))
        BY <1>1, <1>5, <1>12, <2>1
    <2>3. ASSUME NEW i \in DOMAIN positions[l], positions[l][i] # 0
          PROVE  \E order \in orders' : order.leg = l /\ order.closes = i
        <3> DEFINE close == [leg |-> l, delta |-> -positions[l][i], closes |-> i]
        <3>1. close \in ClosesOf(l)
            BY <2>3 DEF ClosesOf
        <3>2. close \in Closes /\ close.leg = l /\ close.closes = i
            BY <3>1 DEF Closes
        <3> HIDE DEF close
        <3> QED
            BY <1>1, <2>1, <3>2
    <2> QED
        BY <2>2, <2>3
<1> QED
    BY <1>8, <1>9, <1>11, <1>13, <1>14 DEF MultiLegInv

\* A step of nothing keeps the invariant.
LEMMA StutterStep ==
    ASSUME MultiLegInv, UNCHANGED vars
    PROVE  MultiLegInv'
<1>1. UNCHANGED <<policy, bars, lastLegs, barsHeld, positions, orders, status, missed>>
    BY DEF vars
<1>2. \A l : /\ LegWeight(l)' = LegWeight(l) /\ Size(l)' = Size(l)
             /\ WeightsOf(l)' = WeightsOf(l) /\ Goal(l)' = Goal(l) /\ Net(l)' = Net(l)
             /\ \A q : Held(l, q)' <=> Held(l, q)
    BY <1>1, Kept
<1>3. MultiLegTyped' /\ WeightsInv' /\ NettingInv'
    BY <1>1, <1>2 DEF MultiLegInv, MultiLegTyped, WeightsInv, NettingInv
<1>4. PositionsInv' /\ ReachInv'
    BY <1>1, <1>2 DEF MultiLegInv, PositionsInv, Loose, ReachInv
<1>5. OrdersInv'
    <2>1. \A order \in orders : order.closes = 0 /\ ~Loose =>
              Held(order.leg, Net(order.leg) + order.delta)'
        BY <1>2 DEF MultiLegInv, OrdersInv
    <2> QED
        BY <1>1, <1>2, <2>1 DEF MultiLegInv, OrdersInv, Loose
<1> QED
    BY <1>3, <1>4, <1>5 DEF MultiLegInv

-----------------------------------------------------------------------------
\* THE THEOREMS

\* The inductive invariant holds of every reachable state.
THEOREM MultiLegInvAlways == Spec => []MultiLegInv
<1>1. ASSUME MultiLegInv, Next PROVE MultiLegInv'
    <2>1. CASE \E leg \in LegSet : OnBar(leg)
        BY <1>1, <2>1, OnBarStep
    <2> QED
        BY <1>1, <2>1, VenueFillsStep, VenueRejectsStep, OnStopStep DEF Next
<1>2. MultiLegInv /\ [Next]_vars => MultiLegInv'
    BY <1>1, StutterStep
<1> QED
    BY InitInv, <1>2, PTL DEF Spec

\* Once its orders are answered a leg that missed nothing stands at the target
\* of the last decision, or has all its positions closed after a stop
\* (nautilus_multileg_strategy.py 149-236).
THEOREM LegsReachTargets == Spec => []LegsAtTarget
<1>1. ASSUME MultiLegInv, orders = {}, NEW leg \in LegSet \ missed
      PROVE  Net(leg) = IF status = "stopped" THEN 0 ELSE Target(leg, Weight(lastLegs[leg]))
    <2>1. MultiLegTyped /\ ReachInv
        BY <1>1 DEF MultiLegInv
    <2>2. CASE status = "stopped"
        <3>1. \A i \in DOMAIN positions[leg] : positions[leg][i] = 0
            BY <1>1, <2>1, <2>2 DEF ReachInv
        <3>2. positions[leg] \in Seq(Int)
            BY <2>1 DEF MultiLegTyped
        <3> QED
            BY <2>2, <3>1, <3>2, SumsTyped DEF Net
    <2>3. CASE status # "stopped"
        BY <1>1, <2>1, <2>3 DEF ReachInv, Goal
    <2> QED
        BY <2>2, <2>3
<1>2. MultiLegInv => LegsAtTarget
    BY <1>1 DEF LegsAtTarget
<1> QED
    BY <1>2, MultiLegInvAlways, PTL

\* Whatever is refused, rejected or cut short, the positions of a leg add up to
\* nothing or to what one of the genome's weights stands for, and to a short
\* only where the genome allows it (calculate_leg_order_delta); a stop on a
\* margin venue, which closes position by position, is excepted.
THEOREM PositionsStayOnTarget == Spec => []PositionsOnTarget
<1>1. MultiLegInv => PositionsOnTarget
    <2> SUFFICES ASSUME MultiLegInv, ~Loose, NEW leg \in LegSet
                 PROVE  /\ \E weight \in Weights : Net(leg) = Target(leg, weight)
                        /\ Net(leg) < 0 => policy.shorts
        BY DEF PositionsOnTarget, Loose
    <2>1. MultiLegTyped /\ Held(leg, Net(leg))
        BY DEF MultiLegInv, PositionsInv
    <2>2. LegWeight(leg) \in Nat \ {0}
        BY <2>1, SizeFacts
    <2>3. /\ Target(leg, 0) = 0
          /\ Target(leg, LegWeight(leg)) = Size(leg)
          /\ Target(leg, -LegWeight(leg)) = -Size(leg)
        BY <2>2, TargetFacts DEF Size
    <2>4. {0, LegWeight(leg), -LegWeight(leg)} \subseteq Weights
        BY DEF LegWeight, Weights
    <2> QED
        BY <2>1, <2>3, <2>4 DEF Held
<1> QED
    BY <1>1, MultiLegInvAlways, PTL

=============================================================================
