------------------------- MODULE PaperTradingProofs -------------------------
(***************************************************************************)
(* Theorems about PaperTrading, for any strategies, sizes, prices and      *)
(* caps, whichever strategies share an instrument: orders of one event     *)
(* take no more than their number times the room the account had at the    *)
(* price of the event; the trades of a strategy alone on its instrument    *)
(* leave the account within its caps, and its position follows its own     *)
(* decisions.  The run paper_shared shows that the last fails for          *)
(* strategies that share one.                                              *)
(*                                                                         *)
(* The orders of an event are all judged by the account as it was when the *)
(* event began (AccountsCurrent): what they make of it together is kept    *)
(* relative to that account (RoomTaken), and for a strategy on its own by  *)
(* how far its one decision has come (AtWork, OwnTrade).                   *)
(***************************************************************************)
EXTENDS PaperTrading, FiniteSetTheorems, NaturalsInduction,
        WellFoundedInduction, TLAPS

-----------------------------------------------------------------------------
\* THE INDUCTIVE INVARIANT

Submittable ==
    [intent : [strategy : Strategies, symbol : Symbols, venue : {Venue},
               portfolio : {Portfolio}, side : {"BUY", "SELL"}, qty : Nat],
     reduceOnly : BOOLEAN]

TradingTyped ==
    /\ now \in Nat
    /\ provider = "owned"
    /\ markets \in [Symbols -> Markets \cup {Absent}]
    /\ phase \in {"idle", "event"}
    /\ measured \in BOOLEAN
    /\ waiting \subseteq Strategies
    /\ asked \in Seq(Submittable)
    /\ sent \in [Strategies -> Int]
    /\ filling \in Nat
    /\ price \in [Instruments -> Nat]
    /\ position \in [Strategies -> Int]
    /\ decision \in [Strategies -> Decisions \cup {Absent}]

\* What is held once the accepted orders are filled.
Filled == [strategy \in Strategies |-> position[strategy] + sent[strategy]]

\* A strategy alone on its instrument holds its trade size or nothing.
WholePositions ==
    \A strategy \in Strategies :
        Alone(strategy) => position[strategy] \in {0, Size[strategy], -Size[strategy]}

AccountsCurrent ==
    \A instrument \in Instruments :
        LET account == accounts[<<Portfolio, instrument>>] IN
        /\ account.symbolExposure = Exposure(position, price, instrument)
        /\ account.portfolioExposure = PortfolioExposure(position, price)

Close(strategy) == MarketOrder(strategy, -position[strategy], TRUE)

Enter(strategy) ==
    MarketOrder(strategy, decision[strategy].direction * Size[strategy], FALSE)

\* The strategy is to leave what it holds; or to enter a direction it has not.
Leaves(strategy) ==
    /\ decision[strategy] # Absent
    /\ position[strategy] # 0
    /\ decision[strategy].direction # Sign(position[strategy])

Turns(strategy) ==
    /\ decision[strategy] # Absent
    /\ decision[strategy].direction # 0
    /\ decision[strategy].direction # Sign(position[strategy])

\* How far a strategy alone on its instrument has come: its bar, and the orders
\* of its decision, the close before the entry.
AtWork(strategy) ==
    /\ strategy \in waiting => sent[strategy] = 0 /\ asked = <<>>
    /\ Filled[strategy] \in Permitted(strategy, position[strategy], decision[strategy])
    /\ \/ asked = <<>>
       \/ /\ Leaves(strategy) /\ sent[strategy] = 0
          /\ asked = <<Close(strategy)>>
       \/ /\ Turns(strategy) /\ sent[strategy] \in {0, -position[strategy]}
          /\ asked = <<Enter(strategy)>>
       \/ /\ Leaves(strategy) /\ Turns(strategy) /\ sent[strategy] = 0
          /\ asked = <<Close(strategy), Enter(strategy)>>

\* What has been accepted for it fits the caps.
OwnTrade(strategy) ==
    Filled[strategy] # position[strategy] =>
        /\ Exposure(Filled, price, InstrumentOf[strategy]) <= MaxSymbolExposure
        /\ PortfolioExposure(Filled, price) <= MaxPortfolioExposure

\* What has been accepted took at most the room there was, for each order.
RoomTaken(instrument) ==
    LET before == Exposure(position, price, instrument)
        total == PortfolioExposure(position, price) IN
    /\ Exposure(Filled, price, instrument)
          <= before + filling * (MaxSymbolExposure - before)
    /\ PortfolioExposure(Filled, price)
          <= total + filling * (MaxPortfolioExposure - total)

OrdersOn(instrument) ==
    {order \in Submittable : /\ order.intent.strategy \in Subscribers(instrument)
                             /\ order.intent.symbol = instrument}

\* An event is about one instrument.
Dispatched(instrument) ==
    /\ waiting \subseteq Subscribers(instrument)
    /\ asked \in Seq(OrdersOn(instrument))
    /\ \A other \in Strategies \ Subscribers(instrument) : sent[other] = 0
    /\ RoomTaken(instrument)
    /\ \A strategy \in Subscribers(instrument) :
          Alone(strategy) => AtWork(strategy) /\ OwnTrade(strategy)

TradingInv ==
    /\ TradingTyped
    /\ WholePositions
    /\ phase = "idle" => /\ sent = NoPosition /\ filling = 0
                         /\ waiting = {} /\ asked = <<>>
    /\ phase = "event" =>
          AccountsCurrent /\ \E instrument \in Instruments : Dispatched(instrument)

-----------------------------------------------------------------------------
\* SUMS

\* A set that contains 0 and, up to n, each successor of a member contains 0..n.
LEMMA CountUp ==
    ASSUME NEW n \in Nat, NEW F, 0 \in F, \A k \in 0..(n - 1) : k \in F => k + 1 \in F
    PROVE  n \in F
<1> SUFFICES ASSUME n \notin F PROVE FALSE
    OBVIOUS
<1> DEFINE Bad == {m \in 0..n : m \notin F}
           Less == OpToRel(<, Nat)
<1>1. IsWellFoundedOn(Less, Nat)
    BY NatLessThanWellFounded
<1>2. Bad \subseteq Nat /\ Bad # {}
    <2>1. n \in Bad
        OBVIOUS
    <2> QED
        BY <2>1
<1>3. PICK m \in Bad : \A l \in Bad : <<l, m>> \notin Less
    <2> HIDE DEF Bad, Less
    <2> QED
        BY <1>1, <1>2, WFMin
<1>4. m \in 0..n /\ m # 0 /\ m - 1 \in 0..(n - 1) /\ (m - 1) + 1 = m
    OBVIOUS
<1>5. m - 1 \notin Bad
    <2>1. <<m - 1, m>> \in Less
        BY <1>4 DEF OpToRel
    <2> QED
        BY <2>1, <1>3
<1> HIDE DEF Less
<1>6. m - 1 \in F
    BY <1>4, <1>5
<1>7. m \in F
    BY <1>4, <1>6
<1> QED
    BY <1>7

\* A set that contains each subset of S all of whose strict subsets it contains
\* contains S, when S is finite.
LEMMA SubsetInduction ==
    ASSUME NEW S, IsFiniteSet(S), NEW F,
           \A T \in SUBSET S : (\A U \in SUBSET T : U # T => U \in F) => T \in F
    PROVE  S \in F
<1> SUFFICES ASSUME S \notin F PROVE FALSE
    OBVIOUS
<1> DEFINE Bad == {T \in SUBSET S : T \notin F}
<1>1. IsWellFoundedOn(StrictSubsetOrdering(S), FiniteSubsetsOf(S))
    BY FS_StrictSubsetOrderingWellFounded
<1>2. FiniteSubsetsOf(S) = SUBSET S
    BY FS_FiniteSubsetsOfFinite
<1>3. PICK T \in Bad : \A U \in Bad : <<U, T>> \notin StrictSubsetOrdering(S)
    <2>1. S \in Bad
        OBVIOUS
    <2>2. Bad \subseteq FiniteSubsetsOf(S) /\ Bad # {}
        BY <2>1, <1>2
    <2> HIDE DEF Bad
    <2> QED
        BY <2>2, <1>1, WFMin
<1>4. ASSUME NEW U \in SUBSET T, U # T
      PROVE  U \in F
    <2>1. <<U, T>> \in StrictSubsetOrdering(S)
        BY <1>4 DEF StrictSubsetOrdering
    <2> QED
        BY <2>1, <1>3
<1> QED
    BY <1>4

\* MapThenSumSet, over the subsets of a set: sum holds the sum of the amounts
\* of each of them.
One(T) == CHOOSE x \in T : TRUE

Sums(amounts, sum) ==
    LET S == DOMAIN amounts IN
    /\ sum \in [SUBSET S -> Int]
    /\ \A T \in SUBSET S :
          sum[T] = IF T = {} THEN 0 ELSE amounts[One(T)] + sum[T \ {One(T)}]

\* The sum over every subset of a finite set exists.
LEMMA SumsExist ==
    ASSUME NEW S, IsFiniteSet(S), NEW amounts \in [S -> Int]
    PROVE  \E sum : Sums(amounts, sum)
<1> DEFINE Upto(n) == {T \in SUBSET S : Cardinality(T) <= n}
           Step(sum, T) == IF T = {} THEN 0 ELSE amounts[One(T)] + sum[T \ {One(T)}]
           F == {n \in Nat : \E sum \in [Upto(n) -> Int] :
                                \A T \in Upto(n) : sum[T] = Step(sum, T)}
           n == Cardinality(S)
<1>1. n \in Nat /\ \A T \in SUBSET S : /\ Cardinality(T) \in Nat
                                       /\ Cardinality(T) <= n
                                       /\ IsFiniteSet(T)
                                       /\ Cardinality(T) = 0 <=> T = {}
    BY FS_CardinalityType, FS_Subset, FS_EmptySet
<1>2. \A T \in SUBSET S : T # {} => /\ One(T) \in T
                                    /\ T \ {One(T)} \in SUBSET S
                                    /\ Cardinality(T \ {One(T)}) = Cardinality(T) - 1
    BY <1>1, FS_RemoveElement DEF One
<1>3. 0 \in F
    <2> DEFINE sum == [T \in Upto(0) |-> 0]
    <2>1. \A T \in Upto(0) : T = {}
        BY <1>1
    <2>2. sum \in [Upto(0) -> Int] /\ \A T \in Upto(0) : sum[T] = Step(sum, T)
        BY <2>1
    <2> QED
        BY <2>2
<1>4. ASSUME NEW k \in 0..(n - 1), k \in F
      PROVE  k + 1 \in F
    <2>1. PICK sum \in [Upto(k) -> Int] : \A T \in Upto(k) : sum[T] = Step(sum, T)
        BY <1>4
    <2> DEFINE next == [T \in Upto(k + 1) |-> Step(sum, T)]
    <2>2. k \in Nat /\ k + 1 \in Nat
        BY <1>1
    <2>3. \A T \in Upto(k + 1) : T # {} =>
             /\ One(T) \in S /\ T \ {One(T)} \in Upto(k)
        BY <1>1, <1>2, <2>2
    <2>4. \A T \in Upto(k + 1) : Step(sum, T) \in Int
        BY <2>3, <2>1
    <2>5. \A T \in Upto(k) : next[T] = sum[T]
        <3>1. Upto(k) \subseteq Upto(k + 1)
            BY <1>1, <2>2
        <3> QED
            BY <3>1, <2>1
    <2>6. \A T \in Upto(k + 1) : next[T] = Step(next, T)
        BY <2>3, <2>5
    <2>7. next \in [Upto(k + 1) -> Int]
        BY <2>4
    <2> HIDE DEF next, Upto, Step
    <2> QED
        BY <2>2, <2>6, <2>7
<1>5. n \in F
    <2> HIDE DEF F, n
    <2> QED
        BY <1>1, <1>3, <1>4, CountUp
<1>6. Upto(n) = SUBSET S
    BY <1>1
<1>7. DOMAIN amounts = S
    OBVIOUS
<1>8. PICK sum \in [Upto(n) -> Int] : \A T \in Upto(n) : sum[T] = Step(sum, T)
    BY <1>5
<1> HIDE DEF Upto
<1> QED
    BY <1>6, <1>7, <1>8 DEF Sums

\* What MapThenSumSet chooses satisfies its equation.
LEMMA ChosenSums ==
    ASSUME NEW S, IsFiniteSet(S), NEW amounts \in [S -> Int], NEW sum,
           sum = [T \in SUBSET S |-> IF T = {} THEN 0
                                     ELSE amounts[One(T)] + sum[T \ {One(T)}]]
    PROVE  Sums(amounts, sum)
<1> DEFINE F == {T \in SUBSET S : sum[T] \in Int}
<1>1. \A T \in SUBSET S :
         sum[T] = IF T = {} THEN 0 ELSE amounts[One(T)] + sum[T \ {One(T)}]
    OBVIOUS
<1>2. ASSUME NEW A \in SUBSET S
      PROVE  A \in F
    <2>1. ASSUME NEW T \in SUBSET A, \A U \in SUBSET T : U # T => U \in F
          PROVE  T \in F
        <3>1. CASE T = {}
            BY <3>1, <1>1
        <3>2. CASE T # {}
            <4>1. One(T) \in T /\ One(T) \in S
                BY <3>2 DEF One
            <4>2. T \ {One(T)} \in F
                BY <4>1, <2>1
            <4>3. sum[T] = amounts[One(T)] + sum[T \ {One(T)}]
                BY <3>2, <1>1
            <4> QED
                BY <4>1, <4>2, <4>3
        <3> QED
            BY <3>1, <3>2
    <2>2. IsFiniteSet(A)
        BY FS_Subset
    <2> HIDE DEF F
    <2> QED
        BY <2>1, <2>2, SubsetInduction
<1>3. sum \in [SUBSET S -> Int]
    BY <1>2
<1> QED
    BY <1>1, <1>3 DEF Sums

\* When no amount but one grows, the sum changes at most as that one may.
LEMMA SumGrowsBy ==
    ASSUME NEW S, IsFiniteSet(S), NEW f \in [S -> Int], NEW g \in [S -> Int],
           NEW sum, Sums(f, sum), NEW total, Sums(g, total),
           NEW a \in S, NEW n \in Int, g[a] <= f[a] + n,
           \A x \in S \ {a} : g[x] <= f[x]
    PROVE  total[S] <= sum[S] + n
<1> DEFINE More(T) == IF a \in T THEN n ELSE 0
           F == {T \in SUBSET S : total[T] <= sum[T] + More(T)}
<1>1. ASSUME NEW T \in SUBSET S, \A U \in SUBSET T : U # T => U \in F
      PROVE  T \in F
    <2>1. CASE T = {}
        <3>1. total[T] = 0 /\ sum[T] = 0 /\ More(T) = 0
            BY <2>1 DEF Sums
        <3> QED
            BY <3>1
    <2>2. CASE T # {}
        <3> DEFINE x == One(T)
                   U == T \ {x}
        <3>1. x \in T /\ x \in S
            BY <2>2 DEF One
        <3>2. U \in SUBSET T /\ U # T /\ U \in SUBSET S
            BY <3>1
        <3>3. total[U] <= sum[U] + More(U)
            BY <3>2, <1>1
        <3>4. /\ total[T] = g[x] + total[U] /\ total[U] \in Int /\ g[x] \in Int
              /\ sum[T] = f[x] + sum[U] /\ sum[U] \in Int /\ f[x] \in Int
            BY <2>2, <3>1, <3>2 DEF Sums
        <3>5. More(T) = More(U) + (IF x = a THEN n ELSE 0)
            BY <3>1
        <3>6. g[x] <= f[x] + (IF x = a THEN n ELSE 0)
            BY <3>1, <3>4
        <3>7. More(U) \in Int /\ (IF x = a THEN n ELSE 0) \in Int
            OBVIOUS
        <3> HIDE DEF x, U, More
        <3> QED
            BY <3>3, <3>4, <3>5, <3>6, <3>7
    <2> QED
        BY <2>1, <2>2
<1>2. S \in F
    <2> HIDE DEF F
    <2> QED
        BY <1>1, SubsetInduction
<1>3. total[S] \in Int /\ sum[S] \in Int
    BY DEF Sums
<1> QED
    BY <1>2, <1>3

-----------------------------------------------------------------------------
\* THE ACCOUNT

\* There are finitely many instruments, all of them symbols.
LEMMA InstrumentsFinite ==
    /\ IsFiniteSet(Strategies) /\ IsFiniteSet(Instruments)
    /\ \A strategy \in Strategies : InstrumentOf[strategy] \in Instruments
    /\ Instruments \subseteq Symbols
<1>1. IsFiniteSet(Strategies) /\ InstrumentOf \in [Strategies -> Symbols]
    BY TradingAssumption
<1>2. InstrumentOf \in Surjection(Strategies, Instruments)
    BY <1>1 DEF Surjection, Instruments
<1>3. IsFiniteSet(Instruments)
    BY <1>1, <1>2, FS_Surjection
<1> QED
    BY <1>1, <1>3 DEF Instruments

\* The net position of an instrument is the sum over its strategies.
LEMMA NetIsSum ==
    ASSUME NEW positions \in [Strategies -> Int], NEW instrument
    PROVE  LET S == {strategy \in Strategies : InstrumentOf[strategy] = instrument} IN
           \E sum : /\ Sums([strategy \in S |-> positions[strategy]], sum)
                    /\ Net(positions, instrument) = sum[S]
<1> DEFINE S == {strategy \in Strategies : InstrumentOf[strategy] = instrument}
           f == [strategy \in S |-> positions[strategy]]
           Steps(sum) == sum = [T \in SUBSET S |-> IF T = {} THEN 0 ELSE
                LET x == CHOOSE x \in T : TRUE IN positions[x] + sum[T \ {x}]]
           chosen == CHOOSE sum : Steps(sum)
<1>1. IsFiniteSet(S) /\ f \in [S -> Int]
    BY InstrumentsFinite, FS_Subset
<1>2. \A T \in SUBSET S : T # {} => f[One(T)] = positions[One(T)]
    BY DEF One
<1>3. Net(positions, instrument) = chosen[S]
    BY DEF Net, MapThenSumSet, MapThenFoldSet
<1>4. Steps(chosen)
    <2>1. PICK sum : Sums(f, sum)
        <3> HIDE DEF f, S
        <3> QED
            BY <1>1, SumsExist
    <2>2. DOMAIN f = S
        OBVIOUS
    <2> HIDE DEF f
    <2>3. Steps(sum)
        <3>1. sum = [T \in SUBSET S |-> sum[T]]
            BY <2>1, <2>2 DEF Sums
        <3>2. \A T \in SUBSET S : sum[T] = IF T = {} THEN 0 ELSE
                LET x == CHOOSE x \in T : TRUE IN positions[x] + sum[T \ {x}]
            BY <2>1, <2>2, <1>2 DEF Sums, One
        <3> QED
            BY <3>1, <3>2
    <2> HIDE DEF S
    <2> QED
        BY <2>3
<1>5. Sums(f, chosen)
    <2>1. chosen = [T \in SUBSET S |-> IF T = {} THEN 0 ELSE
                                       f[One(T)] + chosen[T \ {One(T)}]]
        <3> HIDE DEF f, chosen
        <3> QED
            BY <1>4, <1>2 DEF One
    <2> HIDE DEF f, S, chosen
    <2> QED
        BY <1>1, <2>1, ChosenSums
<1> HIDE DEF chosen
<1> QED
    BY <1>3, <1>5

\* The exposure of the portfolio is the sum over its instruments.
LEMMA PortfolioExposureIsSum ==
    ASSUME NEW positions, NEW prices,
           \A instrument \in Instruments : Exposure(positions, prices, instrument) \in Int
    PROVE  \E sum :
              /\ Sums([instrument \in Instruments |->
                          Exposure(positions, prices, instrument)], sum)
              /\ PortfolioExposure(positions, prices) = sum[Instruments]
<1> DEFINE S == Instruments
           f == [instrument \in S |-> Exposure(positions, prices, instrument)]
           Steps(sum) == sum = [T \in SUBSET S |-> IF T = {} THEN 0 ELSE
                LET x == CHOOSE x \in T : TRUE IN
                Exposure(positions, prices, x) + sum[T \ {x}]]
           chosen == CHOOSE sum : Steps(sum)
<1>1. IsFiniteSet(S) /\ f \in [S -> Int]
    BY InstrumentsFinite
<1>2. \A T \in SUBSET S : T # {} => f[One(T)] = Exposure(positions, prices, One(T))
    BY DEF One
<1>3. PortfolioExposure(positions, prices) = chosen[S]
    BY DEF PortfolioExposure, MapThenSumSet, MapThenFoldSet
<1>4. Steps(chosen)
    <2>1. PICK sum : Sums(f, sum)
        <3> HIDE DEF f, S
        <3> QED
            BY <1>1, SumsExist
    <2>2. DOMAIN f = S
        OBVIOUS
    <2> HIDE DEF f
    <2>3. Steps(sum)
        <3>1. sum = [T \in SUBSET S |-> sum[T]]
            BY <2>1, <2>2 DEF Sums
        <3>2. \A T \in SUBSET S : sum[T] = IF T = {} THEN 0 ELSE
                LET x == CHOOSE x \in T : TRUE IN
                Exposure(positions, prices, x) + sum[T \ {x}]
            BY <2>1, <2>2, <1>2 DEF Sums, One
        <3> QED
            BY <3>1, <3>2
    <2> QED
        BY <2>3
<1>5. Sums(f, chosen)
    <2>1. chosen = [T \in SUBSET S |-> IF T = {} THEN 0 ELSE
                                       f[One(T)] + chosen[T \ {One(T)}]]
        <3> HIDE DEF f, chosen
        <3> QED
            BY <1>4, <1>2 DEF One
    <2> HIDE DEF f, S, chosen
    <2> QED
        BY <1>1, <2>1, ChosenSums
<1> HIDE DEF chosen
<1> QED
    BY <1>3, <1>5

\* A net position is a whole number, an exposure is not negative.
LEMMA ExposureIsWhole ==
    ASSUME NEW positions \in [Strategies -> Int], NEW prices \in [Instruments -> Nat]
    PROVE  /\ \A instrument \in Instruments :
                 /\ Net(positions, instrument) \in Int
                 /\ Exposure(positions, prices, instrument) \in Nat
           /\ PortfolioExposure(positions, prices) \in Int
<1>1. ASSUME NEW instrument \in Instruments
      PROVE  /\ Net(positions, instrument) \in Int
             /\ Exposure(positions, prices, instrument) \in Nat
    <2> DEFINE S == {strategy \in Strategies : InstrumentOf[strategy] = instrument}
    <2>1. Net(positions, instrument) \in Int
        <3>1. PICK sum : /\ Sums([strategy \in S |-> positions[strategy]], sum)
                         /\ Net(positions, instrument) = sum[S]
            BY NetIsSum
        <3> HIDE DEF S
        <3> QED
            BY <3>1 DEF Sums
    <2>2. Magnitude(Net(positions, instrument)) \in Nat
        BY <2>1 DEF Magnitude
    <2>3. prices[instrument] \in Nat
        OBVIOUS
    <2> QED
        BY <2>1, <2>2, <2>3 DEF Exposure
<1>2. PortfolioExposure(positions, prices) \in Int
    <2>1. \A instrument \in Instruments : Exposure(positions, prices, instrument) \in Int
        BY <1>1
    <2> QED
        BY <2>1, PortfolioExposureIsSum DEF Sums
<1> QED
    BY <1>1, <1>2

\* The account of a strategy with an instrument of its own is the strategy's.
LEMMA NetOfOwn ==
    ASSUME NEW positions \in [Strategies -> Int], NEW strategy \in Strategies,
           Alone(strategy)
    PROVE  Net(positions, InstrumentOf[strategy]) = positions[strategy]
<1> DEFINE S == {other \in Strategies : InstrumentOf[other] = InstrumentOf[strategy]}
           f == [other \in S |-> positions[other]]
<1>1. S = {strategy}
    BY DEF Alone, Subscribers
<1>2. PICK sum : Sums(f, sum) /\ Net(positions, InstrumentOf[strategy]) = sum[S]
    BY NetIsSum
<1>3. One(S) = strategy /\ S # {} /\ S \ {One(S)} = {}
    BY <1>1 DEF One
<1>4. sum[S] = f[strategy] + sum[{}] /\ sum[{}] = 0
    <2>1. DOMAIN f = S
        OBVIOUS
    <2> HIDE DEF f, S
    <2> QED
        BY <1>2, <1>3, <2>1 DEF Sums
<1>5. f[strategy] = positions[strategy] /\ positions[strategy] \in Int
    BY <1>1
<1> QED
    BY <1>2, <1>4, <1>5

\* When one strategy trades, the net position of its instrument changes by what
\* it trades, and that of no other instrument.
LEMMA NetMoves ==
    ASSUME NEW before \in [Strategies -> Int], NEW after \in [Strategies -> Int],
           NEW strategy \in Strategies, NEW n \in Int,
           after[strategy] = before[strategy] + n,
           \A other \in Strategies \ {strategy} : after[other] = before[other]
    PROVE  \A instrument \in Instruments :
              Net(after, instrument)
                 = Net(before, instrument)
                     + (IF instrument = InstrumentOf[strategy] THEN n ELSE 0)
<1> SUFFICES ASSUME NEW instrument \in Instruments
             PROVE  Net(after, instrument)
                       = Net(before, instrument)
                           + (IF instrument = InstrumentOf[strategy] THEN n ELSE 0)
    OBVIOUS
<1> DEFINE S == {other \in Strategies : InstrumentOf[other] = instrument}
           f == [other \in S |-> before[other]]
           g == [other \in S |-> after[other]]
           d == IF instrument = InstrumentOf[strategy] THEN n ELSE 0
<1>1. PICK sum : Sums(f, sum) /\ Net(before, instrument) = sum[S]
    BY NetIsSum
<1>2. PICK total : Sums(g, total) /\ Net(after, instrument) = total[S]
    BY NetIsSum
<1>3. PICK a \in S : instrument = InstrumentOf[strategy] => a = strategy
    <2>1. CASE instrument = InstrumentOf[strategy]
        BY <2>1
    <2>2. CASE instrument # InstrumentOf[strategy]
        BY <2>2 DEF Instruments
    <2> QED
        BY <2>1, <2>2
<1>4. /\ IsFiniteSet(S) /\ f \in [S -> Int] /\ g \in [S -> Int] /\ d \in Int
    BY InstrumentsFinite, FS_Subset
<1>5. g[a] = f[a] + d /\ f[a] = g[a] + (-d)
    <2>1. before[a] \in Int /\ after[a] \in Int /\ a \in Strategies
        BY <1>3
    <2>2. after[a] = before[a] + d
        <3>1. CASE instrument = InstrumentOf[strategy]
            BY <1>3, <3>1
        <3>2. CASE instrument # InstrumentOf[strategy]
            <4>1. a # strategy
                BY <1>3, <3>2
            <4> QED
                BY <2>1, <3>2, <4>1
        <3> QED
            BY <3>1, <3>2
    <2> QED
        BY <1>3, <1>4, <2>1, <2>2
<1>6. \A x \in S \ {a} : g[x] = f[x] /\ f[x] \in Int
    <2> SUFFICES ASSUME NEW x \in S \ {a}
                 PROVE  x # strategy
        OBVIOUS
    <2> QED
        BY <1>3
<1> HIDE DEF f, g, S, d
<1>7. /\ g[a] <= f[a] + d /\ f[a] <= g[a] + (-d) /\ -d \in Int
      /\ \A x \in S \ {a} : g[x] <= f[x] /\ f[x] <= g[x]
    BY <1>3, <1>4, <1>5, <1>6
<1>8. total[S] <= sum[S] + d
    BY <1>1, <1>2, <1>3, <1>4, <1>7, SumGrowsBy
<1>9. sum[S] <= total[S] + (-d)
    BY <1>1, <1>2, <1>3, <1>4, <1>7, SumGrowsBy
<1>10. total[S] \in Int /\ sum[S] \in Int
    BY <1>1, <1>2, <1>4 DEF Sums
<1>11. total[S] = sum[S] + d
    BY <1>4, <1>8, <1>9, <1>10
<1> QED
    BY <1>1, <1>2, <1>11 DEF d

\* A quantity more is worth at most its price more.
LEMMA WorthGrowsBy ==
    ASSUME NEW a \in Int, NEW b \in Int, NEW cost \in Nat
    PROVE  Magnitude(a + b) * cost <= Magnitude(a) * cost + Magnitude(b) * cost
<1>1. PICK d \in Nat : Magnitude(a) + Magnitude(b) = Magnitude(a + b) + d
    <2>1. /\ Magnitude(a) + Magnitude(b) - Magnitude(a + b) \in Nat
          /\ Magnitude(a + b) \in Nat
        BY DEF Magnitude
    <2>2. Magnitude(a) + Magnitude(b)
             = Magnitude(a + b) + (Magnitude(a) + Magnitude(b) - Magnitude(a + b))
        BY DEF Magnitude
    <2> QED
        BY <2>1, <2>2
<1>2. Magnitude(a) \in Nat /\ Magnitude(b) \in Nat /\ Magnitude(a + b) \in Nat
    BY DEF Magnitude
<1>3. \A x, y, z \in Nat : x + y = z + d => x * cost + y * cost = z * cost + d * cost
    <2> SUFFICES ASSUME NEW x \in Nat, NEW y \in Nat, NEW z \in Nat, x + y = z + d
                 PROVE  x * cost + y * cost = z * cost + d * cost
        OBVIOUS
    <2>1. x * cost + y * cost = (x + y) * cost
        OBVIOUS
    <2>2. z * cost + d * cost = (z + d) * cost
        OBVIOUS
    <2> QED
        BY <2>1, <2>2
<1>4. Magnitude(a) * cost + Magnitude(b) * cost = Magnitude(a + b) * cost + d * cost
    <2> DEFINE x == Magnitude(a)
               y == Magnitude(b)
               z == Magnitude(a + b)
    <2>1. x \in Nat /\ y \in Nat /\ z \in Nat /\ x + y = z + d
        BY <1>1, <1>2
    <2> HIDE DEF x, y, z
    <2>2. x * cost + y * cost = z * cost + d * cost
        BY <2>1, <1>3
    <2> QED
        BY <2>2 DEF x, y, z
<1>5. d * cost \in Nat
    OBVIOUS
<1>6. /\ Magnitude(a) * cost \in Nat /\ Magnitude(b) * cost \in Nat
      /\ Magnitude(a + b) * cost \in Nat
    BY <1>2
<1> QED
    BY <1>4, <1>5, <1>6

\* When the exposure of one instrument grows by at most n and no other changes,
\* that of the portfolio grows by at most n.
LEMMA PortfolioGrowsBy ==
    ASSUME NEW before \in [Strategies -> Int], NEW after \in [Strategies -> Int],
           NEW prices \in [Instruments -> Nat],
           NEW own \in Instruments, NEW n \in Nat,
           Exposure(after, prices, own) <= Exposure(before, prices, own) + n,
           \A instrument \in Instruments \ {own} :
              Exposure(after, prices, instrument) = Exposure(before, prices, instrument)
    PROVE  PortfolioExposure(after, prices) <= PortfolioExposure(before, prices) + n
<1> DEFINE f == [instrument \in Instruments |-> Exposure(before, prices, instrument)]
           g == [instrument \in Instruments |-> Exposure(after, prices, instrument)]
<1>1. \A instrument \in Instruments : /\ Exposure(before, prices, instrument) \in Int
                                      /\ Exposure(after, prices, instrument) \in Int
    BY ExposureIsWhole
<1>2. PICK sum : Sums(f, sum) /\ PortfolioExposure(before, prices) = sum[Instruments]
    BY <1>1, PortfolioExposureIsSum
<1>3. PICK total : Sums(g, total) /\ PortfolioExposure(after, prices) = total[Instruments]
    BY <1>1, PortfolioExposureIsSum
<1>4. /\ f \in [Instruments -> Int] /\ g \in [Instruments -> Int]
      /\ g[own] <= f[own] + n
      /\ \A x \in Instruments \ {own} : g[x] <= f[x]
    BY <1>1
<1>5. IsFiniteSet(Instruments) /\ n \in Int
    BY InstrumentsFinite
<1> HIDE DEF f, g
<1> QED
    BY <1>2, <1>3, <1>4, <1>5, SumGrowsBy

\* When one strategy trades n units, no exposure grows by more than they are
\* worth.
LEMMA ExposureGrowsBy ==
    ASSUME NEW before \in [Strategies -> Int], NEW after \in [Strategies -> Int],
           NEW prices \in [Instruments -> Nat],
           NEW strategy \in Strategies, NEW n \in Int,
           after[strategy] = before[strategy] + n,
           \A other \in Strategies \ {strategy} : after[other] = before[other]
    PROVE  LET own == InstrumentOf[strategy]
               worth == Magnitude(n) * prices[own] IN
           /\ worth \in Nat
           /\ \A instrument \in Instruments \ {own} :
                 Exposure(after, prices, instrument) = Exposure(before, prices, instrument)
           /\ Exposure(after, prices, own) <= Exposure(before, prices, own) + worth
           /\ PortfolioExposure(after, prices) <= PortfolioExposure(before, prices) + worth
<1> DEFINE own == InstrumentOf[strategy]
           worth == Magnitude(n) * prices[own]
<1>1. own \in Instruments /\ prices[own] \in Nat
    BY InstrumentsFinite
<1>2. Magnitude(n) \in Nat
    BY DEF Magnitude
<1>3. worth \in Nat
    BY <1>1, <1>2
<1>4. /\ Net(after, own) = Net(before, own) + n
      /\ \A instrument \in Instruments \ {own} :
            Net(after, instrument) = Net(before, instrument)
    <2>1. \A instrument \in Instruments :
             Net(after, instrument)
                = Net(before, instrument) + (IF instrument = own THEN n ELSE 0)
        BY NetMoves
    <2>2. \A instrument \in Instruments : Net(before, instrument) \in Int
        BY ExposureIsWhole
    <2> HIDE DEF own
    <2> QED
        BY <1>1, <2>1, <2>2 DEF own
<1>5. Exposure(after, prices, own) <= Exposure(before, prices, own) + worth
    <2>1. Net(before, own) \in Int
        BY <1>1, ExposureIsWhole
    <2> QED
        BY <1>1, <1>4, <2>1, WorthGrowsBy DEF Exposure
<1>6. \A instrument \in Instruments \ {own} :
         Exposure(after, prices, instrument) = Exposure(before, prices, instrument)
    BY <1>4 DEF Exposure
<1> HIDE DEF own, worth
<1>7. PortfolioExposure(after, prices) <= PortfolioExposure(before, prices) + worth
    BY <1>1, <1>3, <1>5, <1>6, PortfolioGrowsBy
<1> QED
    BY <1>3, <1>5, <1>6, <1>7 DEF own, worth

-----------------------------------------------------------------------------
\* TYPES

\* What a market order says (nautilus_bar_strategy.py).
LEMMA MarketOrderType ==
    ASSUME NEW strategy \in Strategies, NEW quantity \in Int, NEW reduceOnly \in BOOLEAN
    PROVE  LET order == MarketOrder(strategy, quantity, reduceOnly) IN
           /\ order \in Submittable
           /\ order.intent.strategy = strategy
           /\ order.intent.symbol = InstrumentOf[strategy]
           /\ order.intent.venue = Venue /\ order.intent.portfolio = Portfolio
           /\ order.intent.qty = Magnitude(quantity)
           /\ Signed(order.intent) = quantity
<1> DEFINE intent == MarketOrder(strategy, quantity, reduceOnly).intent
<1>1. InstrumentOf[strategy] \in Symbols
    BY TradingAssumption
<1>2. Magnitude(quantity) \in Nat
    BY DEF Magnitude
<1>3. /\ intent.side = IF quantity > 0 THEN "BUY" ELSE "SELL"
      /\ intent.qty = Magnitude(quantity)
      /\ intent.strategy = strategy
      /\ intent.symbol = InstrumentOf[strategy]
      /\ intent.venue = Venue /\ intent.portfolio = Portfolio
    BY DEF MarketOrder
<1>4. Signed(intent) = quantity
    BY <1>3 DEF Signed, Magnitude
<1>5. MarketOrder(strategy, quantity, reduceOnly) \in Submittable
    BY <1>1, <1>2 DEF MarketOrder, Submittable
<1> QED
    BY <1>3, <1>4, <1>5

\* A policy decides something it may decide.
LEMMA PolicyType ==
    ASSUME TradingTyped, NEW strategy \in Strategies
    PROVE  Policy(strategy) \subseteq Decisions
<1> DEFINE own == Sign(position[strategy])
<1>1. own \in Directions /\ -own \in Directions
    <2>1. position[strategy] \in Int
        BY DEF TradingTyped
    <2>2. own = 1 \/ own = -1 \/ own = 0
        BY DEF Sign
    <2> HIDE DEF own
    <2> QED
        BY <2>2 DEF Directions
<1>2. 0 \in Directions
    BY DEF Directions
<1>3. ASSUME NEW d \in Policy(strategy)
      PROVE  \E x \in Directions, y \in BOOLEAN : d = [direction |-> x, close |-> y]
    <2>1. CASE own = 0
        <3>1. d \in [direction : Directions, close : {FALSE}]
            BY <1>3, <2>1 DEF Policy
        <3>2. d = [direction |-> d.direction, close |-> FALSE]
            BY <3>1
        <3> QED
            BY <3>1, <3>2
    <2>2. CASE own # 0
        <3>1. \/ d = [direction |-> own, close |-> FALSE]
              \/ d = [direction |-> 0, close |-> TRUE]
              \/ d = [direction |-> -own, close |-> TRUE]
            BY <1>3, <2>2 DEF Policy
        <3> HIDE DEF own
        <3> QED
            BY <3>1, <1>1, <1>2
    <2> QED
        BY <2>1, <2>2
<1> QED
    BY <1>3 DEF Decisions

\* A decision asks for well-formed orders.
LEMMA WantedType ==
    ASSUME TradingTyped, NEW strategy \in Strategies, NEW d \in Decisions
    PROVE  Wanted(strategy, d) \in Seq(Submittable)
<1>1. -position[strategy] \in Int /\ d.direction * Size[strategy] \in Int
    BY TradingAssumption DEF TradingTyped, Decisions, Directions
<1>2. /\ MarketOrder(strategy, -position[strategy], TRUE) \in Submittable
      /\ MarketOrder(strategy, d.direction * Size[strategy], FALSE) \in Submittable
    BY <1>1, MarketOrderType
<1> HIDE DEF Submittable
<1>3. \A order \in Submittable : <<order>> \in Seq(Submittable)
    OBVIOUS
<1>4. <<>> \in Seq(Submittable)
    OBVIOUS
<1>5. \A p, q \in Seq(Submittable) : p \o q \in Seq(Submittable)
    OBVIOUS
<1> QED
    BY <1>2, <1>3, <1>4, <1>5 DEF Wanted

\* What a step of an order leaves alone, whatever the governor decides.
LEMMA SubmitFrame ==
    ASSUME NEW order, NEW cost, SubmitAt(order, cost)
    PROVE  UNCHANGED <<now, provider, accounts, markets, recon, venues>>
BY DEF SubmitAt, providerVars

\* The initial states are well typed.
LEMMA TypedInit == TradingInit => TradingTyped
<1> SUFFICES ASSUME TradingInit PROVE TradingTyped
    OBVIOUS
<1>1. /\ now \in Nat /\ provider = "owned"
      /\ phase \in {"idle", "event"} /\ measured \in BOOLEAN
      /\ waiting \subseteq Strategies
      /\ filling \in Nat /\ price \in [Instruments -> Nat]
    BY DEF TradingInit
<1>4. asked \in Seq(Submittable)
    <2> HIDE DEF Submittable
    <2> QED
        BY DEF TradingInit
<1>2. markets \in [Symbols -> Markets \cup {Absent}]
    BY DEF TradingInit
<1>3. /\ sent \in [Strategies -> Int] /\ position \in [Strategies -> Int]
      /\ decision \in [Strategies -> Decisions \cup {Absent}]
    BY DEF TradingInit, NoPosition
<1> QED
    BY <1>1, <1>2, <1>3, <1>4 DEF TradingTyped

\* The begin of an event keeps the types.
LEMMA BeginEventType ==
    ASSUME TradingTyped, NEW instrument, NEW recipients \in SUBSET Strategies,
           NEW metrics \in BOOLEAN, BeginEvent(instrument, recipients, metrics),
           markets' \in [Symbols -> Markets \cup {Absent}]
    PROVE  TradingTyped'
<1>1. price' \in [Instruments -> Nat]
    BY InputsAssumption DEF BeginEvent, TradingTyped
<1> QED
    BY <1>1 DEF TradingTyped, BeginEvent

\* Every step keeps the types.
LEMMA TypedNext == TradingTyped /\ [TradingNext]_<<vars, tradeVars>> => TradingTyped'
<1> SUFFICES ASSUME TradingTyped, [TradingNext]_<<vars, tradeVars>>
             PROVE  TradingTyped'
    OBVIOUS
<1>1. ASSUME Tick, UNCHANGED tradeVars
      PROVE  TradingTyped'
    BY <1>1 DEF TradingTyped, Tick, tradeVars, providerVars
<1>2. ASSUME NEW instrument \in Instruments, BeginQuote(instrument)
      PROVE  TradingTyped'
    <2>1. [observedAt |-> now, abnormal |-> FALSE] \in Markets
        BY DEF TradingTyped, Markets
    <2>2. markets' \in [Symbols -> Markets \cup {Absent}]
        BY <1>2, <2>1 DEF BeginQuote, TradingTyped
    <2> QED
        BY <1>2, <2>2, BeginEventType DEF BeginQuote
<1>3. ASSUME NEW instrument \in Instruments, BeginBar(instrument)
      PROVE  TradingTyped'
    <2>1. PICK age \in BarAges :
             /\ age <= now
             /\ markets' = [markets EXCEPT ![RiskSymbol(instrument)] =
                              [observedAt |-> now - age, abnormal |-> FALSE]]
        BY <1>3 DEF BeginBar
    <2>2. now - age \in Nat
        BY <2>1, TradingAssumption DEF TradingTyped
    <2>3. [observedAt |-> now - age, abnormal |-> FALSE] \in Markets
        BY <2>2 DEF Markets
    <2>4. markets' \in [Symbols -> Markets \cup {Absent}]
        BY <2>1, <2>3 DEF TradingTyped
    <2>5. Subscribers(instrument) \in SUBSET Strategies
        BY DEF Subscribers
    <2> QED
        BY <1>3, <2>4, <2>5, BeginEventType DEF BeginBar
<1>4. ASSUME NEW instrument \in Instruments, BeginUnmeasured(instrument)
      PROVE  TradingTyped'
    <2>1. {} \in SUBSET Strategies /\ Subscribers(instrument) \in SUBSET Strategies
        BY DEF Subscribers
    <2>2. markets' \in [Symbols -> Markets \cup {Absent}]
        BY <1>4 DEF BeginUnmeasured, TradingTyped
    <2> QED
        BY <1>4, <2>1, <2>2, BeginEventType DEF BeginUnmeasured
<1>5. ASSUME NEW strategy \in Strategies, OnBar(strategy)
      PROVE  TradingTyped'
    <2>1. PICK d \in Policy(strategy) :
             /\ decision' = [decision EXCEPT ![strategy] = d]
             /\ asked' = Wanted(strategy, d)
        BY <1>5 DEF OnBar
    <2>2. d \in Decisions
        BY <2>1, PolicyType
    <2>3. asked' \in Seq(Submittable)
        BY <2>1, <2>2, WantedType
    <2>4. decision' \in [Strategies -> Decisions \cup {Absent}]
        BY <2>1, <2>2 DEF TradingTyped
    <2> QED
        BY <1>5, <2>3, <2>4 DEF OnBar, TradingTyped, providerVars
<1>6. ASSUME SubmitOrder
      PROVE  TradingTyped'
    <2> DEFINE order == Head(asked)
               own == order.intent.strategy
    <2>1. order \in Submittable /\ asked' \in Seq(Submittable)
        <3> HIDE DEF Submittable
        <3> QED
            BY <1>6 DEF SubmitOrder, TradingTyped
    <2>2. own \in Strategies /\ Signed(order.intent) \in Int
        BY <2>1 DEF Submittable, Signed
    <2>3. sent' \in [Strategies -> Int] /\ filling' \in Nat
        BY <1>6, <2>2 DEF SubmitOrder, TradingTyped
    <2>4. UNCHANGED <<now, provider, accounts, markets, recon, venues>>
        BY <1>6, SubmitFrame DEF SubmitOrder
    <2> HIDE DEF order, own
    <2> QED
        BY <1>6, <2>1, <2>3, <2>4 DEF SubmitOrder, TradingTyped
<1>7. ASSUME EndEvent
      PROVE  TradingTyped'
    BY <1>7 DEF EndEvent, TradingTyped, NoPosition
<1>8. ASSUME UNCHANGED <<vars, tradeVars>>
      PROVE  TradingTyped'
    BY <1>8 DEF TradingTyped, vars, tradeVars, providerVars
<1> QED
    BY <1>1, <1>2, <1>3, <1>4, <1>5, <1>6, <1>7, <1>8 DEF TradingNext

\* Decisions, positions, orders and reported states keep their types.
THEOREM TradingTypes == TradingSpec => []TradingTyped
<1> QED
    BY TypedInit, TypedNext, PTL DEF TradingSpec

-----------------------------------------------------------------------------
\* ONE ORDER

\* An order the governor accepts fits both caps with what the account reports.
LEMMA AcceptedFits ==
    ASSUME TradingTyped, AccountsCurrent,
           NEW order \in Submittable, order.intent.symbol \in Instruments,
           SubmitAt(order, price[order.intent.symbol]), accepted' # accepted
    PROVE  LET worth == order.intent.qty * price[order.intent.symbol] IN
           /\ Exposure(position, price, order.intent.symbol) + worth
                 <= MaxSymbolExposure
           /\ PortfolioExposure(position, price) + worth <= MaxPortfolioExposure
<1> DEFINE intent == order.intent
           account == accounts[<<Portfolio, intent.symbol>>]
           cost == price[intent.symbol]
           worth == intent.qty * cost
<1>1. PICK k \in 0..Len(orderTimes) :
         EvaluateRisk(Effective(intent, cost),
                      Len(SubSeq(orderTimes, k + 1, Len(orderTimes)))) = "ALLOW"
    BY DEF SubmitAt, Fingerprint, Reject
<1> DEFINE s == Effective(intent, cost)
<1>2. ~s.stop /\ ~OverLimit(s)
    <2> HIDE DEF s
    <2> QED
        BY <1>1 DEF EvaluateRisk, s
<1>3. intent.portfolio = Portfolio /\ intent.qty \in Nat /\ cost \in Nat
    BY DEF Submittable, TradingTyped
<1>4. SnapshotForOrder(intent, cost) = OwnedSnapshot(intent, cost)
    BY DEF SnapshotForOrder, TradingTyped
<1>5. /\ s.stop = EmergencyStop(account, cost)
      /\ s.notional = worth
      /\ s.symbolExposure = IF account = Absent THEN 0 ELSE account.symbolExposure
      /\ s.portfolioExposure = IF account = Absent THEN 0 ELSE account.portfolioExposure
    BY <1>3, <1>4 DEF Effective, OwnedSnapshot, Notional
<1>6. account # Absent
    BY <1>2, <1>5 DEF EmergencyStop
<1>7. /\ s.symbolExposure = Exposure(position, price, intent.symbol)
      /\ s.portfolioExposure = PortfolioExposure(position, price)
    BY <1>3, <1>5, <1>6 DEF AccountsCurrent
<1>8. /\ Exposure(position, price, intent.symbol) \in Int
      /\ PortfolioExposure(position, price) \in Int
      /\ MaxSymbolExposure \in Int /\ MaxPortfolioExposure \in Int
      /\ worth \in Nat
    <2>1. position \in [Strategies -> Int] /\ price \in [Instruments -> Nat]
        BY DEF TradingTyped
    <2>2. worth \in Nat
        BY <1>3
    <2> HIDE DEF worth
    <2> QED
        BY <2>1, <2>2, ExposureIsWhole, LimitsAssumption
<1>9. /\ ~(s.symbolExposure + s.notional > MaxSymbolExposure)
      /\ ~(s.portfolioExposure + s.notional > MaxPortfolioExposure)
    <2> HIDE DEF s
    <2> QED
        BY <1>2 DEF OverLimit
<1>10. /\ ~(Exposure(position, price, intent.symbol) + worth > MaxSymbolExposure)
       /\ ~(PortfolioExposure(position, price) + worth > MaxPortfolioExposure)
    BY <1>5, <1>7, <1>9
<1> HIDE DEF s, intent, cost, worth
<1>11. /\ Exposure(position, price, intent.symbol) + worth <= MaxSymbolExposure
       /\ PortfolioExposure(position, price) + worth <= MaxPortfolioExposure
    BY <1>8, <1>10
<1> QED
    BY <1>11 DEF intent, cost, worth

-----------------------------------------------------------------------------
\* THE INVARIANT IS INDUCTIVE

\* A position may always stay what it is: an order can be refused.
LEMMA StaysPermitted ==
    ASSUME NEW strategy, NEW before, NEW d
    PROVE  before \in Permitted(strategy, before, d)
BY DEF Permitted

\* A product with a number one larger.
LEMMA OneMore ==
    ASSUME NEW n \in Nat, NEW room \in Int
    PROVE  (n + 1) * room = n * room + room /\ n * room \in Int
OBVIOUS

\* The invariant holds at first: nothing is held.
LEMMA TradingInvInit ==
    ASSUME TradingInit
    PROVE  TradingInv
<1>1. TradingTyped
    BY TypedInit
<1>2. /\ position = NoPosition /\ sent = NoPosition /\ phase = "idle"
      /\ waiting = {} /\ asked = <<>> /\ filling = 0
    BY DEF TradingInit
<1>3. WholePositions
    BY <1>2 DEF WholePositions, NoPosition
<1> QED
    BY <1>1, <1>2, <1>3 DEF TradingInv

\* A step that neither trades nor reports an account keeps the invariant.
LEMMA TradingFrame ==
    ASSUME TradingInv, TradingTyped', UNCHANGED <<accounts, tradeVars>>
    PROVE  TradingInv'
<1>1. UNCHANGED <<accounts, phase, waiting, asked, sent, filling, price, position,
                  decision>>
    BY DEF tradeVars
<1>2. UNCHANGED Filled
    BY <1>1 DEF Filled
<1>3. AccountsCurrent => AccountsCurrent'
    BY <1>1 DEF AccountsCurrent
<1>4. ASSUME NEW instrument \in Instruments, Dispatched(instrument)
      PROVE  Dispatched(instrument)'
    BY <1>1, <1>2, <1>4 DEF Dispatched, RoomTaken, OwnTrade, AtWork, Close, Enter,
                            Leaves, Turns
<1> QED
    BY <1>1, <1>3, <1>4 DEF TradingInv, WholePositions

\* A refresh reports the exposures of the positions held.
LEMMA AccountsRefreshed ==
    ASSUME NEW loss, accounts' = Refreshed(position, price', loss), UNCHANGED position
    PROVE  AccountsCurrent'
<1> SUFFICES ASSUME NEW instrument \in Instruments
             PROVE  LET account == accounts'[<<Portfolio, instrument>>] IN
                    /\ account.symbolExposure = Exposure(position, price', instrument)
                    /\ account.portfolioExposure = PortfolioExposure(position, price')
    BY DEF AccountsCurrent
<1>1. <<Portfolio, instrument>> \in Portfolios \X Symbols
    BY InstrumentsFinite, TradingAssumption
<1> QED
    BY <1>1 DEF Refreshed, Account

\* An event begins with nothing sent, whatever its price.
LEMMA BeginKeeps ==
    ASSUME TradingInv, TradingTyped',
           NEW instrument \in Instruments,
           NEW recipients \in SUBSET Subscribers(instrument), NEW metrics,
           BeginEvent(instrument, recipients, metrics)
    PROVE  TradingInv'
<1>1. /\ phase = "idle" /\ phase' = "event" /\ waiting' = recipients
      /\ UNCHANGED <<asked, sent, filling, position, decision>>
    BY DEF BeginEvent
<1>2. /\ sent = NoPosition /\ filling = 0 /\ asked = <<>>
      /\ position \in [Strategies -> Int] /\ price' \in [Instruments -> Nat]
    BY <1>1 DEF TradingInv, TradingTyped
<1>3. Filled' = position /\ \A other \in Strategies : sent'[other] = 0
    <2>1. \A other \in Strategies : sent'[other] = 0 /\ position[other] + 0 = position[other]
        BY <1>1, <1>2 DEF NoPosition
    <2>2. Filled' = [strategy \in Strategies |-> position[strategy]]
        BY <1>1, <2>1 DEF Filled
    <2> QED
        BY <1>2, <2>1, <2>2
<1>4. AccountsCurrent'
    BY <1>1, AccountsRefreshed DEF BeginEvent
<1>5. RoomTaken(instrument)'
    <2>1. /\ Exposure(position, price', instrument) \in Int
          /\ PortfolioExposure(position, price') \in Int
          /\ MaxSymbolExposure \in Int /\ MaxPortfolioExposure \in Int
        BY <1>2, ExposureIsWhole, LimitsAssumption
    <2>2. \A x \in Int, y \in Int : x <= x + 0 * (y - x)
        OBVIOUS
    <2>3. filling' = 0 /\ position' = position
        BY <1>1, <1>2
    <2>4. /\ Exposure(position, price', instrument)
                <= Exposure(position, price', instrument)
                     + 0 * (MaxSymbolExposure - Exposure(position, price', instrument))
          /\ PortfolioExposure(position, price')
                <= PortfolioExposure(position, price')
                     + 0 * (MaxPortfolioExposure - PortfolioExposure(position, price'))
        BY <2>1, <2>2
    <2> QED
        BY <1>3, <2>3, <2>4 DEF RoomTaken
<1>6. ASSUME NEW strategy \in Subscribers(instrument)
      PROVE  AtWork(strategy)' /\ OwnTrade(strategy)'
    <2>1. strategy \in Strategies /\ Filled'[strategy] = position'[strategy]
        BY <1>1, <1>3 DEF Subscribers
    <2>2. OwnTrade(strategy)'
        BY <2>1 DEF OwnTrade
    <2> QED
        BY <1>1, <1>2, <1>3, <2>1, <2>2, StaysPermitted DEF AtWork
<1>7. asked' \in Seq(OrdersOn(instrument))
    <2> HIDE DEF OrdersOn
    <2> QED
        BY <1>1, <1>2
<1>8. Dispatched(instrument)'
    <2>1. waiting' \subseteq Subscribers(instrument)
        BY <1>1
    <2> QED
        BY <1>3, <1>5, <1>6, <1>7, <2>1 DEF Dispatched, OrdersOn, Submittable, Subscribers
<1> QED
    BY <1>1, <1>4, <1>8 DEF TradingInv, WholePositions

\* A strategy leaves its position only for another direction than it holds.
LEMMA PolicyTurns ==
    ASSUME TradingTyped, NEW strategy \in Strategies, NEW d \in Policy(strategy),
           position[strategy] # 0, d.close
    PROVE  d.direction # Sign(position[strategy])
<1> DEFINE own == Sign(position[strategy])
<1>1. position[strategy] \in Int
    BY DEF TradingTyped
<1>2. own \in {-1, 1}
    BY <1>1 DEF Sign
<1>3. \/ d = [direction |-> own, close |-> FALSE]
      \/ d = [direction |-> 0, close |-> TRUE]
      \/ d = [direction |-> -own, close |-> TRUE]
    BY <1>2 DEF Policy
<1> HIDE DEF own
<1> QED
    BY <1>2, <1>3 DEF own

\* The decision of a strategy alone on its instrument, and the orders it asks for.
LEMMA OnBarOwn ==
    ASSUME TradingTyped, NEW strategy \in Strategies, Alone(strategy),
           OnBar(strategy), AtWork(strategy), OwnTrade(strategy)
    PROVE  AtWork(strategy)' /\ OwnTrade(strategy)'
<1>1. /\ strategy \in waiting /\ waiting' = waiting \ {strategy}
      /\ UNCHANGED <<price, sent, position>>
    BY DEF OnBar
<1>2. PICK d \in Policy(strategy) :
         /\ decision' = [decision EXCEPT ![strategy] = d]
         /\ asked' = Wanted(strategy, d)
    BY DEF OnBar
<1>3. TradingTyped
    OBVIOUS
<1>5. d \in Decisions /\ d # Absent /\ decision'[strategy] = d
    <2>1. d \in Decisions
        BY <1>3, PolicyType
    <2> QED
        BY <1>2, <1>3, <2>1, TradingAssumption DEF TradingTyped
<1>6. sent[strategy] = 0
    BY <1>1 DEF AtWork
<1>7. position \in [Strategies -> Int] /\ d.direction \in {-1, 0, 1}
    BY <1>3, <1>5 DEF TradingTyped, Decisions, Directions
<1>8. UNCHANGED <<Filled, Close(strategy)>>
    BY <1>1 DEF Filled, Close
<1>9. Filled[strategy] = position[strategy]
    BY <1>6, <1>7 DEF Filled
<1>10. Net(position, InstrumentOf[strategy]) = position[strategy]
    BY <1>7, NetOfOwn
<1> DEFINE p == position[strategy]
<1>11. Closing(strategy, d) /\ p # 0 => Leaves(strategy)'
    <2> SUFFICES ASSUME Closing(strategy, d), p # 0
                 PROVE  d.direction # Sign(p)
        BY <1>1, <1>5 DEF Leaves
    <2>1. CASE d.close
        BY <1>3, <2>1, PolicyTurns
    <2>2. CASE d.direction # 0 /\ d.direction * p < 0
        <3>1. p \in Int
            BY <1>7
        <3> HIDE DEF p
        <3> QED
            BY <2>2, <3>1, <1>7 DEF Sign
    <2> QED
        BY <2>1, <2>2, <1>10 DEF Closing
<1>12. Entering(strategy, d) => Turns(strategy)'
    <2> SUFFICES ASSUME Entering(strategy, d)
                 PROVE  d.direction # 0 /\ d.direction # Sign(p)
        BY <1>1, <1>5 DEF Turns
    <2>1. p \in Int /\ d.direction \in {-1, 1} /\ d.direction * p <= 0
        BY <1>7, <1>10 DEF Entering
    <2> HIDE DEF p
    <2> QED
        BY <2>1 DEF Sign
<1>13. asked' = (IF Closing(strategy, d) /\ p # 0 THEN <<Close(strategy)'>> ELSE <<>>)
                  \o (IF Entering(strategy, d) THEN <<Enter(strategy)'>> ELSE <<>>)
    BY <1>1, <1>2, <1>5 DEF Wanted, Close, Enter
<1>14. \/ asked' = <<>>
       \/ Leaves(strategy)' /\ asked' = <<Close(strategy)'>>
       \/ Turns(strategy)' /\ asked' = <<Enter(strategy)'>>
       \/ Leaves(strategy)' /\ Turns(strategy)' /\ asked' = <<Close(strategy)', Enter(strategy)'>>
    <2> DEFINE c == Close(strategy)'
               e == Enter(strategy)'
    <2>1. \A x, y : /\ <<>> \o <<>> = <<>> /\ <<x>> \o <<>> = <<x>>
                    /\ <<>> \o <<y>> = <<y>> /\ <<x>> \o <<y>> = <<x, y>>
        <3> TAKE x, y
        <3>1. <<x>> \in Seq({x, y}) /\ <<y>> \in Seq({x, y}) /\ <<>> \in Seq({x, y})
            OBVIOUS
        <3>2. \A q \in Seq({x, y}) : <<>> \o q = q /\ q \o <<>> = q
            OBVIOUS
        <3>3. <<x>> \o <<y>> = <<x, y>>
            <4> DEFINE both == <<x>> \o <<y>>
            <4>1. both \in Seq({x, y}) /\ Len(both) = 2
                BY <3>1
            <4>2. both[1] = x /\ both[2] = y
                BY <3>1
            <4> HIDE DEF both
            <4>3. both = <<x, y>>
                BY <4>1, <4>2
            <4> QED
                BY <4>3 DEF both
        <3> QED
            BY <3>1, <3>2, <3>3
    <2> HIDE DEF c, e, p
    <2>2. asked' = (IF Closing(strategy, d) /\ p # 0 THEN <<c>> ELSE <<>>)
                     \o (IF Entering(strategy, d) THEN <<e>> ELSE <<>>)
        BY <1>13 DEF c, e
    <2>3. \/ asked' = <<>>
          \/ Leaves(strategy)' /\ asked' = <<c>>
          \/ Turns(strategy)' /\ asked' = <<e>>
          \/ Leaves(strategy)' /\ Turns(strategy)' /\ asked' = <<c, e>>
        BY <2>1, <2>2, <1>11, <1>12
    <2> QED
        BY <2>3 DEF c, e
<1>15. AtWork(strategy)'
    <2>1. strategy \notin waiting' /\ sent'[strategy] = 0
        BY <1>1, <1>6
    <2>2. Filled'[strategy] \in
             Permitted(strategy, position'[strategy], decision'[strategy])
        BY <1>1, <1>8, <1>9, StaysPermitted
    <2> QED
        BY <1>14, <2>1, <2>2 DEF AtWork
<1>16. OwnTrade(strategy)'
    BY <1>1, <1>8, <1>9 DEF OwnTrade
<1> QED
    BY <1>15, <1>16

\* The decision of a strategy keeps the invariant.
LEMMA OnBarKeeps ==
    ASSUME TradingInv, TradingTyped',
           NEW strategy \in Strategies, OnBar(strategy)
    PROVE  TradingInv'
<1>1. /\ phase = "event" /\ strategy \in waiting
      /\ waiting' = waiting \ {strategy}
      /\ UNCHANGED <<accounts, phase, sent, filling, price, position>>
    BY DEF OnBar, providerVars
<1>2. PICK instrument \in Instruments : Dispatched(instrument)
    BY <1>1 DEF TradingInv
<1>3. TradingTyped /\ AccountsCurrent /\ strategy \in Subscribers(instrument)
    BY <1>1, <1>2 DEF TradingInv, Dispatched
<1>4. InstrumentOf[strategy] = instrument
    BY <1>3 DEF Subscribers
<1>5. UNCHANGED Filled /\ AccountsCurrent'
    BY <1>1, <1>3 DEF Filled, AccountsCurrent
<1>6. RoomTaken(instrument)'
    BY <1>1, <1>2, <1>5 DEF Dispatched, RoomTaken
<1>7. asked' \in Seq(OrdersOn(instrument))
    <2>1. PICK d \in Policy(strategy) : asked' = Wanted(strategy, d)
        BY DEF OnBar
    <2>2. /\ -position[strategy] \in Int
          /\ d.direction * Size[strategy] \in Int
        <3>1. d \in Decisions
            BY <1>3, <2>1, PolicyType
        <3> QED
            BY <1>3, <3>1, TradingAssumption DEF TradingTyped, Decisions, Directions
    <2> DEFINE c == MarketOrder(strategy, -position[strategy], TRUE)
               e == MarketOrder(strategy, d.direction * Size[strategy], FALSE)
    <2>3. c \in OrdersOn(instrument) /\ e \in OrdersOn(instrument)
        BY <1>3, <1>4, <2>2, MarketOrderType DEF OrdersOn
    <2> HIDE DEF OrdersOn, c, e
    <2>4. /\ <<c>> \in Seq(OrdersOn(instrument)) /\ <<e>> \in Seq(OrdersOn(instrument))
          /\ <<>> \in Seq(OrdersOn(instrument))
        BY <2>3
    <2>5. \A p, q \in Seq(OrdersOn(instrument)) : p \o q \in Seq(OrdersOn(instrument))
        OBVIOUS
    <2> QED
        BY <2>1, <2>4, <2>5 DEF Wanted, c, e
<1>8. ASSUME NEW other \in Subscribers(instrument), Alone(other)
      PROVE  AtWork(other)' /\ OwnTrade(other)'
    <2>1. other = strategy
        BY <1>3, <1>8 DEF Alone, Subscribers
    <2>2. AtWork(strategy) /\ OwnTrade(strategy) /\ Alone(strategy)
        BY <1>2, <1>8, <2>1 DEF Dispatched
    <2> QED
        BY <1>3, <2>1, <2>2, OnBarOwn
<1>9. Dispatched(instrument)'
    <2>1. waiting' \subseteq Subscribers(instrument)
        BY <1>1, <1>2 DEF Dispatched
    <2>2. \A other \in Strategies \ Subscribers(instrument) : sent'[other] = 0
        BY <1>1, <1>2 DEF Dispatched
    <2> QED
        BY <1>6, <1>7, <1>8, <2>1, <2>2
        DEF Dispatched, OrdersOn, Submittable, Subscribers, Alone
<1> QED
    BY <1>1, <1>5, <1>9 DEF TradingInv, WholePositions

\* The sizes an order of a strategy at work leads to.
LEMMA SizesOfTurn ==
    ASSUME TradingTyped, WholePositions, NEW strategy \in Strategies, Alone(strategy),
           Turns(strategy), NEW held \in {0, position[strategy]}
    PROVE  LET size == Size[strategy]
               n == decision[strategy].direction * size IN
           /\ n \in Int /\ Magnitude(n) = size /\ size \in Nat
           /\ held + n \in {0, n}
           /\ Magnitude(held + n) <= size
<1> DEFINE size == Size[strategy]
           direction == decision[strategy].direction
           p == position[strategy]
<1>1. size \in Nat /\ size > 0 /\ p \in {0, size, -size}
    BY TradingAssumption DEF WholePositions
<1>2. direction \in {-1, 1} /\ direction # Sign(p)
    <2>1. decision[strategy] \in Decisions
        BY DEF TradingTyped, Turns
    <2> QED
        BY <2>1 DEF Turns, Decisions, Directions
<1>3. held = 0 \/ held = p
    OBVIOUS
<1> HIDE DEF size, direction, p
<1>4. direction * size \in Int /\ Magnitude(direction * size) = size
    BY <1>1, <1>2 DEF Magnitude
<1>5. held + direction * size \in {0, direction * size}
    BY <1>1, <1>2, <1>3 DEF Sign
<1>6. Magnitude(held + direction * size) <= size
    BY <1>1, <1>4, <1>5 DEF Magnitude
<1> QED
    BY <1>1, <1>4, <1>5, <1>6 DEF size, direction, p

\* An order of a strategy alone on its instrument, refused or accepted: one that
\* is accepted leaves at most its own quantity.
LEMMA SubmitOwn ==
    ASSUME TradingTyped, TradingTyped', WholePositions, SubmitOrder,
           NEW s \in Strategies, Alone(s), AtWork(s)
    PROVE  LET order == Head(asked) IN
           order.intent.strategy = s =>
              /\ AtWork(s)'
              /\ accepted' = accepted \/ Magnitude(Filled'[s]) <= order.intent.qty
<1> DEFINE order == Head(asked)
<1> SUFFICES ASSUME order.intent.strategy = s
             PROVE  /\ AtWork(s)'
                    /\ accepted' = accepted \/ Magnitude(Filled'[s]) <= order.intent.qty
    OBVIOUS
<1> DEFINE p == position[s]
           d == decision[s]
           n == d.direction * Size[s]
<1>1. /\ asked # <<>> /\ asked' = Tail(asked)
      /\ sent'[s] = IF accepted' = accepted THEN sent[s]
                    ELSE sent[s] + Signed(order.intent)
      /\ UNCHANGED <<waiting, position, decision>>
    BY DEF SubmitOrder, TradingTyped
<1>2. /\ p \in Int /\ sent[s] \in Int /\ sent'[s] \in Int /\ s \notin waiting
      /\ Filled[s] = p + sent[s] /\ Filled'[s] = p + sent'[s]
    BY <1>1 DEF TradingTyped, AtWork, Filled
<1>3. UNCHANGED <<Close(s), Enter(s), Leaves(s), Turns(s)>>
    BY <1>1 DEF Close, Enter, Leaves, Turns
<1>4. \/ /\ order = Close(s) /\ Leaves(s) /\ sent[s] = 0
         /\ \/ asked' = <<>>
            \/ asked' = <<Enter(s)>> /\ Turns(s)
      \/ /\ order = Enter(s) /\ Turns(s) /\ sent[s] \in {0, -p}
         /\ asked' = <<>>
    <2> DEFINE c == Close(s)
               e == Enter(s)
    <2> HIDE DEF c, e
    <2>1. /\ Head(<<c>>) = c /\ Tail(<<c>>) = <<>>
          /\ Head(<<e>>) = e /\ Tail(<<e>>) = <<>>
          /\ Head(<<c, e>>) = c /\ Tail(<<c, e>>) = <<e>>
        OBVIOUS
    <2>2. \/ Leaves(s) /\ sent[s] = 0 /\ asked = <<c>>
          \/ Turns(s) /\ sent[s] \in {0, -p} /\ asked = <<e>>
          \/ Leaves(s) /\ Turns(s) /\ sent[s] = 0 /\ asked = <<c, e>>
        BY <1>1 DEF AtWork, c, e
    <2>3. \/ /\ order = c /\ Leaves(s) /\ sent[s] = 0
             /\ \/ asked' = <<>>
                \/ asked' = <<e>> /\ Turns(s)
          \/ /\ order = e /\ Turns(s) /\ sent[s] \in {0, -p}
             /\ asked' = <<>>
        BY <2>1, <2>2, <1>1
    <2> QED
        BY <2>3 DEF c, e
<1>5. d # Absent => Permitted(s, p, d) = IF Sign(p) # 0 /\ d.direction = Sign(p)
                                         THEN {p} ELSE {p, 0, n}
    BY DEF Permitted
<1>6. CASE accepted' = accepted
    <2>1. sent'[s] = sent[s] /\ Filled'[s] = Filled[s]
        BY <1>1, <1>2, <1>6
    <2>2. sent'[s] \in {0, -p} /\ Filled'[s] \in Permitted(s, p, d)
        BY <2>1, <1>4 DEF AtWork
    <2>3. AtWork(s)'
        BY <2>1, <2>2, <1>1, <1>2, <1>3, <1>4 DEF AtWork
    <2> QED
        BY <2>3, <1>6
<1>7. CASE accepted' # accepted /\ order = Close(s)
    <2>1. Leaves(s) /\ sent[s] = 0
        <3>1. Close(s).reduceOnly = TRUE /\ Enter(s).reduceOnly = FALSE
            BY DEF Close, Enter, MarketOrder
        <3>2. Close(s) # Enter(s)
            BY <3>1
        <3> HIDE DEF order
        <3> QED
            BY <3>2, <1>4, <1>7
    <2>2. Signed(order.intent) = -p /\ order.intent.qty \in Nat
        <3>1. order = MarketOrder(s, -p, TRUE)
            BY <1>7 DEF Close
        <3>2. -p \in Int
            BY <1>2
        <3>3. Magnitude(-p) \in Nat
            BY <3>2 DEF Magnitude
        <3>4. /\ Signed(MarketOrder(s, -p, TRUE).intent) = -p
              /\ MarketOrder(s, -p, TRUE).intent.qty = Magnitude(-p)
            BY <3>2, MarketOrderType
        <3> HIDE DEF order, p
        <3> QED
            BY <3>1, <3>3, <3>4
    <2>3. sent'[s] = -p /\ Filled'[s] = 0
        BY <2>1, <2>2, <1>1, <1>2, <1>7
    <2>4. Filled'[s] \in Permitted(s, p, d)
        BY <2>1, <2>3, <1>5 DEF Leaves
    <2>5. AtWork(s)'
        BY <2>1, <2>3, <2>4, <1>1, <1>2, <1>3, <1>4, <1>7 DEF AtWork
    <2>6. Magnitude(Filled'[s]) <= order.intent.qty
        BY <2>2, <2>3 DEF Magnitude
    <2> QED
        BY <2>5, <2>6
<1>8. CASE accepted' # accepted /\ order = Enter(s) /\ Turns(s) /\ sent[s] \in {0, -p}
                /\ asked' = <<>>
    <2>1. p + sent[s] \in {0, p} /\ p + sent[s] \in Int
        BY <1>2, <1>8
    <2>2. /\ n \in Int /\ Magnitude(n) = Size[s] /\ Size[s] \in Nat
          /\ (p + sent[s]) + n \in {0, n}
          /\ Magnitude((p + sent[s]) + n) <= Size[s]
        BY <2>1, <1>8, SizesOfTurn
    <2>3. Signed(order.intent) = n /\ order.intent.qty = Size[s]
        <3>1. order = MarketOrder(s, n, FALSE)
            BY <1>8 DEF Enter
        <3>2. /\ Signed(MarketOrder(s, n, FALSE).intent) = n
              /\ MarketOrder(s, n, FALSE).intent.qty = Magnitude(n)
            BY <2>2, MarketOrderType
        <3> HIDE DEF order, n
        <3> QED
            BY <3>1, <3>2, <2>2
    <2>4. Filled'[s] = (p + sent[s]) + n
        BY <2>2, <2>3, <1>1, <1>2, <1>8
    <2>5. Filled'[s] \in Permitted(s, p, d)
        BY <2>2, <2>4, <1>5, <1>8 DEF Turns
    <2>6. AtWork(s)'
        BY <2>5, <1>1, <1>2, <1>8 DEF AtWork
    <2> QED
        BY <2>2, <2>3, <2>4, <2>6
<1> QED
    BY <1>4, <1>6, <1>7, <1>8

\* What an accepted order of a strategy alone on its instrument leaves fits the
\* caps.
LEMMA OwnTradeFits ==
    ASSUME NEW before \in [Strategies -> Int], NEW after \in [Strategies -> Int],
           NEW prices \in [Instruments -> Nat],
           NEW s \in Strategies, Alone(s),
           \A other \in Strategies \ {s} : after[other] = before[other],
           NEW qty \in Nat, Magnitude(after[s]) <= qty,
           LET own == InstrumentOf[s]
               worth == qty * prices[own] IN
           /\ Exposure(before, prices, own) + worth <= MaxSymbolExposure
           /\ PortfolioExposure(before, prices) + worth <= MaxPortfolioExposure
    PROVE  /\ Exposure(after, prices, InstrumentOf[s]) <= MaxSymbolExposure
           /\ PortfolioExposure(after, prices) <= MaxPortfolioExposure
<1> DEFINE own == InstrumentOf[s]
           cost == prices[own]
           worth == qty * cost
           n == after[s] - before[s]
<1>1. own \in Instruments /\ cost \in Nat
    BY InstrumentsFinite
<1>2. worth \in Nat
    BY <1>1
<1>3. Exposure(after, prices, own) = Magnitude(after[s]) * cost
    BY NetOfOwn DEF Exposure
<1>4. Magnitude(after[s]) * cost <= worth
    <2>1. PICK more \in Nat : qty = Magnitude(after[s]) + more
        <3>1. Magnitude(after[s]) \in Nat
            BY DEF Magnitude
        <3>2. qty - Magnitude(after[s]) \in Nat
                /\ qty = Magnitude(after[s]) + (qty - Magnitude(after[s]))
            BY <3>1
        <3> QED
            BY <3>2
    <2>2. Magnitude(after[s]) \in Nat
        BY DEF Magnitude
    <2> HIDE DEF cost
    <2>3. worth = Magnitude(after[s]) * cost + more * cost
        BY <1>1, <2>1, <2>2
    <2>4. more * cost \in Nat /\ Magnitude(after[s]) * cost \in Nat
        BY <1>1, <2>2
    <2> HIDE DEF worth
    <2> QED
        BY <2>3, <2>4
<1>5. /\ Exposure(before, prices, own) \in Nat /\ Exposure(after, prices, own) \in Nat
      /\ PortfolioExposure(before, prices) \in Int
      /\ PortfolioExposure(after, prices) \in Int
      /\ MaxSymbolExposure \in Int /\ MaxPortfolioExposure \in Int
    BY <1>1, ExposureIsWhole, LimitsAssumption
<1>6. \A instrument \in Instruments \ {own} :
         Exposure(after, prices, instrument) = Exposure(before, prices, instrument)
    <2>1. n \in Int /\ after[s] = before[s] + n
        BY DEF n
    <2> HIDE DEF n
    <2> QED
        BY <2>1, ExposureGrowsBy
<1> HIDE DEF own, cost, worth
<1>7. Exposure(after, prices, own) <= Exposure(before, prices, own) + worth
    BY <1>2, <1>3, <1>4, <1>5
<1>8. PortfolioExposure(after, prices) <= PortfolioExposure(before, prices) + worth
    BY <1>1, <1>2, <1>6, <1>7, PortfolioGrowsBy
<1>9. /\ Exposure(before, prices, own) + worth <= MaxSymbolExposure
      /\ PortfolioExposure(before, prices) + worth <= MaxPortfolioExposure
    BY DEF own, cost, worth
<1>10. /\ Exposure(after, prices, own) <= MaxSymbolExposure
       /\ PortfolioExposure(after, prices) <= MaxPortfolioExposure
    BY <1>2, <1>3, <1>4, <1>5, <1>8, <1>9
<1> QED
    BY <1>10 DEF own

\* What one more accepted order makes of the exposures takes the room once more.
LEMMA RoomTakenOnce ==
    ASSUME TradingTyped, NEW instrument \in Instruments, RoomTaken(instrument),
           NEW after \in [Strategies -> Int], NEW worth \in Nat,
           Exposure(after, price, instrument)
              <= Exposure(Filled, price, instrument) + worth,
           PortfolioExposure(after, price) <= PortfolioExposure(Filled, price) + worth,
           Exposure(position, price, instrument) + worth <= MaxSymbolExposure,
           PortfolioExposure(position, price) + worth <= MaxPortfolioExposure
    PROVE  LET before == Exposure(position, price, instrument)
               total == PortfolioExposure(position, price) IN
           /\ Exposure(after, price, instrument)
                 <= before + (filling + 1) * (MaxSymbolExposure - before)
           /\ PortfolioExposure(after, price)
                 <= total + (filling + 1) * (MaxPortfolioExposure - total)
<1> DEFINE before == Exposure(position, price, instrument)
           total == PortfolioExposure(position, price)
           room == MaxSymbolExposure - before
           rest == MaxPortfolioExposure - total
           x == Exposure(Filled, price, instrument)
           y == PortfolioExposure(Filled, price)
<1>1. /\ position \in [Strategies -> Int] /\ Filled \in [Strategies -> Int]
      /\ price \in [Instruments -> Nat] /\ filling \in Nat
    BY DEF TradingTyped, Filled
<1>2. /\ before \in Int /\ total \in Int /\ x \in Int /\ y \in Int
      /\ Exposure(after, price, instrument) \in Int
      /\ PortfolioExposure(after, price) \in Int
      /\ MaxSymbolExposure \in Int /\ MaxPortfolioExposure \in Int
    BY <1>1, ExposureIsWhole, LimitsAssumption
<1>3. x <= before + filling * room /\ y <= total + filling * rest
    BY DEF RoomTaken
<1>4. /\ Exposure(after, price, instrument) <= x + worth
      /\ PortfolioExposure(after, price) <= y + worth
      /\ before + worth <= MaxSymbolExposure /\ total + worth <= MaxPortfolioExposure
    OBVIOUS
<1> HIDE DEF before, total, x, y
<1>5. room \in Int /\ rest \in Int /\ worth <= room /\ worth <= rest
    BY <1>2, <1>4
<1> HIDE DEF room, rest
<1>6. /\ (filling + 1) * room = filling * room + room /\ filling * room \in Int
      /\ (filling + 1) * rest = filling * rest + rest /\ filling * rest \in Int
    BY <1>1, <1>5, OneMore
<1> DEFINE taken == filling * room
           used == filling * rest
           moreTaken == (filling + 1) * room
           moreUsed == (filling + 1) * rest
<1>7. /\ moreTaken = taken + room /\ taken \in Int /\ x <= before + taken
      /\ moreUsed = used + rest /\ used \in Int /\ y <= total + used
    BY <1>3, <1>6
<1> HIDE DEF taken, used, moreTaken, moreUsed
<1>8. /\ Exposure(after, price, instrument) <= before + moreTaken
      /\ PortfolioExposure(after, price) <= total + moreUsed
    BY <1>2, <1>4, <1>5, <1>7
<1> QED
    BY <1>8 DEF before, total, room, rest, moreTaken, moreUsed

\* An order, refused or accepted, keeps the invariant: what is accepted finds the
\* room there was when the event began.
LEMMA SubmitKeeps ==
    ASSUME TradingInv, TradingTyped', SubmitOrder
    PROVE  TradingInv'
<1> DEFINE order == Head(asked)
           s == order.intent.strategy
           instrument == order.intent.symbol
           qty == order.intent.qty
<1>1. /\ asked # <<>> /\ asked' = Tail(asked)
      /\ SubmitAt(order, price[instrument])
      /\ IF accepted' = accepted THEN UNCHANGED <<sent, filling>>
         ELSE /\ sent' = [sent EXCEPT ![s] = @ + Signed(order.intent)]
              /\ filling' = filling + 1
      /\ UNCHANGED <<phase, waiting, price, position, decision>>
    BY DEF SubmitOrder
<1>2. UNCHANGED accounts
    BY <1>1, SubmitFrame
<1>3. TradingTyped /\ WholePositions /\ phase = "event" /\ AccountsCurrent
    BY <1>1 DEF TradingInv, TradingTyped
<1>4. PICK own \in Instruments : Dispatched(own)
    BY <1>3 DEF TradingInv
<1>5. order \in OrdersOn(own) /\ asked' \in Seq(OrdersOn(own))
    <2>1. asked \in Seq(OrdersOn(own))
        BY <1>4 DEF Dispatched
    <2> HIDE DEF OrdersOn
    <2> QED
        BY <1>1, <2>1
<1>6. /\ order \in Submittable /\ instrument = own
      /\ s \in Subscribers(own) /\ s \in Strategies /\ InstrumentOf[s] = own
      /\ qty \in Nat /\ Signed(order.intent) \in Int
      /\ Magnitude(Signed(order.intent)) = qty
    <2>1. order \in Submittable /\ instrument = own /\ s \in Subscribers(own)
        BY <1>5 DEF OrdersOn
    <2>2. qty \in Nat /\ order.intent.side \in {"BUY", "SELL"}
        BY <2>1 DEF Submittable
    <2>3. s \in Strategies /\ InstrumentOf[s] = own
        BY <2>1 DEF Subscribers
    <2> QED
        BY <2>1, <2>2, <2>3 DEF Signed, Magnitude
<1> HIDE DEF order, s, instrument, qty
<1>7. /\ position \in [Strategies -> Int] /\ price \in [Instruments -> Nat]
      /\ sent \in [Strategies -> Int] /\ sent' \in [Strategies -> Int]
      /\ Filled \in [Strategies -> Int] /\ Filled' \in [Strategies -> Int]
    BY <1>1, <1>3 DEF TradingTyped, Filled
<1>8. AccountsCurrent'
    BY <1>1, <1>2, <1>3 DEF AccountsCurrent
<1>9. accepted' # accepted =>
         /\ Filled'[s] = Filled[s] + Signed(order.intent)
         /\ \A other \in Strategies \ {s} : /\ sent'[other] = sent[other]
                                            /\ Filled'[other] = Filled[other]
         /\ Exposure(position, price, own) + qty * price[own] <= MaxSymbolExposure
         /\ PortfolioExposure(position, price) + qty * price[own] <= MaxPortfolioExposure
    <2> SUFFICES ASSUME accepted' # accepted
                 PROVE  /\ Filled'[s] = Filled[s] + Signed(order.intent)
                        /\ \A other \in Strategies \ {s} :
                              sent'[other] = sent[other] /\ Filled'[other] = Filled[other]
                        /\ Exposure(position, price, own) + qty * price[own]
                              <= MaxSymbolExposure
                        /\ PortfolioExposure(position, price) + qty * price[own]
                              <= MaxPortfolioExposure
        OBVIOUS
    <2>1. /\ sent'[s] = sent[s] + Signed(order.intent)
          /\ \A other \in Strategies \ {s} : sent'[other] = sent[other]
        BY <1>1, <1>6, <1>7
    <2>2. /\ Filled'[s] = Filled[s] + Signed(order.intent)
          /\ \A other \in Strategies \ {s} : Filled'[other] = Filled[other]
        BY <1>1, <1>6, <1>7, <2>1 DEF Filled
    <2>3. /\ Exposure(position, price, own) + qty * price[own] <= MaxSymbolExposure
          /\ PortfolioExposure(position, price) + qty * price[own] <= MaxPortfolioExposure
        BY <1>1, <1>3, <1>6, AcceptedFits DEF instrument, qty
    <2> QED
        BY <2>1, <2>2, <2>3
<1>10. accepted' = accepted => UNCHANGED <<sent, filling, Filled>>
    BY <1>1 DEF Filled
<1>11. RoomTaken(own)'
    <2>1. CASE accepted' = accepted
        BY <1>1, <1>4, <1>10, <2>1 DEF RoomTaken, Dispatched
    <2>2. CASE accepted' # accepted
        <3> DEFINE worth == qty * price[own]
        <3>1. worth \in Nat
            BY <1>6, <1>7
        <3>2. /\ Exposure(Filled', price, own) <= Exposure(Filled, price, own) + worth
              /\ PortfolioExposure(Filled', price) <= PortfolioExposure(Filled, price) + worth
            BY <1>6, <1>7, <1>9, <2>2, ExposureGrowsBy
        <3>3. RoomTaken(own)
            BY <1>4 DEF Dispatched
        <3> HIDE DEF worth
        <3>4. LET before == Exposure(position, price, own)
                  total == PortfolioExposure(position, price) IN
              /\ Exposure(Filled', price, own)
                    <= before + (filling + 1) * (MaxSymbolExposure - before)
              /\ PortfolioExposure(Filled', price)
                    <= total + (filling + 1) * (MaxPortfolioExposure - total)
            BY <1>3, <1>7, <1>9, <2>2, <3>1, <3>2, <3>3, RoomTakenOnce DEF worth
        <3>5. filling' = filling + 1
            BY <1>1, <2>2
        <3> QED
            BY <1>1, <3>4, <3>5 DEF RoomTaken
    <2> QED
        BY <2>1, <2>2
<1>12. ASSUME NEW other \in Subscribers(own), Alone(other)
       PROVE  AtWork(other)' /\ OwnTrade(other)'
    <2>1. other = s
        BY <1>6, <1>12 DEF Alone, Subscribers
    <2>2. AtWork(s) /\ OwnTrade(s) /\ Alone(s)
        BY <1>4, <1>12, <2>1 DEF Dispatched
    <2>3. /\ AtWork(other)'
          /\ accepted' = accepted \/ Magnitude(Filled'[s]) <= qty
        <3>1. \A t \in Strategies :
                 Alone(t) /\ AtWork(t) /\ Head(asked).intent.strategy = t =>
                    /\ AtWork(t)'
                    /\ \/ accepted' = accepted
                       \/ Magnitude(Filled'[t]) <= Head(asked).intent.qty
            BY <1>3, SubmitOwn
        <3>2. Head(asked).intent.strategy = s /\ Head(asked).intent.qty = qty
            BY DEF order, s, qty
        <3> QED
            BY <1>6, <2>1, <2>2, <3>1, <3>2
    <2>4. CASE accepted' = accepted
        <3>1. OwnTrade(other) /\ UNCHANGED <<Filled, position, price>>
            BY <1>1, <1>10, <2>1, <2>2, <2>4
        <3>2. OwnTrade(other)'
            BY <3>1 DEF OwnTrade
        <3> QED
            BY <2>3, <3>2
    <2>5. CASE accepted' # accepted
        <3>1. \A x \in Strategies \ {s} : Filled'[x] = position[x]
            <4>1. AtWork(s) /\ \A x \in Strategies \ {s} : sent[x] = 0
                BY <1>4, <1>6, <2>2 DEF Dispatched, Alone
            <4> QED
                BY <1>7, <1>9, <2>5, <4>1 DEF Filled
        <3>2. /\ Exposure(Filled', price, own) <= MaxSymbolExposure
              /\ PortfolioExposure(Filled', price) <= MaxPortfolioExposure
            BY <1>6, <1>7, <1>9, <2>2, <2>3, <2>5, <3>1, OwnTradeFits
        <3>3. InstrumentOf[other] = own /\ price' = price
            BY <1>1, <1>6, <2>1
        <3>4. OwnTrade(other)'
            BY <3>2, <3>3 DEF OwnTrade
        <3> QED
            BY <2>3, <3>4
    <2> QED
        BY <2>4, <2>5
<1>13. \A other \in Strategies \ Subscribers(own) : sent'[other] = 0
    <2> SUFFICES ASSUME NEW other \in Strategies \ Subscribers(own)
                 PROVE  sent'[other] = sent[other]
        BY <1>4 DEF Dispatched
    <2>1. other # s
        BY <1>6
    <2> QED
        BY <1>9, <1>10, <2>1
<1>14. Dispatched(own)'
    <2>1. waiting' \subseteq Subscribers(own)
        BY <1>1, <1>4 DEF Dispatched
    <2> QED
        BY <1>5, <1>11, <1>12, <1>13, <2>1
        DEF Dispatched, OrdersOn, Submittable, Subscribers, Alone
<1> QED
    BY <1>1, <1>3, <1>8, <1>14 DEF TradingInv, WholePositions

\* The fills at the end of an event keep the invariant.
LEMMA EndKeeps ==
    ASSUME TradingInv, TradingTyped', EndEvent
    PROVE  TradingInv'
<1>1. /\ phase = "event" /\ waiting = {} /\ asked = <<>>
      /\ position' = Filled /\ sent' = NoPosition /\ filling' = 0 /\ phase' = "idle"
      /\ UNCHANGED <<waiting, asked>>
    BY DEF EndEvent, Filled
<1>2. TradingTyped /\ WholePositions
    BY DEF TradingInv
<1>3. PICK instrument \in Instruments : Dispatched(instrument)
    BY <1>1 DEF TradingInv
<1>4. ASSUME NEW strategy \in Strategies, Alone(strategy)
      PROVE  Filled[strategy] \in {0, Size[strategy], -Size[strategy]}
    <2>1. position[strategy] \in {0, Size[strategy], -Size[strategy]}
        BY <1>2, <1>4 DEF WholePositions
    <2>2. CASE strategy \notin Subscribers(instrument)
        <3>1. Filled[strategy] = position[strategy]
            BY <1>2, <1>3, <2>2 DEF Filled, TradingTyped, Dispatched
        <3> QED
            BY <2>1, <3>1
    <2>3. CASE strategy \in Subscribers(instrument)
        <3> DEFINE d == decision[strategy]
        <3>1. Filled[strategy] \in Permitted(strategy, position[strategy], d)
            BY <1>3, <1>4, <2>3 DEF Dispatched, AtWork
        <3>2. CASE d = Absent
            BY <2>1, <3>1, <3>2 DEF Permitted
        <3>3. CASE d \in Decisions
            <4>1. d.direction \in {-1, 0, 1}
                BY <3>3 DEF Decisions, Directions
            <4>2. Size[strategy] \in Int
                BY TradingAssumption
            <4>3. d.direction * Size[strategy] \in {0, Size[strategy], -Size[strategy]}
                BY <4>1, <4>2
            <4> QED
                BY <2>1, <3>1, <4>3 DEF Permitted
        <3> QED
            BY <1>2, <3>2, <3>3 DEF TradingTyped
    <2> QED
        BY <2>2, <2>3
<1>5. WholePositions'
    BY <1>1, <1>4 DEF WholePositions, Alone, Subscribers
<1> QED
    BY <1>1, <1>5 DEF TradingInv

\* Every step keeps the invariant.
LEMMA TradingInvNext ==
    ASSUME TradingInv, [TradingNext]_<<vars, tradeVars>>
    PROVE  TradingInv'
<1>1. TradingTyped'
    BY TypedNext DEF TradingInv
<1>2. ASSUME Tick, UNCHANGED tradeVars
      PROVE  TradingInv'
    BY <1>1, <1>2, TradingFrame DEF Tick, providerVars
<1>3. ASSUME NEW instrument \in Instruments, BeginQuote(instrument)
      PROVE  TradingInv'
    BY <1>1, <1>3, BeginKeeps DEF BeginQuote
<1>4. ASSUME NEW instrument \in Instruments, BeginBar(instrument)
      PROVE  TradingInv'
    BY <1>1, <1>4, BeginKeeps DEF BeginBar
<1>5. ASSUME NEW instrument \in Instruments, BeginUnmeasured(instrument)
      PROVE  TradingInv'
    BY <1>1, <1>5, BeginKeeps DEF BeginUnmeasured
<1>6. ASSUME NEW strategy \in Strategies, OnBar(strategy)
      PROVE  TradingInv'
    BY <1>1, <1>6, OnBarKeeps
<1>7. ASSUME SubmitOrder
      PROVE  TradingInv'
    BY <1>1, <1>7, SubmitKeeps
<1>8. ASSUME EndEvent
      PROVE  TradingInv'
    BY <1>1, <1>8, EndKeeps
<1>9. ASSUME UNCHANGED <<vars, tradeVars>>
      PROVE  TradingInv'
    BY <1>1, <1>9, TradingFrame DEF vars, providerVars
<1> QED
    BY <1>2, <1>3, <1>4, <1>5, <1>6, <1>7, <1>8, <1>9 DEF TradingNext

-----------------------------------------------------------------------------
\* WHAT FOLLOWS

\* The invariant holds at every state of a behaviour.
LEMMA TradingInvariant == TradingSpec => []TradingInv
<1>1. TradingInit => TradingInv
    BY TradingInvInit
<1>2. TradingInv /\ [TradingNext]_<<vars, tradeVars>> => TradingInv'
    BY TradingInvNext
<1> QED
    BY <1>1, <1>2, PTL DEF TradingSpec

\* Positions change only when an event ends, on its instrument, by what was
\* accepted in it.
LEMMA Fills ==
    ASSUME TradingInv, [TradingNext]_<<vars, tradeVars>>
    PROVE  \/ UNCHANGED position
           \/ /\ position' = Filled /\ price' = price
              /\ \E instrument \in Instruments :
                    /\ Dispatched(instrument)
                    /\ \A strategy \in Strategies \ Subscribers(instrument) :
                          Filled[strategy] = position[strategy]
<1>1. CASE EndEvent
    <2>1. position' = Filled /\ price' = price /\ phase = "event"
        BY <1>1 DEF EndEvent, Filled
    <2>2. PICK instrument \in Instruments : Dispatched(instrument)
        BY <2>1 DEF TradingInv
    <2>3. \A strategy \in Strategies \ Subscribers(instrument) :
             Filled[strategy] = position[strategy]
        BY <2>2 DEF Filled, Dispatched, TradingInv, TradingTyped
    <2> QED
        BY <2>1, <2>2, <2>3
<1>2. CASE ~EndEvent
    <2>1. UNCHANGED position
        BY <1>2 DEF TradingNext, tradeVars, vars, BeginQuote, BeginBar,
                    BeginUnmeasured, BeginEvent, OnBar, SubmitOrder
    <2> QED
        BY <2>1
<1> QED
    BY <1>1, <1>2

\* What an event makes of an exposure it changes, on a shared instrument too: the
\* orders accepted in it took, each of them, at most the room the account had at
\* the price of the event, and nothing is traded where there was none.
THEOREM RoomBoundsOvershoot == TradingSpec => OvershootBounded
<1>1. ASSUME TradingInv, [TradingNext]_<<vars, tradeVars>>
      PROVE  [OvershootStep]_<<vars, tradeVars>>
    <2> SUFFICES ASSUME NEW strategy \in Strategies,
                        position'[strategy] # position[strategy]
                 PROVE  LET instrument == InstrumentOf[strategy]
                            before == Exposure(position, price', instrument)
                            total == PortfolioExposure(position, price') IN
                        /\ Exposure(position', price', instrument)
                              <= before + filling * (MaxSymbolExposure - before)
                        /\ PortfolioExposure(position', price')
                              <= total + filling * (MaxPortfolioExposure - total)
        BY DEF OvershootStep
    <2>1. PICK instrument \in Instruments :
             /\ position' = Filled /\ price' = price /\ Dispatched(instrument)
             /\ \A other \in Strategies \ Subscribers(instrument) :
                   Filled[other] = position[other]
        BY <1>1, Fills
    <2>2. InstrumentOf[strategy] = instrument
        BY <2>1 DEF Subscribers
    <2> QED
        BY <2>1, <2>2 DEF Dispatched, RoomTaken
<1> QED
    BY <1>1, TradingInvariant, PTL DEF TradingSpec, OvershootBounded

\* A strategy alone on its instrument never trades the account past a cap, at the
\* price it trades at, whatever the prices did to the account before.
THEOREM CapsHold == TradingSpec => TradesKeepCaps
<1>1. ASSUME TradingInv, [TradingNext]_<<vars, tradeVars>>
      PROVE  [CapStep]_<<vars, tradeVars>>
    <2> SUFFICES ASSUME NEW strategy \in Strategies, Alone(strategy),
                        position'[strategy] # position[strategy]
                 PROVE  /\ Exposure(position', price', InstrumentOf[strategy])
                              <= MaxSymbolExposure
                        /\ PortfolioExposure(position', price') <= MaxPortfolioExposure
        BY DEF CapStep
    <2>1. PICK instrument \in Instruments :
             /\ position' = Filled /\ price' = price /\ Dispatched(instrument)
             /\ \A other \in Strategies \ Subscribers(instrument) :
                   Filled[other] = position[other]
        BY <1>1, Fills
    <2>2. strategy \in Subscribers(instrument)
        BY <2>1
    <2> QED
        BY <2>1, <2>2 DEF Dispatched, OwnTrade
<1> QED
    BY <1>1, TradingInvariant, PTL DEF TradingSpec, TradesKeepCaps

\* The position of a strategy alone on its instrument follows its own decisions: a
\* hold leaves it, an exit closes it, a direction is entered once, whichever of
\* the orders the governor refuses.
THEOREM PositionsFollowDecisions == TradingSpec => LoneDecisionsKept
<1>1. ASSUME TradingInv, [TradingNext]_<<vars, tradeVars>>
      PROVE  [LoneDecisionStep]_<<vars, tradeVars>>
    <2> SUFFICES ASSUME NEW strategy \in Strategies, Alone(strategy)
                 PROVE  position'[strategy] \in
                           Permitted(strategy, position[strategy], decision[strategy])
        BY DEF LoneDecisionStep
    <2>1. CASE position'[strategy] = position[strategy]
        BY <2>1, StaysPermitted
    <2>2. CASE position'[strategy] # position[strategy]
        <3>1. PICK instrument \in Instruments :
                 /\ position' = Filled /\ Dispatched(instrument)
                 /\ \A other \in Strategies \ Subscribers(instrument) :
                       Filled[other] = position[other]
            BY <1>1, <2>2, Fills
        <3>2. strategy \in Subscribers(instrument)
            BY <2>2, <3>1
        <3> QED
            BY <3>1, <3>2 DEF Dispatched, AtWork
    <2> QED
        BY <2>1, <2>2
<1> QED
    BY <1>1, TradingInvariant, PTL DEF TradingSpec, LoneDecisionsKept

=============================================================================
