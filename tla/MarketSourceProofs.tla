-------------------------- MODULE MarketSourceProofs --------------------------
(***************************************************************************)
(* Theorems about MarketSource, for any timeframes, instruments, widths,   *)
(* grace and retry interval: each closed bar is yielded once at most,      *)
(* every bar due at a tick is yielded before it, and the tracker counts as *)
(* received what is yielded or about to be.                                *)
(*                                                                         *)
(* None of the three is inductive: socket and recovery exclude each other  *)
(* through the last closed start of a stream and the received bars         *)
(* (YieldInv), and "before the tick" holds lane by lane because a lane     *)
(* with a bar that is expected and not received is not healthy             *)
(* (TrackerInv, TickInv).                                                  *)
(***************************************************************************)
EXTENDS MarketSource, FiniteSetTheorems, TLAPS

-----------------------------------------------------------------------------
\* THE INDUCTIVE INVARIANT

SourceTyped ==
    /\ now \in Times
    /\ product \in Products
    /\ lastClosed \in [Streams -> Times \cup {Absent}]
    /\ next \in [Lanes -> Nat]
    /\ expected \subseteq Bars /\ received \subseteq Bars /\ missing \subseteq Bars
    /\ pc \in {"listening", "lanes", "yielding", "dead"}
    /\ tick \in Ticks \cup {Absent}
    /\ lanes \in Seq(Lanes)
    /\ queue \in Seq(Bars)
    /\ yields \in [Bars -> Nat]

\* Where the source is: the tick it recovers for and the lane it is in.
PlaceInv ==
    /\ pc \in {"lanes", "yielding"} => tick \in Ticks
    /\ pc = "yielding" => lanes # <<>>
    /\ pc # "yielding" => queue = <<>>

\* Each bar once: a recovered bar waits once, unyielded, and a bar that was
\* yielded is at most as new as the last closed one of its stream, so that the
\* socket drops what REST had and REST skips what the socket had.
YieldInv ==
    /\ \A i, j \in DOMAIN queue : queue[i] = queue[j] => i = j
    /\ \A bar \in Bars :
           /\ yields[bar] <= 1
           /\ bar \in received <=> yields[bar] > 0 \/ Queued(bar)
           /\ Queued(bar) => yields[bar] = 0
           /\ yields[bar] > 0 => /\ lastClosed[StreamOf(bar)] # Absent
                                 /\ bar.start <= lastClosed[StreamOf(bar)]

\* No bar is forgotten: what is past the next one of its lane is expected, and
\* what is expected is received or missing.
TrackerInv ==
    /\ \A bar \in Bars : bar.start < next[bar.lane] => bar \in expected
    /\ expected \subseteq received \cup missing

DueAt(bar, time) == ClosesAt(bar) + Grace <= time

InLanes(lane) == \E i \in 1..Len(lanes) : lanes[i] = lane

\* Before a tick: the bars due at it are yielded, but for those of the lanes
\* that are still to be asked, and those of the lane in hand are registered.
TickInv ==
    pc \in {"lanes", "yielding"} =>
        \A bar \in Bars : DueAt(bar, tick.time) =>
            /\ yields[bar] = 1 \/ InLanes(bar.lane)
            /\ pc = "yielding" /\ bar.lane = Head(lanes) => bar.start < next[bar.lane]

SourceInv ==
    /\ SourceTyped
    /\ PlaceInv
    /\ YieldInv
    /\ TrackerInv
    /\ TickInv
    /\ DueBarsFirst

-----------------------------------------------------------------------------
\* THE ORDER OF RECOVERED BARS

\* A set that contains {} and, with each subset, this subset and one more
\* element of S contains S, when S is finite.
LEMMA FiniteSetInduction ==
    ASSUME NEW S, IsFiniteSet(S), NEW F, {} \in F,
           \A T \in SUBSET S, x \in S : T \in F => T \cup {x} \in F
    PROVE  S \in F
<1> SUFFICES ASSUME S \notin F PROVE FALSE
    OBVIOUS
<1> DEFINE Bad == {T \in SUBSET S : T \notin F}
<1>1. IsWellFoundedOn(StrictSubsetOrdering(S), FiniteSubsetsOf(S))
    BY FS_StrictSubsetOrderingWellFounded
<1>2. FiniteSubsetsOf(S) = SUBSET S
    BY FS_FiniteSubsetsOfFinite
<1>3. PICK T \in Bad : \A U \in Bad : <<U, T>> \notin StrictSubsetOrdering(S)
    <2>1. S \in Bad
        OBVIOUS
    <2>2. Bad \subseteq FiniteSubsetsOf(S) /\ Bad # {}
        BY <2>1, <1>2
    <2> HIDE DEF Bad
    <2> QED
        BY <2>2, <1>1, WFMin
<1>4. T # {}
    OBVIOUS
<1>5. PICK x \in T : TRUE
    BY <1>4
<1>6. T \ {x} \in F
    <2>1. <<T \ {x}, T>> \in StrictSubsetOrdering(S)
        BY DEF StrictSubsetOrdering
    <2> QED
        BY <2>1, <1>3
<1>7. (T \ {x}) \cup {x} = T
    OBVIOUS
<1> QED
    BY <1>6, <1>7

\* Intervals are finite and have as many elements as they say.
LEMMA IntervalIsFinite == \A n \in Nat : IsFiniteSet(1..n) /\ Cardinality(1..n) = n
<1> TAKE n \in Nat
<1> QED
    BY FS_Interval

\* A finite set of numbers has a greatest one.
LEMMA GreatestElement ==
    ASSUME NEW S \in SUBSET Nat, IsFiniteSet(S), S # {}
    PROVE  \E x \in S : \A y \in S : y <= x
<1> DEFINE F == {T \in SUBSET S : T # {} => \E x \in T : \A y \in T : y <= x}
<1>1. {} \in F
    OBVIOUS
<1>2. ASSUME NEW T \in SUBSET S, NEW x \in S, T \in F
      PROVE  T \cup {x} \in F
    <2>1. CASE T = {}
        <3>1. \A y \in T \cup {x} : y <= x
            BY <2>1
        <3> QED
            BY <3>1
    <2>2. CASE T # {}
        <3>1. PICK z \in T : \A y \in T : y <= z
            BY <1>2, <2>2
        <3>2. CASE z <= x
            <4>1. \A y \in T \cup {x} : y <= x
                BY <3>1, <3>2
            <4> QED
                BY <4>1
        <3>3. CASE ~(z <= x)
            <4>1. \A y \in T \cup {x} : y <= z
                BY <3>1, <3>3
            <4> QED
                BY <4>1
        <3> QED
            BY <3>2, <3>3
    <2> QED
        BY <2>1, <2>2
<1> HIDE DEF F
<1>3. S \in F
    BY <1>1, <1>2, FiniteSetInduction
<1> QED
    BY <1>3 DEF F

\* LaneOrder is a strict order, total on the bars of one lane.
LEMMA BarOrder ==
    ASSUME NEW a \in Bars, NEW b \in Bars, NEW c \in Bars
    PROVE  /\ ~LaneOrder(a, a)
           /\ LaneOrder(a, b) /\ LaneOrder(b, c) => LaneOrder(a, c)
           /\ a.lane = b.lane => a = b \/ LaneOrder(a, b) \/ LaneOrder(b, a)
<1>1. \A bar \in {a, b, c} : /\ bar \in [symbol : Symbols, lane : Lanes, start : Times]
                             /\ bar.start \in Nat /\ SymbolRank[bar.symbol] \in Nat
    BY SourceAssumption DEF Bars, Times
<1>2. a.symbol \in Symbols /\ b.symbol \in Symbols
    BY <1>1
<1>3. SymbolRank[a.symbol] = SymbolRank[b.symbol] => a.symbol = b.symbol
    BY <1>2, SourceAssumption
<1>4. a.symbol = b.symbol /\ a.start = b.start /\ a.lane = b.lane => a = b
    BY <1>1
<1> QED
    BY <1>1, <1>3, <1>4 DEF LaneOrder

\* The bars of a lane are finitely many within the bound of the clock.
LEMMA BarsOfALane ==
    ASSUME NEW lane \in Lanes, NEW T \in SUBSET {bar \in Bars : bar.lane = lane}
    PROVE  IsFiniteSet(T)
<1>1. IsFiniteSet(Symbols) /\ IsFiniteSet(Times)
    <2>1. MaxTime \in Nat
        BY SourceAssumption
    <2> QED
        BY <2>1, SourceAssumption, FS_Interval DEF Times
<1>2. IsFiniteSet(Symbols \X Times)
    BY <1>1, FS_Product
<1> DEFINE f == [bar \in T |-> <<bar.symbol, bar.start>>]
<1>3. f \in Injection(T, Symbols \X Times)
    <2>1. f \in [T -> Symbols \X Times]
        BY DEF Bars
    <2>2. ASSUME NEW a \in T, NEW b \in T, f[a] = f[b]
          PROVE  a = b
        <3>1. a.symbol = b.symbol /\ a.start = b.start /\ a.lane = b.lane
            BY <2>2
        <3>2. a \in [symbol : Symbols, lane : Lanes, start : Times]
              /\ b \in [symbol : Symbols, lane : Lanes, start : Times]
            BY DEF Bars
        <3> QED
            BY <3>1, <3>2
    <2> QED
        BY <2>1, <2>2 DEF Injection, IsInjective
<1> HIDE DEF f
<1> QED
    BY <1>2, <1>3, FS_Injection

LaneBars(lane) == {bar \in Bars : bar.lane = lane}

Sorted(seq) == \A i, j \in DOMAIN seq : i < j => LaneOrder(seq[i], seq[j])

\* A sorted sequence takes one more bar at its place.
LEMMA SortedInsert ==
    ASSUME NEW lane \in Lanes, NEW T \in SUBSET LaneBars(lane),
           NEW x \in LaneBars(lane), x \notin T,
           NEW n \in Nat, NEW seq \in [1..n -> T], Sorted(seq)
    PROVE  \E new \in [1..(n + 1) -> T \cup {x}] : Sorted(new)
<1> DEFINE Before == {i \in 1..n : LaneOrder(seq[i], x)}
<1>1. IsFiniteSet(Before)
    BY IntervalIsFinite, FS_Subset
<1>2. \E k \in 0..n : /\ \A i \in 1..n : i <= k => LaneOrder(seq[i], x)
                      /\ \A i \in 1..n : i > k => ~LaneOrder(seq[i], x)
    <2>1. CASE Before = {}
        BY <2>1
    <2>2. CASE Before # {}
        <3>1. Before \in SUBSET Nat
            OBVIOUS
        <3> HIDE DEF Before
        <3>2. PICK k \in Before : \A i \in Before : i <= k
            BY <1>1, <2>2, <3>1, GreatestElement
        <3> USE DEF Before
        <3>3. ASSUME NEW i \in 1..n, i <= k
              PROVE  LaneOrder(seq[i], x)
            <4>1. CASE i = k
                BY <4>1
            <4>2. CASE i # k
                <5>1. LaneOrder(seq[i], seq[k]) /\ LaneOrder(seq[k], x)
                    BY <3>3, <4>2 DEF Sorted
                <5>2. seq[i] \in Bars /\ seq[k] \in Bars /\ x \in Bars
                    BY DEF LaneBars
                <5> QED
                    BY <5>1, <5>2, BarOrder
            <4> QED
                BY <4>1, <4>2
        <3>4. ASSUME NEW i \in 1..n, i > k
              PROVE  ~LaneOrder(seq[i], x)
            BY <3>2, <3>4
        <3> QED
            BY <3>3, <3>4
    <2> QED
        BY <2>1, <2>2
<1>3. PICK k \in 0..n : /\ \A i \in 1..n : i <= k => LaneOrder(seq[i], x)
                        /\ \A i \in 1..n : i > k => ~LaneOrder(seq[i], x)
    BY <1>2
<1>4. \A i \in 1..n : i > k => LaneOrder(x, seq[i])
    <2>1. \A i \in 1..n : seq[i] \in Bars /\ seq[i].lane = lane /\ seq[i] # x
        BY DEF LaneBars
    <2>2. x \in Bars /\ x.lane = lane
        BY DEF LaneBars
    <2> QED
        BY <1>3, <2>1, <2>2, BarOrder
<1> DEFINE new == [i \in 1..(n + 1) |-> IF i <= k THEN seq[i]
                                        ELSE IF i = k + 1 THEN x ELSE seq[i - 1]]
<1>5. new \in [1..(n + 1) -> T \cup {x}]
    <2>1. ASSUME NEW i \in 1..(n + 1)
          PROVE  new[i] \in T \cup {x}
        <3>1. CASE i <= k
            <4>1. i \in 1..n
                BY <3>1
            <4> QED
                BY <3>1, <4>1
        <3>2. CASE i = k + 1
            BY <3>2
        <3>3. CASE i > k + 1
            <4>1. i - 1 \in 1..n
                BY <3>3
            <4> QED
                BY <3>3, <4>1
        <3> QED
            BY <3>1, <3>2, <3>3
    <2> QED
        BY <2>1
<1>6. ASSUME NEW i \in 1..(n + 1), NEW j \in 1..(n + 1), i < j
      PROVE  LaneOrder(new[i], new[j])
    <2>1. CASE j <= k
        <3>1. i \in 1..n /\ j \in 1..n /\ new[i] = seq[i] /\ new[j] = seq[j]
            BY <1>6, <2>1
        <3> QED
            BY <1>6, <3>1 DEF Sorted
    <2>2. CASE j = k + 1
        <3>1. i \in 1..n /\ i <= k /\ new[i] = seq[i] /\ new[j] = x
            BY <1>6, <2>2
        <3> QED
            BY <1>3, <3>1
    <2>3. CASE j > k + 1
        <3>1. j - 1 \in 1..n /\ new[j] = seq[j - 1] /\ j - 1 > k
            BY <2>3
        <3>2. CASE i <= k
            <4>1. i \in 1..n /\ new[i] = seq[i] /\ i < j - 1
                BY <2>3, <3>2
            <4> QED
                BY <3>1, <4>1 DEF Sorted
        <3>3. CASE i = k + 1
            <4>1. new[i] = x
                BY <3>3
            <4> QED
                BY <1>4, <3>1, <4>1
        <3>4. CASE i > k + 1
            <4>1. i - 1 \in 1..n /\ new[i] = seq[i - 1] /\ i - 1 < j - 1
                BY <1>6, <3>4
            <4> QED
                BY <3>1, <4>1 DEF Sorted
        <3> QED
            BY <3>2, <3>3, <3>4
    <2> QED
        BY <2>1, <2>2, <2>3
<1> HIDE DEF new
<1>7. Sorted(new)
    BY <1>5, <1>6 DEF Sorted
<1> QED
    BY <1>5, <1>7

\* Bars of a lane can be sorted, each of them once.
LEMMA Sortable ==
    ASSUME NEW lane \in Lanes, NEW S \in SUBSET LaneBars(lane)
    PROVE  \E seq \in [1..Cardinality(S) -> S] : Sorted(seq)
<1> DEFINE F == {T \in SUBSET S : \E seq \in [1..Cardinality(T) -> T] : Sorted(seq)}
<1>1. \A T \in SUBSET S : IsFiniteSet(T) /\ Cardinality(T) \in Nat
    BY BarsOfALane, FS_CardinalityType DEF LaneBars
<1>2. {} \in F
    <2> DEFINE none == [i \in 1..0 |-> CHOOSE x \in {} : TRUE]
    <2>1. none \in [1..0 -> {}] /\ Sorted(none)
        BY DEF Sorted
    <2>2. Cardinality({}) = 0
        BY FS_EmptySet
    <2> HIDE DEF none
    <2> QED
        BY <2>1, <2>2
<1>3. ASSUME NEW T \in SUBSET S, NEW x \in S, T \in F
      PROVE  T \cup {x} \in F
    <2>1. CASE x \in T
        <3>1. T \cup {x} = T
            BY <2>1
        <3> QED
            BY <1>3, <3>1
    <2>2. CASE x \notin T
        <3>1. PICK seq \in [1..Cardinality(T) -> T] : Sorted(seq)
            BY <1>3
        <3>2. Cardinality(T \cup {x}) = Cardinality(T) + 1
            BY <1>1, <2>2, FS_AddElement
        <3>3. \E new \in [1..(Cardinality(T) + 1) -> T \cup {x}] : Sorted(new)
            BY <1>1, <2>2, <3>1, SortedInsert
        <3> QED
            BY <3>2, <3>3
    <2> QED
        BY <2>1, <2>2
<1> HIDE DEF F
<1>4. S \in F
    BY <1>1, <1>2, <1>3, FiniteSetInduction
<1> QED
    BY <1>4 DEF F

\* recover_due hands over each recovered bar once.
LEMMA RecoveredOnce ==
    ASSUME NEW lane \in Lanes, NEW S \in SUBSET LaneBars(lane)
    PROVE  /\ InOrder(S) \in Seq(Bars)
           /\ \A i, j \in DOMAIN InOrder(S) : InOrder(S)[i] = InOrder(S)[j] => i = j
           /\ \A bar : bar \in S <=> \E i \in 1..Len(InOrder(S)) : InOrder(S)[i] = bar
<1> DEFINE n == Cardinality(S)
           seq == InOrder(S)
<1>1. IsFiniteSet(S) /\ n \in Nat
    BY BarsOfALane, FS_CardinalityType DEF LaneBars
<1>2. seq \in [1..n -> S] /\ Sorted(seq)
    <2>1. \E q \in [1..n -> S] : \A i, j \in DOMAIN q : i < j => LaneOrder(q[i], q[j])
        BY Sortable DEF Sorted
    <2> QED
        BY <2>1 DEF InOrder, Sorted
<1> HIDE DEF n, seq
<1>3. S \subseteq Bars
    BY DEF LaneBars
<1>4. ASSUME NEW i \in 1..n, NEW j \in 1..n, seq[i] = seq[j]
      PROVE  i = j
    <2>1. ~LaneOrder(seq[i], seq[j]) /\ ~LaneOrder(seq[j], seq[i])
        BY <1>2, <1>3, <1>4, BarOrder
    <2> QED
        BY <1>1, <1>2, <2>1 DEF Sorted
<1>5. seq \in Seq(Bars) /\ Len(seq) = n /\ DOMAIN seq = 1..n
    BY <1>1, <1>2, <1>3
<1>6. ASSUME NEW bar \in S
      PROVE  \E i \in 1..n : seq[i] = bar
    <2> DEFINE image == {seq[i] : i \in 1..n}
    <2>1. image \subseteq S
        BY <1>2
    <2>2. seq \in Bijection(1..n, image)
        BY <1>2, <1>4 DEF Bijection, Injection, Surjection, IsInjective
    <2> HIDE DEF image
    <2>3. IsFiniteSet(1..n) /\ Cardinality(1..n) = n
        BY <1>1, IntervalIsFinite
    <2>4. Cardinality(image) = n
        <3>1. ExistsBijection(1..n, image)
            BY <2>2 DEF ExistsBijection
        <3> QED
            BY <2>3, <3>1, FS_Bijection
    <2>5. image = S
        BY <1>1, <2>1, <2>4, FS_Subset DEF n
    <2> QED
        BY <2>5 DEF image
<1> QED
    BY <1>2, <1>4, <1>5, <1>6 DEF seq

-----------------------------------------------------------------------------
\* WHAT IS DUE

\* What rounding down to a multiple leaves.
LEMMA Division ==
    ASSUME NEW a \in Nat, NEW w \in Nat \ {0}
    PROVE  /\ a \div w \in Nat
           /\ (a \div w) * w \in Nat
           /\ (a \div w) * w <= a
           /\ a < (a \div w) * w + w
    OBVIOUS

\* A multiple that is a whole width below a number is below the last one.
LEMMA MultipleBelow ==
    ASSUME NEW a \in Nat, NEW b \in Nat, NEW w \in Nat \ {0}, a % w = 0, a + w <= b
    PROVE  a < (b \div w) * w
<1>1. a = (a \div w) * w /\ a \div w \in Nat /\ b \div w \in Nat
    OBVIOUS
<1>2. b < (b \div w) * w + w
    BY Division
<1>3. (a \div w) * w < (b \div w) * w
    BY <1>1, <1>2
<1> QED
    BY <1>1, <1>3

\* _register_due passes exactly the bars that have closed, grace included, and
\* never goes back.
LEMMA DueIsPassed ==
    ASSUME SourceTyped, NEW lane \in Lanes, NEW time \in Times
    PROVE  /\ DueFrom(lane, time) \in Nat
           /\ next[lane] <= DueFrom(lane, time)
           /\ \A bar \in LaneBars(lane) : DueAt(bar, time) => bar.start < DueFrom(lane, time)
<1>1. /\ next[lane] \in Nat /\ Width[lane] \in Nat \ {0} /\ Grace \in Nat /\ time \in Nat
    BY SourceAssumption DEF SourceTyped, Grace, Times
<1>2. CASE time < next[lane] + Width[lane] + Grace
    <2>1. DueFrom(lane, time) = next[lane]
        BY <1>2 DEF DueFrom
    <2>2. ASSUME NEW bar \in LaneBars(lane), DueAt(bar, time)
          PROVE  bar.start < next[lane]
        <3>1. bar.start \in Nat /\ bar.lane = lane
            BY SourceAssumption DEF LaneBars, Bars, Times
        <3> QED
            BY <1>1, <1>2, <2>2, <3>1 DEF DueAt, ClosesAt
    <2> QED
        BY <1>1, <2>1, <2>2
<1>3. CASE ~(time < next[lane] + Width[lane] + Grace)
    <2> DEFINE seen == time - Grace
    <2>1. seen \in Nat /\ seen >= next[lane] + Width[lane]
        BY <1>1, <1>3
    <2>2. DueFrom(lane, time) = (seen \div Width[lane]) * Width[lane]
        BY <1>3 DEF DueFrom, OpenAt
    <2> HIDE DEF seen
    <2>3. /\ (seen \div Width[lane]) * Width[lane] \in Nat
          /\ seen < (seen \div Width[lane]) * Width[lane] + Width[lane]
        BY <1>1, <2>1, Division
    <2>4. next[lane] <= DueFrom(lane, time)
        BY <1>1, <2>1, <2>2, <2>3
    <2>5. ASSUME NEW bar \in LaneBars(lane), DueAt(bar, time)
          PROVE  bar.start < DueFrom(lane, time)
        <3>1. bar.start \in Nat /\ bar.lane = lane /\ bar.start % Width[lane] = 0
            BY SourceAssumption DEF LaneBars, Bars, Times
        <3>2. bar.start + Width[lane] <= seen
            BY <1>1, <2>5, <3>1 DEF DueAt, ClosesAt, seen
        <3> QED
            BY <1>1, <2>1, <2>2, <3>1, <3>2, MultipleBelow
    <2> QED
        BY <2>2, <2>3, <2>4, <2>5
<1> QED
    BY <1>2, <1>3

-----------------------------------------------------------------------------
\* THE INVARIANT

\* The invariant holds at first.
LEMMA SourceInitInv == SourceInit => SourceInv
<1> SUFFICES ASSUME SourceInit PROVE SourceInv
    OBVIOUS
<1> USE DEF SourceInit
<1>1. SourceTyped
    <2>1. 0 \in Times
        BY SourceAssumption DEF Times
    <2>2. queue \in Seq(Bars) /\ lanes \in Seq(Lanes)
        OBVIOUS
    <2> QED
        BY <2>1, <2>2 DEF SourceTyped
<1>2. PlaceInv /\ TickInv
    BY DEF PlaceInv, TickInv
<1>3. YieldInv
    BY DEF YieldInv, Queued
<1>4. TrackerInv
    BY SourceAssumption DEF TrackerInv, Bars, Times
<1>5. DueBarsFirst
    <2> SUFFICES ASSUME NEW bar \in Bars PROVE ~(ClosesAt(bar) + Grace <= ticked)
        BY DEF DueBarsFirst
    <2>1. bar.start \in Nat /\ Width[bar.lane] \in Nat \ {0} /\ Grace \in Nat
        BY SourceAssumption DEF Bars, Times, Grace
    <2> QED
        BY <2>1 DEF ClosesAt
<1> QED
    BY <1>1, <1>2, <1>3, <1>4, <1>5 DEF SourceInv

\* A bar is known by its stream and its start.
LEMMA BarFacts ==
    ASSUME NEW bar \in Bars
    PROVE  /\ bar.start \in Times /\ bar.start \in Nat
           /\ bar.lane \in Lanes
           /\ StreamOf(bar) \in Streams
           /\ \A other \in Bars : StreamOf(other) = StreamOf(bar) /\ other.start = bar.start
                                      => other = bar
<1>1. \A b \in Bars : b \in [symbol : Symbols, lane : Lanes, start : Times]
    BY DEF Bars
<1>2. bar.start \in Times /\ bar.start \in Nat /\ bar.lane \in Lanes /\ StreamOf(bar) \in Streams
    BY <1>1, SourceAssumption DEF Times, StreamOf, Streams
<1>3. ASSUME NEW other \in Bars, StreamOf(other) = StreamOf(bar), other.start = bar.start
      PROVE  other = bar
    <2>1. other.symbol = bar.symbol /\ other.lane = bar.lane
        BY <1>3 DEF StreamOf
    <2> QED
        BY <1>1, <1>3, <2>1
<1> QED
    BY <1>2, <1>3

\* Time, disconnections and reconnections keep the invariant.
LEMMA QuietStep ==
    ASSUME SourceInv, TimePasses \/ Disconnect \/ Reconnect \/ UNCHANGED sourceVars
    PROVE  SourceInv'
<1>1. UNCHANGED <<product, lastClosed, next, expected, received, missing, pc, tick, lanes,
                  queue, yields, ticked>>
    BY DEF TimePasses, Disconnect, Reconnect, sourceVars, tracker
<1>2. now' \in Times
    BY SourceAssumption DEF TimePasses, Disconnect, Reconnect, sourceVars, SourceInv,
       SourceTyped, Times
<1>3. SourceTyped' /\ PlaceInv'
    BY <1>1, <1>2 DEF SourceInv, SourceTyped, PlaceInv
<1>4. YieldInv' /\ TrackerInv'
    BY <1>1 DEF SourceInv, YieldInv, TrackerInv, Queued
<1>5. TickInv' /\ DueBarsFirst'
    BY <1>1 DEF SourceInv, TickInv, DueBarsFirst, DueAt, Grace, InLanes
<1> QED
    BY <1>3, <1>4, <1>5 DEF SourceInv

\* The socket yields a bar only if it is newer than every bar of its stream that
\* was yielded: none of them is this one, and so is none that was recovered.
LEMMA KlineStep ==
    ASSUME SourceInv, NEW stream \in Streams, ReceiveKline(stream)
    PROVE  SourceInv'
<1> DEFINE start == pushed[stream]
           bar == BarOf(stream, start)
<1>1. /\ pc = "listening" /\ queue = <<>>
      /\ UNCHANGED <<product, now, next, expected, pc, tick, lanes, queue, ticked>>
    BY DEF ReceiveKline, SourceInv, PlaceInv
<1>2. bar \in Bars /\ bar.start = start /\ StreamOf(bar) = stream
    BY DEF ReceiveKline, BarOf, StreamOf, Streams
<1>3. SourceTyped /\ YieldInv /\ TrackerInv /\ DueBarsFirst
    BY DEF SourceInv
<1>4. Absent \notin Times
    BY SourceAssumption
<1>5. CASE ~Newer(stream, start)
    <2>1. UNCHANGED <<lastClosed, received, missing, yields>>
        BY <1>5 DEF ReceiveKline
    <2> QED
        BY <1>1, <2>1 DEF SourceInv, SourceTyped, PlaceInv, YieldInv, TrackerInv, TickInv,
           DueBarsFirst, Queued, DueAt, Grace, InLanes
<1>6. CASE Newer(stream, start)
    <2>1. /\ lastClosed' = [lastClosed EXCEPT ![stream] = start]
          /\ received' = received \cup {bar}
          /\ missing' = missing \ {bar}
          /\ yields' = [yields EXCEPT ![bar] = @ + 1]
        BY <1>6 DEF ReceiveKline
    <2>2. start \in Times /\ start \in Nat
        BY <1>2, BarFacts
    <2> HIDE DEF bar, start
    <2>3. \A b \in Bars : b.start \in Times /\ b.start \in Nat /\ StreamOf(b) \in Streams
        BY BarFacts
    <2>4. ASSUME NEW b \in Bars, yields[b] > 0, StreamOf(b) = stream
          PROVE  b.start < start
        <3>1. lastClosed[stream] # Absent /\ b.start <= lastClosed[stream]
            BY <1>3, <2>4 DEF YieldInv
        <3>2. lastClosed[stream] \in Nat /\ start > lastClosed[stream]
            BY <1>3, <1>6, <3>1, SourceAssumption DEF SourceTyped, Times, Newer
        <3> QED
            BY <2>2, <2>3, <3>1, <3>2
    <2>5. yields[bar] = 0
        <3>1. ~(yields[bar] > 0)
            BY <1>2, <2>2, <2>4
        <3> QED
            BY <1>2, <1>3, <3>1 DEF SourceTyped
    <2>6. \A b : ~Queued(b)
        BY <1>1 DEF Queued
    <2>7. SourceTyped'
        <3>1. /\ lastClosed' \in [Streams -> Times \cup {Absent}]
              /\ received' \subseteq Bars /\ missing' \subseteq Bars
              /\ yields' \in [Bars -> Nat]
            BY <1>2, <1>3, <2>1, <2>2 DEF SourceTyped
        <3> QED
            BY <1>1, <1>3, <3>1 DEF SourceTyped
    <2>8. PlaceInv' /\ TickInv'
        BY <1>1 DEF SourceInv, PlaceInv, TickInv
    <2>9. ASSUME NEW b \in Bars
          PROVE  /\ yields'[b] <= 1
                 /\ b \in received' <=> yields'[b] > 0
                 /\ yields'[b] > 0 => /\ lastClosed'[StreamOf(b)] # Absent
                                      /\ b.start <= lastClosed'[StreamOf(b)]
        <3>1. CASE b = bar
            <4>1. yields'[b] = 1 /\ b \in received' /\ lastClosed'[StreamOf(b)] = start
                BY <1>2, <1>3, <2>1, <2>5, <3>1 DEF SourceTyped
            <4> QED
                BY <1>2, <1>4, <2>2, <3>1, <4>1
        <3>2. CASE b # bar
            <4>1. yields'[b] = yields[b] /\ (b \in received' <=> b \in received)
                BY <1>3, <2>1, <3>2 DEF SourceTyped
            <4>2. CASE StreamOf(b) = stream
                <5>1. lastClosed'[StreamOf(b)] = start
                    BY <1>3, <2>1, <4>2 DEF SourceTyped
                <5>2. yields'[b] > 0 => b.start < start
                    BY <2>4, <4>1, <4>2
                <5> QED
                    BY <1>3, <1>4, <2>2, <2>3, <2>6, <4>1, <5>1, <5>2 DEF YieldInv
            <4>3. CASE StreamOf(b) # stream
                <5>1. lastClosed'[StreamOf(b)] = lastClosed[StreamOf(b)]
                    BY <1>3, <2>1, <2>3, <4>3 DEF SourceTyped
                <5> QED
                    BY <1>3, <2>6, <4>1, <5>1 DEF YieldInv
            <4> QED
                BY <4>2, <4>3
        <3> QED
            BY <3>1, <3>2
    <2>10. YieldInv'
        <3>1. \A b : ~Queued(b)'
            BY <1>1 DEF Queued
        <3>2. \A i, j \in DOMAIN queue' : queue'[i] = queue'[j] => i = j
            BY <1>1
        <3> QED
            BY <2>9, <3>1, <3>2 DEF YieldInv
    <2>11. TrackerInv'
        BY <1>1, <1>3, <2>1 DEF TrackerInv
    <2>12. DueBarsFirst'
        <3> SUFFICES ASSUME NEW b \in Bars, (ClosesAt(b) + Grace <= ticked)'
                     PROVE  yields'[b] = 1
            BY DEF DueBarsFirst
        <3>1. yields[b] = 1
            BY <1>1, <1>3 DEF DueBarsFirst, ClosesAt, Grace
        <3>2. b # bar
            BY <2>5, <3>1
        <3> QED
            BY <1>3, <2>1, <3>1, <3>2 DEF SourceTyped
    <2> QED
        BY <2>7, <2>8, <2>10, <2>11, <2>12 DEF SourceInv
<1> QED
    BY <1>5, <1>6

\* A book ticker, which starts a recovery, keeps the invariant.
LEMMA TickStep ==
    ASSUME SourceInv, NEW symbol \in Symbols, NEW update \in 1..MaxUpdates,
           ReceiveTick(symbol, update)
    PROVE  SourceInv'
<1>1. /\ tick' = [symbol |-> symbol, update |-> update, time |-> now]
      /\ lanes' = Timeframes
      /\ pc' = "lanes" /\ pc = "listening"
      /\ UNCHANGED <<product, now, lastClosed, next, expected, received, missing, queue,
                     yields, ticked>>
    BY DEF ReceiveTick, tracker
<1>2. tick' \in Ticks
    BY <1>1 DEF SourceInv, SourceTyped, Ticks
<1>3. SourceTyped'
    BY <1>1, <1>2, SourceAssumption DEF SourceInv, SourceTyped
<1>4. PlaceInv'
    BY <1>1, <1>2 DEF SourceInv, PlaceInv
<1>5. YieldInv' /\ TrackerInv' /\ DueBarsFirst'
    BY <1>1 DEF SourceInv, YieldInv, TrackerInv, DueBarsFirst, Queued, Grace
<1>6. TickInv'
    <2>1. \A lane \in Lanes : \E i \in 1..Len(Timeframes) : Timeframes[i] = lane
        BY SourceAssumption DEF Lanes
    <2>2. \A bar \in Bars : bar.lane \in Lanes
        BY BarFacts
    <2> QED
        BY <1>1, <2>1, <2>2 DEF TickInv, InLanes
<1> QED
    BY <1>3, <1>4, <1>5, <1>6 DEF SourceInv

\* REST never brings what was yielded: it is asked for expected bars that were
\* not received.
LEMMA RecoverStep ==
    ASSUME SourceInv, RecoverDue
    PROVE  SourceInv'
<1> DEFINE lane == Head(lanes)
           due == Candidates(lane, tick.time)
           new == Registered(lane, tick.time)
<1>1. /\ pc = "lanes" /\ lanes # <<>> /\ pc' = "yielding"
      /\ UNCHANGED <<product, now, lastClosed, tick, lanes, yields, ticked>>
    BY DEF RecoverDue
<1>2. PICK recovered \in SUBSET due :
          /\ next' = [next EXCEPT ![lane] = DueFrom(lane, tick.time)]
          /\ expected' = expected \cup new
          /\ received' = received \cup recovered
          /\ missing' = (missing \cup (new \ received) \cup due) \ recovered
          /\ queue' = InOrder(recovered)
    BY DEF RecoverDue
<1>3. SourceTyped /\ YieldInv /\ TrackerInv /\ DueBarsFirst /\ queue = <<>> /\ tick \in Ticks
    BY <1>1 DEF SourceInv, PlaceInv
<1>4. lane \in Lanes
    BY <1>1, <1>3 DEF SourceTyped
<1>5. tick.time \in Times
    BY <1>3 DEF Ticks
<1>6. due \subseteq LaneBars(lane) /\ new \subseteq LaneBars(lane) /\ due \cap received = {}
      /\ due \subseteq expected \cup new /\ LaneBars(lane) \subseteq Bars
    BY <1>3 DEF Candidates, Registered, LaneBars, SourceTyped
<1>7. /\ DueFrom(lane, tick.time) \in Nat
      /\ \A bar \in LaneBars(lane) : DueAt(bar, tick.time) => bar.start < DueFrom(lane, tick.time)
    BY <1>3, <1>4, <1>5, DueIsPassed
<1>8. /\ queue' \in Seq(Bars)
      /\ \A i, j \in DOMAIN queue' : queue'[i] = queue'[j] => i = j
      /\ \A bar : Queued(bar)' <=> bar \in recovered
    BY <1>2, <1>4, <1>6, RecoveredOnce DEF Queued
<1>9. \A bar \in Bars : bar \in new <=> /\ bar.lane = lane /\ next[lane] <= bar.start
                                        /\ bar.start < DueFrom(lane, tick.time)
    BY DEF Registered
<1> HIDE DEF lane, due, new
<1>10. SourceTyped'
    BY <1>1, <1>2, <1>3, <1>4, <1>6, <1>7, <1>8 DEF SourceTyped
<1>11. PlaceInv'
    BY <1>1, <1>3 DEF PlaceInv
<1>12. YieldInv'
    <2>1. \A bar : ~Queued(bar)
        BY <1>3 DEF Queued
    <2>2. \A bar \in recovered : yields[bar] = 0
        <3>1. \A bar \in recovered : bar \in Bars /\ bar \notin received
            BY <1>6
        <3> QED
            BY <1>3, <3>1 DEF YieldInv, SourceTyped
    <2> QED
        BY <1>1, <1>2, <1>3, <1>6, <1>8, <2>1, <2>2 DEF YieldInv
<1>13. TrackerInv'
    <2>1. ASSUME NEW bar \in Bars, bar.start < next'[bar.lane]
          PROVE  bar \in expected'
        <3>1. bar.lane \in Lanes /\ bar.start \in Nat
            BY BarFacts
        <3>2. CASE bar.lane = lane
            <4>1. next'[lane] = DueFrom(lane, tick.time) /\ next[lane] \in Nat
                BY <1>2, <1>3, <1>4 DEF SourceTyped
            <4>2. bar.start < next[lane] \/ bar \in new
                BY <1>9, <2>1, <3>1, <3>2, <4>1
            <4> QED
                BY <1>2, <1>3, <3>2, <4>2 DEF TrackerInv
        <3>3. CASE bar.lane # lane
            <4>1. next'[bar.lane] = next[bar.lane]
                BY <1>2, <1>3, <3>1, <3>3 DEF SourceTyped
            <4> QED
                BY <1>2, <1>3, <2>1, <4>1 DEF TrackerInv
        <3> QED
            BY <3>2, <3>3
    <2>2. expected' \subseteq received' \cup missing'
        BY <1>2, <1>3 DEF TrackerInv
    <2> QED
        BY <2>1, <2>2 DEF TrackerInv
<1>14. TickInv'
    <2> SUFFICES ASSUME NEW bar \in Bars, DueAt(bar, tick.time)'
                 PROVE  /\ yields'[bar] = 1 \/ InLanes(bar.lane)'
                        /\ bar.lane = Head(lanes') => bar.start < next'[bar.lane]
        BY DEF TickInv
    <2>1. DueAt(bar, tick.time)
        BY <1>1 DEF DueAt, Grace, ClosesAt
    <2>2. yields[bar] = 1 \/ InLanes(bar.lane)
        BY <1>1, <2>1 DEF SourceInv, TickInv
    <2>3. ASSUME bar.lane = lane
          PROVE  bar.start < next'[bar.lane]
        <3>1. bar \in LaneBars(lane)
            BY <2>3 DEF LaneBars
        <3>2. next'[lane] = DueFrom(lane, tick.time)
            BY <1>2, <1>3, <1>4 DEF SourceTyped
        <3> QED
            BY <1>7, <2>1, <2>3, <3>1, <3>2
    <2>4. lanes' = lanes /\ Head(lanes') = lane
        BY <1>1 DEF lane
    <2>5. InLanes(bar.lane)' = InLanes(bar.lane)
        BY <2>4 DEF InLanes
    <2> QED
        BY <1>1, <2>2, <2>3, <2>4, <2>5
<1>15. DueBarsFirst'
    BY <1>1, <1>3 DEF DueBarsFirst, Grace
<1> QED
    BY <1>10, <1>11, <1>12, <1>13, <1>14, <1>15 DEF SourceInv

\* Yielding a recovered bar keeps the invariant.
LEMMA YieldStep ==
    ASSUME SourceInv, YieldRecovered
    PROVE  SourceInv'
<1> DEFINE bar == Head(queue)
           stream == StreamOf(bar)
<1>1. /\ pc = "yielding" /\ queue # <<>> /\ queue' = Tail(queue)
      /\ UNCHANGED <<product, now, next, expected, received, missing, pc, tick, lanes, ticked>>
      /\ lastClosed' = IF Newer(stream, bar.start)
                       THEN [lastClosed EXCEPT ![stream] = bar.start] ELSE lastClosed
      /\ yields' = [yields EXCEPT ![bar] = @ + 1]
    BY DEF YieldRecovered, tracker
<1>2. SourceTyped /\ YieldInv /\ TrackerInv /\ DueBarsFirst /\ PlaceInv /\ TickInv
    BY DEF SourceInv
<1>3. queue \in Seq(Bars) /\ Len(queue) \in Nat \ {0} /\ DOMAIN queue = 1..Len(queue)
    BY <1>1, <1>2 DEF SourceTyped
<1>4. bar \in Bars /\ queue[1] = bar /\ stream \in Streams
    BY <1>1, <1>3, BarFacts
<1>5. Queued(bar) /\ yields[bar] = 0
    <2>1. Queued(bar)
        BY <1>3, <1>4 DEF Queued
    <2> QED
        BY <1>2, <1>4, <2>1 DEF YieldInv
<1>6. /\ queue' \in Seq(Bars) /\ Len(queue') = Len(queue) - 1
      /\ DOMAIN queue' = 1..(Len(queue) - 1)
      /\ \A i \in DOMAIN queue' : queue'[i] = queue[i + 1]
    BY <1>1, <1>3
<1> HIDE DEF bar, stream
<1>7. \A b : Queued(b)' <=> Queued(b) /\ b # bar
    <2> TAKE b
    <2>1. ASSUME Queued(b)'
          PROVE  Queued(b) /\ b # bar
        <3>1. PICK i \in 1..(Len(queue) - 1) : queue[i + 1] = b
            BY <1>6, <2>1 DEF Queued
        <3>2. i + 1 \in 1..Len(queue) /\ i + 1 # 1 /\ 1 \in 1..Len(queue)
            BY <1>3
        <3> QED
            BY <1>2, <1>3, <1>4, <3>1, <3>2 DEF Queued, YieldInv
    <2>2. ASSUME Queued(b), b # bar
          PROVE  Queued(b)'
        <3>1. PICK i \in 1..Len(queue) : queue[i] = b
            BY <2>2 DEF Queued
        <3>2. i # 1
            BY <1>4, <2>2, <3>1
        <3>3. i - 1 \in 1..(Len(queue) - 1) /\ (i - 1) + 1 = i
            BY <1>3, <3>2
        <3> QED
            BY <1>6, <3>1, <3>3 DEF Queued
    <2> QED
        BY <2>1, <2>2
<1>8. \A i, j \in DOMAIN queue' : queue'[i] = queue'[j] => i = j
    <2> SUFFICES ASSUME NEW i \in DOMAIN queue', NEW j \in DOMAIN queue', queue'[i] = queue'[j]
                 PROVE  i = j
        OBVIOUS
    <2>1. i + 1 \in DOMAIN queue /\ j + 1 \in DOMAIN queue /\ queue[i + 1] = queue[j + 1]
        BY <1>3, <1>6
    <2>2. i + 1 = j + 1
        BY <1>2, <2>1 DEF YieldInv
    <2> QED
        BY <1>3, <1>6, <2>2
<1>9. bar.start \in Times /\ bar.start \in Nat /\ StreamOf(bar) = stream
    BY <1>4, BarFacts DEF stream
<1>10. Absent \notin Times /\ Times \subseteq Nat
    BY SourceAssumption DEF Times
\* The last closed start of a stream never goes back.
<1>11. ASSUME NEW s \in Streams, NEW start \in Nat, lastClosed[s] # Absent,
              start <= lastClosed[s]
       PROVE  lastClosed'[s] # Absent /\ start <= lastClosed'[s]
    <2>1. lastClosed[s] \in Nat
        BY <1>2, <1>10, <1>11 DEF SourceTyped
    <2>2. CASE s = stream /\ Newer(stream, bar.start)
        <3>1. lastClosed'[s] = bar.start /\ bar.start > lastClosed[s]
            BY <1>1, <1>2, <1>11, <2>2 DEF SourceTyped, Newer
        <3> QED
            BY <1>9, <1>10, <1>11, <2>1, <3>1
    <2>3. CASE ~(s = stream /\ Newer(stream, bar.start))
        <3>1. lastClosed'[s] = lastClosed[s]
            BY <1>1, <1>2, <2>3 DEF SourceTyped
        <3> QED
            BY <1>11, <3>1
    <2> QED
        BY <2>2, <2>3
<1>12. lastClosed'[stream] # Absent /\ bar.start <= lastClosed'[stream]
    <2>1. CASE Newer(stream, bar.start)
        <3>1. lastClosed'[stream] = bar.start
            BY <1>1, <1>2, <1>4, <2>1 DEF SourceTyped
        <3> QED
            BY <1>9, <1>10, <3>1
    <2>2. CASE ~Newer(stream, bar.start)
        <3>1. lastClosed'[stream] = lastClosed[stream] /\ lastClosed[stream] # Absent
              /\ ~(bar.start > lastClosed[stream])
            BY <1>1, <2>2 DEF Newer
        <3>2. lastClosed[stream] \in Nat
            BY <1>2, <1>4, <1>10, <3>1 DEF SourceTyped
        <3> QED
            BY <1>9, <3>1, <3>2
    <2> QED
        BY <2>1, <2>2
<1>13. SourceTyped'
    <2>1. lastClosed' \in [Streams -> Times \cup {Absent}]
        <3>1. CASE Newer(stream, bar.start)
            <4>1. lastClosed' = [lastClosed EXCEPT ![stream] = bar.start]
                BY <1>1, <3>1
            <4> QED
                BY <1>2, <1>4, <1>9, <4>1 DEF SourceTyped
        <3>2. CASE ~Newer(stream, bar.start)
            BY <1>1, <1>2, <3>2 DEF SourceTyped
        <3> QED
            BY <3>1, <3>2
    <2>2. yields' \in [Bars -> Nat]
        <3>1. yields \in [Bars -> Nat] /\ yields[bar] + 1 \in Nat
            BY <1>2, <1>4 DEF SourceTyped
        <3>2. yields' = [yields EXCEPT ![bar] = yields[bar] + 1]
            BY <1>1
        <3> QED
            BY <1>4, <3>1, <3>2
    <2> QED
        BY <1>1, <1>2, <1>6, <2>1, <2>2 DEF SourceTyped
<1>14. yields'[bar] = 1 /\ \A b \in Bars \ {bar} : yields'[b] = yields[b]
    BY <1>1, <1>2, <1>4, <1>5 DEF SourceTyped
<1>15. YieldInv'
    <2>1. ASSUME NEW b \in Bars
          PROVE  /\ yields'[b] <= 1
                 /\ b \in received' <=> yields'[b] > 0 \/ Queued(b)'
                 /\ Queued(b)' => yields'[b] = 0
                 /\ yields'[b] > 0 => /\ lastClosed'[StreamOf(b)] # Absent
                                      /\ b.start <= lastClosed'[StreamOf(b)]
        <3>1. CASE b = bar
            <4>1. b \in received
                BY <1>2, <1>4, <1>5, <3>1 DEF YieldInv
            <4>2. ~Queued(b)'
                BY <1>7, <3>1
            <4> QED
                BY <1>1, <1>9, <1>12, <1>14, <3>1, <4>1, <4>2
        <3>2. CASE b # bar
            <4>1. yields'[b] = yields[b] /\ (Queued(b)' <=> Queued(b))
                BY <1>7, <1>14, <3>2
            <4>2. StreamOf(b) \in Streams /\ b.start \in Nat
                BY BarFacts
            <4>3. yields[b] > 0 => /\ lastClosed'[StreamOf(b)] # Absent
                                   /\ b.start <= lastClosed'[StreamOf(b)]
                BY <1>2, <1>11, <4>2 DEF YieldInv
            <4> QED
                BY <1>1, <1>2, <4>1, <4>3 DEF YieldInv
        <3> QED
            BY <3>1, <3>2
    <2> QED
        BY <1>8, <2>1 DEF YieldInv
<1>16. \A b \in Bars : yields[b] = 1 => yields'[b] = 1
    BY <1>5, <1>14
<1>17. TickInv'
    BY <1>1, <1>2, <1>16 DEF TickInv, DueAt, Grace, ClosesAt, InLanes
<1>18. DueBarsFirst'
    BY <1>1, <1>2, <1>16 DEF DueBarsFirst, Grace
<1>19. PlaceInv' /\ TrackerInv'
    BY <1>1, <1>2 DEF PlaceInv, TrackerInv
<1> QED
    BY <1>13, <1>15, <1>17, <1>18, <1>19 DEF SourceInv

\* A healthy lane has nothing expected and not received: its due bars are out.
LEMMA NextLaneStep ==
    ASSUME SourceInv, NextLane
    PROVE  SourceInv'
<1>1. /\ pc = "yielding" /\ pc' = "lanes" /\ queue = <<>> /\ Healthy(Head(lanes))
      /\ lanes' = Tail(lanes)
      /\ UNCHANGED <<product, now, lastClosed, next, expected, received, missing, tick, queue,
                     yields, ticked>>
    BY DEF NextLane, tracker
<1>2. SourceTyped /\ YieldInv /\ TrackerInv /\ DueBarsFirst /\ PlaceInv /\ TickInv
    BY DEF SourceInv
<1>3. lanes \in Seq(Lanes) /\ lanes # <<>> /\ tick \in Ticks
    BY <1>1, <1>2 DEF SourceTyped, PlaceInv
<1>4. /\ Tail(lanes) \in Seq(Lanes) /\ Len(lanes) \in Nat \ {0}
      /\ Len(Tail(lanes)) = Len(lanes) - 1
      /\ \A i \in 1..(Len(lanes) - 1) : Tail(lanes)[i] = lanes[i + 1]
      /\ Head(lanes) = lanes[1]
    BY <1>3
<1>5. SourceTyped' /\ PlaceInv'
    BY <1>1, <1>2, <1>3, <1>4 DEF SourceTyped, PlaceInv
<1>6. YieldInv' /\ TrackerInv' /\ DueBarsFirst'
    BY <1>1, <1>2 DEF YieldInv, TrackerInv, DueBarsFirst, Queued, Grace
<1>7. TickInv'
    <2> SUFFICES ASSUME NEW bar \in Bars, DueAt(bar, tick.time)'
                 PROVE  yields'[bar] = 1 \/ InLanes(bar.lane)'
        BY <1>1 DEF TickInv
    <2>1. DueAt(bar, tick.time)
        BY <1>1 DEF DueAt, Grace, ClosesAt
    <2>2. CASE bar.lane = Head(lanes)
        <3>1. bar \in expected /\ bar \notin missing
            BY <1>1, <1>2, <2>1, <2>2 DEF TickInv, TrackerInv, Healthy
        <3>2. bar \in received /\ ~Queued(bar)
            BY <1>1, <1>2, <3>1 DEF TrackerInv, Queued
        <3>3. yields[bar] > 0 /\ yields[bar] <= 1 /\ yields[bar] \in Nat
            BY <1>2, <3>2 DEF YieldInv, SourceTyped
        <3> QED
            BY <1>1, <3>3
    <2>3. CASE bar.lane # Head(lanes)
        <3>1. CASE yields[bar] = 1
            BY <1>1, <3>1
        <3>2. CASE yields[bar] # 1
            <4>1. PICK i \in 1..Len(lanes) : lanes[i] = bar.lane
                BY <1>1, <1>2, <2>1, <3>2 DEF TickInv, InLanes
            <4>2. i # 1
                BY <1>4, <2>3, <4>1
            <4>3. i - 1 \in 1..(Len(lanes) - 1) /\ (i - 1) + 1 = i
                BY <1>4, <4>2
            <4>4. Tail(lanes)[i - 1] = bar.lane /\ i - 1 \in 1..Len(Tail(lanes))
                BY <1>4, <4>1, <4>3
            <4> QED
                BY <1>1, <4>4 DEF InLanes
        <3> QED
            BY <3>1, <3>2
    <2> QED
        BY <2>2, <2>3
<1> QED
    BY <1>5, <1>6, <1>7 DEF SourceInv

\* The end of a recovery, good or bad, keeps the invariant.
LEMMA EndStep ==
    ASSUME SourceInv, Fail \/ YieldTick
    PROVE  SourceInv'
<1>1. SourceTyped /\ YieldInv /\ TrackerInv /\ DueBarsFirst /\ PlaceInv /\ TickInv
    BY DEF SourceInv
<1>2. /\ pc' \in {"dead", "listening"} /\ tick' \in {tick, Absent} /\ queue = <<>>
      /\ UNCHANGED <<product, now, lastClosed, next, expected, received, missing, lanes, queue,
                     yields>>
    BY <1>1 DEF Fail, YieldTick, tracker, PlaceInv
<1>3. SourceTyped' /\ PlaceInv' /\ TickInv'
    BY <1>1, <1>2 DEF SourceTyped, PlaceInv, TickInv
<1>4. YieldInv' /\ TrackerInv'
    BY <1>1, <1>2 DEF YieldInv, TrackerInv, Queued
<1>5. DueBarsFirst'
    <2>1. CASE Fail
        BY <1>1, <1>2, <2>1 DEF Fail, DueBarsFirst, Grace
    <2>2. CASE YieldTick
        <3>1. pc = "lanes" /\ lanes = <<>> /\ ticked' = tick.time
            BY <2>2 DEF YieldTick
        <3>2. \A bar \in Bars : DueAt(bar, tick.time) => yields[bar] = 1
            BY <1>1, <3>1 DEF TickInv, InLanes
        <3> QED
            BY <1>2, <3>1, <3>2 DEF DueBarsFirst, DueAt, Grace
    <2> QED
        BY <2>1, <2>2
<1> QED
    BY <1>3, <1>4, <1>5 DEF SourceInv

-----------------------------------------------------------------------------
\* THEOREMS

\* The invariant holds in every reachable state.
THEOREM SourceInvAlways == SourceSpec => []SourceInv
<1>1. SourceInit => SourceInv
    BY SourceInitInv
<1>2. SourceInv /\ [SourceNext]_sourceVars => SourceInv'
    BY QuietStep, KlineStep, TickStep, RecoverStep, YieldStep, NextLaneStep, EndStep
    DEF SourceNext
<1> QED
    BY <1>1, <1>2, PTL DEF SourceSpec

\* A closed bar is yielded once at most, whichever of socket and REST had it
\* first and however often the exchange sends it: _decode_kline and
\* _ready_payloads of binance_stream.py.
THEOREM BarsAreYieldedOnce == SourceSpec => []BarsYieldedOnce
<1>1. SourceInv => BarsYieldedOnce
    BY DEF SourceInv, YieldInv, BarsYieldedOnce
<1> QED
    BY <1>1, SourceInvAlways, PTL

\* No quote overtakes a bar that closed, grace included, before it, for any
\* widths of the timeframes: _register_due and _ready_payloads.
THEOREM DueBarsAreFirst == SourceSpec => []DueBarsFirst
<1>1. SourceInv => DueBarsFirst
    BY DEF SourceInv
<1> QED
    BY <1>1, SourceInvAlways, PTL

\* The bars that ClosedBarCompletenessTracker counts as received are those that
\* were yielded or are about to be.
THEOREM ReceivedAreYielded == SourceSpec => []ReceivedIsYielded
<1>1. SourceInv => ReceivedIsYielded
    BY DEF SourceInv, YieldInv, ReceivedIsYielded
<1> QED
    BY <1>1, SourceInvAlways, PTL

=============================================================================
