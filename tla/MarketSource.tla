---------------------------- MODULE MarketSource ----------------------------
(***************************************************************************)
(* The public market source of a PAPER worker: BinancePublicMarketSource   *)
(* of binance_stream.py and the ClosedBarCompletenessTracker of            *)
(* bar_completeness.py, one tracker ("lane") per timeframe.                *)
(*                                                                         *)
(* One connection carries book tickers and, for SPOT, the klines of every  *)
(* stream, a symbol in a timeframe.  A tick that shows that bars are due   *)
(* first recovers the missing ones by REST, lane after lane, and yields    *)
(* them before itself.  The source is a generator: between two payloads it *)
(* yields, the consumer works, time passes and the process may end.        *)
(*                                                                         *)
(* Abstractions.  Prices and sizes are left out, with the reporting        *)
(* counters of the tracker.  Malformed messages raise and end the process, *)
(* as Fail does.  The exchange (the klines it pushes and what it pushes    *)
(* again after a reconnect) is external.                                   *)
(***************************************************************************)
EXTENDS Integers, Sequences, FiniteSets, Functions

CONSTANTS
    Products,       \* "SPOT", or "USD_M", whose socket carries no klines
    Timeframes,     \* the configured timeframes, in order, without repetition
    SymbolsOf,      \* the instruments subscribed in each timeframe
    SymbolRank,     \* their alphabetical order
    Width,          \* the length of a bar of each timeframe
    UsdmGrace,      \* recovery_grace_ms of USD_M; SPOT has none
    RetryInterval,  \* recovery_retry_interval_ms
    Absent,
    MaxTime, MaxUpdates   \* bounds of the model

Lanes == {Timeframes[i] : i \in DOMAIN Timeframes}

Symbols == UNION {SymbolsOf[lane] : lane \in Lanes}

Streams == {[symbol |-> s, lane |-> l] : s \in Symbols, l \in Lanes}

Times == 0..MaxTime

\* MarketStreamEvent of a closed bar: its canonical id names all of it.
Bars ==
    {bar \in [symbol : Symbols, lane : Lanes, start : Times] :
        /\ bar.symbol \in SymbolsOf[bar.lane]
        /\ bar.start % Width[bar.lane] = 0}

Ticks == [symbol : Symbols, update : 1..MaxUpdates, time : Times]

ASSUME SourceAssumption ==
    /\ Products \subseteq {"SPOT", "USD_M"}
    /\ Timeframes \in Seq(Lanes) /\ IsInjective(Timeframes)
    /\ IsFiniteSet(Symbols)
    /\ SymbolRank \in [Symbols -> Nat]
    /\ \A s, t \in Symbols : SymbolRank[s] = SymbolRank[t] => s = t
    /\ Width \in [Lanes -> Nat \ {0}]
    /\ UsdmGrace \in Nat /\ RetryInterval \in Nat \ {0}
    /\ MaxTime \in Nat /\ MaxUpdates \in Nat
    /\ Absent \notin Ticks \cup Times

VARIABLES
    product,     \* what the worker trades
    now,         \* the clock of the process
    connected,
    pushed,      \* per stream, the start of the bar the exchange pushes next
    lastUpdate,  \* _last_update_id, 0 before the first
    lastClosed,  \* _last_closed_kline_start, per stream
    next,        \* _next_expected_start_ms of each lane
    expected,    \* _expected of all lanes
    received,    \* _received of all lanes
    missing,     \* _missing of all lanes
    retryAt,     \* _next_retry_ms of all lanes
    pc,          \* "listening", "lanes" between two lanes, "yielding", "dead"
    tick,        \* the decoded tick that waits for the lanes
    lanes,       \* the timeframes still to be asked for due bars
    queue,       \* recovered bars still to be yielded
    yields,      \* history: how often each bar was yielded
    ticked       \* history: the time of the last tick yielded

exchange == <<connected, pushed>>
tracker == <<next, expected, received, missing, retryAt>>
sourceVars == <<product, now, exchange, lastUpdate, lastClosed, tracker, pc, tick, lanes, queue,
                yields, ticked>>

-----------------------------------------------------------------------------
(* Closed bars and what is expected                                        *)

Grace == IF product = "USD_M" THEN UsdmGrace ELSE 0

StreamOf(bar) == [symbol |-> bar.symbol, lane |-> bar.lane]

BarOf(stream, start) == [symbol |-> stream.symbol, lane |-> stream.lane, start |-> start]

ClosesAt(bar) == bar.start + Width[bar.lane]

\* The start of the bar of a lane that is open at a time.
OpenAt(lane, time) == (time \div Width[lane]) * Width[lane]

\* _register_due: the first bar that is not due yet at the observed time.
DueFrom(lane, observed) ==
    IF observed < next[lane] + Width[lane] + Grace THEN next[lane]
    ELSE OpenAt(lane, observed - Grace)

\* The bars _register_due adds to the expected ones.
Registered(lane, observed) ==
    {bar \in Bars : bar.lane = lane /\ next[lane] <= bar.start
                      /\ bar.start < DueFrom(lane, observed)}

LaneOrder(a, b) ==
    \/ a.start < b.start
    \/ a.start = b.start /\ SymbolRank[a.symbol] < SymbolRank[b.symbol]

\* Bars of a lane, sorted.
InOrder(bars) ==
    CHOOSE seq \in [1..Cardinality(bars) -> bars] :
        \A i, j \in DOMAIN seq : i < j => LaneOrder(seq[i], seq[j])

\* recover_due goes through the expected and not received bars of the lane
\* whose retry time has come.
Candidates(lane, observed) ==
    {bar \in expected \cup Registered(lane, observed) :
        bar.lane = lane /\ bar \notin received /\ retryAt[bar] <= observed}

NewerMut(stream, start) == lastClosed[stream] = Absent \/ start >= lastClosed[stream]

Newer(stream, start) == lastClosed[stream] = Absent \/ start > lastClosed[stream]

-----------------------------------------------------------------------------
(* The exchange and the connection                                         *)

SourceInit ==
    /\ product \in Products
    /\ now = 0
    /\ connected = TRUE
    /\ pushed = [stream \in Streams |-> 0]
    /\ lastUpdate = [symbol \in Symbols |-> 0]
    /\ lastClosed = [stream \in Streams |-> Absent]
    /\ next = [lane \in Lanes |-> 0]
    /\ expected = {} /\ received = {} /\ missing = {}
    /\ retryAt = [bar \in Bars |-> 0]
    /\ pc = "listening"
    /\ tick = Absent
    /\ lanes = <<>>
    /\ queue = <<>>
    /\ yields = [bar \in Bars |-> 0]
    /\ ticked = 0

TimePasses ==
    /\ now < MaxTime
    /\ now' = now + 1
    /\ UNCHANGED <<product, exchange, lastUpdate, lastClosed, tracker, pc, tick, lanes, queue,
                   yields, ticked>>

Disconnect ==
    /\ pc = "listening"
    /\ connected
    /\ connected' = FALSE
    /\ UNCHANGED <<product, now, pushed, lastUpdate, lastClosed, tracker, pc, tick, lanes, queue,
                   yields, ticked>>

\* After a reconnect the exchange goes on with the bars that close from then
\* on, or pushes the one that closed last again.
Reconnect ==
    /\ pc = "listening"
    /\ ~connected
    /\ connected' = TRUE
    /\ pushed' \in {p \in [Streams -> Times] :
                      \A stream \in Streams :
                         LET open == OpenAt(stream.lane, now) IN
                         p[stream] \in {open, open - Width[stream.lane]}}
    /\ UNCHANGED <<product, now, lastUpdate, lastClosed, tracker, pc, tick, lanes, queue,
                   yields, ticked>>

\* A closed kline arrives; a bar that is not newer than the last closed one of
\* its stream is dropped.
ReceiveKline(stream) ==
    LET start == pushed[stream]
        bar == BarOf(stream, start) IN
    /\ product = "SPOT"
    /\ pc = "listening" /\ connected
    /\ bar \in Bars
    /\ ClosesAt(bar) <= now
    /\ pushed' = [pushed EXCEPT ![stream] = ClosesAt(bar)]
    /\ IF Newer(stream, start)
       THEN /\ lastClosed' = [lastClosed EXCEPT ![stream] = start]
            /\ received' = received \cup {bar}
            /\ missing' = missing \ {bar}
            /\ retryAt' = IF bar \in received THEN retryAt ELSE [retryAt EXCEPT ![bar] = 0]
            /\ yields' = [yields EXCEPT ![bar] = @ + 1]
       ELSE UNCHANGED <<lastClosed, received, missing, retryAt, yields>>
    /\ UNCHANGED <<product, now, connected, lastUpdate, next, expected, pc, tick, lanes, queue,
                   ticked>>

Fresh(symbol, update) == update > lastUpdate[symbol]

\* A book ticker arrives; the exchange may repeat one it has sent.  The time of
\* the tick is the clock of the process.
ReceiveTick(symbol, update) ==
    /\ pc = "listening" /\ connected
    /\ update <= lastUpdate[symbol] + 1
    /\ Fresh(symbol, update)
    /\ lastUpdate' = [lastUpdate EXCEPT ![symbol] = update]
    /\ tick' = [symbol |-> symbol, update |-> update, time |-> now]
    /\ lanes' = Timeframes
    /\ pc' = "lanes"
    /\ UNCHANGED <<product, now, exchange, lastClosed, tracker, queue, yields, ticked>>

-----------------------------------------------------------------------------
(* Recovery: _ready_payloads over a tick                                   *)

\* recover_due of the next lane: REST answers for each bar, or fails.
RecoverDue ==
    /\ pc = "lanes"
    /\ lanes # <<>>
    /\ LET lane == Head(lanes)
           due == Candidates(lane, tick.time) IN
       \E recovered \in SUBSET due :
          /\ next' = [next EXCEPT ![lane] = DueFrom(lane, tick.time)]
          /\ expected' = expected \cup Registered(lane, tick.time)
          /\ received' = received \cup recovered
          /\ missing' = (missing \cup (Registered(lane, tick.time) \ received)
                                 \cup due) \ recovered
          /\ retryAt' = [bar \in Bars |->
                           IF bar \in recovered THEN 0
                           ELSE IF bar \in due THEN tick.time + RetryInterval
                           ELSE retryAt[bar]]
          /\ queue' = InOrder(recovered)
    /\ pc' = "yielding"
    /\ UNCHANGED <<product, now, exchange, lastUpdate, lastClosed, tick, lanes, yields, ticked>>

YieldRecoveredMut ==   \* a bar recovered out of order is not yielded
    /\ pc = "yielding"
    /\ queue # <<>>
    /\ LET bar == Head(queue) IN
       /\ lastClosed' = IF Newer(StreamOf(bar), bar.start)
                        THEN [lastClosed EXCEPT ![StreamOf(bar)] = bar.start]
                        ELSE lastClosed
       /\ yields' = IF Newer(StreamOf(bar), bar.start)
                    THEN [yields EXCEPT ![bar] = @ + 1] ELSE yields
    /\ queue' = Tail(queue)
    /\ UNCHANGED <<product, now, exchange, lastUpdate, tracker, pc, tick, lanes, ticked>>

YieldRecovered ==
    /\ pc = "yielding"
    /\ queue # <<>>
    /\ LET bar == Head(queue) IN
       /\ lastClosed' = IF Newer(StreamOf(bar), bar.start)
                        THEN [lastClosed EXCEPT ![StreamOf(bar)] = bar.start]
                        ELSE lastClosed
       /\ yields' = [yields EXCEPT ![bar] = @ + 1]
    /\ queue' = Tail(queue)
    /\ UNCHANGED <<product, now, exchange, lastUpdate, tracker, pc, tick, lanes, ticked>>

HealthyMut(lane) == TRUE   \* the failure is only logged

Healthy(lane) == \A bar \in missing : bar.lane # lane

\* The bars of the lane are all yielded: go on with the next lane.
NextLane ==
    /\ pc = "yielding"
    /\ queue = <<>>
    /\ Healthy(Head(lanes))
    /\ lanes' = Tail(lanes)
    /\ pc' = "lanes"
    /\ UNCHANGED <<product, now, exchange, lastUpdate, lastClosed, tracker, tick, queue, yields,
                   ticked>>

\* A bar that could not be recovered ends the source, and the worker with it.
Fail ==
    /\ pc = "yielding"
    /\ queue = <<>>
    /\ ~Healthy(Head(lanes))
    /\ pc' = "dead"
    /\ UNCHANGED <<product, now, exchange, lastUpdate, lastClosed, tracker, tick, lanes, queue,
                   yields, ticked>>

YieldTick ==
    /\ pc = "lanes"
    /\ lanes = <<>>
    /\ ticked' = tick.time
    /\ tick' = Absent
    /\ pc' = "listening"
    /\ UNCHANGED <<product, now, exchange, lastUpdate, lastClosed, tracker, lanes, queue, yields>>

SourceNext ==
    \/ TimePasses
    \/ Disconnect
    \/ Reconnect
    \/ \E stream \in Streams : ReceiveKline(stream)
    \/ \E symbol \in Symbols, update \in 1..MaxUpdates : ReceiveTick(symbol, update)
    \/ RecoverDue
    \/ YieldRecovered
    \/ NextLane
    \/ Fail
    \/ YieldTick

SourceSpec == SourceInit /\ [][SourceNext]_sourceVars

-----------------------------------------------------------------------------
(* Properties                                                              *)

\* A closed bar is yielded once at most, whichever of socket and REST had it
\* first, and however often the exchange sends it (binance_stream.py:433, 531).
BarsYieldedOnce == \A bar \in Bars : yields[bar] <= 1

\* Every bar that was due when a tick was observed is yielded before the tick:
\* no strategy sees a quote without the bars that closed before it
\* (binance_stream.py:518-539).
DueBarsFirst ==
    \A bar \in Bars : ClosesAt(bar) + Grace <= ticked => yields[bar] = 1

Queued(bar) == \E i \in 1..Len(queue) : queue[i] = bar

\* The bars the tracker counts as received, the number that goes into the
\* evidence of the session, are those yielded or about to be.
ReceivedIsYielded ==
    \A bar \in Bars : bar \in received <=> yields[bar] > 0 \/ Queued(bar)

=============================================================================
