SPECIFICATION SourceSpec
CONSTANTS
    eth = eth
    btc = btc
    fast = fast
    slow = slow
    Absent = Absent
    Products = {"SPOT", "USD_M"}
    Timeframes <- MCTimeframes
    SymbolsOf <- MCSymbolsOf
    SymbolRank <- MCRank
    Width <- MCWidth
    UsdmGrace = 1
    RetryInterval = 2
    MaxTime = 5
    MaxUpdates = 2
INVARIANTS
    BarsYieldedOnce
    DueBarsFirst
    ReceivedIsYielded
CHECK_DEADLOCK FALSE
