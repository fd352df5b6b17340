SPECIFICATION Spec
CONSTANTS
    s1 = s1
    s2 = s2
    eth = eth
    binance = binance
    main = main
    Absent = Absent
    Strategies = {s1, s2}
    Symbols = {eth}
    Venues = {binance}
    Portfolios = {main}
    Orders <- MCOrders
    Providers = {"owned", "none", "simulation"}
    KillTargets <- MCTargets
    Prices = {0, 1, 2}
    AccountStates <- MCAccountStates
    MaxNotional = 1
    MaxSymbolExposure = 2
    MaxPortfolioExposure = 2
    MaxOrdersPerMinute = 2
    Minute = 3
    DuplicateWindow = 2
    MaxMarketAge = 1
    MaxReconAge = 1
    MaxTime <- MCMaxTime
    MaxAttempts <- MCMaxAttempts
INVARIANTS
    TypeOK
    OrderRateBounded
    DuplicatesSpaced
PROPERTIES
    AcceptedOnlyOnReportedState
    KilledNeverTrades
