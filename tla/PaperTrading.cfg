SPECIFICATION TradingSpec
CONSTANTS
    s1 = s1
    s2 = s2
    s3 = s3
    eth = eth
    btc = btc
    ethPerp = ethPerp
    binance = binance
    main = main
    Absent = Absent
    Strategies = {s1, s2, s3}
    Symbols = {eth, btc}
    Venues = {binance}
    Portfolios = {main}
    Orders <- MCOrders
    Providers = {"owned"}
    KillTargets = {}
    Prices = {1, 2}
    AccountStates = {}
    MaxNotional = 4
    MaxSymbolExposure = 3
    MaxPortfolioExposure = 4
    MaxOrdersPerMinute = 4
    Minute = 1
    DuplicateWindow = 1
    MaxMarketAge = 0
    MaxReconAge = 1
    MaxTime <- MCMaxTime
    MaxAttempts <- MCMaxAttempts
    InstrumentOf <- MCMixed
    Size <- MCUnit
    ShortSellers = {s1, s2}
    Product = "SPOT"
    RawSymbol <- MCRaw
    Venue = binance
    Portfolio = main
    MaxCorrelatedExposure = 3
    BarAges = {0}
    MaxEvents = 3
SYMMETRY MCSymmetry
PROPERTIES
    TradesKeepCaps
    OvershootBounded
    LoneDecisionsKept
CHECK_DEADLOCK FALSE
