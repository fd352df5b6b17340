SPECIFICATION TradingSpec
CONSTANTS
    s1 = s1
    s2 = s2
    s3 = s3
    eth = eth
    btc = btc
    ethPerp = ethPerp
    binance = binance
    main = main
    Absent = Absent
    Strategies = {s1, s2}
    Symbols = {eth, btc}
    Venues = {binance}
    Portfolios = {main}
    Orders <- MCOrders
    Providers = {"owned"}
    KillTargets = {}
    Prices = {1}
    AccountStates = {}
    MaxNotional = 2
    MaxSymbolExposure = 4
    MaxPortfolioExposure = 4
    MaxOrdersPerMinute = 3
    Minute = 2
    DuplicateWindow = 1
    MaxMarketAge = 1
    MaxReconAge = 1
    MaxTime <- MCMaxTime
    MaxAttempts <- MCMaxAttempts
    InstrumentOf <- MCShared
    Size <- MCUnit
    ShortSellers = {s1, s2}
    Product = "SPOT"
    RawSymbol <- MCRaw
    Venue = binance
    Portfolio = main
    MaxCorrelatedExposure = 3
    BarAges = {0, 2}
    MaxEvents = 4
PROPERTIES
    DecisionsKept
CHECK_DEADLOCK FALSE
