SPECIFICATION TradingSpec
CONSTANTS
    s1 = s1
    s2 = s2
    s3 = s3
    eth = eth
    btc = btc
    ethPerp = ethPerp
    binance = binance
    main = main
    Absent = Absent
    Strategies = {s1}
    Symbols = {eth, ethPerp}
    Venues = {binance}
    Portfolios = {main}
    Orders <- MCOrders
    Providers = {"owned"}
    KillTargets = {}
    Prices = {1}
    AccountStates = {}
    MaxNotional = 2
    MaxSymbolExposure = 2
    MaxPortfolioExposure = 2
    MaxOrdersPerMinute = 3
    Minute = 2
    DuplicateWindow = 1
    MaxMarketAge = 1
    MaxReconAge = 1
    MaxTime <- MCMaxTime
    MaxAttempts <- MCMaxAttempts
    InstrumentOf <- MCPerpetual
    Size <- MCUnit
    ShortSellers = {s1}
    Product = "USD_M"
    RawSymbol <- MCPerpetualRaw
    Venue = binance
    Portfolio = main
    MaxCorrelatedExposure = 3
    BarAges = {0, 2}
    MaxEvents = 3
INVARIANTS
    MarketStateReported
CHECK_DEADLOCK FALSE
