SPECIFICATION MCSpec
CONSTANTS
    None = None
    Servers = 2
    MaxControl = 3
    MaxTicks = 3
    Fetches = 2
    RSIs = {0, 15, 40, 50, 85}
    Histograms <- MCHistograms
    EMADiffs <- MCEMADiffs
    Weights <- MCWeights
    MaxSteps = 2
    Prices = {1, 2, 3}
    StopLossPct = 2
    TrailingStopPct = 1
    TakeProfits = {3, 4}
    RiskRewardTimes10 = 20
    MaxTrendSteps = 4
    Levels = {1000, 1004, 1100}
    ReversionRSIs = {25, 50, 70}
    ADXs = {20, 30}
    ModelSays = {"SELL", "unanswered"}
    TakeProfitPct = 3
    RatioTimes10 = 15
    MaxReversions = 2
    Books <- MCBooks
    DepthLevels = 2
    ThresholdPct = 30
    MultiplierPct = 150
    Window = 1
    MaxHistory = 2
    MaxNow = 2
    Headlines <- MCHeadlines
    FearGreeds = {0, 8}
    Lookback = 1
    Threshold = 3
    IndexTTL = 1
    MaxHours = 2
    Exchanges = {"binance", "kraken"}
    BasePrices = {100, 103}
    Noise <- MCNoise
    Volumes = {2000}
    MinSpread = 10
    Thresholds = {5, 80}
    Minute = 1
    MaxClock = 2
    MaxMoves = 1
    Rows <- MCRows
    Sizes = {4, 12}
    MaxPositionSize = 10
    MaxTotalExposure = 50
    MaxConcentration = 40
    MaxOpenPositions = 2
    MaxDrawdownPercent = 20
    Drawdowns = {18}
    Volatilities = {5}
    OptimalSizes = {3, 9}
    Replies = {None, 9}
    MaxUpdates = 1
INVARIANTS SignalsAreSound AgentsKeepUp
PROPERTIES AgentsGoOn
CHECK_DEADLOCK FALSE
