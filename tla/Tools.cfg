SPECIFICATION MCSpec
CONSTANTS
    None = None
    Failed = Failed
    MaxRequests = 2
    Returns <- MCReturns
    MaxPeriods = 4
    Levels <- MCLevels
    Confidences = {50, 75, 95}
    Prices = {1, 2, 4}
    MaxPrices = 5
    Bars <- MCBars
    MaxBars = 4
    Periods = {None, 0, 1, 2, 5}
    Askers = {a1, a2}
    OuterTTL = 1
    InnerTTL = 2
    MaxTicks = 4
    MaxAsks = 3
    Candle = 2
    Hour = 4
    Day = 5
    MaxDays = 2
    ChartTTL = 2
    MaxTime = 26
INVARIANTS AnswersAreRight ServersKeepOrder
PROPERTIES DataKeepsComing
CHECK_DEADLOCK FALSE
