SPECIFICATION MCSpec
CONSTANTS
    None = None
    Agents = {x, y}
    Histories <- MCHistories
    Consensuses = {"first", "all", "majority", "unanimous", "weighted"}
    Sizings = {"fixed", "percent", "kelly", "default"}
    Answers <- MCAnswers
    Capital = 2000
    RatePct = 10
    FixedSize = 50
    KellyTrades = 2
    MaxPositions = 1
    Methods = {"grid", "walk", "genetic"}
    Low = 1
    High = 3
    Steps = {1, 2, 5}
    Scores <- MCScores
    AnyScores = {0, 9}
    Failed = 0
    Orders = {"sorted", "unsorted"}
    Parallel = 2
    InSample = 2
    OutSample = 1
    Spans = {2, 4}
    PopSize = 2
    EliteCount = 1
    Generations = 2
    Users = {"anonymous", "ann"}
    Limits = {1, 2}
    MaxJobs = 2
    Clients = {c1, c2}
    SendCap = 1
    BroadcastCap = 1
    MaxBroadcasts = 2
    MaxPings = 1
    Bidders = {a, b}
    Offers <- MCOffers
    TopicCap = 2
    BidCap = 1
    Callers = {p1, p2}
    MaxConvs = 2
    MaxMessages = 2
    MaxTokens = 3
    Lengths = {2}
    MaxAdded = 3
    MaxSystem = 1
    t1 = t1
    t2 = t2
    MaxVariants = 3
    MaxVariantsPerTest = 2
    MaxActiveExperiments = 1
    MinSamples = 1
    Latencies = {1, 3}
    MaxRequests <- MCRequests
    MaxSeconds = 1
INVARIANTS ReportsAreTrue NobodyIsLost
PROPERTIES PlatformGoesOn
CHECK_DEADLOCK FALSE
