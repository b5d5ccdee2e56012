------------------------------ MODULE MCAgents ------------------------------
(* The process of an agent and the steps of the seven agents, checked in one *)
(* run: each behaviour is one of one part while the others stay as they      *)
(* began.                                                                    *)
EXTENDS BaseAgent

CONSTANTS
    None,
    RSIs, Histograms, EMADiffs, Weights, MaxSteps,             \* of TechnicalAgent
    Prices, StopLossPct, TrailingStopPct, TakeProfits, RiskRewardTimes10, MaxTrendSteps, \* of TrendAgent
    Levels, ReversionRSIs, ADXs, ModelSays, TakeProfitPct, RatioTimes10, MaxReversions,  \* of ReversionAgent
    Books, DepthLevels, ThresholdPct, MultiplierPct, Window, MaxHistory, MaxNow,         \* of OrderBookAgent
    Headlines, FearGreeds, Lookback, Threshold, IndexTTL, MaxHours,                      \* of SentimentAgent
    Exchanges, BasePrices, Noise, Volumes, MinSpread, Thresholds, Minute, MaxClock, MaxMoves, \* of ArbitrageAgent
    Rows, Sizes, MaxPositionSize, MaxTotalExposure, MaxConcentration, MaxOpenPositions,
    MaxDrawdownPercent, Drawdowns, Volatilities, OptimalSizes, Replies, MaxUpdates       \* of RiskAgent

VARIABLES
    part,
    indicators, beliefs, signal, published, steps, weights,
    takeProfitPct, trendPaused, trendStep, lastSignal, highestPrice, lowestPrice, position, trendSignal,
    trendSteps, pausedAt, runPrices,
    revBeliefs, revLast, revPublished, revFailed, reversions,
    history, bookTime, bookSignal,
    cachedNews, cacheExpiry, cachedFearGreed, hour, sentiment, fetched,
    threshold, clock, base, priceCache, waiting, failures, reliable, decision,
    positions, believed, drawdown, volatility, utilization, readers, writer, section, updates,
    judge, proposal, intentions, caught

technicals == <<indicators, beliefs, signal, published, steps, weights>>
trends == <<takeProfitPct, trendPaused, trendStep, lastSignal, highestPrice, lowestPrice, position, trendSignal,
            trendSteps, pausedAt, runPrices>>
reversals == <<revBeliefs, revLast, revPublished, revFailed, reversions>>
books == <<history, bookTime, bookSignal>>
moods == <<cachedNews, cacheExpiry, cachedFearGreed, hour, sentiment, fetched>>
spreads == <<threshold, clock, base, priceCache, waiting, failures, reliable, decision>>
risks == <<positions, believed, drawdown, volatility, utilization, readers, writer, section, updates,
           judge, proposal, intentions, caught>>

Technical == INSTANCE TechnicalAgent
Trend == INSTANCE TrendAgent WITH paused <- trendPaused, MaxSteps <- MaxTrendSteps
Reversion == INSTANCE ReversionAgent WITH RSIs <- ReversionRSIs
Book == INSTANCE OrderBookAgent
Sentiment == INSTANCE SentimentAgent
Arbitrage == INSTANCE ArbitrageAgent
Risk == INSTANCE RiskAgent

ASSUME AgentsAssumption ==
    /\ BaseAgentAssumption /\ Technical!TechnicalAssumption /\ Trend!TrendAssumption /\ Reversion!ReversionAssumption
    /\ Book!OrderBookAssumption /\ Sentiment!SentimentAssumption /\ Arbitrage!ArbitrageAssumption /\ Risk!RiskAssumption

-----------------------------------------------------------------------------
(* The instances.                                                          *)

MCHistograms == {-50, 0, 20, 100}
MCEMADiffs == {-2, 0, 1, 2}
MCWeights == {<<>>, [rsi |-> 30, macd |-> 40]}

\* Books one-sided, lopsided, deep on one side, and all but even.
Level(p, q) == [price |-> p, qty |-> q]
MCBooks ==
    {[bids |-> <<>>, asks |-> <<Level(101, 1)>>],
     [bids |-> <<Level(1000, 9), Level(900, 1)>>, asks |-> <<Level(1001, 2), Level(1100, 1)>>],
     [bids |-> <<Level(1000, 1), Level(900, 9)>>, asks |-> <<Level(1100, 3), Level(1101, 2)>>],
     [bids |-> <<Level(1000, 1), Level(999, 2)>>, asks |-> <<Level(1001, 3), Level(1002, 3)>>],
     [bids |-> <<Level(1000, 6), Level(980, 5), Level(970, 1), Level(960, 1), Level(950, 1)>>,
      asks |-> <<Level(1100, 8), Level(1120, 1)>>],
     [bids |-> <<Level(1000, 6), Level(999, 6), Level(998, 6), Level(980, 1), Level(979, 1)>>,
      asks |-> <<Level(1001, 2), Level(1002, 5), Level(1003, 12), Level(1100, 1), Level(1101, 1), Level(1102, 1), Level(1103, 1)>>],
     [bids |-> <<Level(1000, 6), Level(999, 6), Level(980, 1), Level(979, 1)>>,
      asks |-> <<Level(1006, 7), Level(1007, 1), Level(1100, 1), Level(1101, 1), Level(1102, 1)>>]}

Headline(p, n, w, s) == [pos |-> p, neg |-> n, words |-> w, source |-> s]
MCHeadlines == {Headline(1, 0, 5, 1), Headline(0, 2, 6, 2), Headline(3, 0, 2, 2)}

MCNoise == {-5, 5}

Row(s, d, q, p) == [symbol |-> s, side |-> d, qty |-> q, price |-> p]
MCRows == {Row("a", "LONG", 10, 2), Row("a", "SHORT", 4, 2), Row("b", "LONG", 15, 1)}

-----------------------------------------------------------------------------
(* One part at a time.                                                     *)

Parts == {"process", "technical", "trend", "reversion", "book", "sentiment", "arbitrage", "risk"}

\* A part that is not looked at begins in one state only.
MCInit ==
    /\ part \in Parts /\ AgentInit /\ Technical!TechnicalInit /\ Trend!TrendInit /\ Reversion!ReversionInit
    /\ Book!OrderBookInit /\ Sentiment!SentimentInit /\ Arbitrage!ArbitrageInit /\ Risk!RiskAgentInit
    /\ part # "process" => kind = "own"
    /\ part # "technical" => weights = <<>>
    /\ part # "trend" => \A t \in TakeProfits : takeProfitPct <= t
    /\ part # "arbitrage" => (\A t \in Thresholds : threshold <= t) /\ (\A p \in BasePrices : base.price <= p)

OfProcess(A) == part = "process" /\ A /\ UNCHANGED <<part, technicals, trends, reversals, books, moods, spreads, risks>>
OfTechnical(A) == part = "technical" /\ A /\ UNCHANGED <<part, agent, trends, reversals, books, moods, spreads, risks>>
OfTrend(A) == part = "trend" /\ A /\ UNCHANGED <<part, agent, technicals, reversals, books, moods, spreads, risks>>
OfReversion(A) == part = "reversion" /\ A /\ UNCHANGED <<part, agent, technicals, trends, books, moods, spreads, risks>>
OfBook(A) == part = "book" /\ A /\ UNCHANGED <<part, agent, technicals, trends, reversals, moods, spreads, risks>>
OfSentiment(A) == part = "sentiment" /\ A /\ UNCHANGED <<part, agent, technicals, trends, reversals, books, spreads, risks>>
OfArbitrage(A) == part = "arbitrage" /\ A /\ UNCHANGED <<part, agent, technicals, trends, reversals, books, moods, risks>>
OfRisk(A) == part = "risk" /\ A /\ UNCHANGED <<part, agent, technicals, trends, reversals, books, moods, spreads>>

MCNext ==
    \/ OfProcess(AgentNext) \/ OfTechnical(Technical!TechnicalNext) \/ OfTrend(Trend!TrendNext)
    \/ OfReversion(Reversion!ReversionNext) \/ OfBook(Book!OrderBookNext)
    \/ OfSentiment(Sentiment!SentimentNext) \/ OfArbitrage(Arbitrage!ArbitrageNext) \/ OfRisk(Risk!RiskAgentNext)

all == <<part, agent, technicals, trends, reversals, books, moods, spreads, risks>>

\* The goroutines of the risk agent go on (RiskAgentSpec).
MCSpec ==
    /\ MCInit /\ [][MCNext]_all
    /\ WF_all(OfRisk(Risk!Judge)) /\ WF_all(OfRisk(Risk!Update)) /\ WF_all(OfRisk(section > 0 /\ Risk!UpdateBeliefs))

-----------------------------------------------------------------------------
(* Properties.                                                             *)

\* A signal follows from what was seen: support never makes it less sure, filters
\* and limits hold whatever the model says, the opposite market gives the opposite
\* signal, and what is not worth its risk or its fees is not traded.
SignalsAreSound ==
    /\ part = "technical" => Technical!TrendIsBollinger /\ Technical!SupportNeverHurts /\ Technical!RulesHold
    /\ part = "trend" => Trend!TrailsTheBestPrice /\ Trend!NeverTradesBelowRatio
    /\ part = "reversion" => Reversion!FiltersHold /\ Reversion!MirrorImage /\ Reversion!ConfirmationHelps
    /\ part = "book" => Book!TradesNeedEvidence /\ Book!SpoofingNeverStopsATrade
    /\ part = "sentiment" => Sentiment!OppositeNewsOppositeSignal /\ Sentiment!SentimentIsBounded
    /\ part = "arbitrage" => Arbitrage!SpreadsAreMovesOfThePrice /\ Arbitrage!HoldsAtItsThreshold
    /\ part = "risk" => Risk!ApprovalsFit

\* What an agent goes by is of its time: beliefs are stale only where an indicator
\* was missing, prices compared are of one minute, flags of books that changed; a
\* subscribed agent follows its control events, and one that is stopped finishes the
\* step it is in and begins nothing that is published.
AgentsKeepUp ==
    /\ part = "process" => AgentTypeOK /\ FollowsControl /\ LastStepIsWhole
    /\ part = "technical" => Technical!TechnicalTypeOK /\ Technical!StaleOnlyIfMissing
    /\ part = "trend" => Trend!TrendTypeOK /\ Trend!PausedIsSilent
    /\ part = "reversion" => Reversion!ReversionTypeOK
    /\ part = "book" => Book!OrderBookTypeOK /\ Book!FlagsComeFromChange
    /\ part = "sentiment" => Sentiment!SentimentTypeOK
    /\ part = "arbitrage" => Arbitrage!ArbitrageTypeOK /\ Arbitrage!PricesOfAMinute
    /\ part = "risk" => Risk!RiskAgentTypeOK

\* Old news are used only when there are no newer ones to be had, an exposure is
\* never more than what is long, and a judgement ends unless a writer comes
\* between its two read locks.
AgentsGoOn == Sentiment!OldNewsOnlyOnFailure /\ Risk!ExposureIsOfLongs /\ Risk!JudgementsEnd
=============================================================================
