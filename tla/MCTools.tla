-------------------------------- MODULE MCTools --------------------------------
(* The tool servers and what is behind them, checked in one run: each        *)
(* behaviour is one of one part while the others stay as they began.         *)
EXTENDS ToolServer, Integers

CONSTANTS
    None, Failed,
    Returns, MaxPeriods, Levels, Confidences,       \* of RiskTools
    Prices, MaxPrices, Bars, MaxBars, Periods,      \* of IndicatorTools
    Askers, OuterTTL, InnerTTL, MaxTicks, MaxAsks,  \* of MarketPrices
    Candle, Hour, Day, MaxDays, ChartTTL, MaxTime   \* of MarketSync

VARIABLES
    part,
    asked, answer, question, reply,
    now, outer, inner, asker, flight, since, questions, lastError,
    time, table, chart, service

risks == <<asked, answer>>
indications == <<question, reply>>
prices == <<now, outer, inner, asker, flight, since, questions, lastError>>
candles == <<time, table, chart, service>>

Risk == INSTANCE RiskTools

Indicator == INSTANCE IndicatorTools
Market == INSTANCE MarketPrices WITH asked <- questions, MaxTime <- MaxTicks
Sync == INSTANCE MarketSync

ASSUME ToolsAssumption ==
    Risk!RiskAssumption /\ Indicator!IndicatorAssumption /\ Market!PriceAssumption /\ Sync!SyncAssumption

\* Returns may be losses.
MCReturns == {-2, 0, 1}
\* A position may be worth less than nothing.
MCLevels == {-1, 0, 2, 3, 10}
\* A bar that stands still, rising ones, and one beyond the one before at both ends.
MCBars == {<<1, 1, 2>>, <<1, 2, 3>>, <<2, 3, 3>>, <<4, 5, 6>>, <<1, 4, 7>>}

Parts == {"server", "risk", "indicators", "prices", "sync"}

\* A part that is not looked at stays in its first state, or asks nothing.
MCInit ==
    /\ part \in Parts /\ ServerInit /\ Market!PriceInit /\ Sync!SyncInit
    /\ part # "server" => kind = "risk"
    /\ IF part = "risk" THEN Risk!RiskInit ELSE asked = None /\ answer = None
    /\ IF part = "indicators" THEN Indicator!IndicatorInit ELSE question = None /\ reply = None

OfServer(A) == part = "server" /\ A /\ UNCHANGED <<part, risks, indications, prices, candles>>
OfRisk(A) == part = "risk" /\ A /\ UNCHANGED <<part, server_vars, indications, prices, candles>>
OfIndicators(A) == part = "indicators" /\ A /\ UNCHANGED <<part, server_vars, risks, prices, candles>>
OfPrices(A) == part = "prices" /\ A /\ UNCHANGED <<part, server_vars, risks, indications, candles>>
OfSync(A) == part = "sync" /\ A /\ UNCHANGED <<part, server_vars, risks, indications, prices>>

MCNext ==
    \/ OfServer(ServerNext) \/ OfRisk(Risk!CallRiskTool) \/ OfIndicators(Indicator!CallIndicator)
    \/ OfPrices(Market!PriceNext) \/ OfSync(Sync!SyncNext)

\* The fairness of each part, for its own behaviours.
all == <<part, server_vars, risks, indications, prices, candles>>
MCSpec ==
    /\ MCInit /\ [][MCNext]_all
    /\ WF_all(OfServer(ReadRequest \/ Respond \/ EndOfInput)) /\ WF_all(OfPrices(Market!Fetch \/ Market!Store))

\* What the tools compute agrees with what they promise: a stake that is not more
\* than the capital, a value at risk that covers its tail, an approval only under
\* the limits, the worst drawdown; and of a market upside down the opposite signal.
AnswersAreRight ==
    /\ part = "risk" =>
          Risk!KellyIsBounded /\ Risk!VaRCoversTheTail /\ Risk!ApprovalMeansLimitsHold /\ Risk!DrawdownIsTheWorst
    /\ part = "indicators" => Indicator!SignalsMirror /\ Indicator!OneWayIsStrong /\ Indicator!NumbersOfMovement

\* Requests are answered in turn and as tools/list tells; prices are no older than
\* both caches let them grow, and waited for only while one is fetched.
ServersKeepOrder ==
    /\ AnsweredInOrder /\ ToolsTellTheirArguments
    /\ Market!PriceTypeOK /\ Market!PricesAreFresh /\ Market!WaitingForACall /\ Sync!SyncTypeOK

\* A server goes on to the end of its input, a goroutine that waits for a price
\* gets an answer, and a synchronisation in time leaves no gap in the candles.
DataKeepsComing ==
    EndsWithItsInput /\ Market!AskersAreAnswered /\ Sync!NoGapWithinADay /\ Sync!LosesOnlyAtTheEdge
=============================================================================
