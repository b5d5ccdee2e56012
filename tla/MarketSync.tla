------------------------------ MODULE MarketSync ------------------------------
(***************************************************************************)
(* The synchronisation of candles into the market_data table               *)
(* (internal/market/sync.go), of one coin.  CoinGecko has a price point at *)
(* every time; a candle is the set of points it was made of, and is stored *)
(* under the time at which it begins.                                      *)
(***************************************************************************)
EXTENDS Naturals, FiniteSets, FiniteSetsExt, Functions

CONSTANTS
    None,
    Candle, Hour, Day,  \* lengths in time; a candle is a quarter of an hour
    MaxDays,            \* the most days asked for, 90 in the code
    ChartTTL,           \* how long the cached client keeps a chart
    MaxTime             \* bound: the clock

VARIABLES
    time,
    table,      \* the candles stored
    chart,      \* the chart in the cache: how many days of it, when it was made
    service     \* "runs", "stopped" or "panicked"

sync == <<time, table, chart, service>>

SyncAssumption ==
    /\ Candle \in Nat \ {0} /\ Hour \in Nat /\ Day \in Nat \ {0} /\ MaxDays \in Nat \ {0}
    /\ MaxTime \in Nat /\ MaxDays * Day <= MaxTime
    /\ ChartTTL \in Nat /\ ChartTTL + Candle <= Hour

Beginning == MaxDays * Day
Start(candle) == candle * Candle
CandleOf(t) == t \div Candle
PointsOf(candle) == Start(candle) .. Start(candle) + Candle - 1
Last == Max(DOMAIN table)

SyncTypeOK ==
    /\ time \in Beginning .. MaxTime
    /\ IsFiniteSet(DOMAIN table) /\ \A c \in DOMAIN table : table[c] # {} /\ table[c] \subseteq PointsOf(c)
    /\ chart \in {None} \cup [days : 1 .. MaxDays, at : Beginning .. MaxTime]
    /\ service \in {"runs", "stopped", "panicked"}

SyncInit == time = Beginning /\ table = <<>> /\ chart = None /\ service = "runs"

\* Without a candle, ninety days are missing.
GetLastTimestamp == IF DOMAIN table = {} THEN time - MaxDays * Day ELSE Start(Last)

\* Mutant: one day is always enough.
AlwaysOneDay(last) == IF time - last < Hour THEN 0 ELSE 1

\* Whole days since the last candle; one at least, none within an hour.
CalculateDaysToFetch(last) ==
    IF time - last < Hour THEN 0 ELSE Max({1, Min({(time - last) \div Day, MaxDays})})

\* The points of so many days until a time, as of the chart cached or a new one.
Points(days, at) == {t \in 0 .. at : t > at - days * Day /\ t > 0}
Cached(days) == chart # None /\ chart.days = days /\ time < chart.at + ChartTTL

ToCandlesticks(points) == [c \in {CandleOf(t) : t \in points} |-> PointsOf(c) \cap points]

\* A candle stored before is replaced.
StoreCandlesticks(candles) ==
    [c \in DOMAIN table \cup DOMAIN candles |-> IF c \in DOMAIN candles THEN candles[c] ELSE table[c]]

\* The cache may fail to answer or to take the chart.
SyncSymbol ==
    /\ service = "runs"
    /\ LET days == CalculateDaysToFetch(GetLastTimestamp)
       IN  /\ days > 0
           /\ \E at \in {time} \cup (IF Cached(days) THEN {chart.at} ELSE {}) :
                 /\ chart' \in {chart, [days |-> days, at |-> at]}
                 /\ table' = StoreCandlesticks(ToCandlesticks(Points(days, at)))
    /\ UNCHANGED <<time, service>>

\* The chart was fetched, and could not be stored: the transaction is undone.
StoreFails ==
    /\ service = "runs"
    /\ LET days == CalculateDaysToFetch(GetLastTimestamp)
       IN  days > 0 /\ ~ Cached(days) /\ chart' = [days |-> days, at |-> time]
    /\ UNCHANGED <<time, table, service>>

\* Stopping a second time closes a closed channel.
Stop ==
    /\ service # "panicked"
    /\ service' = IF service = "runs" THEN "stopped" ELSE "panicked"
    /\ UNCHANGED <<time, table, chart>>

PassTime ==
    /\ time < MaxTime /\ time' = time + 1
    /\ UNCHANGED <<table, chart, service>>

SyncNext == SyncSymbol \/ StoreFails \/ Stop \/ PassTime

SyncSpec == SyncInit /\ [][SyncNext]_sync

-----------------------------------------------------------------------------
\* A synchronisation within a day of the last candle leaves no candle out and
\* completes the last one; a later one asks for whole days only, and may leave
\* a gap of less than a day.  Of more days than are asked for at most, the first
\* ones are never fetched (calculateDaysToFetch).
NoGapWithinADay ==
    [][table' # table /\ DOMAIN table # {} =>
          LET missing == {c \in Last .. Max(DOMAIN table') : c \notin DOMAIN table'}
              half == {c \in Last .. Max(DOMAIN table') - 1 : c \in DOMAIN table' /\ table'[c] # PointsOf(c)}
          IN  /\ time - Start(Last) < Day => missing = {} /\ half = {}
              /\ time - Start(Last) < (MaxDays + 1) * Day => Cardinality(missing) * Candle < Day]_sync

\* A candle loses points only where the chart that replaces it begins.
LosesOnlyAtTheEdge ==
    [][\A c \in DOMAIN table :
          c \in DOMAIN table' /\ (table[c] \subseteq table'[c] \/ c = Min({d \in DOMAIN table : table'[d] # table[d]}))]_sync
=============================================================================
