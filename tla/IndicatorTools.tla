---------------------------- MODULE IndicatorTools ----------------------------
(***************************************************************************)
(* The technical indicators (internal/indicators), down to the signal each *)
(* derives.  Prices are integers and averages are kept as fractions over a *)
(* common scale; what the indicator library computes is external.          *)
(***************************************************************************)
EXTENDS Integers, Sequences, FiniteSets, Functions

CONSTANTS
    None,           \* no answer yet, or an argument left out
    Prices,         \* closing prices
    MaxPrices,      \* bound: length of a series
    Bars, MaxBars,  \* triples of a low, a close and a high; bound: how many
    Periods         \* periods asked for, None for the default

IndicatorAssumption ==
    /\ Prices \subseteq Int /\ MaxPrices \in Nat /\ Bars \subseteq Int \X Int \X Int /\ MaxBars \in Nat
    /\ Periods \subseteq Int \cup {None} /\ None \notin Int

VARIABLES
    question,    \* the tool and its arguments
    reply        \* an error, or a signal, which JSON may have no number for

indicators == <<question, reply>>

Error == [ok |-> FALSE]
Signal(s) == [ok |-> TRUE, signal |-> s, encodable |-> TRUE]

\* From a first value at m, each next one is what there is times a, and b's value.
Gather(a, first, b, m, n) ==
    LET W[j \in m .. n] == IF j = m THEN first ELSE W[j - 1] * a + b[j]
    IN  W[n]

Pow(x, n) == Gather(x, 1, [i \in 1 .. n |-> 0], 0, n)
SumOf(s) == Gather(1, 0, s, 0, Len(s))
Abs(x) == IF x < 0 THEN -x ELSE x
ExtractPeriod(r, default) == IF r.period = None THEN default ELSE r.period

\* Wilder's average of a series after its i-th value, i >= p, times p^(i - p + 1):
\* the mean of the first p values, then one part in p of each value.
SmoothWilder(s, p, i) == Gather(p - 1, SumOf(SubSeq(s, 1, p)), [j \in p + 1 .. i |-> s[j] * Pow(p, j - p)], p, i)

-----------------------------------------------------------------------------
(* RSI, which the library divides by the losses: with no change, it is no   *)
(* number.                                                                 *)
Changes(s) == [i \in 1 .. Len(s) - 1 |-> s[i + 1] - s[i]]
Gains(s) == [i \in DOMAIN s |-> IF s[i] > 0 THEN s[i] ELSE 0]
Negated(s) == [i \in DOMAIN s |-> -s[i]]

RSISignal(gain, loss) ==
    IF 100 * gain < 30 * (gain + loss) THEN "oversold" ELSE IF 100 * gain > 70 * (gain + loss) THEN "overbought" ELSE "neutral"

CalculateRSI(r) ==
    LET n == Len(r.prices)
        p == ExtractPeriod(r, 14)
        gain == SmoothWilder(Gains(Changes(r.prices)), p, n - 1)
        loss == SmoothWilder(Gains(Negated(Changes(r.prices))), p, n - 1)
    IN  IF p < 1 \/ p > n \/ p = n THEN Error
        ELSE IF gain + loss = 0 THEN [Signal("neutral") EXCEPT !.encodable = FALSE]
        ELSE Signal(RSISignal(gain, loss))

-----------------------------------------------------------------------------
(* MACD: crossing of the histogram's last two values, from the library.     *)
Crossover(before, now) ==
    CASE before <= 0 /\ now > 0 -> "bullish" [] before >= 0 /\ now < 0 -> "bearish" [] OTHER -> "none"

\* The least series has one value of the histogram only.
CalculateMACD(r) ==
    IF r.fast < 1 \/ r.slow < 1 \/ r.signal < 1 \/ r.fast >= r.slow \/ r.n < r.slow + r.signal THEN Error
    ELSE Signal(IF r.values < 2 THEN "none" ELSE Crossover(r.before, r.now))

-----------------------------------------------------------------------------
(* Bollinger bands of two deviations, whatever std_dev says.                *)
CalculateBollingerBands(r) ==
    LET n == Len(r.prices)
        p == ExtractPeriod(r, 20)
        window == SubSeq(r.prices, n - p + 1, n)
        off == p * r.prices[n] - SumOf(window)
        twoDeviations == 4 * (p * SumOf([i \in 1 .. p |-> window[i] * window[i]]) - SumOf(window) * SumOf(window))
    IN  IF p < 2 \/ p > n \/ r.stdDev <= 0 THEN Error
        ELSE Signal(IF off <= 0 /\ off * off >= twoDeviations THEN "buy" ELSE IF off >= 0 /\ off * off >= twoDeviations THEN "sell" ELSE "neutral")

-----------------------------------------------------------------------------
(* EMA, seeded with the mean of the first p prices; over p*(p+1)^(n-p).     *)
CalculateEMA(r) ==
    LET n == Len(r.prices)
        p == ExtractPeriod(r, 0)
        weighed == [i \in p + 1 .. n |-> 2 * r.prices[i] * p * Pow(p + 1, i - p - 1)]
        ema == Gather(p - 1, SumOf(SubSeq(r.prices, 1, p)), weighed, p, n)
        price == r.prices[n] * p * Pow(p + 1, n - p)
    IN  IF p < 1 \/ p > n THEN Error
        ELSE Signal(IF price > ema THEN "bullish" ELSE IF price < ema THEN "bearish" ELSE "neutral")

-----------------------------------------------------------------------------
(* ADX of bars: what moved up and down in each, smoothed, and how far apart *)
(* the two are, in percent, smoothed again.                                *)
Low(b) == b[1]
Close(b) == b[2]
High(b) == b[3]

PlusDM(s) ==
    [i \in DOMAIN s |->
        IF i = 1 THEN 0
        ELSE LET up == High(s[i]) - High(s[i - 1])
             IN  IF up > Low(s[i - 1]) - Low(s[i]) /\ up > 0 THEN up ELSE 0]

MinusDM(s) ==
    [i \in DOMAIN s |->
        IF i = 1 THEN 0
        ELSE LET down == Low(s[i - 1]) - Low(s[i])
             IN  IF down > High(s[i]) - High(s[i - 1]) /\ down > 0 THEN down ELSE 0]

\* Before a whole period there is none: the average of the distances starts at
\* zero.  A true range of zero is one in which nothing moved.
CalculateADXManual(s, p) ==
    LET DX(i) == LET plus == SmoothWilder(PlusDM(s), p, i)
                     minus == SmoothWilder(MinusDM(s), p, i)
                 IN  IF plus + minus = 0 THEN 0 ELSE (100 * Abs(plus - minus)) \div (plus + minus)
    IN  SmoothWilder([i \in DOMAIN s |-> IF i <= p THEN 0 ELSE DX(i)], p, Len(s))

CalculateADX(r) ==
    LET p == ExtractPeriod(r, 14)
        adx == CalculateADXManual(r.bars, p)
        AtLeast(percent) == adx >= percent * Pow(p, Len(r.bars) - p + 1)
    IN  IF ~ r.sameLength \/ p < 1 \/ Len(r.bars) < 2 * p \/ adx = 0 THEN Error
        ELSE Signal(IF AtLeast(50) THEN "very_strong" ELSE IF AtLeast(25) THEN "strong" ELSE "weak")

-----------------------------------------------------------------------------
Series == UNION {[1 .. n -> Prices] : n \in 1 .. MaxPrices}

Questions ==
    [tool : {"rsi", "ema"}, prices : Series, period : Periods] \cup
    [tool : {"bollinger"}, prices : Series, period : Periods, stdDev : {0, 2, 3}] \cup
    [tool : {"macd"}, fast : 0 .. 2, slow : 1 .. 2, signal : 0 .. 1, n : 1 .. 3, values : 1 .. 2, before : -1 .. 1, now : -1 .. 1] \cup
    [tool : {"adx"}, bars : UNION {[1 .. n -> Bars] : n \in 1 .. MaxBars}, sameLength : BOOLEAN, period : Periods]

Compute(r) ==
    CASE r.tool = "rsi" -> CalculateRSI(r) [] r.tool = "macd" -> CalculateMACD(r) [] r.tool = "bollinger" -> CalculateBollingerBands(r)
      [] r.tool = "ema" -> CalculateEMA(r) [] r.tool = "adx" -> CalculateADX(r)

IndicatorInit == question \in Questions /\ reply = None

CallIndicator ==
    /\ reply = None
    /\ reply' = Compute(question)
    /\ UNCHANGED question

IndicatorSpec == IndicatorInit /\ [][CallIndicator]_indicators

-----------------------------------------------------------------------------
\* The same market upside down.
Mirror(r) ==
    CASE r.tool \in {"rsi", "ema", "bollinger"} -> [r EXCEPT !.prices = Negated(@)]
      [] r.tool = "macd" -> [r EXCEPT !.before = -@, !.now = -@]
      [] r.tool = "adx" -> [r EXCEPT !.bars = [i \in DOMAIN @ |-> <<-High(@[i]), -Close(@[i]), -Low(@[i])>>]]

Opposite == [oversold |-> "overbought", overbought |-> "oversold", bullish |-> "bearish", bearish |-> "bullish", buy |-> "sell", sell |-> "buy"]
OppositeOf(s) == IF s \in DOMAIN Opposite THEN Opposite[s] ELSE s

\* No indicator leans to one side: upside down, a market has the opposite signal
\* and the same strength, but for a market without movement, which Bollinger's
\* bands call a purchase either way.
SignalsMirror ==
    reply # None =>
        LET mirrored == Compute(Mirror(question))
        IN  \/ reply.ok = mirrored.ok /\ (reply.ok => mirrored.signal = OppositeOf(reply.signal))
            \/ question.tool = "bollinger" /\ reply.signal = "buy" /\ mirrored.signal = "buy"

\* A market that goes one way throughout is a very strong trend, however little of it
\* there is, although the average starts at zero (calculateADXManual).
OneWayIsStrong ==
    reply # None /\ question.tool = "adx" /\ reply.ok =>
        LET s == question.bars
            Up(i) == High(s[i]) > High(s[i - 1]) /\ Low(s[i]) >= Low(s[i - 1])
        IN  (\A i \in 2 .. Len(s) : Up(i)) => reply.signal = "very_strong"

\* Only an RSI of prices that did not change is no number: all of them, or with
\* a period of one the last two (CalculateRSI).
NumbersOfMovement ==
    reply # None /\ reply.ok /\ ~ reply.encodable =>
        /\ question.tool = "rsi"
        /\ LET prices == question.prices
           IN  Cardinality(Range(IF question.period = 1 THEN SubSeq(prices, Len(prices) - 1, Len(prices)) ELSE prices)) = 1
=============================================================================
