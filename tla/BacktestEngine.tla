---------------------------- MODULE BacktestEngine ----------------------------
(***************************************************************************)
(* The backtest engine (pkg/backtest/engine.go, kelly.go) driven by the    *)
(* replay of agents (pkg/backtest/agent_replay.go): every step marks the   *)
(* open positions, records the equity and moves each symbol on by a        *)
(* candle; then the agents are asked about each symbol and the signals of  *)
(* their consensus are executed.                                           *)
(* Maps are iterated in any order.  Quantities and commissions are whole:  *)
(* the floats of the code are rounded down.  Time is in steps of more than *)
(* a minute.                                                               *)
(***************************************************************************)
EXTENDS Integers, Sequences, SequencesExt, FiniteSets, FiniteSetsExt, Functions

CONSTANTS
    Agents,       \* the agents replayed
    Histories,    \* candles of the symbols that were loaded, in order of time
    Consensuses,  \* "first", "all", "majority", "unanimous", "weighted"
    Sizings,      \* "fixed", "percent", "kelly", "default"
    Answers,      \* what an agent may say of a symbol, None for nothing
    None,         \* no signal, and the symbol of a signal that has none
    Capital,      \* initial capital
    RatePct,      \* commission, in percent of the value
    FixedSize,    \* PositionSize: an amount where it is "fixed", else in hundredths
    KellyTrades,  \* closed positions the Kelly criterion needs
    MaxPositions  \* positions open at a time

\* Candles are sorted when they are loaded; a commission is not more than what is traded.
BacktestAssumption ==
    /\ IsFiniteSet(Agents) /\ Answers \subseteq [side : {"BUY", "SELL", "HOLD"}, confidence : Nat] \cup {None}
    /\ Consensuses \subseteq {"first", "all", "majority", "unanimous", "weighted"}
    /\ Sizings \subseteq {"fixed", "percent", "kelly", "default"}
    /\ Capital \in Nat /\ RatePct \in 0 .. 100 /\ FixedSize \in Nat /\ KellyTrades \in Nat
    /\ \A h \in Histories :
          /\ IsFiniteSet(DOMAIN h) /\ None \notin DOMAIN h
          /\ \A s \in DOMAIN h :
                /\ h[s] \in Seq([time : Nat, close : Nat \ {0}])
                /\ \A i, j \in DOMAIN h[s] : i < j => h[s][i].time <= h[s][j].time

VARIABLES data, consensus, sizing,  \* what the run is about
    stage,     \* "step", "signals", "execute", "done", "cancelled"
    index,     \* the current candle of each symbol
    books,     \* cash, open and closed positions, profit and loss
    curve,     \* the equity curve
    drawdown,  \* peak, largest drawdown and its percentage
    unasked,   \* symbols the agents were not asked about in this step
    signals,   \* signals still to be executed
    bought     \* BUY signals of the agents

engine == <<data, consensus, sizing, stage, index, books, curve, drawdown, unasked, signals, bought>>

Loaded == DOMAIN data
Open == DOMAIN books.open
HasCandle(s) == index[s] <= Len(data[s])
Candle(s) == data[s][index[s]]
Now == curve[Len(curve)].time

Equity(b) == b.cash + SumFunction([s \in DOMAIN b.open |-> b.open[s].mark * b.open[s].qty])

BacktestInit ==
    /\ data \in Histories /\ consensus \in Consensuses /\ sizing \in Sizings
    /\ stage = "step"
    /\ index = [s \in Loaded |-> 1]
    /\ books = [cash |-> Capital, open |-> <<>>, closed |-> <<>>, profit |-> 0, loss |-> 0]
    /\ curve = <<>> /\ drawdown = [peak |-> Capital, max |-> 0, pct |-> 0]
    /\ unasked = {} /\ signals = <<>> /\ bought = {}

-----------------------------------------------------------------------------
(* Orders.  An operator takes the books before and gives those after.      *)

Commission(value) == (value * RatePct) \div 100

\* The part of Kelly's percentage that is used: PositionSize, or a quarter where
\* that is no fraction.
KellyFraction == IF FixedSize \in 1 .. 100 THEN FixedSize ELSE 25

\* CalculatePositionSize of the Kelly calculator, in percent of the equity:
\* that part of W/T - (W * loss) / (T * profit), between 1 and 25.
KellyPct(b) ==
    LET all == Len(b.closed)
        won == Cardinality({i \in 1 .. all : b.closed[i].pl > 0})
        kelly == (100 * won * (b.profit + b.loss)) \div (all * b.profit)
        adjusted == (kelly * KellyFraction) \div 100
    IN  IF all < KellyTrades \/ won = 0 \/ won = all \/ b.loss = 0 THEN 10
        ELSE IF kelly <= 0 \/ adjusted < 1 THEN 1
        ELSE IF adjusted > 25 THEN 25 ELSE adjusted

PositionSize(b, price) ==
    CASE sizing = "fixed" -> FixedSize \div price
      [] sizing = "percent" -> ((Equity(b) * FixedSize) \div 100) \div price
      [] sizing = "kelly" -> ((Equity(b) * KellyPct(b)) \div 100) \div price
      [] sizing = "default" -> 1000 \div price

\* A position more.
Opened(open, s, position) == [t \in DOMAIN open \cup {s} |-> IF t = s THEN position ELSE open[t]]

Buy(b, s, candle) ==
    LET qty == PositionSize(b, candle.close)
        value == qty * candle.close
    IN  IF \/ s \in DOMAIN b.open \/ Cardinality(DOMAIN b.open) >= MaxPositions
           \/ qty <= 0 \/ b.cash < value + Commission(value)
        THEN b
        ELSE [b EXCEPT !.cash = @ - value - Commission(value),
                       !.open = Opened(@, s, [entry |-> candle.close, qty |-> qty, at |-> candle.time,
                                              fee |-> Commission(value), mark |-> candle.close])]

\* Mutant: the commission of the purchase is forgotten.
SellWithoutFee(b, s, candle) ==
    IF s \notin DOMAIN b.open THEN b
    ELSE LET p == b.open[s]
             proceeds == p.qty * candle.close - Commission(p.qty * candle.close)
             pl == proceeds - p.entry * p.qty
         IN  [b EXCEPT !.cash = @ + proceeds,
                       !.open = Restrict(@, DOMAIN @ \ {s}),
                       !.closed = Append(@, [symbol |-> s, pl |-> pl, at |-> p.at, until |-> candle.time]),
                       !.profit = IF pl > 0 THEN @ + pl ELSE @,
                       !.loss = IF pl > 0 THEN @ ELSE @ + pl]

Sell(b, s, candle) ==
    IF s \notin DOMAIN b.open THEN b
    ELSE LET p == b.open[s]
             proceeds == p.qty * candle.close - Commission(p.qty * candle.close)
             pl == proceeds - p.entry * p.qty - p.fee
         IN  [b EXCEPT !.cash = @ + proceeds,
                       !.open = Restrict(@, DOMAIN @ \ {s}),
                       !.closed = Append(@, [symbol |-> s, pl |-> pl, at |-> p.at, until |-> candle.time]),
                       !.profit = IF pl > 0 THEN @ + pl ELSE @,
                       !.loss = IF pl > 0 THEN @ ELSE @ + pl]

-----------------------------------------------------------------------------
(* Steps of the engine.                                                    *)

\* recordEquityPoint: the percentage is the one of the largest amount.
Drawdown(equity) ==
    LET peak == IF equity > drawdown.peak THEN equity ELSE drawdown.peak
        fall == peak - equity
    IN  IF fall > drawdown.max THEN [peak |-> peak, max |-> fall, pct |-> (100 * fall) \div peak]
        ELSE [drawdown EXCEPT !.peak = peak]

Marked == [books EXCEPT !.open = [s \in Open |->
              IF HasCandle(s) THEN [@[s] EXCEPT !.mark = Candle(s).close] ELSE @[s]]]

EngineStep ==
    /\ stage = "step" /\ \E s \in Loaded : HasCandle(s)
    /\ LET now == Min({Candle(s).time : s \in {t \in Loaded : HasCandle(t)}})
           moved == {s \in Loaded : HasCandle(s) /\ Candle(s).time <= now}
       IN  /\ curve' = Append(curve, [time |-> now, equity |-> Equity(Marked)])
           /\ index' = [s \in Loaded |-> IF s \in moved THEN index[s] + 1 ELSE index[s]]
    /\ books' = Marked /\ drawdown' = Drawdown(Equity(Marked))
    /\ stage' = "signals" /\ unasked' = Loaded
    /\ UNCHANGED <<data, consensus, sizing, signals, bought>>

ExecuteSignal ==
    /\ stage = "execute" /\ signals # <<>>
    /\ LET signal == Head(signals)
           s == signal.symbol
       IN  books' = IF s \notin Loaded \/ signal.side = "HOLD" THEN books
                    ELSE IF ~ HasCandle(s) THEN books
                    ELSE IF signal.side = "BUY" THEN Buy(books, s, Candle(s)) ELSE Sell(books, s, Candle(s))
    /\ signals' = Tail(signals)
    /\ UNCHANGED <<data, consensus, sizing, stage, index, curve, drawdown, unasked, bought>>

\* closeAllPositions: those whose symbol has a current candle.
CloseAllPositions(b) ==
    FoldSet(LAMBDA s, acc : Sell(acc, s, Candle(s)), b, {s \in DOMAIN b.open : HasCandle(s)})

Finish ==
    /\ stage = "step" /\ \A s \in Loaded : ~ HasCandle(s)
    /\ books' = CloseAllPositions(books) /\ stage' = "done"
    /\ UNCHANGED <<data, consensus, sizing, index, curve, drawdown, unasked, signals, bought>>

\* The context of the run is cancelled.
Cancel ==
    /\ stage = "step" /\ stage' = "cancelled"
    /\ UNCHANGED <<data, consensus, sizing, index, books, curve, drawdown, unasked, signals, bought>>

-----------------------------------------------------------------------------
(* The agents and their consensus.                                         *)

\* applyConsensus: what may come of the answers, taken in any order.  The
\* signal of a vote has no symbol.
ApplyConsensus(s, said) ==
    LET heard == {a \in Agents : said[a] # None}
        sides == {said[a].side : a \in heard}
        votes(side) == Cardinality({a \in heard : said[a].side = side})
        weight(side) == MapThenSumSet(LAMBDA a : said[a].confidence, {a \in heard : said[a].side = side})
        Own(a) == [symbol |-> s, side |-> said[a].side]
        Most(n(_)) == {d \in sides : n(d) > 0 /\ \A e \in sides : n(e) <= n(d)}
        Voted(winners) == {IF d = "HOLD" THEN <<>> ELSE <<[symbol |-> None, side |-> d]>> : d \in winners}
    IN  IF heard = {} THEN {<<>>}
        ELSE CASE consensus = "first" -> {<<Own(a)>> : a \in heard}
               [] consensus = "all" -> {[i \in DOMAIN order |-> Own(order[i])] : order \in SetToSeqs(heard)}
               [] consensus = "majority" -> Voted(Most(votes))
               [] consensus = "weighted" -> IF Most(weight) = {} THEN {<<>>} ELSE Voted(Most(weight))
               [] consensus = "unanimous" ->
                     IF Cardinality(sides) > 1 THEN {<<>>}
                     ELSE {<<[symbol |-> None, side |-> d]>> : d \in sides}

\* GenerateSignals, for one symbol of those in any order.
AskAgents(s) ==
    /\ stage = "signals" /\ s \in unasked /\ unasked' = unasked \ {s}
    /\ IF ~ HasCandle(s) THEN UNCHANGED <<signals, bought>>
       ELSE \E said \in [Agents -> Answers] :
               /\ \E made \in ApplyConsensus(s, said) : signals' = signals \o made
               /\ bought' = bought \cup {<<a, s, Candle(s).time>> :
                                         a \in {b \in Agents : said[b] # None /\ said[b].side = "BUY"}}
    /\ UNCHANGED <<data, consensus, sizing, stage, index, books, curve, drawdown>>

SignalsAreIn ==
    /\ stage = "signals" /\ unasked = {} /\ stage' = "execute"
    /\ UNCHANGED <<data, consensus, sizing, index, books, curve, drawdown, unasked, signals, bought>>

StepEnds ==
    /\ stage = "execute" /\ signals = <<>> /\ stage' = "step"
    /\ UNCHANGED <<data, consensus, sizing, index, books, curve, drawdown, unasked, signals, bought>>

BacktestNext ==
    \/ EngineStep \/ ExecuteSignal \/ StepEnds \/ Finish \/ Cancel \/ SignalsAreIn
    \/ \E s \in Loaded : AskAgents(s)

BacktestSpec == BacktestInit /\ [][BacktestNext]_engine /\ WF_engine(BacktestNext)

-----------------------------------------------------------------------------
(* Properties.                                                             *)

\* A run is at one stage, and neither cash nor a position is negative.
BacktestTypeOK ==
    /\ stage \in {"step", "signals", "execute", "done", "cancelled"}
    /\ books.cash >= 0 /\ books.loss <= 0 /\ books.profit >= 0
    /\ Open \subseteq Loaded /\ \A s \in Open : books.open[s].qty > 0

\* What was paid is accounted for: cash is the capital with what was realised,
\* less what the open positions cost with their commissions (executeBuy,
\* executeSell).
BooksBalance ==
    books.cash = Capital + books.profit + books.loss
                 - SumFunction([s \in Open |-> books.open[s].entry * books.open[s].qty + books.open[s].fee])

\* The largest drawdown is the deepest fall of the equity curve, from the
\* capital or from any point before (recordEquityPoint).
DrawdownIsOfCurve ==
    LET value(i) == IF i = 0 THEN Capital ELSE curve[i].equity
        n == Len(curve)
    IN  drawdown.max = Max({value(p[1]) - value(p[2]) : p \in {q \in (0 .. n) \X (0 .. n) : q[1] <= q[2]}})

\* The symbols have candles of the same times, one at each.
Aligned ==
    /\ \A s, t \in Loaded : \A i \in DOMAIN data[s] : \E j \in DOMAIN data[t] : data[t][j].time = data[s][i].time
    /\ \A s \in Loaded : \A i, j \in DOMAIN data[s] : i < j => data[s][i].time < data[s][j].time

\* Where the symbols are aligned, positions are marked at the prices of the time
\* of the step, and no trade is made at a candle the engine has passed; otherwise a mark can be of a later time (Step).
MarksAreOfTheTime ==
    (Aligned /\ stage = "signals") =>
        \A s \in Open : \E i \in DOMAIN data[s] :
            /\ data[s][i] = [time |-> Now, close |-> books.open[s].mark]
            /\ books.open[s].at <= Now

\* A symbol is bought again only after it was sold.
PositionsFollowEachOther ==
    \A i, j \in DOMAIN books.closed :
        (i < j /\ books.closed[i].symbol = books.closed[j].symbol) => books.closed[i].until <= books.closed[j].at

\* calculateSignalAccuracy.
Judged(a) == {i \in DOMAIN books.closed : <<a, books.closed[i].symbol, books.closed[i].at>> \in bought}

\* Every closed position counts for or against an agent that said to buy.
EntriesAreJudged == stage = "done" => UNION {Judged(a) : a \in Agents} = DOMAIN books.closed

\* A run ends.
BacktestsEnd == <>(stage \in {"done", "cancelled"})
=============================================================================
