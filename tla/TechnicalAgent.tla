--------------------------- MODULE TechnicalAgent ---------------------------
(***************************************************************************)
(* The technical agent (cmd/agents/technical-agent/main.go): its beliefs,  *)
(* the indicators it asks a tool server for, and the signal it makes of    *)
(* them, by a model or by rules.                                           *)
(* A step is one action: nothing else writes the agent's state.  It is     *)
(* called directly, for Run of the embedded BaseAgent does not reach it.   *)
(* So are, as in the tests, updateBeliefs and generateSignalRuleBased with *)
(* indicators that no step gets: CallMCPTool hands over a result that      *)
(* the parse functions do not take.  Confidences are percentages.          *)
(***************************************************************************)
EXTENDS Integers, Sequences, SequencesExt, FiniteSets

CONSTANTS
    None,        \* an indicator that is missing
    RSIs,        \* values of the relative strength index
    Histograms,  \* of the MACD, in thousandths
    EMADiffs,    \* short average less the long one, in percent of the long one
    Weights,     \* confidence_weights of the configuration; none is {}
    MaxSteps     \* bound: steps and direct calls

VARIABLES
    indicators,  \* currentIndicators
    beliefs,     \* about the trend, and the indicators it was made from
    signal,      \* the last signal made
    published,   \* the last signal that was published
    steps,
    weights      \* confidenceWeights

technical == <<indicators, beliefs, signal, published, steps, weights>>

TechnicalAssumption ==
    /\ RSIs \subseteq Int /\ Histograms \subseteq Int /\ EMADiffs \subseteq Int /\ MaxSteps \in Nat
    /\ None \notin RSIs /\ None \notin Histograms /\ None \notin EMADiffs
    /\ None \notin {"buy", "sell", "neutral", "bullish", "bearish"}
    /\ \A w \in Weights : \A name \in DOMAIN w : w[name] \in Nat

Sides == {"BUY", "SELL", "HOLD"}
Names == {"rsi", "macd", "boll", "ema"}
Bands == {"buy", "sell", "neutral"}
Nothing == [n \in Names |-> None]
Values == [rsi |-> RSIs, macd |-> Histograms, boll |-> Bands, ema |-> EMADiffs]
AllIndicators ==
    [rsi : RSIs \cup {None}, macd : Histograms \cup {None}, boll : Bands \cup {None}, ema : EMADiffs \cup {None}]
NoBelief == [val |-> None, at |-> 0]
NoSignal == [side |-> "HOLD", conf |-> 0, of |-> 1, by |-> "nobody"]
AtMost(n, bound) == IF n > bound THEN bound ELSE n
AtLeast(n, bound) == IF n < bound THEN bound ELSE n
Abs(n) == IF n < 0 THEN -n ELSE n

TechnicalTypeOK ==
    /\ indicators \in AllIndicators
    /\ \A k \in DOMAIN beliefs : beliefs[k].at \in 0 .. steps
    /\ beliefs.trend.val \in {None, "bullish", "bearish", "neutral"}
    /\ signal.side \in Sides /\ published.side \in Sides /\ steps \in 0 .. MaxSteps

\* NewTechnicalAgent: no beliefs; the weights come from the configuration.
TechnicalInit ==
    /\ indicators = Nothing /\ steps = 0
    /\ beliefs = [k \in {"rsi", "macd", "boll", "trend"} |-> NoBelief]
    /\ signal = NoSignal /\ published = NoSignal
    /\ weights \in Weights

-----------------------------------------------------------------------------
(* Indicators.                                                             *)

\* What CallMCPTool returns: never the map that is asked for.
CallTool(value) == [type |-> "CallToolResult", value |-> value]

\* parseRSIResult and its like: a map with the fields of the indicator.
Parse(result) == IF result.type = "map" THEN result.value ELSE None

\* calculateIndicators: one that fails is left out.
CalculateIndicators(answers) == [n \in Names |-> Parse(CallTool(answers[n]))]

-----------------------------------------------------------------------------
(* Beliefs.                                                                *)

\* The words of the indicator server for an index and for a histogram.
RSISignal(v) == IF v < 30 THEN "oversold" ELSE IF v > 70 THEN "overbought" ELSE "neutral"
Crossover(h) == IF h > 0 THEN "bullish" ELSE IF h < 0 THEN "bearish" ELSE "noCrossover"

\* The signals that count are "buy" and "sell".
TrendVotes(ind) ==
    LET said == [rsi |-> IF ind.rsi = None THEN None ELSE RSISignal(ind.rsi),
                 macd |-> IF ind.macd = None THEN None ELSE Crossover(ind.macd),
                 boll |-> ind.boll]
    IN  [buy |-> Cardinality({n \in DOMAIN said : said[n] = "buy"}),
         sell |-> Cardinality({n \in DOMAIN said : said[n] = "sell"})]

OverallTrend(ind) ==
    LET votes == TrendVotes(ind)
    IN  IF votes.buy > votes.sell THEN "bullish" ELSE IF votes.sell > votes.buy THEN "bearish" ELSE "neutral"

Believe(old, val, at) == IF val = None THEN old ELSE [val |-> val, at |-> at]

\* Mutant: what is not known any more is forgotten, but for the index.
UpdateAllBeliefs(ind, at) ==
    [rsi |-> Believe(beliefs.rsi, ind.rsi, at), macd |-> [val |-> ind.macd, at |-> at],
     boll |-> Believe(beliefs.boll, IF ind.rsi = None THEN None ELSE ind.boll, at), trend |-> [val |-> OverallTrend(ind), at |-> at]]

\* updateBeliefs: the belief about an indicator that is missing stays.
UpdateBeliefs(ind, at) ==
    [rsi |-> Believe(beliefs.rsi, ind.rsi, at), macd |-> Believe(beliefs.macd, ind.macd, at),
     boll |-> Believe(beliefs.boll, ind.boll, at), trend |-> [val |-> OverallTrend(ind), at |-> at]]

-----------------------------------------------------------------------------
(* The signal by rules.                                                    *)

Vote(side, conf) == [side |-> side, conf |-> conf]
NoVote == Vote("none", 0)

AnalyzeRSI(v) ==
    IF v <= 30 THEN Vote("BUY", 50 + ((30 - v) * 50) \div 30)
    ELSE IF v >= 70 THEN Vote("SELL", 50 + ((v - 70) * 50) \div 30)
    ELSE Vote("HOLD", (AtMost(v - 30, 70 - v) * 100) \div 20)

AnalyzeMACD(h) ==
    IF h > 0 THEN Vote("BUY", AtMost(h, 100))
    ELSE IF h < 0 THEN Vote("SELL", AtMost(-h, 100))
    ELSE Vote("HOLD", 30)

\* The bands lie evenly around the middle.
AnalyzeBollinger(b) == Vote(IF b = "buy" THEN "BUY" ELSE IF b = "sell" THEN "SELL" ELSE "HOLD", 50)

AnalyzeEMATrend(d) ==
    IF d = 0 THEN Vote("HOLD", 30)
    ELSE Vote(IF d > 0 THEN "BUY" ELSE "SELL", AtLeast(AtMost(Abs(d) * 50, 100), 50))

\* An indicator that is missing has no vote.
Votes(ind) ==
    [rsi |-> IF ind.rsi = None THEN NoVote ELSE AnalyzeRSI(ind.rsi),
     macd |-> IF ind.macd = None THEN NoVote ELSE AnalyzeMACD(ind.macd),
     boll |-> IF ind.boll = None THEN NoVote ELSE AnalyzeBollinger(ind.boll),
     ema |-> IF ind.ema = None THEN NoVote ELSE AnalyzeEMATrend(ind.ema)]

\* Weights that are not configured have defaults; that of the averages is called "trend".
WeightOf(n) ==
    LET name == IF n = "ema" THEN "trend" ELSE n
        default == [rsi |-> 25, macd |-> 25, boll |-> 20, trend |-> 20]
    IN  IF name \in DOMAIN weights THEN weights[name] ELSE default[name]

Score(votes, side) ==
    SumFunction([n \in Names |-> IF votes[n].side = side THEN votes[n].conf * WeightOf(n) ELSE 0])

TotalWeight(votes) == SumFunction([n \in Names |-> IF votes[n] = NoVote THEN 0 ELSE WeightOf(n)])

\* combineSignals: the confidence is a score in parts of the total weight.
Combine(votes) ==
    LET first == IF Score(votes, "SELL") >= Score(votes, "BUY") THEN "SELL" ELSE "BUY"
        final == IF Score(votes, "HOLD") >= Score(votes, first) THEN "HOLD" ELSE first
        total == TotalWeight(votes)
    IN  [side |-> final, conf |-> Score(votes, final), of |-> IF total = 0 THEN 1 ELSE total, by |-> "rules"]

RuleBased(ind) == Combine(Votes(ind))

-----------------------------------------------------------------------------
(* The signal by a model.                                                  *)

\* What becomes of the request: no usable answer, or a side, which may be a word
\* that is none, with an action in its metadata.
ModelReplies == {[ok |-> FALSE]} \cup [ok : {TRUE}, side : Sides \cup {"hold"}, action : Sides \cup {None}, conf : {50, 150}]

BySide(reply) ==
    IF reply.side \in Sides THEN reply.side ELSE IF reply.action \in Sides THEN reply.action ELSE "HOLD"

GenerateSignalWithLLM(ind, reply) ==
    IF ~ reply.ok THEN RuleBased(ind)
    ELSE [side |-> BySide(reply), conf |-> reply.conf, of |-> 1, by |-> "model"]

\* generateSignal: useLLM is part of the reply, as no answer.
GenerateSignal(ind, reply) == GenerateSignalWithLLM(ind, reply)

-----------------------------------------------------------------------------
(* Steps.                                                                  *)

\* No candles, or none that can be read: the step ends before its analysis.
StepWithoutData ==
    /\ steps < MaxSteps /\ steps' = steps + 1
    /\ UNCHANGED <<indicators, beliefs, signal, published, weights>>

\* A publication that fails is only logged.
Step ==
    /\ steps < MaxSteps /\ steps' = steps + 1
    /\ \E answers \in {Nothing, [rsi |-> 15, macd |-> 50, boll |-> "buy", ema |-> 2]}, reply \in ModelReplies :
          LET ind == CalculateIndicators(answers)
          IN  /\ indicators' = ind
              /\ beliefs' = UpdateBeliefs(ind, steps + 1)
              /\ signal' = GenerateSignal(ind, reply)
    /\ published' \in {published, signal'}
    /\ UNCHANGED weights

\* updateBeliefs and generateSignalRuleBased, called with any indicators.
Analyse ==
    /\ steps < MaxSteps /\ steps' = steps + 1
    /\ \E ind \in AllIndicators :
          /\ indicators' = ind
          /\ beliefs' = UpdateBeliefs(ind, steps + 1)
          /\ signal' = RuleBased(ind)
    /\ UNCHANGED <<published, weights>>

TechnicalNext == StepWithoutData \/ Step \/ Analyse

TechnicalSpec == TechnicalInit /\ [][TechnicalNext]_technical

-----------------------------------------------------------------------------
(* Properties.                                                             *)

\* A belief is older than the trend it stands beside only if its indicator was
\* missing when the trend was last made (updateBeliefs).
StaleOnlyIfMissing ==
    \A n \in {"rsi", "macd", "boll"} :
        beliefs[n].at < beliefs.trend.at => indicators[n] = None

\* The trend the agent believes in is that of the Bollinger bands alone: the
\* words of the index and of the crossover are counted by nobody
\* (updateBeliefs; internal/indicators).
TrendIsBollinger ==
    beliefs.trend.val \in {"bullish", "bearish"} =>
        /\ beliefs.boll.at = beliefs.trend.at
        /\ beliefs.boll.val = IF beliefs.trend.val = "bullish" THEN "buy" ELSE "sell"

\* More support for a side never turns the signal to another one: not an index
\* further from its bounds, not a wider gap, not an indicator that joins it
\* (combineSignals and the analyze functions).
SupportNeverHurts ==
    (signal.by = "rules" /\ signal.side # "HOLD") =>
        \A n \in Names : \A val \in Values[n] :
            LET other == [indicators EXCEPT ![n] = val]
                before == Votes(indicators)[n]
                after == Votes(other)[n]
            IN  (/\ after.side = signal.side
                 /\ before = NoVote \/ (before.side = signal.side /\ before.conf <= after.conf))
                => RuleBased(other).side = signal.side

\* A step that goes by rules holds: no indicator ever reaches it
\* (parseRSIResult and its like, CallMCPTool).
RulesHold == (published.by = "rules") => published.side = "HOLD" /\ published.conf = 0
=============================================================================
