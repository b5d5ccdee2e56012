----------------------------- MODULE TrendAgent -----------------------------
(***************************************************************************)
(* The trend agent (cmd/agents/trend-agent/main.go).  A step fetches       *)
(* prices, asks for two averages and a trend strength, makes a signal by a *)
(* model or by rules, gives it stop and target, and follows the price with *)
(* a trailing stop; it takes time, in which control events are handled.    *)
(* It is called directly, for Run of the embedded BaseAgent does not reach *)
(* it.  Prices are small integers, percentages are of the price.           *)
(***************************************************************************)
EXTENDS Integers

CONSTANTS
    Prices,           \* prices of the symbol
    StopLossPct, TrailingStopPct,
    TakeProfits,       \* percentages the target may be configured to
    RiskRewardTimes10, \* riskRewardRatio, in tenths
    MaxSteps          \* bound: steps

VARIABLES
    takeProfitPct, \* of the configuration
    paused,       \* of BaseAgent
    trendStep,    \* the step in progress: nothing, or its price and averages
    lastSignal,
    highestPrice, lowestPrice, \* since the entry; 0 for none
    position,     \* the belief "position_state"
    trendSignal,  \* the last signal made
    trendSteps,
    pausedAt,     \* history: whether the step in progress, or the last one, began paused
    runPrices     \* history: prices of the signals since lastSignal last changed side

trend == <<takeProfitPct, paused, trendStep, lastSignal, highestPrice, lowestPrice, position, trendSignal,
           trendSteps, pausedAt, runPrices>>

TrendAssumption ==
    /\ Prices \subseteq Nat \ {0} /\ TakeProfits \subseteq Nat /\ MaxSteps \in Nat
    /\ StopLossPct \in Nat /\ TrailingStopPct \in Nat /\ RiskRewardTimes10 \in Nat

Sides == {"BUY", "SELL", "HOLD"}
Idle == [at |-> "idle"]
NoSignal == [side |-> "HOLD", price |-> 0, trail |-> 0, while |-> FALSE]
Maximum(S) == CHOOSE x \in S : \A y \in S : y <= x
Minimum(S) == CHOOSE x \in S : \A y \in S : y >= x

TrendTypeOK ==
    /\ takeProfitPct \in TakeProfits /\ paused \in BOOLEAN /\ trendStep.at \in {"idle", "analysing"}
    /\ lastSignal \in Sides \cup {"none"} /\ position \in {"unknown", "none", "long", "short"}
    /\ highestPrice \in Prices \cup {0} /\ lowestPrice \in Prices \cup {0}
    /\ trendSteps \in 0 .. MaxSteps /\ runPrices \subseteq Prices

TrendInit ==
    /\ takeProfitPct \in TakeProfits
    /\ paused = FALSE /\ trendStep = Idle /\ lastSignal = "none" /\ position = "unknown"
    /\ highestPrice = 0 /\ lowestPrice = 0 /\ trendSteps = 0
    /\ trendSignal = NoSignal /\ pausedAt = FALSE /\ runPrices = {}

-----------------------------------------------------------------------------
(* Stop, target and trailing stop, in hundredths of a price.               *)

CalculateStopLoss(price, side) == IF side = "BUY" THEN price * (100 - StopLossPct) ELSE price * (100 + StopLossPct)
CalculateTakeProfit(price, side) == IF side = "BUY" THEN price * (100 + takeProfitPct) ELSE price * (100 - takeProfitPct)
Abs(n) == IF n < 0 THEN -n ELSE n

\* calculateRiskReward against the ratio that is required.  Where they are equal
\* the rounding of the division decides.
RiskRewardPasses(price, side) ==
    LET risk == Abs(price * 100 - CalculateStopLoss(price, side))
        reward == Abs(CalculateTakeProfit(price, side) - price * 100)
    IN  IF risk = 0 THEN {RiskRewardTimes10 <= 0}
        ELSE IF reward * 10 = risk * RiskRewardTimes10 THEN BOOLEAN
        ELSE {reward * 10 > risk * RiskRewardTimes10}

\* updateTrailingStop: a side that differs from the last signal starts anew.
UpdateTrailingStop(price, side) ==
    LET high0 == IF side = lastSignal THEN highestPrice ELSE IF side = "BUY" THEN price ELSE 0
        low0 == IF side = lastSignal THEN lowestPrice ELSE IF side = "SELL" THEN price ELSE 0
        high == IF price > high0 THEN price ELSE high0
        low == IF low0 = 0 \/ price < low0 THEN price ELSE low0
    IN  CASE side = "BUY" -> [high |-> high, low |-> low0, trail |-> high * (100 - TrailingStopPct)]
          [] side = "SELL" -> [high |-> high0, low |-> low, trail |-> low * (100 + TrailingStopPct)]
          [] OTHER -> [high |-> highestPrice, low |-> lowestPrice, trail |-> 0]

-----------------------------------------------------------------------------
(* The signal.                                                             *)

\* calculateTrendIndicators: the order of the averages, and the strength, which
\* is weak when it cannot be had.
Indicators == [trend : {"uptrend", "downtrend", "ranging"}, strength : {"strong", "weak"}]

\* generateTrendSignalRuleBased, before risk and reward.
ByRules(ind) ==
    IF ind.strength = "strong" /\ ind.trend # "ranging"
    THEN IF ind.trend = "uptrend" THEN "BUY" ELSE "SELL"
    ELSE "HOLD"

\* generateSignalWithLLM, before risk and reward: a side that is none, or no
\* answer, leaves it to the rules.
ByModel(ind, reply) == IF reply \in Sides THEN reply ELSE ByRules(ind)

\* Both reject a side whose reward is too small for its risk.
Guarded(side, passes) == IF side # "HOLD" /\ ~ passes THEN "HOLD" ELSE side

-----------------------------------------------------------------------------
(* Steps.                                                                  *)

HandleControlEvent ==
    /\ paused' \in BOOLEAN \ {paused}
    /\ UNCHANGED <<takeProfitPct, trendStep, lastSignal, highestPrice, lowestPrice, position, trendSignal, trendSteps, pausedAt, runPrices>>

\* Prices are fetched and indicators calculated unless the agent is paused.
StepBegins ==
    /\ trendStep = Idle /\ trendSteps < MaxSteps /\ trendSteps' = trendSteps + 1
    /\ ~ paused /\ pausedAt' = paused
    /\ \E price \in Prices, ind \in Indicators : trendStep' = [at |-> "analysing", price |-> price, ind |-> ind]
    /\ UNCHANGED <<takeProfitPct, paused, lastSignal, highestPrice, lowestPrice, position, trendSignal, runPrices>>

\* No prices, no averages: the step ends and nothing is remembered.
StepFails ==
    /\ trendStep # Idle /\ trendStep' = Idle
    /\ UNCHANGED <<takeProfitPct, paused, lastSignal, highestPrice, lowestPrice, position, trendSignal, trendSteps, pausedAt, runPrices>>

\* updateBeliefs names the position of the signal before.
UpdateBeliefs == CASE lastSignal = "BUY" -> "long" [] lastSignal = "SELL" -> "short" [] OTHER -> "none"

\* Only a side that is kept moves the trailing stop.
StepSignals ==
    /\ trendStep # Idle /\ trendStep' = Idle
    /\ position' = UpdateBeliefs
    /\ \E reply \in Sides \cup {"unanswered"} :
       LET price == trendStep.price
           wanted == ByModel(trendStep.ind, reply)
       IN  \E passes \in RiskRewardPasses(price, wanted) :
           LET side == Guarded(wanted, passes)
               stops == UpdateTrailingStop(price, side)
           IN  /\ highestPrice' = stops.high /\ lowestPrice' = stops.low
               /\ trendSignal' = [side |-> side, price |-> price, trail |-> stops.trail, while |-> paused]
               /\ lastSignal' = side
               /\ runPrices' = IF side = lastSignal THEN runPrices \cup {price} ELSE {price}
    /\ UNCHANGED <<takeProfitPct, paused, trendSteps, pausedAt>>

TrendNext == HandleControlEvent \/ StepBegins \/ StepFails \/ StepSignals

TrendSpec == TrendInit /\ [][TrendNext]_trend

-----------------------------------------------------------------------------
(* Properties.                                                             *)

\* The trailing stop of a signal keeps its distance to the best price among the
\* signals of that side since the side last changed, a HOLD between two of them
\* included, which the agent takes for the end of the position
\* (updateTrailingStop, Step).
TrailsTheBestPrice ==
    /\ trendSignal.side = "BUY" => trendSignal.trail = Maximum(runPrices) * (100 - TrailingStopPct)
    /\ trendSignal.side = "SELL" => trendSignal.trail = Minimum(runPrices) * (100 + TrailingStopPct)

\* A signal of a paused agent is one whose step had begun before it was paused
\* (CheckPausedAndSkip, handleControlEvent).
PausedIsSilent == trendSignal.while => ~ pausedAt

\* With a reward that is not worth the risk the agent always holds, whatever the
\* trend and the model say (the configuration and the defaults of the agent ask
\* for twice the risk and set three to two).
NeverTradesBelowRatio ==
    takeProfitPct * 10 < StopLossPct * RiskRewardTimes10 => trendSignal.side = "HOLD"
=============================================================================
