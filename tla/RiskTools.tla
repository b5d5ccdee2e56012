------------------------------ MODULE RiskTools ------------------------------
(***************************************************************************)
(* The tools of the risk analyzer (cmd/mcp-servers/risk-analyzer/main.go). *)
(* A request has arguments that have passed the checks of their types, and *)
(* becomes an error, a value, or one that JSON has no number for.  Rates   *)
(* are percentages; returns, money and equity are integers.                *)
(***************************************************************************)
EXTENDS Integers, Sequences, SequencesExt, FiniteSets, FiniteSetsExt

CONSTANTS
    None,           \* a limit that is not given
    Returns,        \* returns of a period
    MaxPeriods,     \* bound: lengths of series
    Levels,         \* values of equity, of positions and of trades
    Confidences     \* confidence levels, in percent

\* A confidence is between none and all, exclusively.
RiskAssumption ==
    /\ Returns \subseteq Int /\ Levels \subseteq Int /\ MaxPeriods \in Nat /\ Confidences \subseteq 1 .. 99
    /\ None \notin Int

VARIABLES
    asked,    \* the last request
    answer    \* what it was answered

risk == <<asked, answer>>

Symbols == {"btc", "eth"}
Series(S) == UNION {[1 .. n -> S] : n \in 1 .. MaxPeriods}
Error == [ok |-> FALSE]

-----------------------------------------------------------------------------
(* calculate_position_size: the Kelly criterion.                           *)

KellyRequests ==
    [tool : {"kelly"}, winRate : {-10, 0, 40, 50, 60, 100, 110}, avgWin : 0 .. 2, avgLoss : 0 .. 2, fraction : {0, 25, 100, 110}]

\* Kelly's part of the capital times avgWin, in percent.
KellyEdge(r) == r.winRate * r.avgWin - (100 - r.winRate) * r.avgLoss

CalculatePositionSize(r) ==
    IF r.winRate \in 0 .. 100 /\ r.avgWin > 0 /\ r.avgLoss > 0 /\ r.fraction \in 1 .. 100
    THEN [ok |-> TRUE, size |-> IF KellyEdge(r) < 0 THEN 0 ELSE KellyEdge(r) * r.fraction]
    ELSE Error

-----------------------------------------------------------------------------
(* calculate_var: value at risk by the history of returns.                 *)

VaRRequests == [tool : {"var"}, returns : Series(Returns), level : Confidences]

\* The order statistic taken; a whole product may be rounded below itself.
TailIndex(n, level) ==
    LET tail == (100 - level) * n
    IN  {index \in {tail \div 100, (tail - 1) \div 100} : index >= 0}

\* What is at an index of a series once it is sorted.
Sorted(s, index) ==
    CHOOSE x \in Range(s) :
        /\ Cardinality({k \in DOMAIN s : s[k] < x}) <= index
        /\ index < Cardinality({k \in DOMAIN s : s[k] <= x})

ValueAtRisk(r, index) == -Sorted(r.returns, index)

CalculateVaR(r) ==
    {[ok |-> TRUE, var |-> ValueAtRisk(r, i), exceedances |-> Cardinality({k \in DOMAIN r.returns : r.returns[k] <= -ValueAtRisk(r, i)})] :
        i \in TailIndex(Len(r.returns), r.level)}

-----------------------------------------------------------------------------
(* check_portfolio_limits: a trade against what is held.                   *)

LimitRequests ==
    [tool : {"limits"}, held : [Symbols -> Levels], symbol : Symbols, side : {"BUY", "SELL", "hold"}, value : {v \in Levels : v > 0},
     maxExposure : Levels \cup {None}, maxConcentration : {None, 50, 90}]

\* A side that is neither moves nothing.
Change(r) == CASE r.side = "BUY" -> r.value [] r.side = "SELL" -> -r.value [] OTHER -> 0
Total(r) == r.held["btc"] + r.held["eth"] + Change(r)
HeldAfter(r, s) == r.held[s] + (IF s = r.symbol THEN Change(r) ELSE 0)

OverExposed(r) == r.maxExposure # None /\ Total(r) > r.maxExposure

\* A position below zero counts as none, and a portfolio worth nothing is not looked at.
Concentrated(r) ==
    /\ r.maxConcentration # None /\ Total(r) > 0
    /\ \E s \in Symbols : HeldAfter(r, s) > 0 /\ HeldAfter(r, s) * 100 > r.maxConcentration * Total(r)

\* The utilization divides by the limit.
Encodable(r) == r.maxExposure # 0

CheckPortfolioLimits(r) ==
    [ok |-> TRUE, approved |-> ~ OverExposed(r) /\ ~ Concentrated(r), encodable |-> Encodable(r)]

-----------------------------------------------------------------------------
(* calculate_sharpe, of returns over periods of a year.                    *)

SharpeRequests == [tool : {"sharpe"}, returns : Series(Returns), riskFree : Returns]

Sign(x) == IF x > 0 THEN 1 ELSE IF x < 0 THEN -1 ELSE 0

\* Equal returns have no deviation and an infinite ratio, unless it is at the
\* risk-free rate; when their mean is not exact, it is finite and without meaning.
CalculateSharpe(r) ==
    LET excess == Sign(FoldSeq(LAMBDA x, sum : x + sum, 0, r.returns) - Len(r.returns) * r.riskFree)
        Ratio(finite) == [ok |-> TRUE, sign |-> excess, encodable |-> finite]
    IN  IF excess # 0 /\ Cardinality(ToSet(r.returns)) = 1 THEN {Ratio(FALSE), Ratio(TRUE)} ELSE {Ratio(TRUE)}

-----------------------------------------------------------------------------
(* calculate_drawdown, of the equity after each period (not negative).     *)

DrawdownRequests == [tool : {"drawdown"}, equity : Series({v \in Levels : v >= 0})]

RunningMax(e, i) == Max({e[j] : j \in 1 .. i})

\* Mutant: drawdowns are compared by what was lost.
DeeperInMoney(e, i, j) == RunningMax(e, i) - e[i] > RunningMax(e, j) - e[j]

\* Whether equity is under its peak, and whether one drawdown is a larger part
\* of its peak than another.
Falls(e, i) == RunningMax(e, i) > 0 /\ e[i] < RunningMax(e, i)
Deeper(e, i, j) == (RunningMax(e, i) - e[i]) * RunningMax(e, j) > (RunningMax(e, j) - e[j]) * RunningMax(e, i)

\* The first of the deepest drawdowns, from the last time the peak was reached.
CalculateDrawdown(r) ==
    LET e == r.equity
        n == Len(e)
        deepest == {i \in 1 .. n : Falls(e, i) /\ \A j \in 1 .. n : Falls(e, j) => ~ Deeper(e, j, i)}
        trough == IF deepest = {} THEN 1 ELSE Min(deepest)
        peak == IF deepest = {} THEN 1 ELSE Max({j \in 1 .. trough - 1 : e[j] = RunningMax(e, trough)})
        back == {i \in trough + 1 .. n : e[i] >= RunningMax(e, trough)}
    IN  [ok |-> TRUE, loss |-> RunningMax(e, trough) - e[trough], peak |-> peak, trough |-> trough,
         recovery |-> IF back = {} THEN None ELSE Min(back),
         now |-> RunningMax(e, n) - e[n], underwater |-> Cardinality({i \in 1 .. n : Falls(e, i)})]

-----------------------------------------------------------------------------
RiskInit ==
    /\ asked \in KellyRequests \cup VaRRequests \cup LimitRequests \cup SharpeRequests \cup DrawdownRequests
    /\ answer = None

\* The call of a tool.
CallRiskTool ==
    /\ answer = None
    /\ \/ asked.tool = "kelly" /\ answer' = CalculatePositionSize(asked)
       \/ asked.tool = "var" /\ answer' \in CalculateVaR(asked)
       \/ asked.tool = "limits" /\ answer' = CheckPortfolioLimits(asked)
       \/ asked.tool = "sharpe" /\ answer' \in CalculateSharpe(asked)
       \/ asked.tool = "drawdown" /\ answer' = CalculateDrawdown(asked)
    /\ UNCHANGED asked

RiskSpec == RiskInit /\ [][CallRiskTool]_risk

-----------------------------------------------------------------------------
Answered(tool) == asked.tool = tool /\ answer # None /\ answer.ok

\* A stake is never more than the capital, and nothing
\* without an edge (calculatePositionSize); in hundredths of a percent of avgWin.
KellyIsBounded ==
    Answered("kelly") => /\ 0 <= answer.size /\ answer.size <= 100 * 100 * asked.avgWin
                         /\ asked.winRate * asked.avgWin <= (100 - asked.winRate) * asked.avgLoss => answer.size = 0

\* No more than the tail of the returns is worse than the value at risk, and the
\* tail is as bad (calculateVaR).
VaRCoversTheTail ==
    LET tail == (100 - asked.level) * Len(asked.returns)
    IN  Answered("var") =>
            /\ 100 * Cardinality({k \in DOMAIN asked.returns : asked.returns[k] < -answer.var}) <= tail
            /\ 100 * answer.exceedances >= tail

\* An approved purchase leaves the exposure and every position under the limits,
\* and one that is refused would not have (checkPortfolioLimits).
ApprovalMeansLimitsHold ==
    Answered("limits") /\ asked.side = "BUY" /\ asked.held["btc"] + asked.held["eth"] >= 0 =>
        (answer.approved <=>
            LET after == [asked.held EXCEPT ![asked.symbol] = @ + asked.value]
                total == after["btc"] + after["eth"]
            IN  /\ asked.maxExposure = None \/ total <= asked.maxExposure
                /\ asked.maxConcentration = None \/ \A s \in Symbols : 100 * after[s] <= asked.maxConcentration * total)

\* The drawdown reported is that of the worst entry before an exit, its peak is
\* before its trough, and it is over once the peak was reached again (calculateDrawdown).
DrawdownIsTheWorst ==
    Answered("drawdown") =>
        LET e == asked.equity
        IN  /\ \A i, j \in DOMAIN e : i <= j => (e[i] - e[j]) * e[answer.peak] <= answer.loss * e[i]
            /\ answer.loss = e[answer.peak] - e[answer.trough] /\ answer.peak <= answer.trough
            /\ answer.recovery = None => \A i \in answer.trough + 1 .. Len(e) : e[i] < e[answer.peak]
            /\ answer.underwater = 0 <=> \A i \in 2 .. Len(e) : e[i] >= e[i - 1]
=============================================================================
