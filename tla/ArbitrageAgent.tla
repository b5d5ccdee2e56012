--------------------------- MODULE ArbitrageAgent ---------------------------
(***************************************************************************)
(* The arbitrage agent (cmd/agents/arbitrage-agent/main.go).  A step asks  *)
(* for the price of the coin once for each exchange, in goroutines that    *)
(* end in any order; it is one and the same price that is asked for, which *)
(* simulateExchangeVariation makes that exchange's.  Prices are kept from  *)
(* step to step; pairs of them not older than a minute are compared.       *)
(* Prices are hundredths of the base price of a hundred; percentages are   *)
(* in hundredths of a percent where a fee, a spread or a profit is meant.  *)
(***************************************************************************)
EXTENDS Integers, FiniteSets, FiniteSetsExt

CONSTANTS
    None,
    Exchanges,     \* those of the configuration: "binance", "coinbase", "kraken" or others
    BasePrices,    \* what the coin may cost
    Noise,         \* random variations, in hundredths of a percent
    Volumes,       \* of 24 hours
    MinSpread,     \* in hundredths of a percent
    Thresholds,    \* confidences the threshold may be configured to, in hundredths
    Minute,        \* ticks in a minute
    MaxClock, MaxMoves \* bounds: the clock, and moves of the price

VARIABLES
    threshold,
    clock,
    base,       \* [price, version]: what the price service answers (external)
    priceCache, \* per exchange None, or [price, of, at, slow, volume]
    waiting,    \* exchanges whose goroutine of this step has not ended; None between steps
    failures,   \* of this step
    reliable,   \* the beliefs "exchange_..._reliable": "unknown", TRUE or FALSE
    decision    \* the last decision

arbitrage == <<threshold, clock, base, priceCache, waiting, failures, reliable, decision>>

\* A price is of some resolution: a fee of it is more than a rounding.
ArbitrageAssumption ==
    /\ IsFiniteSet(Exchanges) /\ (\A S \in SUBSET Exchanges : S # None)
    /\ BasePrices \subseteq {p \in Nat : p >= 5} /\ Noise \subseteq -5 .. 5 /\ Volumes \subseteq Nat
    /\ Thresholds \subseteq Int /\ MinSpread \in Int /\ Minute \in Nat /\ MaxClock \in Nat /\ MaxMoves \in Nat

Whole == 10000 \* hundredths of a percent
Hold == [signal |-> "HOLD", confidence |-> 0, buy |-> None, sell |-> None]

ArbitrageTypeOK ==
    /\ threshold \in Thresholds /\ clock \in 0 .. MaxClock /\ base.price \in BasePrices /\ base.version \in 0 .. MaxMoves
    /\ waiting = None \/ waiting \subseteq Exchanges
    /\ failures \in 0 .. Cardinality(Exchanges)
    /\ \A e \in Exchanges : priceCache[e] = None \/ priceCache[e].at \in 0 .. clock
    /\ \A e \in Exchanges : reliable[e] \in {"unknown", "yes", "no"}
    /\ decision.signal \in {"HOLD", "ARBITRAGE"} /\ decision.confidence \in 0 .. 100

ArbitrageInit ==
    /\ threshold \in Thresholds /\ clock = 0 /\ base \in [price : BasePrices, version : {0}]
    /\ priceCache = [e \in Exchanges |-> None] /\ waiting = None /\ failures = 0
    /\ reliable = [e \in Exchanges |-> "unknown"] /\ decision = Hold

-----------------------------------------------------------------------------
(* Opportunities.                                                          *)

Fees == [binance |-> [taker |-> 10, withdraw |-> 5],
         coinbase |-> [taker |-> 60, withdraw |-> 10],
         kraken |-> [taker |-> 26, withdraw |-> 9]]

\* simulateExchangeVariation: the exchanges differ by less than their fees.
Variation(exchange) ==
    CASE exchange = "binance" -> -5 [] exchange = "coinbase" -> 10 [] exchange = "kraken" -> 3 [] OTHER -> 0

\* Profit of what is bought, sold and withdrawn, in hundredths of a percent.
Profit(buy, sell, from, to) ==
    LET cost == buy * (Whole + Fees[from].taker + Fees[from].withdraw) + sell * Fees[to].taker
    IN  (sell * Whole - cost) \div (cost \div Whole)

\* calculateOpportunity, for exchanges whose fees are known.
CalculateOpportunity(from, to) ==
    LET buy == priceCache[from]
        sell == priceCache[to]
        profit == Profit(buy.price, sell.price, from, to)
    IN  [from |-> from, to |-> to, profit |-> profit,
         risk |-> IF profit > 100 THEN "low" ELSE IF profit < 30 THEN "high" ELSE "medium",
         slow |-> buy.slow \/ sell.slow, volume |-> Min({buy.volume, sell.volume})]

\* Prices not older than a minute.
Comparable == {e \in Exchanges : priceCache[e] # None /\ clock - priceCache[e].at <= Minute}

CalculateSpreads ==
    {opp \in {CalculateOpportunity(from, to) : from, to \in Comparable \cap DOMAIN Fees} :
        opp.from # opp.to /\ opp.profit >= MinSpread /\ opp.profit > 0}

\* 1 - exp(-profit) and the logarithm of the volume, in steps.
ProfitScore(profit) ==
    IF profit < 20 THEN 18 ELSE IF profit < 50 THEN 39 ELSE IF profit < 100 THEN 63 ELSE IF profit < 200 THEN 86 ELSE 99
LiquidityScore(volume) == IF volume = 0 THEN 0 ELSE IF volume < 100 THEN 20 ELSE IF volume < 1000 THEN 45 ELSE 100

\* calculateOpportunityScore: profit weighs a half, liquidity a quarter, and nothing
\* the last quarter, which is taken off for risk.  It expires in thirty seconds.
Score(opp) ==
    LET plain == ProfitScore(opp.profit) * 50 + LiquidityScore(opp.volume) * 25
        risk == CASE opp.risk = "low" -> 10 [] opp.risk = "medium" -> 8 [] OTHER -> 6
        both == IF opp.risk = "high" /\ opp.slow THEN 8 ELSE 10
        late == IF opp.slow THEN 7 ELSE 10
    IN  (plain * risk * late * both) \div (100 * 1000)

\* calculateOpportunityConfidence takes more off the score.  Volumes are in thousands.
Confidence(opp) ==
    LET Off(n, condition, kept) == IF condition THEN (n * kept) \div 100 ELSE n
        risky == Off(Off(Score(opp), opp.risk = "medium", 90), opp.risk = "high", 75)
        slow == Off(risky, opp.slow, 85)
        thin == Off(Off(slow, opp.profit < 20, 70), opp.profit \in 20 .. 49, 85)
    IN  Off(Off(thin, opp.volume < 100, 70), opp.volume \in 100 .. 999, 85)

\* generateDecision: only the best scored one is looked at, though one with more
\* confidence may be among the others; which of equals it is the sort decides.
GenerateDecision(opps) ==
    IF opps = {} THEN {Hold}
    ELSE {IF Confidence(top) < threshold THEN Hold
          ELSE [signal |-> "ARBITRAGE", confidence |-> Confidence(top),
                buy |-> priceCache[top.from], sell |-> priceCache[top.to]] :
              top \in {o \in opps : \A p \in opps : Score(o) >= Score(p)}}

-----------------------------------------------------------------------------
(* Steps.  Run of this agent looks at no pause.                            *)

FetchPrices ==
    /\ waiting = None /\ waiting' = Exchanges /\ failures' = 0
    /\ UNCHANGED <<threshold, clock, base, priceCache, reliable, decision>>

\* One goroutine; the belief is of the exchange, whatever the coin.
FetchPriceFromExchange(e) ==
    /\ waiting # None /\ e \in waiting /\ waiting' = waiting \ {e}
    /\ \E noise \in Noise, slow \in BOOLEAN, volume \in Volumes :
          /\ priceCache' = [priceCache EXCEPT ![e] =
                [price |-> (base.price * (Whole + Variation(e) + noise)) \div 100, of |-> base.version,
                 at |-> clock, slow |-> slow, volume |-> volume]]
          /\ reliable' = [reliable EXCEPT ![e] = IF slow THEN "no" ELSE "yes"]
    /\ UNCHANGED <<threshold, clock, base, failures, decision>>

FetchFails(e) ==
    /\ waiting # None /\ e \in waiting /\ waiting' = waiting \ {e} /\ failures' = failures + 1
    /\ UNCHANGED <<threshold, clock, base, priceCache, reliable, decision>>

\* All failed: no decision is made.
ArbitrageStepEnds ==
    /\ waiting = {} /\ waiting' = None
    /\ IF failures = Cardinality(Exchanges) THEN UNCHANGED decision
       ELSE decision' \in GenerateDecision(CalculateSpreads)
    /\ UNCHANGED <<threshold, clock, base, priceCache, failures, reliable>>

\* The price of the coin moves (external).
PriceMoves ==
    /\ base.version < MaxMoves
    /\ \E p \in BasePrices \ {base.price} : base' = [price |-> p, version |-> base.version + 1]
    /\ UNCHANGED <<threshold, clock, priceCache, waiting, failures, reliable, decision>>

ArbitrageTick ==
    /\ clock < MaxClock /\ clock' = clock + 1
    /\ UNCHANGED <<threshold, base, priceCache, waiting, failures, reliable, decision>>

ArbitrageNext ==
    \/ FetchPrices \/ ArbitrageStepEnds \/ PriceMoves \/ ArbitrageTick
    \/ \E e \in Exchanges : FetchPriceFromExchange(e) \/ FetchFails(e)

ArbitrageSpec == ArbitrageInit /\ [][ArbitrageNext]_arbitrage

-----------------------------------------------------------------------------
(* Properties.                                                             *)

\* What the agent takes for a difference of two exchanges is always the price of
\* the coin at two times: the variations it makes up are below the fees it
\* counts, and its prices come from one service (fetchPriceFromExchange,
\* calculateOpportunity).
SpreadsAreMovesOfThePrice ==
    decision.signal = "ARBITRAGE" => decision.buy.of # decision.sell.of

\* A score is three quarters at most, and with it the confidence: at the
\* threshold the configuration and the defaults set, 80, the agent never signals
\* (calculateOpportunityScore; configs/agents.yaml, confidence_threshold).
HoldsAtItsThreshold == threshold > 75 => decision.signal = "HOLD"

\* The prices of a decision are no further apart than a minute (calculateSpreads).
PricesOfAMinute ==
    decision.signal = "ARBITRAGE" =>
        decision.buy.at - decision.sell.at \in -Minute .. Minute
=============================================================================
