---------------------------- MODULE ReversionAgent ----------------------------
(***************************************************************************)
(* The mean reversion agent (cmd/agents/reversion-agent/main.go).  A step  *)
(* fetches prices, asks for Bollinger bands, relative strength and trend   *)
(* strength, combines what they say by rules or by a model, filters it by  *)
(* the regime of the market and by risk and reward, and publishes it.  Any *)
(* of the calls may fail, and ends the step.                               *)
(* A step is called directly, for Run of the embedded BaseAgent does not   *)
(* reach it.  Confidences are in thousandths, percentages of the price.    *)
(***************************************************************************)
EXTENDS Integers

CONSTANTS
    Levels,          \* prices, and values of the bands
    RSIs, ADXs,
    ModelSays,       \* answers of the model, those that name no side included
    StopLossPct, TakeProfitPct,
    RatioTimes10,    \* riskRewardRatio, in tenths
    MaxReversions    \* bound: steps

VARIABLES
    revBeliefs,   \* the beliefs of the last analysis: its input, combined and final signal, exit levels
    revLast,      \* lastSignal
    revPublished, \* the last signal that was published
    revFailed,    \* history: whether a publication failed since
    reversions

reversion == <<revBeliefs, revLast, revPublished, revFailed, reversions>>

ReversionAssumption ==
    /\ Levels \subseteq Nat \ {0} /\ RSIs \subseteq Nat /\ ADXs \subseteq Nat /\ MaxReversions \in Nat
    /\ StopLossPct \in Nat /\ TakeProfitPct \in Nat /\ RatioTimes10 \in Nat \ {0}

Sides == {"BUY", "SELL", "HOLD"}
Nothing == [side |-> "HOLD", conf |-> 0]
NoExit == [stop |-> 0, target |-> 0, favourable |-> {FALSE}]
NoBeliefs == [known |-> FALSE, combined |-> Nothing, final |-> Nothing, exit |-> NoExit]
AtMost(n, bound) == IF n > bound THEN bound ELSE n

\* What a step finds out.
Analyses ==
    {x \in [price : Levels, upper : Levels, lower : Levels, rsi : RSIs, adx : ADXs,
            reply : ModelSays] : x.lower <= x.upper}

ReversionTypeOK ==
    /\ revLast \in Sides \cup {"none"} /\ reversions \in 0 .. MaxReversions
    /\ revPublished.side \in Sides /\ revPublished.conf \in 0 .. 1000 /\ revFailed \in BOOLEAN
    /\ revBeliefs.final.side \in Sides /\ revBeliefs.combined.conf \in 0 .. 1000

ReversionInit ==
    /\ revBeliefs = NoBeliefs /\ revLast = "none" /\ revPublished = Nothing
    /\ revFailed = FALSE /\ reversions = 0

-----------------------------------------------------------------------------
(* What the bands and the index say.                                       *)

\* A price within half a percent of a band, and on its inner side, touches it; that
\* is asked first, so that bands closer than that are touched from beyond the other.
DetectBandPosition(x) ==
    IF x.price <= x.upper /\ x.price * 1000 >= x.upper * 995 THEN "at_upper"
    ELSE IF x.price >= x.lower /\ x.price * 1000 <= x.lower * 1005 THEN "at_lower"
    ELSE IF x.price > x.upper THEN "above_upper"
    ELSE IF x.price < x.lower THEN "below_lower"
    ELSE "between"

\* A band width below a twentieth of the middle makes the agent surer.
Narrow(x) == 40 * (x.upper - x.lower) < x.upper + x.lower

DetectBandTouch(at, narrow) ==
    LET conf == (IF at \in {"below_lower", "above_upper"} THEN 800 ELSE 700) + (IF narrow THEN 100 ELSE 0)
    IN  CASE at \in {"at_lower", "below_lower"} -> [side |-> "BUY", conf |-> conf]
          [] at \in {"at_upper", "above_upper"} -> [side |-> "SELL", conf |-> conf]
          [] OTHER -> [side |-> "HOLD", conf |-> 500]

DetectRSIExtreme(rsi) ==
    CASE rsi < 30 -> [side |-> "BUY", conf |-> IF rsi < 20 THEN 900 ELSE 700]
      [] rsi > 70 -> [side |-> "SELL", conf |-> IF rsi > 80 THEN 900 ELSE 700]
      [] OTHER -> [side |-> "HOLD", conf |-> 500]

CombineSignalsRuleBased(bb, rsi) ==
    CASE bb.side = rsi.side /\ bb.side # "HOLD" -> [side |-> bb.side, conf |-> AtMost((bb.conf + rsi.conf) \div 2 + 100, 1000)]
      [] bb.side # rsi.side /\ bb.side # "HOLD" /\ rsi.side # "HOLD" -> [side |-> "HOLD", conf |-> 300]
      [] bb.side = "HOLD" /\ rsi.side # "HOLD" -> [side |-> rsi.side, conf |-> (rsi.conf * 8) \div 10]
      [] bb.side # "HOLD" /\ rsi.side = "HOLD" -> [side |-> bb.side, conf |-> (bb.conf * 8) \div 10]
      [] OTHER -> [side |-> "HOLD", conf |-> 500]

ByRules(x) == CombineSignalsRuleBased(DetectBandTouch(DetectBandPosition(x), Narrow(x)), DetectRSIExtreme(x.rsi))

\* An answer of the model that names a side is taken, whatever the indicators say.
GenerateMeanReversionSignal(x) == IF x.reply \in Sides THEN [side |-> x.reply, conf |-> 600] ELSE ByRules(x)

-----------------------------------------------------------------------------
(* The filters.                                                            *)

DetectMarketRegime(adx) == IF adx < 25 THEN "ranging" ELSE IF adx < 50 THEN "trending" ELSE "volatile"

FilterSignalByRegime(s, adx) ==
    IF s.side # "HOLD" /\ DetectMarketRegime(adx) # "ranging" THEN [side |-> "HOLD", conf |-> 200] ELSE s

\* Stop and target in hundredths of a price; where reward and risk are in
\* exactly the ratio that is asked for, rounding decides.
CalculateExitLevels(side, price) ==
    IF side = "HOLD" THEN NoExit
    ELSE [stop |-> price * (IF side = "BUY" THEN 100 - StopLossPct ELSE 100 + StopLossPct),
          target |-> price * (IF side = "BUY" THEN 100 + TakeProfitPct ELSE 100 - TakeProfitPct),
          favourable |-> IF StopLossPct = 0 THEN {RatioTimes10 <= 0}
                         ELSE IF TakeProfitPct * 10 = StopLossPct * RatioTimes10 THEN BOOLEAN
                         ELSE {TakeProfitPct * 10 > StopLossPct * RatioTimes10}]

-----------------------------------------------------------------------------
(* Steps.                                                                  *)

\* A call for prices, bands, index or trend strength fails.
StepFails ==
    /\ reversions < MaxReversions /\ reversions' = reversions + 1
    /\ UNCHANGED <<revBeliefs, revLast, revPublished, revFailed>>

\* Beliefs and lastSignal change once everything is known, and before the signal
\* is published.
Step ==
    /\ reversions < MaxReversions /\ reversions' = reversions + 1
    /\ \E x \in Analyses :
       LET combined == GenerateMeanReversionSignal(x)
           filtered == FilterSignalByRegime(combined, x.adx)
           exit == CalculateExitLevels(filtered.side, x.price)
       IN  \E favourable \in exit.favourable :
           LET final == IF filtered.side # "HOLD" /\ ~ favourable THEN [side |-> "HOLD", conf |-> 300] ELSE filtered
           IN  /\ revBeliefs' = [known |-> TRUE, of |-> x, combined |-> combined, final |-> final, exit |-> exit]
               /\ revLast' = final.side
               /\ \/ revPublished' = final /\ revFailed' = FALSE
                  \/ revPublished' = revPublished /\ revFailed' = TRUE

ReversionNext == StepFails \/ Step

ReversionSpec == ReversionInit /\ [][ReversionNext]_reversion

-----------------------------------------------------------------------------
(* Properties.                                                             *)

\* Every filter had to pass for a signal that trades, its stop and target are on
\* either side of the price, and what was published last is what the agent
\* believes, unless its publication failed (Step).
FiltersHold ==
    /\ revBeliefs.final.side # "HOLD" =>
          /\ DetectMarketRegime(revBeliefs.of.adx) = "ranging"
          /\ revBeliefs.final = revBeliefs.combined
          /\ TRUE \in revBeliefs.exit.favourable
          /\ LET side == revBeliefs.final.side  price == revBeliefs.of.price * 100
             IN  IF side = "BUY" THEN revBeliefs.exit.stop < price /\ price < revBeliefs.exit.target
                 ELSE revBeliefs.exit.target < price /\ price < revBeliefs.exit.stop
    /\ ~ revFailed /\ revBeliefs.known => revPublished = revBeliefs.final /\ revLast = revPublished.side

\* The rules make of a market upside down the mirror image of what they make of
\* the market; but a price that is near both bands, as in a market that does not
\* move at all, counts as near the upper one and is sold, one above both bands is
\* bought when the lower is near, and one below both sold when the upper is
\* (detectBandPosition).
Upside(side) == IF side = "BUY" THEN "SELL" ELSE IF side = "SELL" THEN "BUY" ELSE "HOLD"
Opposite(at) ==
    CASE at = "at_lower" -> "at_upper" [] at = "below_lower" -> "above_upper"
      [] at = "at_upper" -> "at_lower" [] at = "above_upper" -> "below_lower" [] OTHER -> at
TouchesBoth(x) ==
    x.price \in x.lower .. x.upper /\ x.price * 1000 >= x.upper * 995 /\ x.price * 1000 <= x.lower * 1005
MirrorImage ==
    revBeliefs.known =>
        LET x == revBeliefs.of
            at == DetectBandPosition(x)
            rules(position, rsi) == CombineSignalsRuleBased(DetectBandTouch(position, Narrow(x)), DetectRSIExtreme(rsi))
            mirrored == rules(Opposite(at), 100 - x.rsi)
        IN  /\ mirrored = [rules(at, x.rsi) EXCEPT !.side = Upside(@)]
            /\ TouchesBoth(x) => DetectBandTouch(at, Narrow(x)).side = "SELL"
            /\ x.price > x.upper /\ x.price * 1000 <= x.lower * 1005 => DetectBandTouch(at, Narrow(x)).side = "BUY"
            /\ x.price < x.lower /\ x.price * 1000 >= x.upper * 995 => DetectBandTouch(at, Narrow(x)).side = "SELL"

\* An index that confirms the bands makes the signal surer than the bands alone,
\* one that contradicts them ends it (combineSignalsRuleBased).
ConfirmationHelps ==
    revBeliefs.known =>
        LET bb == DetectBandTouch(DetectBandPosition(revBeliefs.of), Narrow(revBeliefs.of))
            alone == CombineSignalsRuleBased(bb, [side |-> "HOLD", conf |-> 500])
        IN  \A rsi \in RSIs :
                LET with == CombineSignalsRuleBased(bb, DetectRSIExtreme(rsi))
                IN  bb.side # "HOLD" =>
                        /\ DetectRSIExtreme(rsi).side = bb.side => with.side = bb.side /\ with.conf > alone.conf
                        /\ DetectRSIExtreme(rsi).side = Upside(bb.side) => with.side = "HOLD"
=============================================================================
