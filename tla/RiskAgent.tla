------------------------------ MODULE RiskAgent ------------------------------
(***************************************************************************)
(* The risk agent (cmd/agents/risk-agent/main.go): one goroutine brings    *)
(* the beliefs up to date every five seconds, section by section, while    *)
(* another judges a proposal under a read lock it takes a second time.  A  *)
(* read lock is not granted while a writer waits, so that the two can stop *)
(* each other for ever.  handleDecision itself only logs; the judgement is *)
(* modelled as its tests call it.                                          *)
(* Amounts are in units; percentages are in hundredths.                    *)
(***************************************************************************)
EXTENDS Integers, FiniteSets, FiniteSetsExt

CONSTANTS
    None,
    Rows,             \* open positions there may be: [symbol, side, qty, price]
    Sizes,            \* sizes that may be proposed
    MaxPositionSize, MaxTotalExposure, MaxConcentration, MaxOpenPositions, MaxDrawdownPercent,
    Drawdowns, Volatilities, \* what the calculator may say
    OptimalSizes,     \* what Kelly may recommend, before its caps
    Replies,          \* of the model: sizes it recommends, None for a veto
    MaxUpdates        \* bound: updates of the beliefs

VARIABLES
    positions,   \* table "positions": a subset of Rows (external)
    believed,    \* currentPositions: [symbol -> size], only those in it
    drawdown, volatility, utilization, \* the other beliefs
    readers,     \* beliefs.mu: read locks held by the judge
    writer,      \* beliefs.mu: "off", "waiting", "holding"
    section,     \* of updateBeliefs: 0 before, 1 positions, 2 performance, 3 market, 4 utilization
    updates,
    judge,       \* where the judgement is
    proposal, intentions,
    caught       \* history: a writer waited while the judge held a read lock

risk_agent == <<positions, believed, drawdown, volatility, utilization, readers, writer, section, updates,
                judge, proposal, intentions, caught>>

RiskAssumption ==
    /\ IsFiniteSet(Rows) /\ Rows \subseteq [symbol : {r.symbol : r \in Rows}, side : {"LONG", "SHORT"}, qty : Nat, price : Nat]
    /\ Sizes \subseteq Nat /\ OptimalSizes \subseteq Nat /\ Replies \subseteq Nat \cup {None}
    /\ Drawdowns \subseteq Nat /\ Volatilities \subseteq Nat /\ MaxUpdates \in Nat
    /\ MaxTotalExposure \in Nat \ {0} /\ {MaxPositionSize, MaxConcentration, MaxOpenPositions, MaxDrawdownPercent} \subseteq Nat

Symbols == {r.symbol : r \in Rows}
Sum(f, S) == MapThenSumSet(LAMBDA x : f[x], S)
Exposure == Sum(believed, DOMAIN believed)

NoIntentions == [veto |-> FALSE, why |-> "none", recommended |-> 0]

RiskAgentTypeOK ==
    /\ positions \subseteq Rows /\ DOMAIN believed \subseteq Symbols
    /\ drawdown \in Drawdowns \cup {0} /\ volatility \in Volatilities \cup {0} /\ utilization \in Nat
    /\ readers \in 0 .. 2 /\ writer \in {"off", "waiting", "holding"} /\ section \in 0 .. 4 /\ updates \in 0 .. MaxUpdates
    /\ judge \in {"idle", "asked", "limits", "reading", "rules", "stop", "readingStop"}

RiskAgentInit ==
    /\ positions = {} /\ believed = <<>> /\ drawdown = 0 /\ volatility = 0 /\ utilization = 0
    /\ readers = 0 /\ writer = "off" /\ section = 0 /\ updates = 0
    /\ judge = "idle" /\ proposal = None /\ intentions = NoIntentions /\ caught = FALSE

beliefs == <<believed, drawdown, volatility, utilization>>
lock == <<readers, writer>>
judgement == <<judge, proposal, intentions>>

-----------------------------------------------------------------------------
(* What the beliefs come from.                                             *)

\* Positions are opened and closed by others.
Trade ==
    /\ positions' \in {positions \cup {r} : r \in Rows} \cup {positions \ {r} : r \in Rows}
    /\ updates < MaxUpdates
    /\ UNCHANGED <<beliefs, lock, section, updates, judgement, caught>>

\* The query of loadPortfolioState: the net quantity of each symbol at the mean
\* entry price of its long rows; a symbol that is not net long is not there.
NetLongPositions ==
    LET Of(s) == {r \in positions : r.symbol = s}
        Long(s) == {r \in Of(s) : r.side = "LONG"}
        Net(s) == Sum([r \in Rows |-> IF r.side = "LONG" THEN r.qty ELSE -r.qty], Of(s))
    IN  [s \in {t \in Symbols : Net(t) > 0} |->
            (Net(s) * Sum([r \in Rows |-> r.price], Long(s))) \div Cardinality(Long(s))]

-----------------------------------------------------------------------------
(* updateBeliefs: four sections, each under a write lock of its own.       *)

\* Positions could not be loaded: the update is over.
LoadFails ==
    /\ section = 0 /\ updates < MaxUpdates /\ updates' = updates + 1
    /\ UNCHANGED <<positions, beliefs, lock, section, judgement, caught>>

\* What is read outside the lock is written under it; LOCK waits for the readers.
UpdateBeliefs ==
    /\ writer = "off" /\ writer' = "waiting"
    /\ section > 0 \/ updates < MaxUpdates
    /\ section' = IF section = 0 THEN 1 ELSE section
    /\ updates' = IF section = 0 THEN updates + 1 ELSE updates
    /\ caught' = (caught \/ readers > 0)
    /\ UNCHANGED <<positions, beliefs, readers, judgement>>

LockBeliefs ==
    /\ writer = "waiting" /\ readers = 0 /\ writer' = "holding"
    /\ UNCHANGED <<positions, beliefs, readers, section, updates, judgement, caught>>

Released == writer' = "off" /\ UNCHANGED <<positions, readers, updates, judgement, caught>>

LoadPortfolioState ==
    /\ writer = "holding" /\ section = 1 /\ section' = 2
    /\ believed' = NetLongPositions /\ Released
    /\ UNCHANGED <<drawdown, volatility, utilization>>

CalculatePerformanceMetrics ==
    /\ writer = "holding" /\ section = 2 /\ section' = 3
    /\ drawdown' \in Drawdowns \cup {drawdown} /\ Released
    /\ UNCHANGED <<believed, volatility, utilization>>

\* Without an equity curve the lock is not asked for.
NoEquityCurve ==
    /\ writer = "off" /\ section = 2 /\ section' = 3
    /\ UNCHANGED <<positions, beliefs, lock, updates, judgement, caught>>

AssessMarketConditions ==
    /\ writer = "holding" /\ section = 3 /\ section' = 4
    /\ volatility' \in Volatilities /\ Released
    /\ UNCHANGED <<believed, drawdown, utilization>>

UpdateUtilization ==
    /\ writer = "holding" /\ section = 4 /\ section' = 0
    /\ utilization' = (Exposure * 100) \div MaxTotalExposure /\ Released
    /\ UNCHANGED <<believed, drawdown, volatility>>

-----------------------------------------------------------------------------
(* evaluateProposal.                                                       *)

\* assessRisk proposes half the largest position; the tests other sizes.
Propose ==
    /\ judge = "idle"
    /\ \E symbol \in Symbols, side \in {"BUY", "SELL"}, size \in Sizes :
          proposal' = [symbol |-> symbol, side |-> side, size |-> size]
    /\ judge' = "asked" /\ intentions' = NoIntentions /\ caught' = FALSE
    /\ UNCHANGED <<positions, beliefs, lock, section, updates>>

Decide(veto, why, recommended) ==
    intentions' = [veto |-> veto, why |-> why, recommended |-> recommended] /\ UNCHANGED proposal

\* The model decides without the limits (its size is a share of an estimate).
EvaluateWithLLM ==
    /\ judge = "asked" /\ judge' = "idle"
    /\ \E r \in Replies : IF r = None THEN Decide(TRUE, "model", 0) ELSE Decide(FALSE, "model", r)
    /\ UNCHANGED <<positions, beliefs, lock, section, updates, caught>>

\* Mutant: the judge takes the lock for itself.
LockAlone(before, after) ==
    /\ judge = before /\ writer = "off" /\ readers = 0 /\ readers' = readers + 1 /\ judge' = after
    /\ UNCHANGED <<positions, beliefs, writer, section, updates, proposal, intentions, caught>>

RLock(before, after) ==
    /\ judge = before /\ writer = "off" /\ readers' = readers + 1 /\ judge' = after
    /\ UNCHANGED <<positions, beliefs, writer, section, updates, proposal, intentions, caught>>

\* The rules, when there is no model or it does not answer.
LockRules == RLock("asked", IF proposal.side = "BUY" THEN "limits" ELSE "rules")

\* checkPortfolioLimits takes the lock a second time.
LockLimits == RLock("limits", "reading")

\* Mutant: what the symbol has already is forgotten.
WithinLimitsAlone(symbol, size) ==
    /\ size <= MaxPositionSize
    /\ Exposure + size <= MaxTotalExposure
    /\ size * 100 <= MaxTotalExposure * MaxConcentration
    /\ Cardinality(DOMAIN believed) < MaxOpenPositions

ExposureOf(symbol) == IF symbol \in DOMAIN believed THEN believed[symbol] ELSE 0

\* Exposures are those of net long symbols, as far as they are known.
WithinLimits(symbol, size) ==
    /\ size <= MaxPositionSize
    /\ Exposure + size <= MaxTotalExposure
    /\ (ExposureOf(symbol) + size) * 100 <= MaxTotalExposure * MaxConcentration
    /\ Cardinality(DOMAIN believed) < MaxOpenPositions

\* A veto lets go of both locks.
CheckPortfolioLimits ==
    /\ judge = "reading"
    /\ IF WithinLimits(proposal.symbol, proposal.size)
       THEN judge' = "rules" /\ readers' = readers - 1 /\ UNCHANGED <<proposal, intentions>>
       ELSE judge' = "idle" /\ readers' = readers - 2 /\ Decide(TRUE, "limits", proposal.size)
    /\ UNCHANGED <<positions, beliefs, writer, section, updates, caught>>

\* calculateOptimalSize: capped at a tenth of the largest exposure, and at the
\* largest position.
CalculateOptimalSize(kelly) == Min({kelly, MaxTotalExposure \div 10, MaxPositionSize})

\* The vetoes on a purchase, in this order; the limit of the drawdown is reached
\* by the warning at four fifths of it already.
PurchaseVetoes ==
    \/ drawdown * 10 > MaxDrawdownPercent * 8
    \/ volatility > 4 /\ utilization > 85

\* A size half as large again as what is optimal is approved at the optimal size,
\* before the concentration is looked at; a smaller one is approved at the optimal
\* size too, though that may be more than was asked for.
EvaluateRules ==
    /\ judge = "rules"
    /\ \E kelly \in OptimalSizes :
       LET buy == proposal.side = "BUY"
           optimal == CalculateOptimalSize(kelly)
           crowded == Exposure > 0 /\ ExposureOf(proposal.symbol) * 1000 > Exposure * MaxConcentration * 8
           Ends == judge' = "idle" /\ readers' = readers - 1
       IN  IF buy /\ PurchaseVetoes THEN Ends /\ Decide(TRUE, "rules", proposal.size)
           ELSE IF proposal.size * 2 > optimal * 3 THEN Ends /\ Decide(FALSE, "smaller", optimal)
           ELSE IF buy /\ crowded THEN Ends /\ Decide(TRUE, "concentration", proposal.size)
           ELSE judge' = "stop" /\ UNCHANGED readers /\ Decide(FALSE, "approved", optimal)
    /\ UNCHANGED <<positions, beliefs, writer, section, updates, caught>>

\* calculateStopLoss takes the lock a second time.
LockStop == RLock("stop", "readingStop")

CalculateStopLoss ==
    /\ judge = "readingStop" /\ judge' = "idle" /\ readers' = readers - 2
    /\ UNCHANGED <<positions, beliefs, writer, section, updates, proposal, intentions, caught>>

Judge == EvaluateWithLLM \/ LockRules \/ LockLimits \/ CheckPortfolioLimits \/ EvaluateRules \/ LockStop \/ CalculateStopLoss
Update ==
    \/ LockBeliefs \/ LoadPortfolioState \/ CalculatePerformanceMetrics \/ NoEquityCurve
    \/ AssessMarketConditions \/ UpdateUtilization

RiskAgentNext == Trade \/ Propose \/ Judge \/ LoadFails \/ UpdateBeliefs \/ Update

\* The goroutines go on; an update that has begun comes to its next section.
RiskAgentSpec ==
    /\ RiskAgentInit /\ [][RiskAgentNext]_risk_agent
    /\ WF_risk_agent(Judge) /\ WF_risk_agent(Update) /\ WF_risk_agent(section > 0 /\ UpdateBeliefs)

-----------------------------------------------------------------------------
(* Properties.                                                             *)

\* A purchase the rules approve fits, as far as is known, the limits of position,
\* exposure, concentration and number, at a drawdown under four fifths of its
\* limit; what they recommend is capped, though not by the room that is left
\* (evaluateProposalRuleBased).
ApprovalsFit ==
    (judge = "stop" \/ (judge = "rules" /\ proposal.side = "BUY")) =>
        /\ proposal.side = "BUY" =>
              /\ Exposure + proposal.size <= MaxTotalExposure
              /\ (ExposureOf(proposal.symbol) + proposal.size) * 100 <= MaxTotalExposure * MaxConcentration
              /\ judge = "stop" => drawdown * 10 <= MaxDrawdownPercent * 8
        /\ judge = "stop" => intentions.recommended * 10 <= MaxTotalExposure

\* What an update believes a symbol to be exposed is never more than its long
\* rows cost, a hedge taken off; what is short on the whole is no exposure at all
\* (the HAVING clause of loadPortfolioState).
ExposureIsOfLongs ==
    [][believed' # believed => \A s \in DOMAIN believed' :
          believed'[s] <= Sum([r \in Rows |-> r.qty * Max({q.price : q \in Rows})],
                              {r \in positions : r.symbol = s /\ r.side = "LONG"})]_risk_agent

\* A judgement comes to an end, unless a writer asks for the lock between its two
\* read locks (RWMutex holds new readers back for it): then neither goes on.
JudgementsEnd == (judge # "idle") ~> (judge = "idle" \/ caught)
=============================================================================
