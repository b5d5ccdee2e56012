--------------------------- MODULE OrderBookAgent ---------------------------
(***************************************************************************)
(* The order book agent (cmd/agents/orderbook-agent/main.go).  A step      *)
(* fetches a book, keeps it in the history, and lets four votes decide:    *)
(* imbalance, nearness of deep levels, large orders, and spoofing, which   *)
(* only ever votes to hold.  It is called directly, for Run of the         *)
(* embedded BaseAgent does not reach it.                                   *)
(* Confidences are exact fractions <<n, d>>; where two scores are equal    *)
(* the rounding of the sums decides.                                       *)
(***************************************************************************)
EXTENDS Integers, Sequences, FiniteSets, SequencesExt, FiniteSetsExt

CONSTANTS
    Books,            \* order books: [bids, asks], sequences of [price, qty], best first
    DepthLevels,      \* levels of imbalance
    ThresholdPct,     \* imbalanceThreshold
    MultiplierPct,    \* largeOrderMultiplier
    Window,           \* spoofingWindow, in ticks
    MaxHistory,       \* length of the history (100 in the code)
    MaxNow            \* bound: the clock

VARIABLES
    history,     \* orderBookHistory: [at, book], newest last
    bookTime,
    bookSignal   \* the signal published last, with what it was made from

orderbook == <<history, bookTime, bookSignal>>

Level == [price : Nat \ {0}, qty : Nat]

OrderBookAssumption ==
    /\ Books \subseteq [bids : Seq(Level), asks : Seq(Level)]
    /\ {DepthLevels, ThresholdPct, MultiplierPct, Window, MaxNow} \subseteq Nat /\ MaxHistory \in Nat \ {0}

NoBookSignal == [action |-> "none", book |-> <<>>, flags |-> 0]

OrderBookTypeOK ==
    /\ \A i \in 1 .. Len(history) : history[i].at \in 0 .. MaxNow /\ history[i].book \in Books
    /\ bookTime \in 0 .. MaxNow /\ bookSignal.action \in {"none", "BUY", "SELL", "HOLD"}

OrderBookInit == history = <<>> /\ bookTime = 0 /\ bookSignal = NoBookSignal

Quantities(levels) == [i \in DOMAIN levels |-> levels[i].qty]
Volume(levels) == SumFunction(Quantities(levels))
Least(a, b) == IF a < b THEN a ELSE b
Distance(a, b) == IF a < b THEN b - a ELSE a - b

-----------------------------------------------------------------------------
(* What is read off a book.  Prices are in cents, the mid price in half    *)
(* cents.                                                                  *)

Mid(book) == Head(book.bids).price + Head(book.asks).price

\* calculateImbalance: (bid - ask) / (bid + ask) over the levels both sides have.
Imbalance(book) ==
    LET n == Least(DepthLevels, Least(Len(book.bids), Len(book.asks)))
        bid == Volume(SubSeq(book.bids, 1, n))
        ask == Volume(SubSeq(book.asks, 1, n))
    IN  IF bid + ask = 0 THEN <<0, 1>> ELSE <<bid - ask, bid + ask>>

\* analyzeDepth: the three deepest of the first eleven levels with over a
\* twentieth of the volume; between equally deep ones the sort decides.
AnalyzeDepth(levels) ==
    LET deep == {i \in 1 .. Least(11, Len(levels)) : levels[i].qty * 20 > Volume(levels)}
    IN  {{levels[i].price : i \in S} :
            S \in {S \in SUBSET deep :
                      /\ Cardinality(S) = Least(3, Cardinality(deep))
                      /\ \A i \in S, j \in deep \ S : levels[i].qty >= levels[j].qty}}

\* detectLargeOrders: the levels of one side that reach the multiple of the
\* average of both.
DetectLargeOrders(book, side) ==
    LET count == Len(book.bids) + Len(book.asks)
        total == Volume(book.bids) + Volume(book.asks)
    IN  {i \in DOMAIN side : side[i].qty * count * 100 >= total * MultiplierPct}

\* compareSnapshotsForSpoofing: large orders of their side, gone in the next book.
Gone(before, after) ==
    {i \in DOMAIN before :
        /\ before[i].qty * Len(before) * 100 >= Volume(before) * MultiplierPct
        /\ ~ Contains(after, before[i])}
CompareSnapshots(prev, current) ==
    Cardinality(Gone(prev.bids, current.bids)) + Cardinality(Gone(prev.asks, current.asks))

\* detectSpoofing: the pairs of the history whose later book is in the window.
DetectSpoofing(h) ==
    SumFunctionOnSet([i \in 2 .. Len(h) |-> CompareSnapshots(h[i - 1].book, h[i].book)],
                     {i \in 2 .. Len(h) : \A j \in i .. Len(h) : bookTime - h[j].at <= Window})

-----------------------------------------------------------------------------
(* The votes: [for, num, den], the confidence being num / den.             *)

AnalyzeImbalance(imb) ==
    IF imb[1] * 100 > imb[2] * ThresholdPct THEN [for |-> "BUY", num |-> imb[1], den |-> imb[2]]
    ELSE IF -imb[1] * 100 > imb[2] * ThresholdPct THEN [for |-> "SELL", num |-> -imb[1], den |-> imb[2]]
    ELSE [for |-> "HOLD", num |-> imb[2] - Distance(imb[1], 0), den |-> imb[2]]

\* analyzeDepthProximity: within a percent of a support buys, whatever resists.
AnalyzeDepthProximity(mid, supports, resistances) ==
    LET Closest(levels) == Min({Distance(mid, 2 * p) : p \in levels})
        Near(levels) == levels # {} /\ Closest(levels) * 100 < mid
    IN  IF supports = {} /\ resistances = {} THEN [for |-> "HOLD", num |-> 3, den |-> 10]
        ELSE IF Near(supports) THEN [for |-> "BUY", num |-> mid - 100 * Closest(supports), den |-> mid]
        ELSE IF Near(resistances) THEN [for |-> "SELL", num |-> mid - 100 * Closest(resistances), den |-> mid]
        ELSE [for |-> "HOLD", num |-> 1, den |-> 2]

\* analyzeLargeOrders: those of one side outnumber the others, and outweigh them
\* by a half.
Heavier(book, these, those) ==
    LET t == DetectLargeOrders(book, these)
        o == DetectLargeOrders(book, those)
    IN  /\ Cardinality(t) > Cardinality(o)
        /\ 2 * SumFunctionOnSet(Quantities(these), t) > 3 * SumFunctionOnSet(Quantities(those), o)

AnalyzeLargeOrders(book) ==
    LET b == Cardinality(DetectLargeOrders(book, book.bids))
        a == Cardinality(DetectLargeOrders(book, book.asks))
    IN  IF a + b = 0 THEN [for |-> "HOLD", num |-> 3, den |-> 10]
        ELSE IF Heavier(book, book.bids, book.asks) THEN [for |-> "BUY", num |-> b, den |-> a + b]
        ELSE IF Heavier(book, book.asks, book.bids) THEN [for |-> "SELL", num |-> a, den |-> a + b]
        ELSE [for |-> "HOLD", num |-> 1, den |-> 2]

AnalyzeSpoofing(flags) == [for |-> "HOLD", num |-> IF flags >= 5 THEN 0 ELSE 5 - flags, den |-> 5]

\* combineSignals: the sides with the highest weighted sum of confidences.
CombineSignals(votes) ==
    LET Den(i) == votes[i].den
        Part(i, side, weight, others) == IF votes[i].for = side THEN weight * (votes[i].num * others) ELSE 0
        Score(side) ==
            Part(1, side, 4, Den(2) * Den(3) * Den(4)) + Part(2, side, 3, Den(1) * Den(3) * Den(4))
            + Part(3, side, 2, Den(1) * Den(2) * Den(4)) + Part(4, side, 1, Den(1) * Den(2) * Den(3))
    IN  {side \in {"BUY", "SELL", "HOLD"} : \A other \in {"BUY", "SELL", "HOLD"} : Score(side) >= Score(other)}

VotesOf(book, supports, resistances, flags) ==
    << AnalyzeImbalance(Imbalance(book)),
       AnalyzeDepthProximity(Mid(book), supports, resistances),
       AnalyzeLargeOrders(book),
       AnalyzeSpoofing(flags) >>

GenerateSignal(book, flags) ==
    UNION {CombineSignals(VotesOf(book, s, r, flags)) : s \in AnalyzeDepth(book.bids), r \in AnalyzeDepth(book.asks)}

-----------------------------------------------------------------------------
(* Steps.                                                                  *)

AddOrderBookSnapshot(h, book) ==
    LET grown == Append(h, [at |-> bookTime, book |-> book])
    IN  IF Len(grown) > MaxHistory THEN Tail(grown) ELSE grown

\* A book that cannot be fetched, or has an empty side, ends the step.
BookStep ==
    /\ \E book \in Books :
          /\ book.bids # <<>> /\ book.asks # <<>>
          /\ history' = AddOrderBookSnapshot(history, book)
          /\ LET flags == DetectSpoofing(history')
             IN  \E action \in GenerateSignal(book, flags) :
                    bookSignal' = [action |-> action, book |-> book, flags |-> flags]
    /\ UNCHANGED bookTime

BookTick == bookTime < MaxNow /\ bookTime' = bookTime + 1 /\ UNCHANGED <<history, bookSignal>>

OrderBookNext == BookStep \/ BookTick

OrderBookSpec == OrderBookInit /\ [][OrderBookNext]_orderbook

-----------------------------------------------------------------------------
(* Properties.                                                             *)

\* The imbalance that votes to hold keeps the smaller votes from a trade.  Against
\* a vote of it to hold, a level near the price alone needs an imbalance of a quarter,
\* and large orders alone one of a half, on whichever side it is; an imbalance to
\* the other side does not vote to hold, and one of the smaller votes may win over
\* it.  Otherwise it takes both of them (the weights of generateSignal).
TradesNeedEvidence ==
    LET book == bookSignal.book
        imb == Imbalance(book)
        NearOne(side) == \E i \in DOMAIN side : Distance(Mid(book), 2 * side[i].price) * 100 < Mid(book)
        AtLeast(n, d) == Distance(imb[1], 0) * d >= imb[2] * n
        Buys == imb[1] * 100 > imb[2] * ThresholdPct
        Sells == -imb[1] * 100 > imb[2] * ThresholdPct
        Supported(side, heavy, against) ==
            \/ NearOne(side) /\ (heavy \/ against \/ AtLeast(1, 4))
            \/ heavy /\ (against \/ AtLeast(1, 2))
    IN  /\ bookSignal.action = "BUY" => Buys \/ Supported(book.bids, Heavier(book, book.bids, book.asks), Sells)
        /\ bookSignal.action = "SELL" => Sells \/ Supported(book.asks, Heavier(book, book.asks, book.bids), Buys)

\* Orders that come and go never keep the agent from a trade: a book whose trade
\* is made without a flag is traded the same way with any number of them, for
\* what spoofing takes confidence from is the vote to hold (analyzeSpoofing).
SpoofingNeverStopsATrade ==
    bookSignal.action # "none" =>
        \A flags \in 1 .. 6 :
            "HOLD" \notin GenerateSignal(bookSignal.book, 0)
                => GenerateSignal(bookSignal.book, flags) \subseteq GenerateSignal(bookSignal.book, 0)

\* The newest book is the last of the history and what it was judged with, and
\* a history of one book raises no flag (addOrderBookSnapshot, detectSpoofing).
FlagsComeFromChange ==
    bookSignal.action # "none" =>
        /\ Last(history).book = bookSignal.book
        /\ (\A i \in 1 .. Len(history) : history[i].book = bookSignal.book) => bookSignal.flags = 0
=============================================================================
