--------------------------- MODULE SentimentAgent ---------------------------
(***************************************************************************)
(* The sentiment agent (cmd/agents/sentiment-agent/main.go).  A step reads *)
(* the news through a cache that an error falls back to whatever its age,  *)
(* the fear and greed index through another, scores the headlines, and     *)
(* turns the average into a signal.  It is called directly, for Run of the *)
(* embedded BaseAgent does not reach it.                                   *)
(* Scores and the index are in tenths, scores rounded towards nothing; an  *)
(* average is a fraction <<n, d>>.                                         *)
(***************************************************************************)
EXTENDS Integers, FiniteSets, FiniteSetsExt, Functions

CONSTANTS
    None,
    Headlines,     \* headlines: [pos, neg, words, source], source being its weight in tenths
    FearGreeds,    \* values of the index
    Lookback,      \* lookbackHours, in ticks of an hour
    Threshold,     \* sentimentThreshold, in tenths
    IndexTTL,      \* an hour
    MaxHours       \* bound: the clock

VARIABLES
    cachedNews,      \* a set of [headline, at]; the order is of no consequence
    cacheExpiry,
    cachedFearGreed, \* None, or [value, at]
    hour,
    sentiment,       \* the signal published last, or None
    fetched          \* history: whether the news of the last step were fetched or cached, and when those cached were

sentiments == <<cachedNews, cacheExpiry, cachedFearGreed, hour, sentiment, fetched>>

SentimentAssumption ==
    /\ Headlines \subseteq [pos : Nat, neg : Nat, words : Nat, source : Nat]
    /\ FearGreeds \subseteq 0 .. 10 /\ None \notin 0 .. 10
    /\ Lookback \in Nat /\ MaxHours \in Nat /\ Threshold \in 1 .. 9

\* The news are cached for five minutes, so until the next tick.
SentimentTypeOK ==
    /\ \A a \in cachedNews : a.headline \in Headlines /\ a.at \in -Lookback - 1 .. MaxHours
    /\ cacheExpiry \in 0 .. MaxHours + 1 /\ hour \in 0 .. MaxHours
    /\ cachedFearGreed = None \/ cachedFearGreed.value \in FearGreeds
    /\ sentiment = None \/ sentiment.action \in {"BUY", "SELL", "HOLD"}

SentimentInit ==
    /\ cachedNews = {} /\ cacheExpiry = 0 /\ cachedFearGreed = None /\ hour = 0 /\ sentiment = None
    /\ fetched = [how |-> "never", at |-> 0]

-----------------------------------------------------------------------------
(* Headlines.                                                              *)

Abs(n) == IF n < 0 THEN -n ELSE n
Clamp(n) == IF n > 10 THEN 10 ELSE IF n < -10 THEN -10 ELSE n

Tenths(n, d) == IF n >= 0 THEN (n * 10) \div d ELSE -((-n * 10) \div d)
Score(h) == IF h.words = 0 THEN 0 ELSE Clamp(Tenths(h.pos - h.neg, h.words))

\* analyzeSentiment.
AnalyzeSentiment(h) ==
    LET score == Score(h)
        mood == IF score > 1 THEN "positive" ELSE IF score < -1 THEN "negative" ELSE "neutral"
    IN  [score |-> score, mood |-> mood,
         confidence |-> IF h.words = 0 THEN 3 ELSE IF mood = "neutral" THEN 5 ELSE Min({2 * Abs(score), 10})]

\* A weight that falls with the age of the news.
Recency(at) == IF hour - at <= 0 THEN 2 ELSE 1
Weight(a) == Recency(a.at) * a.headline.source * AnalyzeSentiment(a.headline).confidence
WeightedSum(articles) == SumFunction([a \in articles |-> AnalyzeSentiment(a.headline).score * Weight(a)])
TotalWeight(articles) == SumFunction([a \in articles |-> Weight(a)])

\* aggregateSentiment: the weighted mean of the scores, six tenths of it with
\* four tenths of the index where there is one.
AggregateSentiment(articles, index) ==
    LET total == TotalWeight(articles)
        n == IF total = 0 THEN 0 ELSE WeightedSum(articles)
        d == IF total = 0 THEN 10 ELSE total * 10
    IN  IF index = None THEN <<n, d>> ELSE <<30 * n + 4 * d * (index - 5), 50 * d>>

-----------------------------------------------------------------------------
(* The signal.                                                             *)

Count(articles, mood) == Cardinality({a \in articles : AnalyzeSentiment(a.headline).mood = mood})

\* generateSignal, in hundredths.  The nearer to a threshold, the surer of a
\* HOLD; at a score of nothing its confidence is none.
ConfidenceOf(overall, articles) ==
    LET n == Abs(overall[1])
        d == overall[2]
        base == IF n * 10 > Threshold * d THEN Min({((n * 10 - Threshold * d) * 100) \div ((10 - Threshold) * d), 100})
                ELSE 100 - ((Threshold * d - n * 10) * 100) \div (Threshold * d)
        majority == Max({Count(articles, "positive"), Count(articles, "negative")})
        many == 70 + (30 * Min({Cardinality(articles), 20})) \div 20
    IN  IF articles = {} THEN base ELSE (((base * many) \div 100) * majority) \div Cardinality(articles)

ActionOf(overall) ==
    IF overall[1] * 10 > Threshold * overall[2] THEN "BUY"
    ELSE IF overall[1] * 10 < -Threshold * overall[2] THEN "SELL" ELSE "HOLD"

\* updateBeliefs: the mood of the news.
DominantSentiment(articles) ==
    LET pos == Count(articles, "positive")
        neg == Count(articles, "negative")
    IN  IF pos > neg THEN "positive" ELSE IF neg > pos THEN "negative" ELSE "neutral"

-----------------------------------------------------------------------------
(* A step.                                                                 *)

CacheHolds == hour < cacheExpiry /\ cachedNews # {}

\* What the news service may answer: nothing (an error), or news, of which those
\* published before the lookback are left out.
News == SUBSET {[headline |-> h, at |-> hour - age] : h \in Headlines, age \in {0, Lookback, Lookback + 1}}
Recent(answer) == {a \in answer : a.at >= hour - Lookback}

\* fetchFearGreedIndex; an error leaves what is cached, of whatever age.
FetchFearGreedIndex ==
    IF cachedFearGreed # None /\ hour - cachedFearGreed.at < IndexTTL
    THEN cachedFearGreed' = cachedFearGreed
    ELSE \/ cachedFearGreed' = cachedFearGreed
         \/ \E v \in FearGreeds : cachedFearGreed' = [value |-> v, at |-> hour]

Publish(articles) ==
    LET index == IF cachedFearGreed' = None THEN None ELSE cachedFearGreed'.value
        overall == AggregateSentiment(articles, index)
    IN  sentiment' = [action |-> ActionOf(overall), confidence |-> ConfidenceOf(overall, articles),
                      overall |-> overall, articles |-> articles, index |-> index,
                      mood |-> DominantSentiment(articles)]

StepFromCache ==
    /\ CacheHolds /\ FetchFearGreedIndex /\ Publish(cachedNews)
    /\ fetched' = [fetched EXCEPT !.how = "cached"] /\ UNCHANGED <<cachedNews, cacheExpiry, hour>>

StepFromNews ==
    /\ ~ CacheHolds /\ FetchFearGreedIndex
    /\ \E answer \in {A \in News : IsFiniteSet(A) /\ Cardinality(A) <= 2} : cachedNews' = Recent(answer) /\ Publish(Recent(answer))
    /\ cacheExpiry' = hour + 1
    /\ fetched' = [how |-> "fetched", at |-> hour] /\ UNCHANGED hour

\* The service fails, or no key is configured: the news before, unless there are none.
StepFromOldNews ==
    /\ ~ CacheHolds
    /\ IF cachedNews = {} THEN UNCHANGED <<sentiment, cachedFearGreed>> ELSE FetchFearGreedIndex /\ Publish(cachedNews)
    /\ UNCHANGED <<cachedNews, cacheExpiry, hour>>
    /\ fetched' = [fetched EXCEPT !.how = "failed"]

HourPasses ==
    hour < MaxHours /\ hour' = hour + 1 /\ UNCHANGED <<cachedNews, cacheExpiry, cachedFearGreed, sentiment, fetched>>

SentimentNext == StepFromCache \/ StepFromNews \/ StepFromOldNews \/ HourPasses

SentimentSpec == SentimentInit /\ [][SentimentNext]_sentiments

-----------------------------------------------------------------------------
(* Properties.                                                             *)

Opposite(a) == [a EXCEPT !.headline = [a.headline EXCEPT !.pos = a.headline.neg, !.neg = a.headline.pos]]

\* News turned into their opposite, and fear into greed, turn a purchase into a
\* sale of the same confidence (analyzeSentiment to generateSignal).
OppositeNewsOppositeSignal ==
    sentiment # None =>
        LET flip == {Opposite(a) : a \in sentiment.articles}
            back == AggregateSentiment(flip, IF sentiment.index = None THEN None ELSE 10 - sentiment.index)
            there == AggregateSentiment(sentiment.articles, sentiment.index)
        IN  /\ ActionOf(back) = IF ActionOf(there) = "BUY" THEN "SELL" ELSE IF ActionOf(there) = "SELL" THEN "BUY" ELSE "HOLD"
            /\ ConfidenceOf(back, flip) = ConfidenceOf(there, sentiment.articles)

\* The average stays between the worst and the best there is, and so does the
\* confidence; a purchase has some good news, or an index of greed, behind it
\* (aggregateSentiment, generateSignal).
SentimentIsBounded ==
    sentiment # None =>
        /\ Abs(sentiment.overall[1]) <= sentiment.overall[2]
        /\ sentiment.confidence \in 0 .. 100
        /\ sentiment.action = "BUY" => \/ \E a \in sentiment.articles : Score(a.headline) > 0
                                       \/ sentiment.index # None /\ sentiment.index > 5

\* A signal rests on news older than the lookback only if the service failed the
\* step; without news ever fetched, or with the last answer empty, such a step
\* publishes nothing (Step, fetchNews).
OldNewsOnlyOnFailure ==
    [][sentiment' # sentiment =>
          /\ fetched'.how = "failed" => sentiment'.articles = cachedNews /\ cachedNews # {}
          /\ fetched'.how # "failed" => \A a \in sentiment'.articles : hour - a.at <= Lookback]_sentiments
=============================================================================
