--------------------------- MODULE BacktestOptimizer ---------------------------
(***************************************************************************)
(* The optimizers of the backtest (pkg/backtest/optimization.go): grid     *)
(* search over one parameter, walk-forward windows with a grid search      *)
(* each, and the genetic search.  The backtests of a search run in         *)
(* goroutines, a few at a time, over the same candles, which each of them  *)
(* sorts in place.                                                         *)
(* A backtest is what it does to the candles and the score it reports: the *)
(* one of its parameter over sorted candles, and any score over candles    *)
(* two goroutines sorted at once.  A boolean or categorical parameter is a *)
(* range of indices.                                                       *)
(***************************************************************************)
EXTENDS Integers, Sequences, SequencesExt, FiniteSets, FiniteSetsExt

CONSTANTS
    Methods,       \* of "grid", "walk", "genetic"
    Low, High, Steps, \* the parameter's range and the steps of the grid
    Scores,        \* score of each value over sorted candles
    AnyScores,     \* scores of a run over garbled candles
    Failed,        \* the backtest fails: no score is less
    Orders,        \* how the candles come: "sorted", "unsorted"
    Parallel,      \* goroutines that hold the semaphore at a time
    InSample, OutSample, Spans, \* periods of walk-forward, ends of the data
    PopSize,       \* population of the genetic search
    EliteCount,    \* int(populationSize * eliteRatio)
    Generations    \* generations

OptimizerAssumption ==
    /\ Orders \subseteq {"sorted", "unsorted"}
    /\ Low \in Int /\ High \in Int /\ Steps \subseteq Nat \ {0}
    /\ Failed \in Int /\ Scores \in [Low .. High -> Int] /\ AnyScores \subseteq Int
    /\ \A v \in Low .. High : Failed <= Scores[v]
    /\ \A score \in AnyScores : Failed <= score
    /\ Parallel \in Nat /\ InSample \in Nat /\ OutSample \in Nat \ {0} /\ Spans \subseteq Nat
    /\ PopSize \in Nat \ {0} /\ EliteCount \in 0 .. PopSize

VARIABLES
    method,      \* the search
    end,         \* time of the last candle, the first is at 0
    order,       \* the candles: "sorted", "unsorted", "garbled"
    clean,       \* history: the candles were never garbled
    round,       \* the generation, or the window of walk-forward
    population,  \* the parameters of this round
    worker,      \* the goroutine of each
    results,     \* results of this round
    tested,      \* out-of-sample results, or the results of all generations
    best,        \* bestResult
    outcome      \* "running", "testing", "summary", "panic"

search == <<method, end, order, clean, round, population, worker, results, tested, best, outcome>>

Workers == DOMAIN population
NoResult == [param |-> Low - 1, score |-> Failed, run |-> 0]

-----------------------------------------------------------------------------
(* Parameters and windows.                                                 *)

\* generateCombinations.
Grid(s) == [i \in 1 .. (High - Low) \div s + 1 |-> Low + (i - 1) * s]

\* initializePopulation.
Populations == [1 .. PopSize -> Low .. High]

\* generateWindows, over candles from 0 to last.
Windows(last) ==
    {[from |-> k * OutSample, split |-> InSample + k * OutSample, to |-> InSample + (k + 1) * OutSample] :
        k \in {j \in 0 .. last : InSample + (j + 1) * OutSample <= last}}

\* filterDataByTime: both ends belong to it.
FilterDataByTime(from, to) == {time \in 0 .. end : from <= time /\ time <= to}

OptimizerInit ==
    /\ method \in Methods /\ order \in Orders /\ clean = TRUE
    /\ end \in IF method = "walk" THEN Spans ELSE {0}
    /\ population \in IF method = "genetic" THEN Populations ELSE {Grid(s) : s \in Steps}
    /\ round = 1 /\ worker = [i \in DOMAIN population |-> "waiting"]
    /\ results = {} /\ tested = {} /\ best = NoResult
    /\ outcome = IF method = "walk" /\ Windows(end) = {} THEN "panic" ELSE "running"

-----------------------------------------------------------------------------
(* The goroutines.                                                         *)

In(states) == {i \in Workers : worker[i] \in states}

\* A goroutine takes the semaphore and loads the candles, which sorts them in
\* place (LoadHistoricalData): candles in order are only read.
Load(i) ==
    /\ outcome = "running" /\ worker[i] = "waiting"
    /\ Cardinality(In({"sorting", "running", "misled"})) < Parallel
    /\ IF order = "sorted" THEN worker' = [worker EXCEPT ![i] = "running"] /\ UNCHANGED <<order, clean>>
       ELSE /\ worker' = [worker EXCEPT ![i] = "sorting"]
            /\ order' = IF In({"sorting"}) = {} THEN order ELSE "garbled"
            /\ clean' = (clean /\ In({"sorting"}) = {})
    /\ UNCHANGED <<method, end, round, population, results, tested, best, outcome>>

\* What one goroutine sorts alone is sorted; what two sort at once may lose
\* candles, or may not.
Sort(i) ==
    /\ worker[i] = "sorting"
    /\ worker' = [worker EXCEPT ![i] = IF order = "garbled" THEN "misled" ELSE "running"]
    /\ order' \in IF order = "garbled" THEN IF In({"sorting"}) = {i} THEN {"garbled", "sorted"} ELSE {"garbled"}
                  ELSE {"sorted"}
    /\ UNCHANGED <<method, end, clean, round, population, results, tested, best, outcome>>

\* A grid search leaves the runs that failed out, the genetic search keeps
\* them below every other.
Sent(i, score) ==
    IF score = Failed /\ method # "genetic" THEN results
    ELSE results \cup {[param |-> population[i], score |-> score, run |-> i]}

RunEnds(i) ==
    /\ worker[i] \in {"running", "misled"}
    /\ \E score \in IF worker[i] = "misled" THEN AnyScores ELSE {Scores[population[i]]} :
          results' = Sent(i, score)
    /\ worker' = [worker EXCEPT ![i] = "sent"]
    /\ UNCHANGED <<method, end, order, clean, round, population, tested, best, outcome>>

AllSent == outcome = "running" /\ In({"sent"}) = Workers

\* sort.Slice: results of one score in any order.
Rankings == {r \in SetToSeqs(results) : \A i, j \in DOMAIN r : i < j => r[i].score >= r[j].score}

\* The search of a grid ends; without any result its best one is out of range.
RankGrid ==
    /\ AllSent /\ method # "genetic"
    /\ IF results = {} THEN outcome' = "panic" /\ UNCHANGED best
       ELSE /\ \E ranked \in Rankings : best' = ranked[1]
            /\ outcome' = IF method = "walk" THEN "testing" ELSE "summary"
    /\ UNCHANGED <<method, end, order, clean, round, population, worker, results, tested>>

-----------------------------------------------------------------------------
(* Walk-forward.                                                           *)

\* The best parameters run over the candles after, and the next window begins.
TestOutOfSample ==
    /\ outcome = "testing"
    /\ \E score \in {Scores[best.param], Failed} :
          tested' = IF score = Failed THEN tested
                    ELSE tested \cup {[param |-> best.param, score |-> score, run |-> round]}
    /\ IF round < Cardinality(Windows(end))
       THEN /\ round' = round + 1 /\ outcome' = "running"
            /\ worker' = [i \in Workers |-> "waiting"] /\ results' = {}
            /\ UNCHANGED best
       ELSE /\ outcome' = IF tested' = {} THEN "panic" ELSE "summary"
            /\ best' \in IF tested' = {} THEN {best}
                         ELSE {r \in tested' : \A s \in tested' : s.score <= r.score}
            /\ UNCHANGED <<round, worker, results>>
    /\ UNCHANGED <<method, end, order, clean, population>>

-----------------------------------------------------------------------------
(* The genetic search.                                                     *)

\* The elite, then children: a parameter of either parent of a tournament, or
\* mutated.
NextPopulations(parents) ==
    LET elite == [i \in 1 .. EliteCount |-> parents[i].param]
        children == {parents[i].param : i \in DOMAIN parents} \cup (Low .. High)
    IN  {elite \o c : c \in [1 .. PopSize - EliteCount -> children]}

BestOf(r) == IF best = NoResult \/ r.score > best.score THEN r ELSE best

NextGeneration ==
    /\ AllSent /\ method = "genetic"
    /\ tested' = tested \cup {[r EXCEPT !.run = <<round, r.run>>] : r \in results}
    /\ \E ranked \in Rankings :
          /\ best' = BestOf(ranked[1])
          /\ IF round = Generations
             THEN outcome' = "summary" /\ UNCHANGED <<round, population, worker, results>>
             ELSE /\ population' \in NextPopulations(ranked)
                  /\ round' = round + 1 /\ results' = {} /\ worker' = [i \in 1 .. PopSize |-> "waiting"]
                  /\ UNCHANGED outcome
    /\ UNCHANGED <<method, end, order, clean>>

OptimizerNext ==
    \/ \E i \in Workers : Load(i) \/ Sort(i) \/ RunEnds(i)
    \/ RankGrid \/ TestOutOfSample \/ NextGeneration

OptimizerSpec == OptimizerInit /\ [][OptimizerNext]_search /\ WF_search(OptimizerNext)

-----------------------------------------------------------------------------
(* Properties.                                                             *)

OptimizerTypeOK ==
    /\ order \in {"sorted", "unsorted", "garbled"} /\ outcome \in {"running", "testing", "summary", "panic"}
    /\ \A i \in Workers : population[i] \in Low .. High
    /\ Cardinality(In({"sorting", "running", "misled"})) <= Parallel

\* Over candles no two goroutines sorted at once, the summary of a grid search
\* has the best of its range, and it panics only if every run failed; candles
\* that come in order are never garbled, nor any with one goroutine at a time.
GridFindsTheBest ==
    /\ (method = "grid" /\ clean) =>
          /\ outcome = "summary" => \A i \in Workers : Scores[population[i]] <= best.score
          /\ outcome = "panic" => \A i \in Workers : Scores[population[i]] = Failed
    /\ Parallel = 1 => clean

\* The summary of a genetic search has the best of all its generations, and the
\* best of a generation is not lost while there is an elite.
EliteSurvives ==
    method = "genetic" =>
        /\ outcome = "summary" => \A r \in tested : r.score <= best.score
        /\ (clean /\ EliteCount > 0 /\ round > 1) => \E i \in Workers : Scores[population[i]] >= best.score

\* A search ends.
SearchesEnd == <>(outcome \in {"summary", "panic"})
=============================================================================
