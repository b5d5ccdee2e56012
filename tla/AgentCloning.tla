------------------------------ MODULE AgentCloning ------------------------------
(***************************************************************************)
(* Cloning an agent and A/B tests of its clones: the CloningCoordinator of *)
(* internal/orchestrator/cloning.go, over the registry of hotswap.go.      *)
(*                                                                         *)
(* A test clones its control agent under names made of the control's, so   *)
(* tests of one control share the names.  The coordinator's mutex is held  *)
(* while a test is completed and its winner promoted, not while one is     *)
(* started.                                                                *)
(***************************************************************************)
EXTENDS Integers, FiniteSets, FiniteSetsExt

CONSTANTS
    Tests,              \* calls of StartABTest, all for one control
    MaxVariants,        \* bound: variants of a test
    MaxVariantsPerTest, MaxActiveExperiments, MinSamples,
    Latencies, MaxRequests, MaxSeconds,     \* of samples; bounds: of each test's requests and of the clock
    None

CloningAssumption ==
    /\ MaxVariants \in Nat /\ MaxActiveExperiments \in Nat /\ None \notin Tests \cup Nat /\ IsFiniteSet(Tests)
    /\ Latencies \subseteq Nat /\ MaxSeconds \in Nat

VARIABLES
    registered,  \* hotSwap.agents: name -> registration; 0 is the control, i its i-th variant
    test,        \* the experiments
    metrics,     \* their samples: requests, failures, sum of latencies, first and last time
    coordinator, \* the test that holds the mutex while it promotes
    second,      \* the clock
    shared,      \* history: tests that started while another one was starting
    untold       \* history: a swap could not tell the control to pause, and none resumed it since

cloning == <<registered, test, metrics, coordinator, second, shared, untold>>

Control == 0
Names == 0 .. MaxVariants
VariantsOf(t) == 1 .. test[t].variants
Unmeasured == [requests |-> 0, failed |-> 0, latency |-> 0, first |-> 0, last |-> 0]

CloningInit ==
    /\ registered = [n \in {Control} |-> [config |-> Control, status |-> "active", from |-> None]]
    /\ test \in [Tests -> [status : {"none"}, variants : 1 .. MaxVariants, made : {0}, auto : BOOLEAN,
                           winner : {None}, watched : {FALSE}]]
    /\ metrics = [t \in Tests |-> [n \in Names |-> Unmeasured]]
    /\ coordinator = None /\ second = 0 /\ shared = {} /\ untold = FALSE

Without(names) == [n \in DOMAIN registered \ names |-> registered[n]]
With(n, config, from) ==
    [m \in DOMAIN registered \cup {n} |->
        IF m = n THEN [config |-> config, status |-> "active", from |-> from] ELSE registered[m]]
ControlIs(status) ==
    IF Control \in DOMAIN registered THEN [registered EXCEPT ![Control].status = status] ELSE registered

\* Tests in the map: the status is running, completed or cancelled, and "setup"
\* between the insertion and the assignment that follows it.
Kept == {t \in Tests : test[t].status \in {"setup", "running", "completed", "promoted", "cancelled"}}
Active == {t \in Tests : test[t].status \in {"setup", "running"}}
Starting == {t \in Tests : test[t].status \in {"looking", "cloning", "cloned"}}

-----------------------------------------------------------------------------
(* StartABTest.                                                            *)

\* The limits are looked at under the mutex, which is released; the control exists.
StartABTest(t) ==
    /\ test[t].status = "none" /\ coordinator = None
    /\ test' = [test EXCEPT ![t].status =
                   IF Cardinality(Active) >= MaxActiveExperiments \/ test[t].variants > MaxVariantsPerTest
                        \/ Control \notin DOMAIN registered
                   THEN "refused" ELSE "looking"]
    /\ shared' = IF Starting = {} THEN shared ELSE shared \cup Starting \cup {t}
    /\ UNCHANGED <<registered, metrics, coordinator, second, untold>>

\* CloneAgent finds the source; without one the clones made so far are removed, by name.
FindSource(t) ==
    /\ test[t].status = "looking"
    /\ IF Control \in DOMAIN registered
       THEN test' = [test EXCEPT ![t].status = "cloning"] /\ UNCHANGED registered
       ELSE test' = [test EXCEPT ![t].status = "failed"] /\ registered' = Without(1 .. test[t].made)
    /\ UNCHANGED <<metrics, coordinator, second, shared, untold>>

\* ... and registers the clone with the source's configuration and the overrides
\* of the variant, whoever has the name.
RegisterClone(t) ==
    /\ test[t].status = "cloning"
    /\ LET n == test[t].made + 1
       IN  /\ registered' = With(n, n, t)
           /\ test' = [test EXCEPT ![t].made = n, ![t].status = IF n = test[t].variants THEN "cloned" ELSE "looking"]
    /\ UNCHANGED <<metrics, coordinator, second, shared, untold>>

\* The test is inserted under the mutex ...
Save(t) ==
    /\ test[t].status = "cloned" /\ coordinator = None /\ test' = [test EXCEPT ![t].status = "setup"]
    /\ UNCHANGED <<registered, metrics, coordinator, second, shared, untold>>

\* ... and started after it, with a goroutine that watches it.
Run(t) ==
    /\ test[t].status = "setup" /\ test' = [test EXCEPT ![t].status = "running", ![t].watched = TRUE]
    /\ UNCHANGED <<registered, metrics, coordinator, second, shared, untold>>

-----------------------------------------------------------------------------
(* Samples, and what they come to.                                         *)

Sampled(m, latency, ok) ==
    [requests |-> m.requests + 1, failed |-> m.failed + (IF ok THEN 0 ELSE 1), latency |-> m.latency + latency,
     first |-> IF m.requests = 0 THEN second ELSE m.first, last |-> second]

Requests(t) == FoldSet(LAMBDA n, sum : sum + metrics[t][n].requests, 0, Names)

\* A test takes samples for as long as it is known, ended or not.
RecordMetric(t, n, latency, ok) ==
    /\ t \in Kept /\ coordinator = None /\ n \in {Control} \cup VariantsOf(t) /\ Requests(t) < MaxRequests[t]
    /\ metrics' = [metrics EXCEPT ![t][n] = Sampled(@, latency, ok)]
    /\ UNCHANGED <<registered, test, coordinator, second, shared, untold>>

Tick ==
    /\ second < MaxSeconds /\ second' = second + 1
    /\ UNCHANGED <<registered, test, metrics, coordinator, shared, untold>>

\* updateAggregateMetrics; the error rate in percent, the throughput per 100 seconds.
AverageLatency(m) == IF m.requests = 0 THEN 0 ELSE m.latency \div m.requests
ErrorRate(m) == IF m.requests = 0 THEN 0 ELSE (100 * m.failed) \div m.requests
Throughput(m) ==
    IF m.requests > 1 /\ m.last > m.first THEN (100 * m.requests) \div (m.last - m.first) ELSE 0

\* The change in percent, rounded towards none.
Improvement(before, after) ==
    IF before = 0 THEN 0
    ELSE IF after <= before THEN (100 * (before - after)) \div before ELSE -((100 * (after - before)) \div before)

\* compareVariants, in tenths: 50 + 30 + 20 and what the variant is better by.
Compare(control, variant) ==
    LET score == 1000 + 5 * Improvement(AverageLatency(control), AverageLatency(variant))
                      - 3 * (ErrorRate(variant) - ErrorRate(control))
                      - 2 * Improvement(Throughput(control), Throughput(variant))
    IN  IF score < 0 THEN 0 ELSE IF score > 1000 THEN 1000 ELSE score

ScoreOf(t, n) == Compare(metrics[t][Control], metrics[t][n])

\* analyzeResults: the best score above 0 wins, the first met of equal ones.
Winners(t) ==
    IF \A n \in VariantsOf(t) : ScoreOf(t, n) = 0 THEN {Control}
    ELSE {n \in VariantsOf(t) : \A m \in VariantsOf(t) : ScoreOf(t, m) <= ScoreOf(t, n)}

Significant(t, n) == n # Control /\ ScoreOf(t, n) > 600

HasMinimumSamples(t) == \A n \in {Control} \cup VariantsOf(t) : metrics[t][n].requests >= MinSamples

-----------------------------------------------------------------------------
(* monitorExperiment.                                                      *)

\* At the timeout, which for every test is the last second of the clock, or at a
\* tick with enough samples if the winner is selected automatically; what was
\* cancelled stays cancelled.
CompleteExperiment(t) ==
    /\ test[t].watched /\ coordinator = None
    /\ second = MaxSeconds \/ (test[t].auto /\ HasMinimumSamples(t))
    /\ IF test[t].status # "running"
       THEN test' = [test EXCEPT ![t].watched = FALSE] /\ UNCHANGED coordinator
       ELSE \E w \in Winners(t) :
               /\ test' = [test EXCEPT ![t].status = "completed", ![t].winner = w, ![t].watched = FALSE]
               /\ coordinator' = IF test[t].auto /\ Significant(t, w) THEN t ELSE None
    /\ UNCHANGED <<registered, metrics, second, shared, untold>>

\* The context of StartABTest's caller is done: nobody watches any more.
ContextDone(t) ==
    /\ test[t].watched /\ test' = [test EXCEPT ![t].watched = FALSE]
    /\ UNCHANGED <<registered, metrics, coordinator, second, shared, untold>>

-----------------------------------------------------------------------------
(* promoteWinner by SwapAgent, under the mutex of the coordinator.         *)

Promoting(t, status) == coordinator = t /\ test[t].status = status
SwapFails(t) == test' = [test EXCEPT ![t].status = "completed"] /\ coordinator' = None

\* The control is paused; if telling it fails, the swap ends and it stays so.
PauseControl(t) ==
    /\ Promoting(t, "completed")
    /\ registered' = ControlIs("paused")
    /\ \/ SwapFails(t) /\ untold' = (untold \/ Control \in DOMAIN registered)
       \/ /\ Control \in DOMAIN registered /\ test' = [test EXCEPT ![t].status = "swapping"]
          /\ UNCHANGED <<coordinator, untold>>
    /\ UNCHANGED <<metrics, second, shared>>

\* The winner's name is registered with the control's state.
TransferState(t) ==
    /\ Promoting(t, "swapping")
    /\ registered' = With(test[t].winner, Control, t)
    /\ test' = [test EXCEPT ![t].status = "started"]
    /\ UNCHANGED <<metrics, coordinator, second, shared, untold>>

\* Mutant: a control whose successor does not answer is not resumed.
VerifyWithoutRollback(t) ==
    /\ Promoting(t, "started")
    /\ \/ SwapFails(t)
       \/ /\ test[t].winner \in DOMAIN registered /\ registered[test[t].winner].status = "active"
          /\ test' = [test EXCEPT ![t].status = "verified"] /\ UNCHANGED coordinator
    /\ UNCHANGED <<registered, metrics, second, shared, untold>>

\* It is told to start and asked whether it runs: if not, the control is resumed
\* and the registration stays.
VerifyAgent(t) ==
    /\ Promoting(t, "started")
    /\ \/ SwapFails(t) /\ registered' = ControlIs("active") /\ untold' = FALSE
       \/ /\ test[t].winner \in DOMAIN registered /\ registered[test[t].winner].status = "active"
          /\ test' = [test EXCEPT ![t].status = "verified"] /\ UNCHANGED <<registered, coordinator, untold>>
    /\ UNCHANGED <<metrics, second, shared>>

\* The control is unregistered, and the other variants, by name.
CleanUp(t) ==
    /\ Promoting(t, "verified")
    /\ registered' = Without(({Control} \cup VariantsOf(t)) \ {test[t].winner})
    /\ test' = [test EXCEPT ![t].status = "promoted"] /\ coordinator' = None
    /\ UNCHANGED <<metrics, second, shared, untold>>

\* Only a running test can be cancelled; its variants are unregistered, by name.
CancelExperiment(t) ==
    /\ test[t].status = "running" /\ coordinator = None
    /\ test' = [test EXCEPT ![t].status = "cancelled"]
    /\ registered' = Without(VariantsOf(t))
    /\ UNCHANGED <<metrics, coordinator, second, shared, untold>>

CloningNext ==
    \/ \E t \in Tests :
          \/ StartABTest(t) \/ FindSource(t) \/ RegisterClone(t) \/ Save(t) \/ Run(t)
          \/ CompleteExperiment(t) \/ ContextDone(t) \/ CancelExperiment(t)
          \/ PauseControl(t) \/ TransferState(t) \/ VerifyAgent(t) \/ CleanUp(t)
          \/ \E n \in Names, latency \in Latencies, ok \in BOOLEAN : RecordMetric(t, n, latency, ok)
    \/ Tick

\* Time passes, a starter goes on, the timeout of a watched test comes, and a promotion ends.
CloningSpec ==
    /\ CloningInit /\ [][CloningNext]_cloning /\ WF_cloning(Tick)
    /\ \A t \in Tests :
          /\ WF_cloning(FindSource(t)) /\ WF_cloning(RegisterClone(t)) /\ WF_cloning(Save(t)) /\ WF_cloning(Run(t))
          /\ SF_cloning(CompleteExperiment(t))
          /\ WF_cloning(PauseControl(t) \/ TransferState(t) \/ VerifyAgent(t) \/ CleanUp(t))

-----------------------------------------------------------------------------
(* Properties.                                                             *)

CloningTypeOK ==
    /\ DOMAIN registered \subseteq Names /\ coordinator \in Tests \cup {None}
    /\ \A t \in Tests : test[t].winner \in Names \cup {None} /\ test[t].made <= test[t].variants

\* No more tests are active than allowed unless two were started at one time
\* (StartABTest).
LimitHoldsUnlessShared == Cardinality(Active) > MaxActiveExperiments => shared # {}

\* Registered, active and configured as the control.
Trades(n) == n \in DOMAIN registered /\ registered[n].config = Control /\ registered[n].status = "active"

\* The agent that is tested trades, or a successor that answered does, except from
\* the pause of a swap to its verification or rollback; after a swap that could not
\* tell the control to pause, which leaves it paused; and where another test took
\* the successor's name (SwapAgent, promoteWinner).
SomeoneTrades ==
    \/ Trades(Control)
    \/ \E t \in Tests : test[t].status \in {"verified", "promoted"} /\ Trades(test[t].winner)
    \/ coordinator # None /\ test[coordinator].status \in {"swapping", "started"}
    \/ untold
    \/ \E t, u \in Tests : t # u /\ test[t].status \in {"verified", "promoted"} /\ test[u].made >= test[t].winner

\* What is promoted is the control under another name: the configuration that won
\* is nobody's any more, unless another test cloned it again (promoteWinner).
PromotedAsControl ==
    \A t \in Tests : test[t].status = "promoted" /\ test[t].winner \in DOMAIN registered
        => registered[test[t].winner].config = Control \/ registered[test[t].winner].from # t

\* A test that could not be started or was cancelled leaves none of its variants;
\* one that was completed may (CancelExperiment).
CancelLeavesNothing ==
    \A n \in DOMAIN registered : \A t \in Tests :
        registered[n].from = t => test[t].status \notin {"none", "refused", "failed", "cancelled"}

\* The control is kept only if every variant was at least twice as slow, whatever
\* its errors (analyzeResults).
KeptOnlyIfTwiceAsSlow ==
    [][\A t \in Tests : test[t].winner = None /\ test'[t].winner = Control =>
          \A n \in VariantsOf(t) :
             AverageLatency(metrics[t][n]) >= 2 * AverageLatency(metrics[t][Control])]_cloning

\* A test that runs ends, unless its starter's context ends before it does: then
\* it counts as active for good.
ExperimentsEnd == []<>(\A t \in Tests : test[t].status = "running" => ~ test[t].watched)
=============================================================================
