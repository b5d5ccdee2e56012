------------------------------ MODULE MCPlatform ------------------------------
(* What surrounds the agents, checked in one run: backtests, their jobs and   *)
(* the search for parameters, the hub of the API server, the contract net,    *)
(* the conversations with a model and the tests of cloned agents.  Each       *)
(* behaviour is one of one part while the others stay as they began.          *)
EXTENDS BacktestEngine

CONSTANTS
    Methods, Low, High, Steps, Scores, AnyScores, Failed, Orders, Parallel,
    InSample, OutSample, Spans, PopSize, EliteCount, Generations,               \* of BacktestOptimizer
    Users, Limits, MaxJobs,                                                     \* of BacktestJobs
    Clients, SendCap, BroadcastCap, MaxBroadcasts, MaxPings,                    \* of WebSocketHub
    Bidders, Offers, TopicCap, BidCap,                                          \* of ContractNet
    Callers, MaxConvs, MaxMessages, MaxTokens, Lengths, MaxAdded, MaxSystem,    \* of Conversations
    t1, t2, MaxVariants, MaxVariantsPerTest, MaxActiveExperiments, MinSamples,
    Latencies, MaxRequests, MaxSeconds                                          \* of AgentCloning

VARIABLES
    part,
    method, end, order, clean, round, population, worker, results, tested, best, outcome,
    broadcast, sent, delivered, registered, send, closed, conn, reader, writer, got, pings, slow, crashed,
    phase, announced, informed, bidding, subscribed, topic, hand, decoder, bids, collected, contract,
    rejected, late, over, panicked,
    messages, byName, byId, created, call, added, raced,
    names, test, metrics, coordinator, second, shared, untold,
    table, jobCount, answer

searches == <<method, end, order, clean, round, population, worker, results, tested, best, outcome>>
hubs == <<broadcast, sent, delivered, registered, send, closed, conn, reader, writer, got, pings, slow, crashed>>
nets == <<phase, announced, informed, bidding, subscribed, topic, hand, decoder, bids, collected, contract,
          rejected, late, over, panicked>>
talks == <<messages, byName, byId, created, call, added, raced>>
clones == <<names, test, metrics, coordinator, second, shared, untold>>
jobs == <<table, jobCount, answer>>

Optimizer == INSTANCE BacktestOptimizer
Hub == INSTANCE WebSocketHub
Net == INSTANCE ContractNet
Talk == INSTANCE Conversations
Cloning == INSTANCE AgentCloning WITH registered <- names, Tests <- {t1, t2}
Job == INSTANCE BacktestJobs WITH created <- jobCount

ASSUME PlatformAssumption ==
    /\ BacktestAssumption /\ Hub!HubAssumption /\ Talk!ConversationsAssumption /\ Cloning!CloningAssumption
    /\ Net!ContractAssumption /\ Job!JobsAssumption /\ Optimizer!OptimizerAssumption

-----------------------------------------------------------------------------
(* The instances.                                                          *)

\* Candles of one symbol, of two at the same times, and of two at different times.
At(time, close) == [time |-> time, close |-> close]
MCHistories ==
    {[a |-> <<At(1, 10), At(2, 20), At(3, 10), At(4, 20)>>],
     [a |-> <<At(1, 10), At(2, 20)>>, b |-> <<At(1, 20), At(2, 10)>>],
     [a |-> <<At(1, 20), At(2, 10)>>, b |-> <<At(1, 10), At(3, 20)>>]}

Says(side, confidence) == [side |-> side, confidence |-> confidence]
MCAnswers == {None, Says("BUY", 1), Says("SELL", 2), Says("HOLD", 1)}

\* The smallest parameter fails, the others score what they are.
MCScores == [v \in Low .. High |-> IF v = 1 THEN Failed ELSE v]

Offer(cost, quality, spare) == [cost |-> cost, quality |-> quality, spare |-> spare]
MCOffers == {Offer(4, 90, 50), Offer(2, 40, 100), Offer(1, 95, 60)}

\* One of the tests is sampled.
MCRequests == [t \in {t1, t2} |-> IF t = t1 THEN 2 ELSE 0]

-----------------------------------------------------------------------------
(* One part at a time.                                                     *)

Parts == {"backtest", "optimizer", "hub", "net", "talk", "cloning", "jobs"}

\* The ways of agreeing share the ways of sizing a position out among them, and a
\* test has both variants to itself or meets another one over one name.
MCInit ==
    /\ part \in Parts /\ BacktestInit /\ Optimizer!OptimizerInit /\ Hub!HubInit /\ Net!ContractInit
    /\ Talk!Init /\ Cloning!CloningInit /\ Job!JobsInit
    /\ consensus \in {"majority", "weighted", "unanimous"} => sizing = "default" /\ Cardinality(Loaded) = 1
    /\ consensus = "first" => sizing = "kelly" /\ Cardinality(Loaded) = 1
    /\ consensus = "all" => sizing = IF Cardinality(Loaded) = 1 THEN "percent" ELSE "fixed"
    /\ test[t1].auto /\ test[t2].auto
    /\ <<test[t1].variants, test[t2].variants>> \in {<<2, 3>>, <<1, 1>>}
    /\ part # "backtest" => consensus = "majority"
    /\ part # "optimizer" => method = "grid" /\ order = "sorted" /\ Len(population) <= 1 /\ \A e \in Spans : end <= e
    /\ part # "cloning" => test[t1].variants = 2

OfBacktest(A) == part = "backtest" /\ A /\ UNCHANGED <<part, searches, hubs, nets, talks, clones, jobs>>
OfOptimizer(A) == part = "optimizer" /\ A /\ UNCHANGED <<part, engine, hubs, nets, talks, clones, jobs>>
OfHub(A) == part = "hub" /\ A /\ UNCHANGED <<part, engine, searches, nets, talks, clones, jobs>>
OfNet(A) == part = "net" /\ A /\ UNCHANGED <<part, engine, searches, hubs, talks, clones, jobs>>
OfTalk(A) == part = "talk" /\ A /\ UNCHANGED <<part, engine, searches, hubs, nets, clones, jobs>>
OfCloning(A) == part = "cloning" /\ A /\ UNCHANGED <<part, engine, searches, hubs, nets, talks, jobs>>
OfJobs(A) == part = "jobs" /\ A /\ UNCHANGED <<part, engine, searches, hubs, nets, talks, clones>>

MCNext ==
    \/ OfBacktest(BacktestNext) \/ OfOptimizer(Optimizer!OptimizerNext) \/ OfHub(Hub!HubNext)
    \/ OfNet(Net!ContractNext) \/ OfTalk(Talk!Next) \/ OfCloning(Cloning!CloningNext)
    \/ OfJobs(Job!JobsNext)

all == <<part, engine, searches, hubs, nets, talks, clones, jobs>>

\* The fairness of each part, for its own behaviours.
MCFairness ==
    /\ WF_all(OfBacktest(BacktestNext)) /\ WF_all(OfOptimizer(Optimizer!OptimizerNext))
    /\ WF_all(OfHub(Hub!HandOut))
    /\ \A c \in Clients :
          /\ WF_all(OfHub(Hub!Register(c))) /\ WF_all(OfHub(Hub!Unregister(c)))
          /\ WF_all(OfHub(Hub!SendPong(c))) /\ WF_all(OfHub(Hub!ReadFails(c))) /\ WF_all(OfHub(Hub!WriterEnds(c)))
    /\ WF_all(OfNet(\E a \in Bidders : Net!Announce(a))) /\ WF_all(OfNet(Net!Subscribe))
    /\ WF_all(OfNet(Net!TimerFires)) /\ WF_all(OfNet(Net!Award)) /\ WF_all(OfNet(Net!Reject))
    /\ WF_all(OfCloning(Cloning!Tick))
    /\ \A t \in {t1, t2} :
          /\ WF_all(OfCloning(Cloning!FindSource(t) \/ Cloning!RegisterClone(t) \/ Cloning!Save(t) \/ Cloning!Run(t)))
          /\ SF_all(OfCloning(Cloning!CompleteExperiment(t)))
          /\ WF_all(OfCloning(Cloning!PauseControl(t) \/ Cloning!TransferState(t) \/ Cloning!VerifyAgent(t) \/ Cloning!CleanUp(t)))

MCSpec == MCInit /\ [][MCNext]_all /\ MCFairness

-----------------------------------------------------------------------------
(* Properties.                                                             *)

\* The books of a backtest balance and its marks, drawdown and judgements are of
\* its trades; a search reports the best it tried; the best bid in time wins; a
\* list shows only jobs that a worker began (Step, Optimize, selectBestBid,
\* ListJobs).
ReportsAreTrue ==
    /\ part = "backtest" =>
          /\ BacktestTypeOK /\ BooksBalance /\ DrawdownIsOfCurve /\ MarksAreOfTheTime
          /\ PositionsFollowEachOther /\ EntriesAreJudged
    /\ part = "optimizer" =>
          Optimizer!OptimizerTypeOK /\ Optimizer!GridFindsTheBest /\ Optimizer!EliteSurvives
    /\ part = "net" => Net!ContractTypeOK /\ Net!BestBidWins /\ Net!OnlyLateBidsPanic
    /\ part = "jobs" => Job!JobsTypeOK /\ Job!PagesAreStarted

\* No client misses what it was in time for, no question is asked without itself,
\* and a test of clones keeps its agent or a successor active, unless a swap could
\* not tell it to pause or two tests shared names (Hub.Run,
\* CompleteWithConversation, SwapAgent).
NobodyIsLost ==
    /\ part = "hub" => Hub!HubTypeOK /\ Hub!NoGaps /\ Hub!PanicOnlyAfterSlow
    /\ part = "talk" => Talk!TypeOK /\ Talk!QuestionInPrompt /\ Talk!PromptFits /\ Talk!NoneIsHidden
    /\ part = "cloning" =>
          /\ Cloning!CloningTypeOK /\ Cloning!LimitHoldsUnlessShared /\ Cloning!SomeoneTrades
          /\ Cloning!PromotedAsControl /\ Cloning!CancelLeavesNothing

Ended ==
    /\ part = "backtest" => stage \in {"done", "cancelled"}
    /\ part = "optimizer" => outcome \in {"summary", "panic"}
    /\ part = "net" => phase = "done" \/ panicked

\* Backtests, searches, contracts and tests come to an end, clients that went leave
\* the hub; on the way messages go from the oldest on, requests respect the jobs of
\* others and those that ended, and a control is kept only against slower variants
\* (Run, Optimize, StartContractNet, monitorExperiment, readPump).
PlatformGoesOn ==
    /\ []<>Ended /\ Hub!GoneClientsLeave /\ Cloning!ExperimentsEnd
    /\ Talk!TrimsOldestFirst /\ Job!RequestsRespectJobs /\ Cloning!KeptOnlyIfTwiceAsSlow
=============================================================================
