# Formal models of CryptoFunk

This directory holds TLA+ specifications of CryptoFunk: the orchestrator with its pause switch,
voting, consensus, hot-swap and cloning; the exchanges, positions and orders; the agents; the
tool servers with market data, indicators and risk figures; the LLM client; and the backtest and
API server behind them. TLC checks them on small instances; TLAPS proves, for every value of the
constants, every safety invariant and every action property that the passing runs check. Liveness
stays with TLC.

Paths are relative to the repository. `orchestrator.go`, `consensus.go`, `hotswap.go`, `cloning.go`
and `blackboard.go` are in `internal/orchestrator/`; `position_manager.go`, `service.go`, `mock.go` and
`binance.go` in `internal/exchange/`; `positions.go` and `orchestrator_state.go` in `internal/db/`;
`engine.go`, `agent_replay.go` and `optimization.go` in `pkg/backtest/`; an agent is
`cmd/agents/<name>-agent/main.go`.

1. [The system](#1-the-system)
2. [The modules](#2-the-modules)
3. [The runs](#3-the-runs)
4. [Fairness](#4-fairness)
5. [The proofs](#5-the-proofs)
6. [Where code and documents disagree](#6-where-code-and-documents-disagree)
7. [What is not modelled](#7-what-is-not-modelled)
8. [Plan](#8-plan)

## 1. The system

CryptoFunk is a set of processes around a NATS server, a PostgreSQL database, Redis and an
exchange. Agents (`cmd/agents/*`) compute signals and publish them with heartbeats. The
orchestrator (`cmd/orchestrator`) collects both, lets the agents vote every step and publishes
a decision per symbol. The API server (`cmd/api`) forwards pause and resume requests to it and
pushes events to browsers. MCP servers (`cmd/mcp-servers/*`) offer market data, indicators, risk
figures and order execution as tools over stdin and stdout; the order executor owns the exchange
clients and the position manager.

| Component | State | Operations | What is hard | Correct when | Module |
|---|---|---|---|---|---|
| Position manager: `position_manager.go`, `positions.go` | session, map symbol → position, table `positions` | SetSession, OnOrderFilled (open, average, partial close, close and reopen), ClosePositionBySymbol | statements without a transaction; a statement may be applied and still return an error; reload | memory and table agree unless an error, a close by hand or a load of several rows separated them; a fill moves the net position by its quantity; closed rows are final | PositionManager, NetPosition |
| Order service and mock exchange: `service.go`, `mock.go`, order executor | session, orders, fills, rows of orders, trades and sessions | StartSession, StopSession, PlaceMarketOrder, PlaceLimitOrder, CancelOrder, GetOrderStatus | a crash between order and fill; statements that fail one by one; a breaker in front | every fill reaches the position of the session it was made in | OrderService |
| Binance client: `binance.go` | order table, fills, rows | PlaceOrder, CancelOrder, GetOrder, execution reports | three writers of one entry, in any order; retries without a client order id; lost reports | an ended order is ended at the exchange; the table agrees with the exchange at rest | BinanceOrders |
| User data stream: `binance.go` | connection flag, stop channel, listen key | StartUserDataStream, StopUserDataStream, keep-alive | a field read outside the mutex; the deferred reset of an older stream | one stream at a time; a stopped stream ends | BinanceStream |
| Pause control: `orchestrator.go`, `orchestrator_state.go`, `cmd/api/main.go`, `internal/agents/base.go` | flag in memory, rows of `orchestrator_state`, flag of each agent | Pause, Resume, Initialize, callOrchestratorWithRetry, handleControlEvent, makeDecision | a retry beside the attempt it repeats; commit in doubt; crash between commit and broadcast; lock held across I/O | a pause stops decisions; memory, table and agents agree; refusals are honest; nothing blocks for good | PauseControl |
| Voting and agent health: `orchestrator.go`, `internal/agents/heartbeat.go` | signal buffer, agent sessions | handleSignal, handleHeartbeat, checkAgentHealth, makeDecision, cleanOldSignals | three mutexes, four goroutines; late, lost, reordered messages; a full buffer; late cycles | bounded buffer; no vote of an unknown or silent agent; a signal is not counted again and again; trades do not depend on map order, confidences up to 1 provided | SignalVoting |
| Delphi consensus: `consensus.go` 1–575 | sessions with rounds, timeout handlers | StartDelphiConsensus, SubmitDelphiResponse, timeout handler, CleanupExpiredSessions | the last response races the timer; limits checked and inserted under different locks | rounds in order, at most one result, completed rounds final, sessions end | DelphiConsensus |
| Contract net: `consensus.go` 627–890 | bid channels by task | StartContractNet, collectBids, SubmitBid, selectBestBid | a goroutine forwards bids into a channel the collector closes | the contract goes to the best bid in time | ContractNet |
| Hot-swap: `hotswap.go` | registry, swap sessions | RegisterAgent, UnregisterAgent, UpdateAgentState, six steps of SwapAgent, rollback | no lock between the steps; registry by name, swap by pointer | the successor's state is no older than when the swap began; nobody is terminated without a successor; a swap is whole or undone | HotSwap |
| Cloning: `cloning.go` | tests, clones, samples | StartABTest, RecordMetric, completeExperiment, promoteWinner, CancelExperiment | a test counted under the lock and inserted later; clones of concurrent tests share names | somebody trades as the control, with the exceptions the code has; what is promoted is the control | AgentCloning |
| LLM client and fallback: `internal/llm/fallback.go`, `client.go` | circuit per model | Complete, IsOpen, RecordSuccess, RecordFailure, Reset | read lock exchanged for write lock without looking again; answers of calls begun before the circuit opened | closed only below the threshold; a primary model that works is used again | LLMFallback |
| LLM conversations: `internal/llm/conversation.go` | conversations, messages | GetOrCreateConversation, AddMessage, trimming, GetMessagesForPrompt | find and create are two steps; trimming between question and prompt | a question is in the prompt it is asked with | Conversations |
| Agent process: `internal/agents/base.go`, `heartbeat.go`, two mains | connections, pause flag, heartbeat | Initialize, Run, handleControlEvent, CallMCPTool, Shutdown | a step in progress when the process is told to end; control events before and after subscription | follows its control events; finishes the step it is in and publishes no other | BaseAgent |
| The seven agents | beliefs, caches, last signal, trailing stop | Step and what it calls | caches of any age, prices of different times, a lock taken twice | signals follow from what was seen, within limits and of its time | TechnicalAgent, TrendAgent, ReversionAgent, OrderBookAgent, SentimentAgent, ArbitrageAgent, RiskAgent |
| Tool servers: `cmd/mcp-servers/*` | input, output | one request after the other | requests that cannot be decoded; results JSON has no number for | answered in turn, as tools/list tells | ToolServer |
| Risk and indicator tools: `risk-analyzer`, `internal/indicators` | — | Kelly, VaR, limits, Sharpe, drawdown; RSI, MACD, EMA, ADX, Bollinger | boundaries, rounding, empty and flat inputs | agree with their definitions; the market upside down gives the opposite signal | RiskTools, IndicatorTools |
| Market data: `internal/market/*` | two Redis caches, table `market_data` | GetPrice, singleflight, InvalidateCache, Health; syncSymbol | one cache behind another; joined calls; partial candles | no price older than both caches allow; no gap in the candles | MarketPrices, MarketSync |
| Backtest: `engine.go`, `agent_replay.go`, `kelly.go`, `optimization.go` | portfolio, equity curve; results of a search | Step, ExecuteSignal, applyConsensus; Optimize of three optimizers | symbols with different candles, map order; goroutines sorting shared candles | the books balance; the summary has the best result | BacktestEngine, BacktestOptimizer |
| Backtest jobs: `internal/backtest/job.go`, `internal/api/backtest_handler.go` | table `backtest_jobs` | CreateJob, GetJob, UpdateJobStatus, SaveResults, DeleteJob and the handlers | columns that stay NULL; unconditional updates | a page that is shown has the user's own jobs; no request touches another's job or one that ended | BacktestJobs |
| WebSocket hub: `cmd/api/websocket.go` | clients, send channels | Run, readPump, writePump, Broadcast | a slow client's channel is closed under its reader | no gaps for a client whose writer runs; gone clients leave | WebSocketHub |
| Circuit breakers, sessions and orders in the database | counters; rows | Execute; single statements | — | as part of OrderService | OrderService |
| Blackboard, message bus | Redis keys; subscriptions | Post, Subscribe; Send, Request | — | as part of their users | ContractNet, HotSwap, DelphiConsensus |
| API handlers, hierarchy, memory, strategies, alerts, audit, configuration | see `PROJECT.json` | | mostly none | — | — |

`PROJECT.json` lists every component with its sources and why it is modelled or not, and every
hazard at its line with the properties that cover it.

The interactions that the models contain: the API server's retries with the orchestrator's
handlers, the handlers with the table, the decision loop and the agents (PauseControl); the
agents' publishers with the orchestrator's subscriptions, ticker loops and votes (SignalVoting);
fills of either exchange with the position manager and the table, and closes that bypass the manager
(PositionManager); the executor's requests with the simulated exchange, its breaker, the rows and
the position manager, the latter through what its abstract specification NetPosition promises
(OrderService); requests, stream and exchange (BinanceOrders); participants, callers and timers with
a session (DelphiConsensus); bidders, blackboard subscription and collector (ContractNet); agents that
come, go and report while swaps of the same names run (HotSwap), and tests of clones that swap
their winner in (AgentCloning); callers of one cache behind another (MarketPrices).

## 2. The modules

Each component has a module `X` (variables, one action per handler or step, properties), and where TLC
needs values that a configuration cannot write, a module `MCX`. The position manager and four parts of
the orchestrator have a run of their own; the other components are instantiated by five composing
modules: `MCTrading`, `MCLive`, `MCTools`, `MCAgents` and `MCPlatform`. The theorems are in
`PauseControlProofs`, `VotesAndCircuitsProofs` (voting and `MCLive`), `OrchestratorProofs` (hot-swap
and Delphi consensus), `PositionsAndToolsProofs` (position manager and `MCTools`), `TradingProofs`,
`AgentsProofs`, and `PlatformProofs` with the lemmas of `ReportProofs` behind it. In a composing
module, components that share no state are checked in one run: a variable `part` says which of them a
behaviour is about, the others keep their initial state, fairness is that of each part. Interactions
between parts of one such run are not modelled, and hardly exist: the tool servers' answers are inputs
of the agents, the backtest's jobs are never executed by the server.

Operators keep the names of the Go functions where TLA+ allows; definitions called "Mutant" are
plausible mistakes that the properties must reject and are used by no specification. A variable or
field called *history* is written and never read by an action, except to bound it.

### PositionManager, NetPosition

`open` is `openPositions`, `session` is `currentSessionID`, `rows` is the table by id, `nextId`
replaces fresh uuids. A fill runs under the manager's mutex, so `OnOrderFilled` is one action with
four disjuncts, one per branch of the code. What it does to the table is a composition of
statements: `Write` yields *done*, *failed*, and *done with the answer lost* (the request's 30
second context ends); `CreatePosition`, `DBClosePosition`, `UpdatePositionQuantity`,
`UpdatePositionAveraging`, `PartialClosePosition` have the row checks of their functions. The order
of memory and table follows the code in every branch: `OpenPosition` and `CloseAndReopen` change
memory first and keep the change if the statement fails, `AveragePosition` rolls it back,
`PartiallyClose` waits for the statement. A restart of the process is `ClearSession` followed by
`SetSession`, which loads the open rows of a session; several open rows of a symbol collapse into
one entry of the map (`LastLoaded`: the query orders by entry time, latest first, and a closed part
copies the entry time of its position). A row closed by `ClosePositionBySymbol` is *byHand*: the
manager is not told, so memory may hold a position of such a row. Two sets are history. `stale` has the
symbols a fill of which returned an error since the last load (all of them once a load failed),
`several` those of which the last load found more than one open row. The properties state these
exceptions: a position's row is open or closed by hand unless the symbol is stale, and every open row
of its own entry is the position in memory unless the symbol is stale or had several rows.
Prices and P&L are left out, quantities are whole lots.

`NetPosition` is the abstract specification: one integer per symbol, moved by exactly the signed
quantity of an acknowledged fill. A fill answered with an error leaves one of at most two positions,
and the specification says which. `PositionManager` implements it under
`net <- SignedQty(open[s])`, `result <- ret`.

### OrderService, BinanceOrders (MCTrading)

`OrderService` is paper trading. Requests come one at a time over stdin, so a request is a sequence
of steps that only a crash interrupts; every statement may fail, or be done and still answer with an
error (`unsure` and `lostStop` remember which). The breaker is the part of gobreaker the settings
use. `booked` remembers the session in which a filled order reached the position manager; `net` is
what NetPosition promises of it. `StartSession` always creates a session, so after a crash the
positions of the session before stay under its own id.

`BinanceOrders` is live trading. The exchange is external: an order lives there from the moment it
is accepted. PlaceOrder and CancelOrder hold the client's mutex (`lock`) across the call and its
retries; GetOrder writes what it read earlier; execution reports (`wire`) come in order while the
stream is `up` and are lost while it is down. `unanswered`, `missed`, `overtaken`, `dropped` are
history: the ways in which table and exchange can part. Quantities are lots, prices are left out.

### BinanceStream, LLMFallback (MCLive)

`BinanceStream` numbers streams by their starts. `wsConnected` is guarded by the mutex, the field
`wsStopChan` is not, so reading it, closing the channel and the deferred reset are steps of their
own. The context of a stream or of its keep-alive may end in either select. `LLMFallback` has a circuit per model; `IsOpen` is two steps, the look under the read lock and
the move under the write lock. Answers arrive after the circuit changed, callers give up, models
fail and recover. The gobreaker inside each model's client is external: it only refuses or admits.

### ToolServer, RiskTools, IndicatorTools, MarketPrices, MarketSync (MCTools)

`ToolServer` is the loop all four servers share, with the tools and the required arguments of each;
`RiskTools` and `IndicatorTools` are what the tools compute, over integers with exact
arithmetic (percentages, fractions over a common scale). A smoothed average is a recursive function
along its series (`Gather`: each value is the one before times a weight, and the next summand), and
the return at a quantile is the order statistic (`Sorted`: so many are smaller, so many not larger),
which is what the code's sort and index yield. A position of the limits may be worth less than
nothing, as nothing checks its sign (`risk-analyzer/main.go:665`). A result JSON cannot express ends the
server. `MarketPrices` identifies a price with the time at which CoinGecko gave it, so its age is
visible through both caches and the singleflight group. `MarketSync` identifies a candle with the
set of points it was made of, so that a partial candle that overwrites a complete one is visible.
A chart is kept for less than the hour after which a synchronisation asks for another day
(`SyncAssumption`: 15 minutes for a candle and 5 for the cached chart, against 60).

### BaseAgent and the seven agents (MCAgents)

`BaseAgent` is the process of the trend agent or of the arbitrage agent (`kind`): Initialize, the
control subscription, heartbeats, Run with its tool calls, and the way down. In Go, `Run` of the embedded
BaseAgent calls `Step` of BaseAgent, whichever agent embeds it, so the trend agent takes no step of its
own; it alone subscribes to control events. It is stopped from the outside: main has the signal beside
Run, and Shutdown of BaseAgent cancels the context and closes the sessions. The arbitrage agent, which
has a Run of its own, is stopped from the inside: the signal cancels its context, Run returns once its
step is over, then main stops the heartbeat, and a Shutdown of its own closes the NATS connection and
nothing else. The loop of the risk agent is not modelled as a process: it sends heartbeats only
(`generateRiskSignal` is called by nothing), and its judgements are in `RiskAgent`. The steps of the other agents are modelled as their tests call them. Each agent's module translates its step: what is fetched (and may fail, or come from a
cache), how beliefs are kept, how the rules combine votes, what the filters do, and where a model's
answer replaces the rules. Confidences and prices are integers in percent, thousandths or exact
fractions, at the scale at which the code's comparisons decide; where one is rounded, it is towards
nothing, as the two sides of a market must be rounded alike. `RiskAgent` has the read-write lock
with its waiting writer, because a judgement takes the read lock twice.

### BacktestEngine, BacktestOptimizer, BacktestJobs, WebSocketHub, ContractNet, Conversations, AgentCloning (MCPlatform)

`BacktestEngine` advances every symbol by one candle per step, marks positions, records equity, asks
the agents and executes the signals of their consensus; map iteration is any order; quantities and
commissions are rounded down; Kelly's fraction is the configured size, or a quarter. `BacktestOptimizer` has the goroutines of a search over the candles
they share: a sort that meets another one leaves the candles garbled. `BacktestJobs` keeps the NULL
columns of a row, since they decide whether it can be read. `WebSocketHub` has the hub's goroutine
and two pumps per client; broadcasts are numbers; the messages a writer has taken are lost if its write
fails. `ContractNet` has the two goroutines between a
bid and its collector. `Conversations` has one action per method of the manager and memory; a message
is a number and a length, and a memory keeps its system messages apart from the others, since the
trimming and the prompt take them apart. `AgentCloning` has the steps of StartABTest, between which other
tests run, and a promotion as the steps of the swap it uses; `untold` remembers a swap that failed
because the control could not be told to pause, after which it stays paused; improvements are whole percents, rounded
towards none, on the side on which the code's floating point decides the scores.

### PauseControl

`paused`, `mutex` (the holder of `pausedMutex`), `loop` and `up` belong to each orchestrator; `rows`
is the paused column of `orchestrator_state`; `call` is every HTTP request ever sent, `client` what
an API replica waits for; `agentPaused` and `inbox` are the agents' flags and their undelivered
events. `Pause` and `Resume` are the same code with the flag inverted, so a call carries the value
it sets. A handler runs through `Enter` (lock, check of the flag), `Select` and `LockRow`
(`SELECT … FOR UPDATE` in READ COMMITTED: the row is chosen before the lock is waited for), `Store`
(INSERT, COMMIT and the assignment) and `Broadcast`; `StoreFails` and `BroadcastFails` are the error
paths at each point, with a commit that may have been applied. `Retry` is a client whose 5 seconds
are over: a second request goes out while the handler of the first goes on. `Tick`, `Recheck` and
`Publish` are `makeDecision` with its two looks at the flag. `Crash` loses the handlers, and a
transaction that was ready to commit may have been committed; `Initialize` reads the row or fails
to. History: `late` (decisions published since the pause), `torn` (a read or commit ended in an
error), `missed` (agents that a change of the flag did not reach: the broadcast failed, the process
died before it, the agent restarted while paused, or a restart read a value that memory did not have).

### SignalVoting

Time is an integer, `Tick` lets it pass; a ticker keeps one tick for a loop that is late (`due`),
as `time.Ticker` does. Signals and heartbeats are lost (`Lose`), reordered, and delayed up to
`MaxDelay`. `handleSignal` is two steps, `HandleSignal` (age check, `updateAgentSession` under
`agentsMutex`) and `BufferSignal` (append under `signalBufferMutex`, evicting the older half of a
full buffer). A decision cycle is `Select` (the signals of the last step), then for each symbol
`Choose`, `Count` (one per signal, under the read lock: handlers that need the lock wait),
`Decide`, `Publish`, and at the end `Clean`. Weights and confidences are hundredths, and thresholds
are compared multiplied out, exactly: rounding of floating-point numbers is not modelled.
`Winners` is every outcome of the loop over the Go map. `Checked` is `checkAgentHealth`; nothing else
writes `enabled` of a known agent. A confidence is any number, as `handleSignal` checks none. History:
`uses` of a signal, `last` decision with `over`: a signal of more than full confidence was counted.

### DelphiConsensus

`SubmitDelphiResponse`, the body of a timeout handler and `CleanupExpiredSessions` hold `cm.mu` and
are one action each. `StartDelphiConsensus` takes the mutex twice and opens the first round without
it: four actions. A timeout handler waits for the semaphore (`AcquireTimeout`), then its timer may
fire at any time (`RoundTimeout`), and the context it inherited may end at any time
(`CallerCancelled`). A participant answers any request it was sent, at any time and repeatedly; a
lost request is one nobody answers. `asked` is history: the round whose question an answer answers.
`Converges` is `calculateStatistics` in exact arithmetic. Posting the result to the blackboard may fail;
the session is converged all the same, without one. Assumptions: no agent is listed twice among
the participants, and a session's TTL is longer than the call that starts it.

### HotSwap

`registry` maps names to registration objects and `object` holds them, since a swap keeps a pointer
while the registry may change under the same name. `SwapAgent` and its six steps are actions; between
two of them anything may happen: other swaps, `RegisterAgent`, `UnregisterAgent`,
`UpdateAgentState`. Every message may fail, the ping may stay unanswered, a state may not be
serializable. The state of a registration is the number of its last report, as a report replaces all of
it; a swap copies the number. Step records, durations and the list of
snapshots are read by no step and left out.


## 3. The runs

Every property of a passing run is broken by a mutant of the code it is about (`PROJECT.json`,
"mutants"). Bounds are CONSTANTS marked "bound" in their module and used in guards only; `Trading`
alone adds a CONSTRAINT. `CHECK_DEADLOCK FALSE` appears in every configuration because each bounded
system stops when its inputs are used up.

| Run | Instance | Distinct states | Shows |
|---|---|---|---|
| `PositionManager_fills` | 2 symbols, 2 sessions, fills and positions up to 2 lots, 3 rows, 2 errors | 1 036 612 | RowsAgree, ClosedRowsAreFinal; implements NetPosition |
| `PositionManager_partial` | 1 symbol, no errors | violation | OpenRowsAreThePosition: the closed part of a partial close stays an open row |
| `PauseControl_one` | 1 orchestrator, 1 API replica with 2 tries, 2 symbols, 1 agent, 3 calls, 1 error, 2 crashes; fair | 116 209 | AtMostOneLateDecision, MemoryFollowsDatabase, AgentsFollow, TransitionsAlternate, RefusedOnlyIfSo, KeepsGoing |
| `SignalVoting_vote` | 2 agents, 3 signals of confidence 100 or 120 percent, buffer of 2, one pause or resume | 3 596 244 | BufferSound, TradesAreDetermined |
| `SignalVoting_time` | 1 agent, 1 signal, 2 heartbeats, 7 time units, late cycles, a check every 2 units | 336 894 | SilentAgentsAreDisabled, CountedAtMostTwice |
| `DelphiConsensus_rounds` | 1 session, 2 agents, 2 values, 3 rounds; fair | 295 129 | RoundsInOrder, OneResult, CompletedRoundsAreFinal, SessionsEnd |
| `HotSwap_swaps` | agents a, b; swaps a→c, c→(no name), b→d; one foreign registration, and unregistrations, under a and c; two reports | 1 744 148 | SuccessorIsUpToDate, TerminatedOnlyIfReplaced, SwapsAreWhole |
| `Trading` | paper: 1 symbol, 2 orders of up to 2 lots, 2 sessions; live: 2 callers, 2 orders (2 lots and 1), one retry; one mishap per behaviour | 989 931 | FillsAreBooked, TableFollowsExchange, EndsAreKept |
| `Live` | LLM: 2 callers, 2 models, thresholds of 2, 1 outage, 1 cancellation, 1 reset; stream: 2 goroutines, 2 starts; fair | 240 534 | RacesAreContained, CircuitsKeepOrder, LiveGoesOn |
| `Tools` | 2 requests per server; arguments and prices from small sets; 2 callers behind 2 caches, 4 ticks; candles over 3 days; fair | 260 328 | AnswersAreRight, ServersKeepOrder, DataKeepsComing |
| `Agents` | one process with 3 control events; two to four steps of each agent over small markets; fair | 146 032 | SignalsAreSound, AgentsKeepUp, AgentsGoOn |
| `Platform` | 2 backtest agents and three histories; three searches; 2 jobs; 2 clients; 2 bidders; 2 callers with 2 conversations; 2 tests of clones; fair | 167 668 | ReportsAreTrue, NobodyIsLost, PlatformGoesOn |

The first seven runs also check the type invariant of their module (once per module); the five
composed runs check it as one conjunct of their first invariants. Their properties are conjunctions, one
part per component, named and commented in the component's module:

- `FillsAreBooked`: FillsReachPositions, NetIsSessionFills, RowsTellTheOrder, OneSession, NoLateOrder of
  OrderService. `TableFollowsExchange`: EndedMeansEnded, DroppedOnlyUnanswered, NeverAhead, AgreesAtRest,
  RowKnowsTheEnd of BinanceOrders. `EndsAreKept`: EndsAreFinal of the one, ReopenedOnlyByOlderNews of the
  other.
- `RacesAreContained`: ClosedBelowThreshold of LLMFallback; OneStream, NoDoubleClose of BinanceStream,
  which name the windows in which the code opens two streams or closes a channel twice.
  `CircuitsKeepOrder`: ClosesAfterSuccesses, ProbesAfterTimeout. `LiveGoesOn`: PrimaryReturns,
  StoppedStreamsEnd, KeepAlivesEnd.
- `AnswersAreRight`: the tools' results against reference definitions. `ServersKeepOrder`:
  AnsweredInOrder, ToolsTellTheirArguments, PricesAreFresh, WaitingForACall. `DataKeepsComing`:
  EndsWithItsInput, AskersAreAnswered, NoGapWithinADay, LosesOnlyAtTheEdge.
- `SignalsAreSound`, `AgentsKeepUp`, `AgentsGoOn`: two or three statements about each agent, and
  FollowsControl, LastStepIsWhole about the process.
- `ReportsAreTrue`: about backtest, optimizers, contract net and jobs. `NobodyIsLost`: about hub,
  conversations and cloning. `PlatformGoesOn`: each of them ends, with the action properties
  TrimsOldestFirst, RequestsRespectJobs and KeptOnlyIfTwiceAsSlow.

Why the bounds suffice for the cases of interest:

- *PositionManager.* Quantities 1 and 2 give fills below, equal to and above a position. Three rows
  allow open, partial close and reload; or open, close and reopen, and open again. Two errors allow
  a second failure on top of a state the first one damaged. The second symbol and session exist so
  that a statement could hit the wrong one.
- *PauseControl.* Three calls are pause, its retry, and a resume. Two crashes and an error cover an
  answer lost before a restart that is itself followed by one. Two symbols are needed for a pause
  between two decisions of one cycle. Larger numbers are covered by the proofs.
- *SignalVoting.* A buffer of two is filled and evicted by the third signal. For time the constants
  keep the order of the configured values where it matters (step < age of a signal; heartbeats
  arrive within the timeout), and the horizon spans three steps and three health checks. Agents are
  independent of each other in health matters, so one is enough there. With a consensus threshold of
  54 percent and a confidence of 120, two sides can tie above it, which `over` excepts.
- *DelphiConsensus.* Three rounds give a first, a middle and a last one; with two agents and a minimum
  of one there is a full round, a partial and an empty one, and late answers to any earlier round.
  Values 1 and 2 differ enough not to converge. Sessions share nothing but the map and the
  semaphore; the proofs cover any number.
- *HotSwap.* The three swaps are the three situations: disturbed by registrations, chained onto the
  result of another swap while it runs, and left alone (for which `SwapsAreWhole` is stated). Two
  reports are one before a snapshot and one after it, or one under either name.
- *Trading.* On paper, two orders in two sessions let an order of one session meet the start of the
  next, and a failed or unsure statement any later one. Live, two callers and the stream are three
  writers of one table; an order of two lots fills in two reports. The constraint admits one mishap
  (an error, a lost stream, a crash) per behaviour and keeps an order half filled while the other does
  not exist yet; with two mishaps and both orders free the live part alone has 6 million states. The
  proofs of BinanceOrders cover every other number.
- *Live.* Two callers are one that opens the circuit and one whose answer belongs to the time before;
  thresholds of 2 distinguish counting from the first failure; two models are a primary and a
  fallback. Two starts are needed for the deferred reset of one stream to meet the next.
- *Tools.* Prices 1, 2 and 4 over five periods give rising, falling, flat and mixed series, each shorter
  and longer than the periods tried; two levels of cache with lifetimes 1 and 2 over four ticks let
  either expire first. Time of the candles: a day of 5 units, 4 to the hour and 2 to the candle, so that a
  day is not a multiple of a candle; at most two days are asked for, and the clock runs one day past what
  they cover, so that a gap the synchronisation cannot close (91 days in the code) is reached.
- *Agents.* Levels lie on both sides of every threshold and on it. Two steps are enough for what one
  step leaves to the next (beliefs, last books, trailing stop, old news); the trend agent has four, to
  open, trail, hit and re-enter.
- *Platform.* Histories of different lengths make symbols sparse; three scores with a tie and
  a failure are searched in each order; a send channel and a bid channel of capacity 1 are full at the
  second message; two tests share a control under a limit of one.

## 4. Fairness

The safety runs assume none. Elsewhere fairness is weak, of the steps of goroutines that are running or
runnable and of timers that are armed: Go schedules every goroutine, and the calls in these steps have
contexts with deadlines, whose expiry is one of the modelled outcomes. Not assumed anywhere: that a
message or an event arrives, that a crashed process restarts. That callers act is assumed for the LLM
client only.

- `PauseControl!FairSpec`: a handler which can go on does (`WF(Handler(c))`), and the decision loop runs
  while its ticker fires. Strong fairness for the mutex is not assumed. `KeepsGoing` (EveryCallEnds and
  Trades) would fail if a path returned with the mutex held; its mutant does that.
- `DelphiConsensus!DelphiFairSpec`: the steps of `StartDelphiConsensus` are taken, a free semaphore slot is
  given to a waiting handler, and *some* armed timer fires while any is armed. Participants owe no
  answer, nobody has to call `CleanupExpiredSessions`. `SessionsEnd` has one exception, which the code
  really has: the timeout handler of a round lives in the context of the call that opened the round,
  and goes with it.
- `Live`: the callers of the LLM client keep calling (agents ask at every step of theirs; a circuit
  nobody asks stays as it is), their calls proceed, time passes for an open circuit, and the timeout of
  a gobreaker ends. What a goroutine began with the stream, the stream and its keep-alive go on as long
  as the process has not panicked; that a stream is started or stopped, or its context ended, is not
  assumed.
- `Tools`: the loop of a server reads, answers and sees the end of its input; a call to CoinGecko returns
  (with or without a price) and is stored.
- `Agents`: `Judge`, `Update` and `UpdateBeliefs` of the risk agent, once begun.
- `Platform`: steps of a backtest and of a search; the hub's goroutine and both pumps (HandOut,
  Register, Unregister, SendPong, ReadFails, WriterEnds); the announcement, subscription, timer and award
  of a contract; the monitor of a test of clones and the steps of a swap it makes. `CompleteExperiment`
  has strong fairness: it needs the coordinator's mutex, which a promotion of another test may hold
  whenever it is tried; Go's mutexes are handed to a waiting goroutine after a while.

## 5. The proofs

All theorems hold for every value of the constants that the ASSUMEs of the modules allow; the bounds
used by TLC appear as arbitrary natural numbers.

| Module | Theorems | Inductive invariant |
|---|---|---|
| `PositionsAndToolsProofs` | position manager: TypeCorrect, PositionsAgreeWithRows, RowsAreOwned, MemoryAgreesWithRows, ClosedRowsStay, Implementation; tools: ToolsInvariant, ServersInOrder, AnswersHold, SynchronisationKeeps | `IInv` (positions); `ToolsInv`: `ServerInv` (loops), `PriceInv` (prices), `SyncInv` and `SyncPast` (candles), `RiskInv`, `IndicatorInv` |
| `PauseControlProofs` | TypeCorrect, LateDecisionsBounded; for one orchestrator MemoryAgrees, StoredTransitionsAlternate, RefusalsAreHonest, AgentsFollowTheFlag | `TInv`, `LInv`, `SInv`, `FInv` |
| `VotesAndCircuitsProofs` | votes: TypeCorrect, BufferedAgentsKnown, BufferStaysSound, SilentAgentsLoseTheirVote, SignalsCountAtMostTwice, NoTradeDependsOnMapOrder; LLM and stream: LiveInvariant, RacesContained, CircuitsInOrder | `ClockInv` and one per theorem; `LInv` (circuits), `SInv` (stream) |
| `OrchestratorProofs` | hot-swap: TypeCorrect, KnowledgeSurvives, NoOneIsTerminatedForNothing, SwapsStayWhole; Delphi: DelphiTypeCorrect, RoundsFollowInOrder, ResultsAreUnique, CompletedRoundsStay | `IInv`, `WInv` (hot-swap), `RInv` (Delphi) |
| `TradingProofs` | FillsBooked, TableFollows, EndsKept; of BinanceOrders alone KnowledgeIsPast, EndsAreReal, DropsAreExplained, StaysBehind, RestsInAgreement, RowsEndToo, ReopensByOlderNews | `PInv` (paper), `IInv` (live) |
| `AgentsProofs` | AgentsInvariant, TheAgentsKeepUp, TheSignalsAreSound, OldNewsForAFailure, ExposureOfLongs | `AgentsInv`: `PInv` (process), `TechInv`, `TrendInv`, `RevInv`, `BookInv`, `SentInv`, `ArbInv`, `RiskInv` (agents) |
| `PlatformProofs` | PlatformInvariant, NobodyLost, ReportsTrue, StepsGoForward | `PInv`: `HInv` (hub), `TInv` (conversations), `CInv` (clones), `AInv` (who trades), `SInv` (samples), `NInv` (contract net), `JInv` (jobs), `OInv` (search), `BInv` (backtest), the last four in `ReportProofs` |

- **PositionManager.** `IInv` is TypeOK, RowOfPosition, NoOrphanRow (together RowsAgree) and
  `RowIdentity`: rows exist below `nextId` only, a row's entry is not later than the row, and a
  position's id belongs to a row of its symbol even where an error separated the two. Without it a new
  row could be that of another symbol's position, and the two agreements would not survive
  `OpenPosition`. What is excepted is in the statement: `stale` and `several`, and rows closed by hand.
  One lemma says what any fill does (`FillEffect`: at most the row of the position and
  the next fresh row change), so that the four branches are proved once and used for every property.
  `Implementation` maps each action to Acknowledge, Fail, Refuse, Switch or a stutter; it needs `IInv`
  for the quantity in an average or a partial close to be what the row check accepts.
- **PauseControl.** `LInv`: when a decision has come late, the loop is past `Publish` and trading is
  paused, so its next look at the flag ends the cycle. `SInv`: who is inside the critical section
  holds the mutex; a handler that has selected a row has selected the last one; while the process runs
  and nothing is torn, memory equals the last row. `FInv` adds the agents: what an agent will hold once
  it has read its events is the flag (`TipOK`), unless a handler has stored a change and not
  broadcast it yet (`StoredOK`) or the agent is one a change missed. `SInv` and `FInv` are inductive
  only if one orchestrator exists (`Single`, an assumption of the four theorems), as in
  `deployments/k8s`, which runs one replica.
- **SignalVoting.** `SilentAgentsLoseTheirVote` bounds the next check rather than the current time:
  an enabled agent's last heartbeat is at most the timeout plus an interval before the next check.
  It assumes that no heartbeat arrives later than the timeout (`Prompt`). `SignalsCountAtMostTwice`
  gives each signal a budget: its uses, plus one for a waiting tick, plus one if the next tick is
  within a step of its sending, never exceed two. `NoTradeDependsOnMapOrder` assumes a consensus
  threshold above one half (`Majority`) and excepts decisions that counted a confidence above 1 (`over`):
  without one the scores add up to at most the total weight, with one two sides may tie.
  `BufferStaysSound`: arrival numbers in the buffer are distinct, so a full buffer has a signal older
  than half of the others and eviction always makes room.
- **DelphiConsensus.** `RInv` states of every session object what RoundsInOrder and OneResult say, and
  relates it to how far the starting call has come, because the first round is opened outside the
  mutex.
- **HotSwap.** `IInv` follows the number of the old agent's last report from its registration to the
  snapshot to the new registration: reports are numbered upwards, so what replaces a state is newer.
  `WInv` says at each step of a swap that nobody else touches (`Alone`) which of its two names is
  registered, to which object and in which status, so that its end, or its rollback, is whole.
- **Trading, live.** `IInv` says of every entry of the table, every answer in a caller's hands and every
  report on the wire that it is a *past* of the order at the exchange: fewer lots or the same, and if it
  is an end, the order itself (`Past`). An order on which one of them is behind is *told*: its present
  state is on the wire, behind that report, or a report of it was lost for good. From this and the
  mutex that PlaceOrder holds from the request to the mapping, all its properties follow without
  another induction.
- **Trading, paper.** `PInv` follows a request through its steps: which order it works on, which of its
  statements are behind it, and that an order whose fill has reached the position manager is booked
  under the session that was current. `net` is the sum of the orders booked under a session
  (`SumAdd` and its kin, from the library's facts about finite sets and well-founded recursion), and a
  breaker that is half open closes at the call after which it would otherwise refuse, so that no request
  is under way while the breaker is open.
- **Live.** `LInv`: who is about to move a circuit to half-open saw it open and old enough, unless
  another caller overtook it (`raced`); a half-open circuit counts successes in a row. `SInv`: the flag
  `wsConnected` and the closes under way are one token for the stream that is open, so that a second
  stream or a second close needs one of the windows that the properties name.
- **Platform.** `HInv`: while its writer runs, what a client got and what is in its channel are together
  the broadcasts handed out since it was registered, by position, and a channel is closed only for slowness or after its
  reader left. `TInv`: the messages of a memory are numbered upwards, and a question that was asked is among them or was
  trimmed when there was no room for it; `TrimKeeps` says what trimming leaves, for any numbers and
  lengths. `CInv`: a name is registered from a test only while the test has that clone; tests that are
  busy stay within the limit if every start looked alone. `AInv`: the control is active unless a swap of
  it is under way, failed to tell it, or succeeded; and a verified winner is active as the control unless
  another test made a clone of its name.
- **Platform, reports.** `NInv`: the bids in either channel, in the goroutine's hand and collected are of
  different agents, and what is underway after the timeout is late; the winner has the highest score,
  and a bid that is cheaper, better and earlier scores more. `JInv`: a row has its message only once a
  worker began it, so a page that can be read has such rows only; no row can be read by its id (`NoneIsGot`).
  `OInv`: a worker that is done has reported its score, or its run failed; while the candles were never
  garbled reports are what the runs score, so the best of the reports is the best of the range; of a
  genetic search the best of a generation is again in the next. `BInv`: cash is
  capital plus what was realized less the cost of the open positions; peak and drawdown are attained
  on the curve and bound it; where the symbols have candles of the same times, a candle was passed
  exactly if it is not after the step; a signal that names a symbol is an agent's, about the current
  candle. Sums over positions are folds of the community modules; `AdditiveExists` and `SumIsAdditive`
  say that they do not depend on the order, from which `CostOpened` and `CostClosed` follow. The
  drawdown is proved to be the deepest fall between *any* two points of the curve.
- **StepsGoForward** states the action properties TrimsOldestFirst, RequestsRespectJobs and
  KeptOnlyIfTwiceAsSlow. The first needs that trimming removes from the front; the second, what each
  request may answer and change; the last, that samples are counted once and failed at most once (`SInv`), so
  that error rate and throughput cost a variant at most half of its score and only twice the latency can
  cost the rest. It is proved with improvements rounded towards none; rounded down, 1991 against 1000
  would count as twice as slow.
- **Agents, the process.** `PInv` says what an agent that subscribed will hold when it has read its
  events (`Following`), and how a process ends (`Finishing`): main of the arbitrage agent closes the connection
  only after Run is over, and a step that `select` lets begin under a cancelled context gets no answers, so
  that of the signals published after the cancellation there is at most one. That a tool call under a
  cancelled context fails is external.
- **Agents, the rules.** What an agent decides is a case distinction over numbers, stated once per rule
  (`RSIVote`, `BandsSay`, `ImbalanceVotes`, `DepthVotes`) and put together at the combination.
  `TechInv`: a belief is older than the trend only where its indicator was missing. `SupportHelps`: with
  a vote more for its side the weighted mean of a signal does not fall. `TrendInv` says that the
  extremes are the largest and the smallest price of the run. `BookInv`: a signal was judged from the
  snapshots in the history; `HoldingLess`: spoofing flags scale HOLD only, so they never stop a trade
  that the votes would make. `SentInv`: news in the cache are no older than the lookback when they were
  fetched; opposite news have opposite scores, the same weights and the same number (`SumRenamed`, since
  renaming articles does not change a sum). `ArbInv` follows the minute of each price; a price gained in
  a spread is a move within it and the fees of both exchanges exceed the rounding (`FeesExceed`,
  `NoProfitInOnePrice`). `RiskInv`: who judges holds the read lock, what was asked is what is answered,
  and an exposure sums long positions only.
- **Tools, the servers.** `ServerInv`: the answers are those to the lines read so far that have one, in
  their order. `PriceInv`: the inner cache's price is younger than its lifetime at its storing, the
  outer one's younger than the two together, and whoever waits waits for the call in flight. `SyncInv`
  and `SyncPast`: a stored candle has points of its own time and of the past. What a chart stores is
  *Fetched*: from its first point to the present, without a gap; hence the candle that may lose points
  is the first of the chart (`LosesLittle`), and what is left out lies between the last candle and the
  chart's first point, less than a day as long as the days asked for reach back far enough (`DaysReach`,
  `LeavesLittleOut`).
- **Tools, the answers.** `SortedIs` shows that the order statistic exists, so that the loss at risk is
  covered by as many returns as the confidence says. The drawdown is the deepest fall between *any* two
  points, by maxima along the curve (`PeakIs`, `RunningMaxIs`). For the indicators a market is turned
  upside down: gains become losses (`ChangesMirror`), a smoothed average changes its sign
  (`GatherNegated`, `GatherOpposed`), whence each indicator's signal turns (`RSIMirrors`, `EMAMirrors`,
  `BollingerMirrors`, `ADXMirrors`). That a market which goes one way has an ADX of 100 needs that what
  is smoothed is never zero, and for the ADX a sum that starts at zero and grows by a power
  (`PowDoubles`). Every fact about `Gather` rests on its existence for all lengths (`GatheringExists`),
  which is proved from the least length for which it would fail (`Least`), not by an induction theorem.

The assumptions on constants (`BinanceAssumption`, `TradingAssumption`, `LiveAssumption`,
`PlatformAssumption`, `AgentsAssumption`, `ToolsAssumption` and those of the orchestrator's modules) say
of which sets they are, that names are not numbers, and which bounds are positive; TLC evaluates each of
them in the run of its module. `BacktestAssumption` asks for candles in order of time with prices above
zero, as the loader sorts them and a market has them, a commission of at most the whole value, and one
of the five consensus names that `applyConsensus` knows; `OptimizerAssumption`, that no run that
succeeds scores below one that failed, whose score is minus infinity in the code
(`optimization.go:878`).

`AgentsAssumption` asks for prices above zero (for the arbitrage agent of a resolution at which its fees
are more than a rounding: at least 5), weights and volumes that are not negative, and a threshold of
sentiment between nothing and all. `ToolsAssumption` asks for confidences of 1 to 99 percent, as the
code's check demands, and orders the times of market data as the code does: a cached chart and a candle
are together no longer than the hour within which a synchronisation asks for nothing (5 and 15 minutes,
`cache.go:158`, `sync.go:173`).

Only model-checked, since liveness under fairness is beyond the prover: KeepsGoing, SessionsEnd,
LiveGoesOn, EndsWithItsInput and AskersAreAnswered of DataKeepsComing, JudgementsEnd of AgentsGoOn, and
in PlatformGoesOn that runs, contracts and experiments end and gone clients leave. The action properties
conjoined to them are theorems: NoGapWithinADay and LosesOnlyAtTheEdge (SynchronisationKeeps),
OldNewsOnlyOnFailure, ExposureIsOfLongs, and the three of StepsGoForward. No invariant of a passing run
is without a theorem.

## 6. Where code and documents disagree

Checked by a violation run (`PROJECT.json`, "findings"): `positions.go:622` inserts the closed part
of a partial close without exit columns, so it is an open row, which a reload takes for a position;
`positions.go:597` calls it "a new closed position record", and so does
`position_manager_test.go:260` (`PositionManager_partial`).

Other disagreements met while writing the models. They are part of the models, and the properties
except them by name (`stale`, `several`, "byHand", `torn`, `missed`, `over`, `Alone`, `untold`, `overtaken`, "gone",
"panicked"):

*Positions and orders.*
- `service.go:693`: ClosePositionBySymbol closes the row and leaves the position in the manager's
  memory, without any error; the next order of that symbol works on the closed row and fails.
- `position_manager.go:60`: when the load of a session's positions fails, those of the session before
  are used under the new one.
- `binance.go:107`: a market or limit order carries no client order id, so an attempt whose answer was
  lost is sent again and both may be executed. `binance.go:292`: GetOrder writes what it read before it
  had the mutex, so a filled order may be open again until the next report.

*Orchestrator.*
- `orchestrator.go:510`: one decision may be published after a pause took effect, since the flag is
  checked before the publication and the lock released in between; AtMostOneLateDecision is the bound
  the code does keep.
- `orchestrator.go:797`: a commit that is applied and answered with an error leaves the database paused
  and memory trading; from then on Pause and Resume are both refused until a restart.
- `orchestrator.go:245`: if the state cannot be read at start, trading begins although it was paused.
- `orchestrator_state.go:74`: with two orchestrators both can store a pause; the row lock does not
  cover a row inserted while waiting. (The proofs assume one.)
- `cmd/api/main.go:902`: the retry of a slow pause is refused ("already paused"), and the API reports a
  failure for a pause that took effect; `cmd/api/main.go:904` says otherwise.
- `orchestrator.go:606`: when only disabled agents have voted, the confidence is 0/0, which JSON cannot
  express, and the cycle publishes nothing, not even HOLD; `:509` announces a decision per symbol.
- `orchestrator.go:694`: nothing enables an agent again that was disabled once.
- `orchestrator.go:569`: every signal of a window counts, so repeated signals of one agent can outvote
  the risk agent, whose weight is described as a veto (`orchestrator.go:450`).
- `orchestrator.go:324`: handleSignal takes any confidence, and the reversion agent forwards the number of
  its model as it is (`main.go:952`). With a confidence above 1 two sides can tie above the consensus
  threshold, and the trade is whichever the map gives first.
- `consensus.go:388`: if the result cannot be posted, that is logged and the session stays converged
  without one.
- `consensus.go:307`: an answer carries no round, so a late answer to one round is counted in the next
  (`consensus.go:62`, `:267`). `:156`: the session limit is checked and the session inserted under
  different locks. `:441`: convergence is compared with the literal 0.8; `ConvergenceThreshold` is read
  by nothing.
- `consensus.go:771`: a bid that is forwarded while the collector closes the channel panics; bids that
  arrive before the subscription are lost; the end of the context does not end the collection.
- `hotswap.go:335`: after a rollback the new agent stays registered (`TASKS.md:2775`). `:302`: if the
  pause message cannot be sent the old agent stays paused; `:301`: between its pause and the
  registration of the new one nobody serves; `:690`: a report replaces the whole state, so what the new
  agent was given by the swap goes with its first report, and what the old one reports after the snapshot
  is lost; `:548`: a swap onto the same name unregisters its own new
  agent.
- `cloning.go`: the limit of tests is checked without a reservation; variants of two tests of one
  control share names; a variant identical to its control scores 100, which counts as significant,
  and so does one without samples; a control is kept only if every variant is at least twice as slow;
  completed tests leave their variants registered; a monitor whose context ended leaves its test
  counted as active.

*Agents.*
- `base.go`: Go's embedding makes `BaseAgent.Run` call `BaseAgent.Step`, so the technical, trend,
  reversion, order book and sentiment agents never take the step they define. Only the trend agent
  subscribes to control events. Shutdown of an agent does not call BaseAgent.Shutdown, and stopping a
  heartbeat publisher twice closes its channel twice.
- Trend agent: its helpers do not read dotted keys, so stop, target and ratio are the defaults, with
  which no trade ever reaches the required ratio. Arbitrage agent: scores end at 0.75, below the
  threshold of 0.80. Reversion agent: a flat market counts as "at the upper band" and is sold;
  of bands closer than half a percent, a price above both counts as at the lower one and is bought.
- Order book agent (`main.go:796`): suspected spoofing is to "reduce confidence in all signals" and
  reduces that of HOLD only. Sentiment agent: the confidence of HOLD is highest next to the thresholds
  and zero in the middle, and news of any age are used when none can be fetched.
- Risk agent: `main.go:684` takes a second read lock inside that of `main.go:1182`; a writer between the
  two is a deadlock, which JudgementsEnd excepts by name (`caught`). The recommended size may exceed what was asked for; the model's answer may approve what a
  limit forbids.

*Tools, market data, LLM.*
- A tool server reads on forever after input that is no JSON, does not answer a request it cannot
  decode, and ends at an answer that is no JSON number. `std_dev` of the bands is ignored; flat prices
  are a "buy".
- Two caches in a row: a price may be as old as both lifetimes together; InvalidateCache clears the outer
  one only; those who join a call fail with the context of the one who made it. The candle of an interval that
  is not over replaces a complete one. After more than 91 days without a synchronisation the first days of the
  gap are never fetched (`sync.go:173`). SyncService.Stop twice panics.
- `docs/LLM_PROMPT_DESIGN.md:849`: a half-open circuit "allows one request through"; the code lets any
  number pass.

*Backtest and API server.*
- `engine.go:614`, `:631`: the positions left at the end are announced to be closed and stay open.
  `agent_replay.go:78` describes strategies that follow a vote; the signal of a vote has no symbol
  (`agent_replay.go:304`), so votes never trade. MaxDrawdownPct is the percentage of the largest absolute drawdown.
- `optimization.go`: the goroutines of a search sort the candles they share in place; a search in which
  every run fails panics; in- and out-of-sample windows share a candle; the walk-forward result is
  chosen by its out-of-sample score.
- `job.go`: CreateJob leaves columns NULL that GetJob scans into strings, so no job is found by its id, though
  `backtest_handler.go:114` refers to that request and `:123` documents its answer;
  a page of the list fails while a job on it was never updated; nothing in the server runs a job.
- `websocket.go`: a pong to a client that was just dropped for being slow is sent on a closed channel and
  ends the API server.
- `conversation.go`: two callers that find no conversation create two; removing one may hide the name of
  the other.

## 7. What is not modelled

- Data: prices and P&L in floating point, prompts, message texts, metrics, logs. Arithmetic is exact, on
  small integers; where the code's result hangs on rounding, the comment of the definition says so.
- Read-only queries (`GetStatus`, `GetPositions`, `ListSessions`), `UpdateUnrealizedPnL`, and the step
  records and histories of swaps.
- Signals in SignalVoting are any action an agent may send; what agents compute is in their own modules,
  and the two are not composed.
- Clock differences between processes: the time stamp of a message and the orchestrator's clock are
  the same clock.
- Of partly modelled components: decimal parsing and commissions of the Binance client; the database's
  and the LLM's gobreaker, which have the form of the exchange's; queries of orders, sessions, candles and
  blackboard entries; prompts and token counts of the LLM client; coin information in the price cache.
- The components with status `not_modelled` in `PROJECT.json`, each with its reason there: libraries that
  only tests use (hierarchy), pure functions and text (strategies, memory, prompts, validation), single
  statements or one-way delivery without state that another part decides on (alerts, audit, most API
  handlers).
- The session limit of DelphiConsensus (`consensus.go:156`) is exceeded in a few steps of the model; no
  property states a bound, since any number of callers may stand between check and insertion.

## 8. Plan

1. **OrderLife**, the abstract life cycle of an order (accepted, filling, ended), and the refinement of
   BinanceOrders and OrderService to it; `Told` and `Past` of the proofs are most of the argument.
2. An abstract three-state breaker, with LLMFallback and the breaker of OrderService as its
   implementations; `LInv` and `PInv` say what its steps need.
3. **MessageBus** and the rest of the blackboard (`messagebus.go`, `blackboard.go`: requests with
   replies that come late, expiry of entries and their indices), against which the uses in HotSwap,
   DelphiConsensus and ContractNet can be stated.
4. A composition of PauseControl and SignalVoting: the pause flag of one is that of the other, so that
   AtMostOneLateDecision is about real decisions; then BaseAgent as the receiver of its events.
5. **Hierarchy** (`hierarchy.go`): every delegated task is answered or failed.
