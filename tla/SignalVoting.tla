----------------------------- MODULE SignalVoting -----------------------------
(***************************************************************************)
(* How the orchestrator turns the signals of the agents into trading       *)
(* decisions (internal/orchestrator/orchestrator.go): the handlers of the  *)
(* signal and heartbeat subscriptions, the buffer of signals, the sessions *)
(* of the agents, the periodic health check, and the decision cycle with   *)
(* its weighted vote.                                                      *)
(*                                                                         *)
(* Five activities interleave: the two subscriptions, the decision loop,   *)
(* the health check and the agents that publish.  A time stamp is an       *)
(* integer; weights and confidences are hundredths, so a score is in units *)
(* of 1/10000 and a threshold is compared without division.  Messages are  *)
(* lost, delayed up to MaxDelay, and delivered in any order (two replicas  *)
(* of an agent share its name).                                            *)
(***************************************************************************)
EXTENDS Integers, FiniteSets

CONSTANTS
    Agents,              \* names of agents
    AgentType,           \* the type an agent reports in every message
    AgentStatus,         \* the status an agent reports in its heartbeats
    Says,                \* the actions an agent may signal
    Symbols,             \* trading symbols
    Confidences,         \* confidences of signals, in hundredths; handleSignal takes any number
    MaxSignalBufferSize,
    StepInterval, MaxSignalAge, HealthCheckInterval,
    HeartbeatTimeout,    \* 5 minutes in checkAgentHealth
    SignalTimeout,       \* 10 minutes in checkAgentHealth
    MinConsensus, MinConfidence,
    MaxDelay,            \* assumption: a message arrives within this time or never
    MaxNow,              \* bound: length of a run
    MaxSignals,          \* bound: signals ever sent
    MaxBeats,            \* bound: heartbeats ever sent
    MaxInFlight,         \* bound: signals on their way at the same time
    MaxToggles           \* bound: how often trading is paused or resumed

Actions == {"BUY", "SELL", "HOLD"}
Unit == 100

ASSUME InputAssumption ==
    /\ AgentType \in [Agents -> STRING] /\ AgentStatus \in [Agents -> STRING]
    /\ Says \in [Agents -> SUBSET Actions]
    /\ Confidences \subseteq Int

ASSUME ConfigAssumption ==
    /\ MaxSignalBufferSize \in Nat /\ MaxSignalBufferSize >= 2
    /\ StepInterval \in Nat \ {0}
    /\ MaxSignalAge \in Nat
    /\ HealthCheckInterval \in Nat \ {0}
    /\ HeartbeatTimeout \in Nat
    /\ SignalTimeout \in Nat
    /\ MinConsensus \in 1 .. Unit
    /\ MinConfidence \in 1 .. Unit

ASSUME BoundsAssumption ==
    /\ MaxDelay \in Nat
    /\ MaxNow \in Nat
    /\ MaxSignals \in Nat
    /\ MaxBeats \in Nat
    /\ MaxInFlight \in Nat
    /\ MaxToggles \in Nat

VARIABLES
    now,
    pending,     \* signals on their way to the orchestrator
    beats,       \* heartbeats on their way to the orchestrator
    spent,       \* how much of the bounds on the inputs was used
    agents,      \* o.agents
    handling,    \* the signal handleSignal has registered and not yet buffered
    buffer,      \* o.signalBuffer: a set, ordered by the arrival number n
    arrivals,    \* signals buffered so far
    paused,      \* o.paused, kept by PauseControl
    due,         \* a tick is waiting in the decision loop's ticker
    nextStep, nextCheck,   \* when the two tickers fire next
    loop,        \* the decision loop
    last         \* history: the last decision and whether it was published

netVars == <<pending, beats, spent>>
clock == <<now, due, nextStep, nextCheck>>
vars == <<netVars, clock, agents, handling, buffer, arrivals, paused, loop, last>>

-----------------------------------------------------------------------------
(* Data.                                                                   *)

\* getDefaultWeight: an unknown type weighs 20.
Weights == [technical |-> 25, orderbook |-> 20, sentiment |-> 15, trend |-> 30,
            reversion |-> 25, arbitrage |-> 20, risk |-> 100]
DefaultWeight(type) == IF type \in DOMAIN Weights THEN Weights[type] ELSE 20
Weight(a) == DefaultWeight(AgentType[a])

\* uses is history: the decision cycles that took the signal into account.
Signal == [agent : Agents, symbol : Symbols, action : Actions,
           confidence : Confidences, sent : Nat, n : Nat, uses : Nat]
Heartbeat == [agent : Agents, sent : Nat, n : Nat]
NoSignal == [n |-> 0]

\* The zero time.Time: older than any timeout.
Never == 0 - (HeartbeatTimeout + SignalTimeout + 1)
NoSession == [enabled |-> FALSE]
Status == {"HEALTHY", "DEGRADED", "UNHEALTHY", "UNKNOWN"} \cup {AgentStatus[a] : a \in Agents}
Session == [enabled : BOOLEAN, heartbeat : Int, signal : Int, status : Status]

NoVotes == [a \in Actions |-> 0]
Idle == [pc |-> "idle"]
\* over is history: a signal that counted claims more than full confidence.
Cycle == [pc : {"choosing", "counting", "decided", "cleaning"},
          left : SUBSET Symbols, window : SUBSET Signal, todo : SUBSET Signal,
          score : [Actions -> Int], total : Nat,
          action : Actions, over : BOOLEAN]
Decision == [action : Actions, score : [Actions -> Int], total : Nat,
             over : BOOLEAN, published : BOOLEAN]
NoDecision == [action |-> "HOLD", score |-> NoVotes, total |-> 1,
               over |-> FALSE, published |-> TRUE]

TypeOK ==
    /\ now \in Nat
    /\ pending \subseteq Signal
    /\ beats \subseteq Heartbeat
    /\ spent \in [signals : Nat, beats : Nat, toggles : Nat]
    /\ agents \in [Agents -> Session \cup {NoSession}]
    /\ handling \in Signal \cup {NoSignal}
    /\ buffer \subseteq Signal
    /\ arrivals \in Nat
    /\ paused \in BOOLEAN
    /\ due \in BOOLEAN
    /\ nextStep \in Nat
    /\ nextCheck \in Nat
    /\ loop \in Cycle \cup {Idle}
    /\ last \in Decision

Registered(a) == agents[a] # NoSession
\* agentsMutex: the vote holds the read lock, every handler needs the lock.
AgentsUnlocked == loop.pc # "counting"

Init ==
    /\ now = 0
    /\ pending = {} /\ beats = {}
    /\ spent = [signals |-> 0, beats |-> 0, toggles |-> 0]
    /\ agents = [a \in Agents |-> NoSession]
    /\ handling = NoSignal
    /\ buffer = {}
    /\ arrivals = 0
    /\ paused = FALSE
    /\ due = FALSE
    /\ nextStep = StepInterval
    /\ nextCheck = HealthCheckInterval
    /\ loop = Idle
    /\ last = NoDecision

-----------------------------------------------------------------------------
(* Agents, network and time.                                               *)

SendSignal(a) ==
    /\ spent.signals < MaxSignals
    /\ Cardinality(pending) < MaxInFlight
    /\ \E sym \in Symbols, act \in Says[a], conf \in Confidences :
           pending' = pending \cup
               {[agent |-> a, symbol |-> sym, action |-> act, confidence |-> conf,
                 sent |-> now, n |-> spent.signals + 1, uses |-> 0]}
    /\ spent' = [spent EXCEPT !.signals = @ + 1]
    /\ UNCHANGED <<beats, clock, agents, handling, buffer, arrivals, paused, loop, last>>

SendHeartbeat(a) ==
    /\ spent.beats < MaxBeats
    /\ beats' = beats \cup {[agent |-> a, sent |-> now, n |-> spent.beats + 1]}
    /\ spent' = [spent EXCEPT !.beats = @ + 1]
    /\ UNCHANGED <<pending, clock, agents, handling, buffer, arrivals, paused, loop, last>>

\* Core NATS delivers at most once.
Lose ==
    /\ \/ \E m \in pending : pending' = pending \ {m} /\ UNCHANGED beats
       \/ \E b \in beats : beats' = beats \ {b} /\ UNCHANGED pending
    /\ UNCHANGED <<spent, clock, agents, handling, buffer, arrivals, paused, loop, last>>

\* Time passes.  A ticker keeps one tick for a loop that is late; the health
\* check is short and never late.
Tick ==
    /\ now < MaxNow
    /\ now < nextCheck
    /\ \A m \in pending \cup beats : now - m.sent < MaxDelay
    /\ now' = now + 1
    /\ due' = (due \/ now + 1 = nextStep)
    /\ nextStep' = IF now + 1 = nextStep THEN nextStep + StepInterval ELSE nextStep
    /\ UNCHANGED <<nextCheck, netVars, agents, handling, buffer, arrivals, paused, loop, last>>

\* Pause and Resume, whatever their reason.
TogglePause ==
    /\ spent.toggles < MaxToggles
    /\ paused' = ~paused
    /\ spent' = [spent EXCEPT !.toggles = @ + 1]
    /\ UNCHANGED <<pending, beats, clock, agents, handling, buffer, arrivals, loop, last>>

-----------------------------------------------------------------------------
(* The subscriptions.                                                      *)

\* Mutant: a session that is registered by a signal has no status.
UpdateAgentSessionBare(m) ==
    agents' = [agents EXCEPT ![m.agent] =
        IF Registered(m.agent)
        THEN [@ EXCEPT !.signal = m.sent]
        ELSE [enabled |-> TRUE, heartbeat |-> Never, signal |-> m.sent]]

\* updateAgentSession
UpdateAgentSession(m) ==
    agents' = [agents EXCEPT ![m.agent] =
        IF Registered(m.agent)
        THEN [@ EXCEPT !.signal = m.sent]
        ELSE [enabled |-> TRUE, heartbeat |-> Never, signal |-> m.sent,
              status |-> "UNKNOWN"]]

\* handleSignal up to the end of updateAgentSession: a signal that is too old
\* is dropped.
HandleSignal ==
    /\ handling = NoSignal
    /\ \E m \in pending :
           /\ pending' = pending \ {m}
           /\ IF now - m.sent > MaxSignalAge
              THEN UNCHANGED <<agents, handling>>
              ELSE /\ AgentsUnlocked
                   /\ UpdateAgentSession(m)
                   /\ handling' = m
    /\ UNCHANGED <<beats, spent, clock, buffer, arrivals, paused, loop, last>>

\* A full buffer loses the older half.
Evicted ==
    IF Cardinality(buffer) >= MaxSignalBufferSize
    THEN {s \in buffer : Cardinality({t \in buffer : t.n < s.n}) < MaxSignalBufferSize \div 2}
    ELSE {}

\* Mutant: the buffer is never full.
BufferSignalUnbounded ==
    /\ handling # NoSignal
    /\ buffer' = buffer \cup {[handling EXCEPT !.n = arrivals + 1]}
    /\ arrivals' = arrivals + 1
    /\ handling' = NoSignal
    /\ UNCHANGED <<netVars, clock, agents, paused, loop, last>>

\* The rest of handleSignal, under signalBufferMutex.
BufferSignal ==
    /\ handling # NoSignal
    /\ buffer' = (buffer \ Evicted) \cup {[handling EXCEPT !.n = arrivals + 1]}
    /\ arrivals' = arrivals + 1
    /\ handling' = NoSignal
    /\ UNCHANGED <<netVars, clock, agents, paused, loop, last>>

\* handleHeartbeat
HandleHeartbeat ==
    /\ AgentsUnlocked
    /\ \E b \in beats :
           LET a == b.agent
           IN  /\ beats' = beats \ {b}
               /\ agents' = [agents EXCEPT ![a] =
                      IF Registered(a)
                      THEN [@ EXCEPT !.heartbeat = b.sent, !.status = AgentStatus[a]]
                      ELSE [enabled |-> TRUE, heartbeat |-> b.sent, signal |-> Never,
                            status |-> AgentStatus[a]]]
    /\ UNCHANGED <<pending, spent, clock, handling, buffer, arrivals, paused, loop, last>>

-----------------------------------------------------------------------------
(* The health check.                                                       *)

\* Mutant: an agent that still sends signals counts as alive.
CheckedBySignal(s) ==
    CASE now - s.signal > SignalTimeout ->
             [s EXCEPT !.status = "UNHEALTHY", !.enabled = FALSE]
      [] OTHER -> [s EXCEPT !.status = "HEALTHY"]

Checked(s) ==
    CASE now - s.heartbeat > HeartbeatTimeout ->
             [s EXCEPT !.status = "UNHEALTHY", !.enabled = FALSE]
      [] now - s.heartbeat <= HeartbeatTimeout /\ now - s.signal > SignalTimeout ->
             [s EXCEPT !.status = "DEGRADED"]
      [] OTHER -> [s EXCEPT !.status = "HEALTHY"]

\* checkAgentHealth, when its ticker fires.
CheckAgentHealth ==
    /\ now = nextCheck
    /\ AgentsUnlocked
    /\ agents' = [a \in Agents |-> IF Registered(a) THEN Checked(agents[a]) ELSE NoSession]
    /\ nextCheck' = nextCheck + HealthCheckInterval
    /\ UNCHANGED <<netVars, now, due, nextStep, handling, buffer, arrivals, paused, loop, last>>

-----------------------------------------------------------------------------
(* The decision cycle.                                                     *)

\* Mutant: the window is as long as signals are kept.
RecentEnough(s) == now - s.sent <= MaxSignalAge

\* getRecentSignalsBySymbol takes the signals of the last step.
Recent(s) == now - s.sent <= StepInterval

\* makeDecision up to the loop over the symbols.
Select ==
    LET window == {s \in buffer : Recent(s)}
    IN  /\ loop.pc = "idle"
        /\ due
        /\ due' = FALSE
        /\ IF paused
           THEN UNCHANGED <<loop, buffer>>
           ELSE /\ loop' = [pc |-> "choosing", left |-> {s.symbol : s \in window},
                            window |-> window, todo |-> {},
                            score |-> NoVotes, total |-> 0, action |-> "HOLD", over |-> FALSE]
                /\ buffer' = {IF Recent(s) THEN [s EXCEPT !.uses = @ + 1] ELSE s : s \in buffer}
        /\ UNCHANGED <<netVars, now, nextStep, nextCheck, agents, handling, arrivals, paused, last>>

\* calculateDecision takes the read lock and starts from no votes.
Choose(sym) ==
    /\ loop.pc = "choosing"
    /\ sym \in loop.left
    /\ loop' = [loop EXCEPT !.pc = "counting", !.left = @ \ {sym},
                            !.todo = {s \in loop.window : s.symbol = sym},
                            !.score = NoVotes, !.total = 0,
                            !.action = "HOLD", !.over = FALSE]
    /\ UNCHANGED <<netVars, clock, agents, handling, buffer, arrivals, paused, last>>

\* One iteration over the signals: a disabled agent has no vote.
Count ==
    /\ loop.pc = "counting"
    /\ \E s \in loop.todo :
        LET w == Weight(s.agent)
        IN  /\ \A t \in loop.todo : s.n <= t.n
            /\ loop' = IF agents[s.agent].enabled
                       THEN [loop EXCEPT !.todo = @ \ {s},
                                         !.score[s.action] = @ + w * s.confidence,
                                         !.total = @ + w,
                                         !.over = @ \/ s.confidence > Unit]
                       ELSE [loop EXCEPT !.todo = @ \ {s}]
            /\ UNCHANGED <<netVars, clock, agents, handling, buffer, arrivals, paused, last>>

\* The loop over the map of scores keeps the first largest positive score it
\* meets, and Go visits a map in any order.
Winners(score) ==
    {a \in Actions : score[a] > 0 /\ \A b \in Actions : score[b] <= score[a]}

\* consensus < MinConsensus || confidence < MinConfidence; without any weight
\* the consensus is 0.
BelowThreshold(score, total) ==
    \/ total = 0
    \/ score < MinConsensus * total
    \/ score < MinConfidence * total

\* Mutant: no threshold.
DecideAnyway ==
    /\ loop.pc = "counting"
    /\ loop.todo = {}
    /\ \E win \in IF Winners(loop.score) = {} THEN {"HOLD"} ELSE Winners(loop.score) :
           loop' = [loop EXCEPT !.pc = "decided", !.action = win]
    /\ UNCHANGED <<netVars, clock, agents, handling, buffer, arrivals, paused, last>>

\* The rest of calculateDecision.
Decide ==
    /\ loop.pc = "counting"
    /\ loop.todo = {}
    /\ \E win \in IF Winners(loop.score) = {} THEN {"HOLD"} ELSE Winners(loop.score) :
           loop' = [loop EXCEPT
               !.pc = "decided",
               !.action = IF BelowThreshold(loop.score[win], loop.total) THEN "HOLD" ELSE win]
    /\ UNCHANGED <<netVars, clock, agents, handling, buffer, arrivals, paused, last>>

\* The second look at the flag and publishDecision.  Without any weight the
\* confidence is 0/0, which json.Marshal refuses: nothing is published.
Publish ==
    /\ loop.pc = "decided"
    /\ IF paused
       THEN loop' = [loop EXCEPT !.pc = "cleaning"] /\ UNCHANGED last
       ELSE /\ loop' = [loop EXCEPT !.pc = "choosing"]
            /\ last' = [action |-> loop.action, score |-> loop.score, total |-> loop.total,
                        over |-> loop.over, published |-> loop.total > 0]
    /\ UNCHANGED <<netVars, clock, agents, handling, buffer, arrivals, paused>>

\* cleanOldSignals, at the end of a cycle that was not paused from the start.
Clean ==
    /\ loop.pc = "cleaning" \/ (loop.pc = "choosing" /\ loop.left = {})
    /\ buffer' = {s \in buffer : now - s.sent <= MaxSignalAge}
    /\ loop' = Idle
    /\ UNCHANGED <<netVars, clock, agents, handling, arrivals, paused, last>>

Next ==
    \/ \E a \in Agents : SendSignal(a) \/ SendHeartbeat(a)
    \/ Lose
    \/ Tick
    \/ TogglePause
    \/ HandleSignal
    \/ BufferSignal
    \/ HandleHeartbeat
    \/ CheckAgentHealth
    \/ Select
    \/ \E sym \in Symbols : Choose(sym)
    \/ Count
    \/ Decide
    \/ Publish
    \/ Clean

Spec == Init /\ [][Next]_vars

-----------------------------------------------------------------------------
(* Properties.                                                             *)

\* A vote needs the session of its agent (orchestrator.go:571): the two
\* mutexes are taken one after the other, and still no signal is in the buffer
\* before its agent is registered.
VotersAreRegistered == \A s \in buffer : Registered(s.agent)

\* The buffer is only cleaned by a decision cycle, and no cycle gets that far
\* while trading is paused: the eviction alone keeps it within its limit.
BufferBounded == Cardinality(buffer) <= MaxSignalBufferSize

\* The buffer holds no more than it may, and nothing the vote could not weigh.
BufferSound == BufferBounded /\ VotersAreRegistered

\* The test of the health monitoring stops short of this (it would take five
\* minutes): an agent whose heartbeats stop loses its vote at the first check
\* after the timeout, whatever signals it sends and however its last
\* heartbeats were reordered.
SilentAgentsAreDisabled ==
    \A a \in Agents :
        Registered(a) /\ agents[a].enabled /\ agents[a].heartbeat # Never =>
            now - agents[a].heartbeat <= HeartbeatTimeout + HealthCheckInterval

\* A signal is meant for one step of the loop.  The window has the length of a
\* step and a late cycle is followed at once by the next tick, yet no signal
\* counts in more than two cycles.
CountedAtMostTwice == \A s \in buffer : s.uses <= 2

\* calculateDecision visits a Go map in random order and keeps the first
\* maximum.  With a consensus threshold above one half a decision to trade does not
\* depend on that order, its score exceeds every other, if no signal that counted
\* claims more than full confidence: handleSignal does not check that, and the
\* reversion agent forwards the number of its model as it is.
TradesAreDetermined ==
    last.action # "HOLD" /\ ~ last.over =>
        \A b \in Actions \ {last.action} : last.score[b] < last.score[last.action]

=============================================================================
