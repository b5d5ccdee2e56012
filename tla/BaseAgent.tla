------------------------------ MODULE BaseAgent ------------------------------
(***************************************************************************)
(* The process of an agent (internal/agents/base.go, heartbeat.go, and the *)
(* mains of the trend and of the arbitrage agent): Initialize, the control *)
(* subscription, the heartbeat, Run, and the way down.                     *)
(*                                                                         *)
(* Run of BaseAgent calls Step of BaseAgent, whichever agent embeds it, so *)
(* that only the arbitrage agent, which has a Run of its own, ever takes a *)
(* step of its own; and only the trend agent subscribes to control events. *)
(* The trend agent stops from the outside: its main waits for the signal   *)
(* beside Run and calls Shutdown of BaseAgent, which cancels the context   *)
(* and closes the sessions under a Run that nobody waits for.  The         *)
(* arbitrage agent stops from the inside: the signal cancels its context,  *)
(* main goes on once Run has returned, and its Shutdown, which does not    *)
(* call that of BaseAgent, closes the connection to NATS and nothing else. *)
(***************************************************************************)
EXTENDS Integers, Sequences

CONSTANTS
    Servers,     \* the MCP servers, 1 .. Servers in the order of the config
    MaxControl,  \* bound: control events
    MaxTicks,    \* bound: ticks of the step timer
    Fetches      \* tool calls of a step of the arbitrage agent, made side by side

VARIABLES
    kind,        \* "trend", or "own" for the arbitrage agent, with its Run
    proc,        \* how far main has come
    sessions,    \* mcpSessions that are open
    subscribed,  \* controlSub is set
    paused,
    bus,         \* control events on their way (external)
    control,     \* control events published
    loop,        \* Run: waiting for the next tick, in a step, or over
    cancelled,   \* the context of Run was cancelled
    beat,        \* the heartbeat goroutine
    stopChan,    \* of the heartbeat, closed or not
    ticks,
    open,        \* tool calls of the step that have not returned
    calls,       \* whether one of them was answered
    doomed,      \* the step began under a cancelled context
    sent,        \* history: what became of the last step
    late,        \* history: trading signals published after the context was cancelled
    last         \* history: the last control event published to a subscriber

BaseAgentAssumption ==
    /\ Servers \in Nat /\ MaxControl \in Nat /\ MaxTicks \in Nat /\ Fetches \in Nat

agent == <<kind, proc, sessions, subscribed, paused, bus, control, loop, cancelled,
           beat, stopChan, ticks, open, calls, doomed, sent, late, last>>
\* What a step of Run changes, and what the way up and down changes.
step == <<open, calls, doomed, sent, late>>
process == <<kind, proc, sessions, subscribed, paused, bus, control, cancelled, beat, stopChan, last>>

AgentTypeOK ==
    /\ proc \in {"new", "initialized", "subscribed", "running", "signalled", "quiet", "down", "exited"}
    /\ sessions \subseteq 1 .. Servers
    /\ subscribed \in BOOLEAN /\ paused \in BOOLEAN /\ cancelled \in BOOLEAN
    /\ bus \in Seq({"trading_paused", "trading_resumed"}) /\ control \in 0 .. MaxControl
    /\ loop \in {"off", "waiting", "stepping", "ended"}
    /\ beat \in {"off", "on", "ended"} /\ stopChan \in {"open", "closed"}
    /\ ticks \in 0 .. MaxTicks /\ open \in 0 .. Fetches
    /\ calls \in {"failed", "answered"} /\ doomed \in BOOLEAN
    /\ kind \in {"trend", "own"} /\ last \in {"none", "trading_paused", "trading_resumed"}
    /\ sent \in {"nothing", "published", "lost"}
    /\ late \in Nat

AgentInit ==
    /\ proc = "new" /\ sessions = {} /\ subscribed = FALSE /\ paused = FALSE
    /\ bus = <<>> /\ control = 0 /\ loop = "off" /\ cancelled = FALSE
    /\ beat = "off" /\ stopChan = "open" /\ ticks = 0
    /\ open = 0 /\ calls = "failed" /\ doomed = FALSE
    /\ sent = "nothing" /\ late = 0 /\ last = "none" /\ kind \in {"trend", "own"}

-----------------------------------------------------------------------------
(* On the way up.                                                          *)

\* Servers are connected in order; what was connected before one fails stays
\* open, and main gives up.  So it does when the arbitrage agent cannot reach
\* NATS afterwards.  Nothing is connected under a cancelled context.
ConnectMCPServers ==
    \/ (cancelled => Servers = 0) /\ sessions' = 1 .. Servers /\ proc' = "initialized"
    \/ \E n \in 0 .. IF kind = "own" THEN Servers ELSE Servers - 1 :
          sessions' = 1 .. n /\ proc' = "exited"

Initialize ==
    /\ proc = "new" /\ ConnectMCPServers
    /\ UNCHANGED <<step, kind, subscribed, paused, bus, control, loop, cancelled, beat, stopChan, ticks, last>>

\* The agent goes on without control events if this fails.
SetupControlSubscription ==
    /\ proc = "initialized" /\ proc' = "subscribed"
    /\ subscribed' \in IF kind = "trend" THEN BOOLEAN ELSE {FALSE}
    /\ UNCHANGED <<step, kind, sessions, paused, bus, control, loop, cancelled, beat, stopChan, ticks, last>>

\* The heartbeat starts, and Run: in a goroutine of the trend agent, in main of
\* the arbitrage agent.
Main ==
    /\ proc = "subscribed" /\ proc' = "running"
    /\ beat' = "on" /\ loop' = "waiting"
    /\ UNCHANGED <<step, kind, sessions, subscribed, paused, bus, control, cancelled, stopChan, ticks, last>>

-----------------------------------------------------------------------------
(* Control events.                                                         *)

\* The orchestrator publishes; an agent that has not subscribed misses it.
PublishControl ==
    /\ control < MaxControl /\ control' = control + 1
    /\ \E e \in {"trading_paused", "trading_resumed"} :
          IF subscribed THEN bus' = Append(bus, e) /\ last' = e ELSE UNCHANGED <<bus, last>>
    /\ UNCHANGED <<step, kind, proc, sessions, subscribed, paused, loop, cancelled, beat, stopChan, ticks>>

HandleControlEvent ==
    /\ bus # <<>> /\ bus' = Tail(bus)
    /\ paused' = (Head(bus) = "trading_paused")
    /\ UNCHANGED <<step, kind, proc, sessions, subscribed, control, loop, cancelled, beat, stopChan, ticks, last>>

-----------------------------------------------------------------------------
(* Run.  When a tick and the end of the context are both ready, select may *)
(* take either.                                                            *)

\* Step of BaseAgent does nothing but count.
StepOfBaseAgent ==
    /\ kind = "trend" /\ loop = "waiting" /\ ticks < MaxTicks /\ ticks' = ticks + 1
    /\ UNCHANGED <<process, loop, step>>

\* fetchPrices asks for all prices at once.
StepOfTheAgent ==
    /\ kind = "own" /\ loop = "waiting" /\ ticks < MaxTicks /\ ticks' = ticks + 1
    /\ loop' = "stepping" /\ open' = Fetches /\ calls' = "failed" /\ doomed' = cancelled
    /\ sent' = "nothing" /\ UNCHANGED <<process, late>>

\* A call returns.  One that was made under a cancelled context fails (external);
\* one that was under way when the context was cancelled may have its answer.
CallMCPTool ==
    /\ loop = "stepping" /\ open > 0 /\ open' = open - 1
    /\ calls' \in IF doomed \/ sessions = {} THEN {calls} ELSE {calls, "answered"}
    /\ UNCHANGED <<process, loop, ticks, doomed, sent, late>>

\* One answer is enough for a decision, which may be to hold.  What is published
\* after the connection was closed is lost.
StepEnds ==
    /\ loop = "stepping" /\ open = 0 /\ loop' = "waiting"
    /\ sent' \in IF calls = "failed" THEN {"nothing"}
                 ELSE {"nothing", IF proc = "down" THEN "lost" ELSE "published"}
    /\ late' = IF cancelled /\ sent' = "published" THEN late + 1 ELSE late
    /\ UNCHANGED <<process, ticks, open, calls, doomed>>

RunEnds ==
    /\ loop = "waiting" /\ cancelled /\ loop' = "ended"
    /\ UNCHANGED <<process, ticks, step>>

-----------------------------------------------------------------------------
(* On the way down.                                                        *)

\* The arbitrage agent listens for signals before it initializes.
Signal ==
    /\ IF kind = "own"
       THEN proc \in {"new", "initialized", "subscribed", "running"} /\ cancelled' = TRUE /\ proc' = proc
       ELSE proc = "running" /\ proc' = "signalled" /\ cancelled' = cancelled
    /\ UNCHANGED <<step, kind, sessions, subscribed, paused, bus, control, loop, beat, stopChan, ticks, last>>

\* Main has its signal, whether or not a step is in progress.
HeartbeatStopAtOnce ==
    /\ IF kind = "own" THEN proc = "running" /\ cancelled ELSE proc = "signalled"
    /\ proc' = "quiet" /\ stopChan' = "closed"
    /\ UNCHANGED <<step, kind, sessions, subscribed, paused, bus, control, loop, cancelled, beat, ticks, last>>

\* Main of the trend agent has its signal, or Run has returned to that of the
\* arbitrage agent.
HeartbeatStop ==
    /\ IF kind = "own" THEN proc = "running" /\ loop = "ended" ELSE proc = "signalled"
    /\ proc' = "quiet" /\ stopChan' = "closed"
    /\ UNCHANGED <<step, kind, sessions, subscribed, paused, bus, control, loop, cancelled, beat, ticks, last>>

BeatEnds ==
    /\ beat = "on" /\ stopChan = "closed" /\ beat' = "ended"
    /\ UNCHANGED <<step, kind, proc, sessions, subscribed, paused, bus, control, loop, cancelled, stopChan, ticks, last>>

\* Shutdown of BaseAgent waits for a group to which nothing was added; that of
\* the arbitrage agent closes the connection only.
Shutdown ==
    /\ proc = "quiet" /\ proc' = "down"
    /\ IF kind = "own" THEN UNCHANGED <<cancelled, subscribed, bus, sessions>>
       ELSE cancelled' = TRUE /\ subscribed' = FALSE /\ bus' = <<>> /\ sessions' = {}
    /\ UNCHANGED <<step, kind, paused, control, loop, beat, stopChan, ticks, last>>

AgentNext ==
    \/ Initialize \/ SetupControlSubscription \/ Main
    \/ PublishControl \/ HandleControlEvent
    \/ StepOfBaseAgent \/ StepOfTheAgent \/ CallMCPTool \/ StepEnds \/ RunEnds
    \/ Signal \/ HeartbeatStop \/ BeatEnds \/ Shutdown

AgentSpec == AgentInit /\ [][AgentNext]_agent

-----------------------------------------------------------------------------
(* Properties.                                                             *)

\* Once its control events are handled, a subscribed agent is paused exactly if
\* the last one it was sent says so (handleControlEvent).
FollowsControl ==
    (subscribed /\ bus = <<>>) => (paused <=> last = "trading_paused")

\* After the signal at most one more trading signal goes out, that of the step
\* under way when the context was cancelled: a step that select lets begin
\* afterwards has no answers.  And no step decides anything once the connection
\* is closed, in vain (Run, main and Shutdown of the arbitrage agent).
LastStepIsWhole == late <= 1 /\ sent # "lost"
=============================================================================
