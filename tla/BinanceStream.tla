---------------------------- MODULE BinanceStream ----------------------------
(***************************************************************************)
(* The life of the user data stream of the Binance client                  *)
(* (internal/exchange/binance.go): StartUserDataStream,                    *)
(* StopUserDataStream, the goroutine that serves the WebSocket and the one *)
(* that keeps the listen key alive.  wsConnected is read and written under *)
(* the client's mutex, the field wsStopChan is not: it is closed, and      *)
(* waited on, by goroutines that hold no lock.                             *)
(* Streams and their stop channels are numbered by their starts.           *)
(***************************************************************************)
EXTENDS Integers, FiniteSets

CONSTANTS
    Controllers,  \* goroutines that start and stop the stream
    MaxStarts     \* bound: streams started

StreamAssumption == MaxStarts \in Nat

VARIABLES
    connected,    \* wsConnected
    chan,         \* wsStopChan: the channel of the latest start
    closed,       \* channels that were closed
    run, runOn,   \* runUserDataStream of each stream, and the channel it waits on
    alive, aliveOn, \* keepAliveListenKey of each stream, likewise
    up,           \* the WebSocket connections that are open (external)
    ctl,          \* what each controller is doing
    panic,        \* "close of closed channel"
    cleared,      \* history: streams whose wsConnected another stream's end reset
    overlapped    \* history: streams started between a stop and its close

vars == <<connected, chan, closed, run, runOn, alive, aliveOn, up, ctl, panic,
          cleared, overlapped>>

Streams == 1 .. MaxStarts
Idle == [op |-> "idle", g |-> 0]

TypeOK ==
    /\ connected \in BOOLEAN /\ panic \in BOOLEAN
    /\ chan \in 0 .. MaxStarts
    /\ closed \cup up \cup cleared \cup overlapped \subseteq Streams
    /\ run \in [Streams -> {"none", "dialing", "connected", "waiting", "stopping", "ending", "done"}]
    /\ alive \in [Streams -> {"none", "waiting", "done"}]
    /\ runOn \in [Streams -> 0 .. MaxStarts] /\ aliveOn \in [Streams -> 0 .. MaxStarts]
    /\ ctl \in [Controllers -> [op : {"idle", "key", "close"}, g : 0 .. MaxStarts]]

Init ==
    /\ connected = FALSE /\ chan = 0 /\ closed = {} /\ up = {} /\ panic = FALSE
    /\ run = [g \in Streams |-> "none"] /\ runOn = [g \in Streams |-> 0]
    /\ alive = [g \in Streams |-> "none"] /\ aliveOn = [g \in Streams |-> 0]
    /\ ctl = [c \in Controllers |-> Idle]
    /\ cleared = {} /\ overlapped = {}

-----------------------------------------------------------------------------
(* StartUserDataStream.                                                    *)

\* The flag and the channel, under the mutex; nothing if the flag is set.
StartUserDataStream(c) ==
    /\ ctl[c] = Idle /\ ~ connected /\ chan < MaxStarts
    /\ connected' = TRUE /\ chan' = chan + 1
    /\ ctl' = [ctl EXCEPT ![c] = [op |-> "key", g |-> chan + 1]]
    /\ overlapped' = IF \E d \in Controllers : ctl[d].op = "close"
                     THEN overlapped \cup {chan + 1} ELSE overlapped
    /\ UNCHANGED <<closed, run, runOn, alive, aliveOn, up, panic, cleared>>

\* The listen key: the two goroutines start.
ListenKey(c) ==
    /\ ctl[c].op = "key"
    /\ run' = [run EXCEPT ![ctl[c].g] = "dialing"]
    /\ \E h \in ctl[c].g .. chan : aliveOn' = [aliveOn EXCEPT ![ctl[c].g] = h]
    /\ alive' = [alive EXCEPT ![ctl[c].g] = "waiting"]
    /\ ctl' = [ctl EXCEPT ![c] = Idle]
    /\ UNCHANGED <<connected, chan, closed, runOn, up, panic, cleared, overlapped>>

\* No listen key: the flag is reset, whoever set it last.
Reset(g) ==
    /\ connected' = FALSE
    /\ cleared' = IF connected /\ chan # g THEN cleared \cup {chan} ELSE cleared

ListenKeyFails(c) ==
    /\ ctl[c].op = "key"
    /\ Reset(ctl[c].g)
    /\ ctl' = [ctl EXCEPT ![c] = Idle]
    /\ UNCHANGED <<chan, closed, run, runOn, alive, aliveOn, up, panic, overlapped>>

-----------------------------------------------------------------------------
(* StopUserDataStream.                                                     *)

\* Mutant: the flag stays set.
StopKeepsFlag(c) ==
    /\ ctl[c] = Idle /\ connected
    /\ ctl' = [ctl EXCEPT ![c] = [op |-> "close", g |-> chan]]
    /\ UNCHANGED <<connected, chan, closed, run, runOn, alive, aliveOn, up, panic, cleared, overlapped>>

StopUserDataStream(c) ==
    /\ ctl[c] = Idle /\ connected
    /\ connected' = FALSE
    /\ ctl' = [ctl EXCEPT ![c] = [op |-> "close", g |-> chan]]
    /\ UNCHANGED <<chan, closed, run, runOn, alive, aliveOn, up, panic, cleared, overlapped>>

\* The channel the field names by now, outside the mutex.
CloseStopChan(c) ==
    /\ ctl[c].op = "close"
    /\ panic' = (chan \in closed)
    /\ closed' = closed \cup {chan}
    /\ ctl' = [ctl EXCEPT ![c] = Idle]
    /\ UNCHANGED <<connected, chan, run, runOn, alive, aliveOn, up, cleared, overlapped>>

-----------------------------------------------------------------------------
(* runUserDataStream.  The library opens the connection, closes doneC when *)
(* it ends, and takes a value from stopC only while it is open.            *)

RunGoes(g, from, to) == run[g] = from /\ run' = [run EXCEPT ![g] = to]

Dial(g) ==
    /\ \/ RunGoes(g, "dialing", "connected") /\ up' = up \cup {g}
       \/ RunGoes(g, "dialing", "ending") /\ UNCHANGED up
    /\ UNCHANGED <<connected, chan, closed, runOn, alive, aliveOn, ctl, panic, cleared, overlapped>>

\* select reads the field when it is entered, which races with a start.
Wait(g) ==
    /\ RunGoes(g, "connected", "waiting")
    /\ \E h \in g .. chan : runOn' = [runOn EXCEPT ![g] = h]
    /\ UNCHANGED <<connected, chan, closed, alive, aliveOn, up, ctl, panic, cleared, overlapped>>

\* Mutant: only the end of the connection is waited for.
NeverToldToStop(g) == FALSE /\ run[g] = "waiting" /\ UNCHANGED vars

StopSignal(g) ==
    /\ RunGoes(g, "waiting", "stopping") /\ runOn[g] \in closed
    /\ UNCHANGED <<connected, chan, closed, runOn, alive, aliveOn, up, ctl, panic, cleared, overlapped>>

\* The context of the start is cancelled, which it need not be.
ContextDone(g) ==
    /\ RunGoes(g, "waiting", "stopping")
    /\ UNCHANGED <<connected, chan, closed, runOn, alive, aliveOn, up, ctl, panic, cleared, overlapped>>

\* stopC <- struct{}{}: blocks for good once the connection is gone.
TellLibrary(g) ==
    /\ RunGoes(g, "stopping", "ending") /\ g \in up
    /\ up' = up \ {g}
    /\ UNCHANGED <<connected, chan, closed, runOn, alive, aliveOn, ctl, panic, cleared, overlapped>>

ConnectionLost(g) ==
    /\ g \in up /\ up' = up \ {g}
    /\ UNCHANGED <<connected, chan, closed, run, runOn, alive, aliveOn, ctl, panic, cleared, overlapped>>

Done(g) ==
    /\ RunGoes(g, "waiting", "ending") /\ g \notin up
    /\ UNCHANGED <<connected, chan, closed, runOn, alive, aliveOn, up, ctl, panic, cleared, overlapped>>

\* The deferred reset of the flag.
Deferred(g) ==
    /\ RunGoes(g, "ending", "done")
    /\ Reset(g)
    /\ UNCHANGED <<chan, closed, runOn, alive, aliveOn, up, ctl, panic, overlapped>>

-----------------------------------------------------------------------------
(* keepAliveListenKey: a tick looks at the flag, and select reads the      *)
(* field again each time round.                                            *)

Tick(g) ==
    /\ alive[g] = "waiting"
    /\ IF connected
       THEN /\ \E h \in g .. chan : aliveOn' = [aliveOn EXCEPT ![g] = h]
            /\ UNCHANGED alive
       ELSE alive' = [alive EXCEPT ![g] = "done"] /\ UNCHANGED aliveOn
    /\ UNCHANGED <<connected, chan, closed, run, runOn, up, ctl, panic, cleared, overlapped>>

KeepAliveStops(g) ==
    /\ alive[g] = "waiting" /\ aliveOn[g] \in closed
    /\ alive' = [alive EXCEPT ![g] = "done"]
    /\ UNCHANGED <<connected, chan, closed, run, runOn, aliveOn, up, ctl, panic, cleared, overlapped>>

\* The same context, in this select.
KeepAliveCancelled(g) ==
    /\ alive[g] = "waiting" /\ alive' = [alive EXCEPT ![g] = "done"]
    /\ UNCHANGED <<connected, chan, closed, run, runOn, aliveOn, up, ctl, panic, cleared, overlapped>>

RunStep(g) == Dial(g) \/ Wait(g) \/ StopSignal(g) \/ TellLibrary(g) \/ Done(g) \/ Deferred(g)
KeepAlive(g) == Tick(g) \/ KeepAliveStops(g)
Control(c) == ListenKey(c) \/ ListenKeyFails(c) \/ CloseStopChan(c)

Next ==
    /\ ~ panic
    /\ \/ \E c \in Controllers :
             StartUserDataStream(c) \/ StopUserDataStream(c) \/ Control(c)
       \/ \E g \in Streams :
             RunStep(g) \/ ConnectionLost(g) \/ KeepAlive(g) \/ ContextDone(g) \/ KeepAliveCancelled(g)

\* Goroutines that can go on do, and the ticker ticks.
Fairness ==
    /\ \A c \in Controllers : WF_vars(~ panic /\ Control(c))
    /\ \A g \in Streams : WF_vars(~ panic /\ RunStep(g))
    /\ \A g \in Streams : WF_vars(~ panic /\ KeepAlive(g))

Spec == Init /\ [][Next]_vars /\ Fairness

-----------------------------------------------------------------------------
(* Properties.                                                             *)

\* A stream that may deliver execution reports and that no stop will reach.
Open(g) == run[g] \in {"dialing", "connected", "waiting"} /\ g \notin closed

\* Two streams are open at once, so that each report is handled twice, only if
\* the end of an older stream reset the flag of a running one, or a start came
\* between a stop and the close of its channel (the deferred reset of
\* runUserDataStream, CloseStopChan outside the mutex).
OneStream ==
    \A g, h \in Streams :
        (g < h /\ Open(g) /\ Open(h)) => cleared # {} \/ overlapped # {}

\* The stop channel is closed twice, which ends the process, only after such a
\* start (StopUserDataStream).
NoDoubleClose == panic => overlapped # {}

\* A stream whose channel is closed comes to its end, unless the connection
\* went away at the moment of the stop, when the goroutine waits for good to
\* tell the library, or it waits on the channel of a later start.
StoppedStreamsEnd ==
    \A g \in Streams :
        (g \in closed /\ run[g] # "none") ~>
            \/ run[g] = "done" \/ panic
            \/ run[g] = "stopping" /\ g \notin up
            \/ run[g] = "waiting" /\ runOn[g] # g

\* Once the stream stays off, no goroutine keeps a listen key alive.
KeepAlivesEnd ==
    <>[](~ connected /\ ~ panic) => <>[](\A g \in Streams : alive[g] # "waiting")
=============================================================================
