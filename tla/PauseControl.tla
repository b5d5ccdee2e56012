----------------------------- MODULE PauseControl -----------------------------
(***************************************************************************)
(* Pausing and resuming trading: the requests an API server sends with     *)
(* retries (cmd/api/main.go), the handlers of the orchestrator that run    *)
(* under pausedMutex (internal/orchestrator/orchestrator.go), the          *)
(* transaction on orchestrator_state that persists the flag                *)
(* (internal/db/orchestrator_state.go), the events the agents follow       *)
(* (internal/agents/base.go), and the decision loop the flag must stop.    *)
(*                                                                         *)
(* Pause and Resume are the same code with the flag inverted, so a call    *)
(* carries the value it sets: TRUE to pause, FALSE to resume.              *)
(***************************************************************************)
EXTENDS Integers, Sequences

CONSTANTS
    Orchestrators,   \* orchestrator processes that share the database
    Agents,          \* agents that subscribe to the control topic
    Clients,         \* API server replicas
    MaxTries,        \* maxRetries of callOrchestratorWithRetry
    MaxSymbols,      \* bound: symbols with recent signals
    MaxCalls,        \* bound: HTTP requests ever sent
    MaxFaults,       \* bound: database and NATS errors
    MaxCrashes       \* bound: crashes of orchestrators and agents

ASSUME BoundsAssumption ==
    /\ MaxTries \in Nat \ {0}
    /\ MaxSymbols \in Nat \ {0}
    /\ MaxCalls \in Nat
    /\ MaxFaults \in Nat
    /\ MaxCrashes \in Nat

ASSUME SomeOrchestrator == Orchestrators # {}

VARIABLES
    up,           \* whether the orchestrator process runs
    paused,       \* o.paused
    mutex,        \* the call that holds pausedMutex for writing, 0 for none
    loop,         \* the decision loop of each orchestrator
    rows,         \* the paused column of orchestrator_state, by id
    call,         \* the HTTP requests that reached, or try to reach, a handler
    client,       \* the request each API server replica works on
    agentPaused,  \* BaseAgent.paused
    inbox,        \* events on their way to an agent
    faults, crashes,
    late,         \* history: decisions published since trading was paused
    torn,         \* history: the flag was read or written with an error
    missed        \* history: agents that were not told of a change of the flag

agentVars == <<agentPaused, inbox, missed>>
procVars == <<up, paused, mutex, loop, late, torn>>
vars == <<up, paused, mutex, loop, rows, call, client, agentPaused, inbox,
          faults, crashes, late, torn, missed>>

Calls == 1 .. MaxCalls
Ended == {"done", "lost"}
Call == [to : BOOLEAN, at : Orchestrators, snap : Nat,
         pc : {"unused", "sent", "entered", "selected", "locked", "stored"} \cup Ended,
         answer : {"none", "ok", "refused", "error"}]
Unsent == [to |-> FALSE, at |-> CHOOSE o \in Orchestrators : TRUE, snap |-> 0,
           pc |-> "unused", answer |-> "none"]
Client == [to : BOOLEAN, tries : 0 .. MaxTries, cur : 0 .. MaxCalls,
           result : {"idle", "waiting", "ok", "failed"}]
Idle == [pc |-> "idle", left |-> 0]
Loop == [pc : {"deciding", "publishing"}, left : 1 .. MaxSymbols] \cup {Idle}

Last(s) == s[Len(s)]
Stored == Last(rows)

TypeOK ==
    /\ up \in [Orchestrators -> BOOLEAN]
    /\ paused \in [Orchestrators -> BOOLEAN]
    /\ mutex \in [Orchestrators -> 0 .. MaxCalls]
    /\ loop \in [Orchestrators -> Loop]
    /\ rows \in Seq(BOOLEAN) /\ rows # <<>>
    /\ call \in [Calls -> Call]
    /\ client \in [Clients -> Client]
    /\ agentPaused \in [Agents -> BOOLEAN]
    /\ inbox \in [Agents -> Seq(BOOLEAN)]
    /\ faults \in 0 .. MaxFaults
    /\ crashes \in 0 .. MaxCrashes
    /\ late \in [Orchestrators -> Nat]
    /\ torn \in [Orchestrators -> BOOLEAN]
    /\ missed \subseteq Agents

\* The migration inserts the first row, not paused; every process has started.
Init ==
    /\ up = [o \in Orchestrators |-> TRUE]
    /\ paused = [o \in Orchestrators |-> FALSE]
    /\ mutex = [o \in Orchestrators |-> 0]
    /\ loop = [o \in Orchestrators |-> Idle]
    /\ rows = <<FALSE>>
    /\ call = [c \in Calls |-> Unsent]
    /\ client = [a \in Clients |-> [to |-> FALSE, tries |-> 0, cur |-> 0, result |-> "idle"]]
    /\ agentPaused = [a \in Agents |-> FALSE]
    /\ inbox = [a \in Agents |-> <<>>]
    /\ faults = 0
    /\ crashes = 0
    /\ late = [o \in Orchestrators |-> 0]
    /\ torn = [o \in Orchestrators |-> FALSE]
    /\ missed = {}

-----------------------------------------------------------------------------
(* The API server: callOrchestratorWithRetry.                              *)

\* The request goes out as a new call; nobody listens on a crashed process.
Send(a, to, o, n) ==
    \E c \in Calls :
        /\ call[c].pc = "unused"
        /\ \A d \in 1 .. c - 1 : call[d].pc # "unused"
        /\ call' = [call EXCEPT ![c] = [Unsent EXCEPT !.to = to, !.at = o,
                                        !.pc = IF up[o] THEN "sent" ELSE "lost"]]
        /\ client' = [client EXCEPT ![a] = [to |-> to, tries |-> n, cur |-> c,
                                            result |-> "waiting"]]

\* handlePauseTrading or handleResumeTrading, up to its first POST.
Request(a, to, o) ==
    /\ client[a].result # "waiting"
    /\ Send(a, to, o, 1)
    /\ UNCHANGED <<procVars, rows, agentVars, faults, crashes>>

\* Mutant: no count of the attempts.
RetryForever(a) ==
    /\ client[a].result = "waiting"
    /\ Send(a, client[a].to, call[client[a].cur].at, client[a].tries + 1)
    /\ UNCHANGED <<procVars, rows, agentVars, faults, crashes>>

\* Do returned an error: the process is down, or the 5 seconds of the client
\* are over.  The handler, if there is one, goes on.
Retry(a) ==
    LET c == client[a].cur
    IN  /\ client[a].result = "waiting"
        /\ IF client[a].tries < MaxTries
           THEN Send(a, client[a].to, call[c].at, client[a].tries + 1)
           ELSE /\ client' = [client EXCEPT ![a].result = "failed"]
                /\ UNCHANGED call
        /\ UNCHANGED <<procVars, rows, agentVars, faults, crashes>>

\* Any answer ends the request; only a 200 counts as success.
Answered(a) ==
    LET c == client[a].cur
    IN  /\ client[a].result = "waiting"
        /\ call[c].pc = "done"
        /\ client' = [client EXCEPT ![a].result =
                          IF call[c].answer = "ok" THEN "ok" ELSE "failed"]
        /\ UNCHANGED <<procVars, rows, call, agentVars, faults, crashes>>

-----------------------------------------------------------------------------
(* The orchestrator: Pause (to = TRUE) and Resume (to = FALSE).            *)

Fault == faults < MaxFaults /\ faults' = faults + 1

Goto(c, pc) == call' = [call EXCEPT ![c].pc = pc]
Answer(c, what) == call' = [call EXCEPT ![c].pc = "done", ![c].answer = what]
Unlock(o) == mutex' = [mutex EXCEPT ![o] = 0]

\* Lock, then the check of the flag in memory.
Enter(c) ==
    LET o == call[c].at
    IN  /\ call[c].pc = "sent"
        /\ mutex[o] = 0
        /\ IF paused[o] = call[c].to
           THEN Answer(c, "refused") /\ UNCHANGED mutex
           ELSE Goto(c, "entered") /\ mutex' = [mutex EXCEPT ![o] = c]
        /\ UNCHANGED <<up, paused, loop, rows, client, agentVars, faults, crashes,
                       late, torn>>

\* SELECT ... ORDER BY id DESC LIMIT 1 FOR UPDATE picks its row when it starts
\* (READ COMMITTED) ...
Select(c) ==
    /\ call[c].pc = "entered"
    /\ call' = [call EXCEPT ![c].pc = "selected", ![c].snap = Len(rows)]
    /\ UNCHANGED <<procVars, rows, client, agentVars, faults, crashes>>

HasRow(c, id) == call[c].pc = "locked" /\ call[c].snap = id

\* Mutant: the locked row is not checked.
LockRowUnchecked(c) ==
    /\ call[c].pc = "selected"
    /\ ~ \E d \in Calls : HasRow(d, call[c].snap)
    /\ Goto(c, "locked")
    /\ UNCHANGED <<procVars, rows, client, agentVars, faults, crashes>>

\* ... and returns it once no other transaction has it locked.  The row it
\* waited for has not changed, so it is not the last row any more.
LockRow(c) ==
    LET id == call[c].snap
        o == call[c].at
    IN  /\ call[c].pc = "selected"
        /\ ~ \E d \in Calls : HasRow(d, id)
        /\ IF rows[id] = call[c].to
           THEN Answer(c, "refused") /\ Unlock(o)
           ELSE Goto(c, "locked") /\ UNCHANGED mutex
        /\ UNCHANGED <<up, paused, loop, rows, client, agentVars, faults, crashes,
                       late, torn>>

\* Mutant: the flag is set in memory before the transaction is known to hold.
CommitAfterMemory(c, stored, acked) ==
    LET o == call[c].at
    IN  /\ rows' = IF stored THEN Append(rows, call[c].to) ELSE rows
        /\ paused' = [paused EXCEPT ![o] = call[c].to]
        /\ torn' = [torn EXCEPT ![o] = @ \/ (stored /\ ~acked)]
        /\ late' = [late EXCEPT ![o] = 0]

\* What INSERT and COMMIT leave: memory follows only an acknowledged commit.
Commit(c, stored, acked) ==
    LET o == call[c].at
    IN  /\ rows' = IF stored THEN Append(rows, call[c].to) ELSE rows
        /\ paused' = IF acked THEN [paused EXCEPT ![o] = call[c].to] ELSE paused
        /\ torn' = [torn EXCEPT ![o] = IF acked THEN FALSE ELSE @ \/ stored]
        /\ late' = IF acked THEN [late EXCEPT ![o] = 0] ELSE late

\* Mutant: unlocked before the event is published.
StoreAndUnlock(c) ==
    /\ call[c].pc = "locked"
    /\ Commit(c, TRUE, TRUE)
    /\ Goto(c, "stored")
    /\ Unlock(call[c].at)
    /\ UNCHANGED <<up, loop, client, agentVars, faults, crashes>>

\* INSERT, COMMIT and the assignment to o.paused.
Store(c) ==
    /\ call[c].pc = "locked"
    /\ Commit(c, TRUE, TRUE)
    /\ Goto(c, "stored")
    /\ UNCHANGED <<up, mutex, loop, client, agentVars, faults, crashes>>

\* Mutant: the error path does not unlock.
StoreFailsKeepingLock(c) ==
    /\ call[c].pc \in {"entered", "selected", "locked"}
    /\ Fault
    /\ Answer(c, "error")
    /\ UNCHANGED <<procVars, rows, client, agentVars, crashes>>

\* A statement fails or the 5 second context ends: no change, or a commit
\* whose answer was lost.
StoreFails(c) ==
    \E stored \in BOOLEAN :
        /\ call[c].pc \in {"entered", "selected", "locked"}
        /\ stored => call[c].pc = "locked"
        /\ Fault
        /\ Commit(c, stored, FALSE)
        /\ Answer(c, "error")
        /\ Unlock(call[c].at)
        /\ missed' = IF stored THEN Agents ELSE missed
        /\ UNCHANGED <<up, loop, client, agentPaused, inbox, crashes>>

\* publishWithRetry reaches every subscriber that is connected.
Broadcast(c) ==
    /\ call[c].pc = "stored"
    /\ inbox' = [a \in Agents |-> Append(inbox[a], call[c].to)]
    /\ missed' = {}
    /\ Answer(c, "ok")
    /\ Unlock(call[c].at)
    /\ UNCHANGED <<up, paused, loop, rows, client, agentPaused, faults, crashes, late, torn>>

\* All attempts fail: logged, and the request succeeds.
BroadcastFails(c) ==
    /\ call[c].pc = "stored"
    /\ Fault
    /\ missed' = Agents
    /\ Answer(c, "ok")
    /\ Unlock(call[c].at)
    /\ UNCHANGED <<up, paused, loop, rows, client, agentPaused, inbox, crashes, late, torn>>

-----------------------------------------------------------------------------
(* The decision loop: Run and makeDecision.  A read of the flag needs      *)
(* pausedMutex only for the moment it takes.                               *)

\* The first check; the signals of n symbols are collected.  A tick that finds
\* trading paused, or no signals, changes nothing.
Tick(o) ==
    \E n \in 1 .. MaxSymbols :
        /\ up[o] /\ mutex[o] = 0
        /\ loop[o].pc = "idle"
        /\ ~ paused[o]
        /\ loop' = [loop EXCEPT ![o] = [pc |-> "deciding", left |-> n]]
        /\ UNCHANGED <<up, paused, mutex, rows, call, client, agentVars, faults, crashes,
                       late, torn>>

\* Mutant: no second check.
RecheckOnce(o) ==
    /\ loop[o].pc = "deciding" /\ mutex[o] = 0
    /\ loop' = [loop EXCEPT ![o].pc = "publishing"]
    /\ UNCHANGED <<up, paused, mutex, rows, call, client, agentVars, faults, crashes,
                   late, torn>>

\* The second check, once per symbol: paused ends the whole cycle.
Recheck(o) ==
    /\ loop[o].pc = "deciding" /\ mutex[o] = 0
    /\ loop' = [loop EXCEPT ![o] = IF paused[o] THEN Idle ELSE [@ EXCEPT !.pc = "publishing"]]
    /\ UNCHANGED <<up, paused, mutex, rows, call, client, agentVars, faults, crashes,
                   late, torn>>

\* publishDecision; an error is logged and the loop goes on.
Publish(o) ==
    /\ loop[o].pc = "publishing"
    /\ loop' = [loop EXCEPT ![o] =
                    IF @.left = 1 THEN Idle ELSE [pc |-> "deciding", left |-> @.left - 1]]
    /\ late' = [late EXCEPT ![o] = IF paused[o] THEN @ + 1 ELSE @]
    /\ UNCHANGED <<up, paused, mutex, rows, call, client, agentVars, faults, crashes, torn>>

-----------------------------------------------------------------------------
(* Crashes, restarts and agents.                                           *)

\* The handlers die with the process.  A transaction that was ready to commit
\* may have been committed.
Crash(o) ==
    LET dying == {c \in Calls : call[c].at = o /\ call[c].pc \notin Ended \cup {"unused"}}
        inDoubt == {c \in dying : call[c].pc = "locked"}
    IN  /\ up[o]
        /\ crashes < MaxCrashes
        /\ crashes' = crashes + 1
        /\ up' = [up EXCEPT ![o] = FALSE]
        /\ paused' = [paused EXCEPT ![o] = FALSE]
        /\ mutex' = [mutex EXCEPT ![o] = 0]
        /\ loop' = [loop EXCEPT ![o] = Idle]
        /\ late' = [late EXCEPT ![o] = 0]
        /\ torn' = [torn EXCEPT ![o] = FALSE]
        /\ call' = [c \in Calls |-> IF c \in dying THEN [call[c] EXCEPT !.pc = "lost"] ELSE call[c]]
        /\ \/ UNCHANGED rows
           \/ \E c \in inDoubt : rows' = Append(rows, call[c].to)
        /\ missed' = IF torn[o] \/ \E c \in dying : call[c].pc \in {"locked", "stored"}
                     THEN Agents ELSE missed
        /\ UNCHANGED <<client, agentPaused, inbox, faults>>

\* Mutant: the state of the orchestrator is not read back.
InitializeUnpaused(o) ==
    /\ ~ up[o]
    /\ up' = [up EXCEPT ![o] = TRUE]
    /\ UNCHANGED <<paused, mutex, loop, rows, call, client, agentVars, faults, crashes,
                   late, torn>>

\* Initialize reads the last row.
Initialize(o) ==
    /\ ~ up[o]
    /\ up' = [up EXCEPT ![o] = TRUE]
    /\ paused' = [paused EXCEPT ![o] = Stored]
    /\ UNCHANGED <<mutex, loop, rows, call, client, agentVars, faults, crashes, late, torn>>

\* Initialize cannot read the row: "starting unpaused".
InitializeFails(o) ==
    /\ ~ up[o]
    /\ Fault
    /\ up' = [up EXCEPT ![o] = TRUE]
    /\ paused' = [paused EXCEPT ![o] = FALSE]
    /\ torn' = [torn EXCEPT ![o] = TRUE]
    /\ missed' = Agents
    /\ UNCHANGED <<mutex, loop, rows, call, client, agentPaused, inbox, crashes, late>>

\* handleControlEvent: core NATS delivers in order to one subscriber.
HandleControlEvent(a) ==
    /\ inbox[a] # <<>>
    /\ agentPaused' = [agentPaused EXCEPT ![a] = Head(inbox[a])]
    /\ inbox' = [inbox EXCEPT ![a] = Tail(@)]
    /\ UNCHANGED <<procVars, rows, call, client, faults, crashes, missed>>

\* An agent starts unpaused and asks nobody; what was sent before is gone.
AgentRestart(a) ==
    /\ crashes < MaxCrashes
    /\ crashes' = crashes + 1
    /\ agentPaused' = [agentPaused EXCEPT ![a] = FALSE]
    /\ inbox' = [inbox EXCEPT ![a] = <<>>]
    /\ missed' = IF \E o \in Orchestrators : paused[o] \/ ~ up[o]
                 THEN missed \cup {a} ELSE missed \ {a}
    /\ UNCHANGED <<procVars, rows, call, client, faults>>

-----------------------------------------------------------------------------
Handler(c) ==
    Enter(c) \/ Select(c) \/ LockRow(c) \/ Store(c) \/ StoreFails(c)
        \/ Broadcast(c) \/ BroadcastFails(c)

MakeDecision(o) == Tick(o) \/ Recheck(o) \/ Publish(o)

Next ==
    \/ \E a \in Clients, to \in BOOLEAN, o \in Orchestrators : Request(a, to, o)
    \/ \E a \in Clients : Retry(a) \/ Answered(a)
    \/ \E c \in Calls : Handler(c)
    \/ \E o \in Orchestrators :
          MakeDecision(o) \/ Crash(o) \/ Initialize(o) \/ InitializeFails(o)
    \/ \E a \in Agents : HandleControlEvent(a) \/ AgentRestart(a)

Spec == Init /\ [][Next]_vars

\* A handler that runs is scheduled and goes on, and so does the loop's goroutine
\* while its ticker fires; that a process is restarted, a request sent or an event delivered
\* is not assumed.
Fairness ==
    /\ \A c \in Calls : WF_vars(Handler(c))
    /\ \A o \in Orchestrators : WF_vars(MakeDecision(o))

FairSpec == Spec /\ Fairness

-----------------------------------------------------------------------------
(* Properties.                                                             *)

\* After trading is paused at most one decision is still published, the one
\* that had passed the second check of makeDecision; every later symbol of the
\* same cycle is discarded.
AtMostOneLateDecision == \A o \in Orchestrators : late[o] <= 1

Quiet(o) == up[o] /\ mutex[o] = 0

\* While no handler runs, the flag in memory is the last row of
\* orchestrator_state, unless a read or a commit ended in an error
\* (one orchestrator).
MemoryFollowsDatabase ==
    \A o \in Orchestrators : Quiet(o) /\ ~ torn[o] => paused[o] = Stored

\* Every transition stored is a change: a pause row follows a resume row.
TransitionsAlternate ==
    [][Len(rows') > Len(rows) => Stored' # Stored]_vars

\* "Already paused" is answered only by an orchestrator whose trading is
\* paused, and "not paused" by one whose trading is not.
RefusedOnlyIfSo ==
    [][\A c \in Calls :
          call'[c].answer = "refused" /\ call[c].answer = "none" =>
              paused[call[c].at] = call[c].to \/ torn[call[c].at]]_vars

\* An agent every event reached holds the flag of the orchestrator once it has
\* read its events: they are published in the order the flag changes.
AgentsFollow ==
    \A o \in Orchestrators, a \in Agents :
        /\ Quiet(o) /\ \A c \in Calls : call[c].pc # "stored"
        /\ a \notin missed /\ inbox[a] = <<>>
        => agentPaused[a] = paused[o]

\* Every call that reached a handler is answered, unless the process dies.
EveryCallEnds ==
    \A c \in Calls : call[c].pc = "sent" ~> call[c].pc \in Ended

\* While trading is not paused the loop goes on publishing.
Trades ==
    \A o \in Orchestrators :
        <>[](up[o] /\ ~ paused[o]) => []<><<Publish(o)>>_vars

\* No handler keeps the lock for good, so that neither callers nor the loop starve.
KeepsGoing == EveryCallEnds /\ Trades

=============================================================================
