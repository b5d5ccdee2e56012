-------------------------------- MODULE HotSwap --------------------------------
(***************************************************************************)
(* Replacing a running agent by another one: the HotSwapCoordinator of     *)
(* internal/orchestrator/hotswap.go.                                       *)
(*                                                                         *)
(* The registry maps a name to a registration object.  A swap keeps a      *)
(* pointer to the object of the old agent and works through its six steps  *)
(* without holding the mutex in between, so other swaps, registrations and *)
(* state updates interleave with it.  Any message may fail to be sent; the *)
(* new agent may leave the ping unanswered.                                *)
(***************************************************************************)
EXTENDS Integers, FiniteSets

CONSTANTS
    Names,               \* agent names
    Swaps,               \* calls of SwapAgent
    OldName, NewName,    \* their arguments
    Started,             \* the agents registered at the start
    Spares,              \* bound: registrations made while swaps run
    Restarting,          \* the names under which agents come and go by themselves
    MaxReports           \* bound: reports of their state that agents make while swaps run

ASSUME ArgumentAssumption ==
    /\ "" \notin Names
    /\ OldName \in [Swaps -> Names]
    /\ NewName \in [Swaps -> Names \cup {""}]
    /\ Started \subseteq Names
    /\ Restarting \subseteq Names

\* A registration object is named after whoever creates it.
Objects == Started \cup Swaps \cup Spares
None == "none"

ASSUME ObjectAssumption ==
    /\ Started \cap Swaps = {}
    /\ Started \cap Spares = {}
    /\ Swaps \cap Spares = {}
    /\ None \notin Objects

ASSUME ReportAssumption == MaxReports \in Nat

VARIABLES
    object,     \* the registration objects
    registry,   \* hsc.agents
    swap,       \* the swap sessions, each with its thread's position
    reports     \* reports made so far

vars == <<object, registry, swap, reports>>

\* The state of an agent is what it last reported: reports are numbered in the
\* order they come in, 0 is the state an agent is registered with.
States == 0 .. MaxReports
Registration == [name : Names, status : {"active", "paused", "terminating"},
                 state : States]
Unborn == [status |-> "unborn"]
Active(name, state) == [name |-> name, status |-> "active", state |-> state]

\* paused, known and answered are history: whether the pause message was sent,
\* the old agent's state when the swap began, whether the ping was answered.
Swap == [pc : {"capture", "pause", "transfer", "start", "verify", "terminate",
               "unregister", "resume", "returned"},
         old : Objects, snapshot : States,
         status : {"running", "completed", "failed"},
         paused : BOOLEAN, known : States, answered : BOOLEAN]
NotCalled == [pc |-> "idle", status |-> "none"]
NotFound == [pc |-> "returned", status |-> "none"]

TypeOK ==
    /\ object \in [Objects -> Registration \cup {Unborn}]
    /\ registry \in [Names -> Objects \cup {None}]
    /\ swap \in [Swaps -> Swap \cup {NotCalled, NotFound}]
    /\ reports \in States

Init ==
    /\ object = [o \in Objects |-> IF o \in Started THEN Active(o, 0) ELSE Unborn]
    /\ registry = [n \in Names |-> IF n \in Started THEN n ELSE None]
    /\ swap = [s \in Swaps |-> NotCalled]
    /\ reports = 0

-----------------------------------------------------------------------------
(* The registry.                                                           *)

\* RegisterAgent replaces whatever has the name.
Register(o, name, state) ==
    /\ object' = [object EXCEPT ![o] = Active(name, state)]
    /\ registry' = [registry EXCEPT ![name] = o]

\* UnregisterAgent of a name that is not registered only returns an error.
Unregister(name) == registry' = [registry EXCEPT ![name] = None]

RegisterAgent(o, name) ==
    /\ object[o] = Unborn
    /\ Register(o, name, 0)
    /\ UNCHANGED <<swap, reports>>

UnregisterAgent(name) ==
    /\ registry[name] # None
    /\ Unregister(name)
    /\ UNCHANGED <<object, swap, reports>>

\* An agent reports its state, whatever its status: the report replaces all that
\* was there, also what a new agent was given by the swap that registered it.
UpdateAgentState(name) ==
    /\ registry[name] # None
    /\ reports < MaxReports
    /\ reports' = reports + 1
    /\ object' = [object EXCEPT ![registry[name]].state = reports + 1]
    /\ UNCHANGED <<registry, swap>>

-----------------------------------------------------------------------------
(* The steps of SwapAgent.                                                 *)

At(s, pc) == swap[s].pc = pc
GoTo(s, pc) == swap' = [swap EXCEPT ![s].pc = pc]

\* failSwap, and where the call continues.
Fail(s, pc) == swap' = [swap EXCEPT ![s].pc = pc, ![s].status = "failed"]

SwapAgentUnchecked(s) ==
    /\ At(s, "idle")
    /\ swap' = [swap EXCEPT ![s] =
                  [pc |-> "capture", old |-> registry[OldName[s]], snapshot |-> 0,
                   status |-> "running", paused |-> FALSE, known |-> 0, answered |-> FALSE]]
    /\ UNCHANGED <<object, registry, reports>>

SwapAgent(s) ==
    /\ At(s, "idle")
    /\ LET o == registry[OldName[s]] IN
       swap' = [swap EXCEPT ![s] =
                  IF o = None THEN NotFound
                  ELSE [pc |-> "capture", old |-> o, snapshot |-> 0, status |-> "running",
                        paused |-> FALSE, known |-> object[o].state, answered |-> FALSE]]
    /\ UNCHANGED <<object, registry, reports>>

\* Without the mutex.  A state that JSON cannot represent fails the swap.
CaptureState(s) ==
    /\ At(s, "capture")
    /\ \/ swap' = [swap EXCEPT ![s].pc = "pause", ![s].snapshot = object[swap[s].old].state]
       \/ Fail(s, "returned")
    /\ UNCHANGED <<object, registry, reports>>

\* When the message cannot be sent the call returns without resuming the agent.
PauseAgent(s) ==
    /\ At(s, "pause")
    /\ object' = [object EXCEPT ![swap[s].old].status = "paused"]
    /\ \/ swap' = [swap EXCEPT ![s].pc = "transfer", ![s].paused = TRUE]
       \/ Fail(s, "returned")
    /\ UNCHANGED <<registry, reports>>

TransferNothing(s) ==
    /\ At(s, "transfer")
    /\ NewName[s] # ""
    /\ Register(s, NewName[s], 0)
    /\ GoTo(s, "start")
    /\ UNCHANGED reports

TransferState(s) ==
    /\ At(s, "transfer")
    /\ NewName[s] # ""
    /\ Register(s, NewName[s], swap[s].snapshot)
    /\ GoTo(s, "start")
    /\ UNCHANGED reports

TransferFails(s) ==
    /\ At(s, "transfer")
    /\ NewName[s] = ""
    /\ Fail(s, "resume")
    /\ UNCHANGED <<object, registry, reports>>

StartNewAgentFailing(s) ==
    /\ At(s, "start")
    /\ GoTo(s, "verify") \/ Fail(s, "returned")
    /\ UNCHANGED <<object, registry, reports>>

StartNewAgent(s) ==
    /\ At(s, "start")
    /\ GoTo(s, "verify") \/ Fail(s, "resume")
    /\ UNCHANGED <<object, registry, reports>>

VerifyAnyway(s) ==
    /\ At(s, "verify")
    /\ LET o == registry[NewName[s]]
           answer == swap' = [swap EXCEPT ![s].pc = "terminate", ![s].answered = TRUE]
       IN  \/ o # None /\ object[o].status = "active" /\ answer
           \/ GoTo(s, "terminate")
    /\ UNCHANGED <<object, registry, reports>>

\* Looks the new agent up by name, then pings it.
VerifyAgent(s) ==
    /\ At(s, "verify")
    /\ LET o == registry[NewName[s]]
           answer == swap' = [swap EXCEPT ![s].pc = "terminate", ![s].answered = TRUE]
       IN  \/ o # None /\ object[o].status = "active" /\ answer
           \/ Fail(s, "resume")
    /\ UNCHANGED <<object, registry, reports>>

TerminateAgent(s) ==
    /\ At(s, "terminate")
    /\ object' = [object EXCEPT ![swap[s].old].status = "terminating"]
    /\ GoTo(s, "unregister")
    /\ UNCHANGED <<registry, reports>>

\* By name, not by object; its errors do not fail the swap.
UnregisterOld(s) ==
    /\ At(s, "unregister")
    /\ Unregister(object[swap[s].old].name)
    /\ swap' = [swap EXCEPT ![s].pc = "returned", ![s].status = "completed"]
    /\ UNCHANGED <<object, reports>>

\* Best effort: the message may fail, the status is set.
ResumeAgent(s) ==
    /\ At(s, "resume")
    /\ object' = [object EXCEPT ![swap[s].old].status = "active"]
    /\ GoTo(s, "returned")
    /\ UNCHANGED <<registry, reports>>

-----------------------------------------------------------------------------
Steps(s) ==
    \/ CaptureState(s) \/ PauseAgent(s) \/ TransferState(s) \/ TransferFails(s)
    \/ StartNewAgent(s) \/ VerifyAgent(s) \/ TerminateAgent(s) \/ UnregisterOld(s)
    \/ ResumeAgent(s)

Next ==
    \/ \E s \in Swaps : SwapAgent(s) \/ Steps(s)
    \/ \E o \in Spares, n \in Restarting : RegisterAgent(o, n)
    \/ \E n \in Restarting : UnregisterAgent(n)
    \/ \E n \in Names : UpdateAgentState(n)

Spec == Init /\ [][Next]_vars

-----------------------------------------------------------------------------
(* Properties.                                                             *)

Serving(name) == registry[name] # None /\ object[registry[name]].status = "active"

\* The new agent of a completed swap has the state that was captured, which is
\* no older than what the old agent had reported when the swap began, unless a
\* report under its own name replaced it since, whatever swaps, registrations
\* and reports interleave (captureState, transferState).  What the old agent
\* reports after the capture does not reach its successor.
SuccessorIsUpToDate ==
    \A s \in Swaps : swap[s].status = "completed" =>
        /\ swap[s].known <= swap[s].snapshot
        /\ swap[s].snapshot <= object[s].state

\* An agent is terminated only by a swap whose new agent answered the ping.
TerminatedOnlyIfReplaced ==
    \A o \in Objects : object[o].status = "terminating" =>
        \E s \in Swaps : /\ swap[s].status \in {"running", "completed"}
                         /\ swap[s].pc \in {"unregister", "returned"}
                         /\ swap[s].old = o /\ swap[s].answered

\* No other swap, and nobody who registers agents, uses the names of s.
Alone(s) ==
    LET names(t) == {OldName[t], NewName[t]}
    IN  /\ OldName[s] # NewName[s]
        /\ names(s) \cap Restarting = {}
        /\ \A t \in Swaps \ {s} : names(s) \cap names(t) = {}

\* A swap whose agents nobody else touches is whole.  When it completed, its new
\* agent is active under its name and the old name is free; when it failed
\* after the old agent was told to pause, the old agent is active.
SwapsAreWhole ==
    \A s \in Swaps : Alone(s) /\ swap[s].pc = "returned" =>
        /\ swap[s].status = "completed" =>
              /\ registry[NewName[s]] = s /\ object[s].status = "active"
              /\ registry[OldName[s]] = None
        /\ swap[s].status = "failed" /\ swap[s].paused =>
              registry[OldName[s]] = swap[s].old /\ Serving(OldName[s])

=============================================================================
