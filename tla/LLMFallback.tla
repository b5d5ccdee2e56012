----------------------------- MODULE LLMFallback -----------------------------
(***************************************************************************)
(* The LLM client with fallback (internal/llm/fallback.go, client.go).     *)
(* A call tries the models in order, skips those whose circuit is open,    *)
(* and records what became of each attempt.  Calls run concurrently; each  *)
(* method of the circuit breaker is atomic but IsOpen, which looks under   *)
(* the read lock and moves an open circuit to half open under the write    *)
(* lock, with nothing in between but no second look either.                *)
(* Each model's client has a gobreaker of its own in front of the HTTP     *)
(* request; it is external and only refuses or admits.                     *)
(***************************************************************************)
EXTENDS Integers

CONSTANTS
    Callers,           \* goroutines that complete prompts
    NumModels,         \* the primary model is 1
    FailureThreshold, SuccessThreshold,
    MaxRetries,        \* attempts beyond the first in CompleteWithRetry
    MaxOutages,        \* bound: times a model breaks down
    MaxCancels,        \* bound: calls whose context ends
    MaxResets          \* bound: resets by hand

\* What the constants are: there is a primary model, and a failure threshold of 0
\* is replaced by the default (NewFallbackClient).
LLMAssumption ==
    /\ NumModels \in Nat \ {0} /\ MaxRetries \in Nat
    /\ FailureThreshold \in Nat \ {0} /\ SuccessThreshold \in Nat

VARIABLES
    circuit,      \* cb.models
    gate,         \* gobreaker of each model: TRUE when it admits (external)
    healthy,      \* models that answer (external)
    call,         \* the call each caller is in
    outages, cancels, resets,
    row           \* history: successes in a row since the last failure, capped

llm_vars == <<circuit, gate, healthy, call, outages, cancels, resets, row>>

Models == 1 .. NumModels
Uncalled == [op |-> "idle", m |-> 1, tries |-> 0, dead |-> FALSE, moved |-> FALSE]
AtMost(n, bound) == IF n > bound THEN bound ELSE n

Closed == [state |-> "CLOSED", fails |-> 0, succ |-> 0, aged |-> FALSE]

LLMTypeOK ==
    /\ circuit \in [Models -> [state : {"CLOSED", "OPEN", "HALF_OPEN"}, fails : 0 .. FailureThreshold,
                               succ : 0 .. SuccessThreshold, aged : BOOLEAN]]
    /\ call \in [Callers -> [op : {"idle", "check", "move", "attempt"}, m : 1 .. NumModels + 1,
                             tries : 0 .. MaxRetries, dead : BOOLEAN, moved : BOOLEAN]]

LLMInit ==
    /\ circuit = [m \in Models |-> Closed]
    /\ gate = [m \in Models |-> TRUE] /\ healthy = Models
    /\ call = [c \in Callers |-> Uncalled]
    /\ outages = 0 /\ cancels = 0 /\ resets = 0
    /\ row = [m \in Models |-> 0]

-----------------------------------------------------------------------------
(* The circuits.                                                           *)

\* Others that are about to move m to half open have looked at an old state.
Outdate(m, calls) ==
    [d \in Callers |-> IF calls[d].op = "move" /\ calls[d].m = m
                       THEN [calls[d] EXCEPT !.moved = TRUE] ELSE calls[d]]

\* RecordSuccess.
Succeed(m) ==
    LET n == AtMost(circuit[m].succ + 1, SuccessThreshold)
    IN  IF circuit[m].state = "HALF_OPEN" /\ n >= SuccessThreshold
        THEN Closed
        ELSE [circuit[m] EXCEPT !.succ = n, !.fails = 0]

\* RecordFailure: opening starts the timeout anew.
Fail(m) ==
    LET n == AtMost(circuit[m].fails + 1, FailureThreshold)
        opens == \/ circuit[m].state = "CLOSED" /\ n >= FailureThreshold
                 \/ circuit[m].state = "HALF_OPEN"
    IN  IF opens THEN [state |-> "OPEN", fails |-> n, succ |-> 0, aged |-> FALSE]
                 ELSE [circuit[m] EXCEPT !.fails = n, !.succ = 0]

\* Timeout has passed since openedAt.
Age(m) ==
    /\ circuit[m].state = "OPEN" /\ ~ circuit[m].aged
    /\ circuit' = [circuit EXCEPT ![m].aged = TRUE]
    /\ UNCHANGED <<gate, healthy, call, outages, cancels, resets, row>>

ResetCircuitBreaker(m) ==
    /\ resets < MaxResets /\ resets' = resets + 1
    /\ circuit' = [circuit EXCEPT ![m] = Closed]
    /\ row' = [row EXCEPT ![m] = SuccessThreshold]
    /\ call' = Outdate(m, call)
    /\ UNCHANGED <<gate, healthy, outages, cancels>>

-----------------------------------------------------------------------------
(* Complete and CompleteWithRetry.                                         *)

Complete(c) ==
    /\ call[c] = Uncalled
    /\ call' = [call EXCEPT ![c].op = "check"]
    /\ UNCHANGED <<circuit, gate, healthy, outages, cancels, resets, row>>

\* The next model, or "all models failed" after the last.
NextModel(c, calls) ==
    IF calls[c].m = NumModels THEN [calls EXCEPT ![c] = Uncalled]
    ELSE [calls EXCEPT ![c] = [calls[c] EXCEPT !.op = "check", !.m = @ + 1,
                                               !.tries = 0, !.moved = FALSE]]

\* Mutant: the timeout is not looked at.
NoTimeout(c) ==
    /\ call[c].op = "check"
    /\ call' = [call EXCEPT ![c].op = IF circuit[call[c].m].state = "OPEN" THEN "move" ELSE "attempt"]
    /\ UNCHANGED <<circuit, gate, healthy, outages, cancels, resets, row>>

\* IsOpen, under the read lock.
IsOpen(c) ==
    /\ call[c].op = "check"
    /\ LET m == call[c].m
       IN  call' = IF circuit[m].state # "OPEN" THEN [call EXCEPT ![c].op = "attempt"]
                   ELSE IF circuit[m].aged THEN [call EXCEPT ![c].op = "move"]
                   ELSE NextModel(c, call)
    /\ UNCHANGED <<circuit, gate, healthy, outages, cancels, resets, row>>

\* IsOpen, under the write lock.
MoveToHalfOpen(c) ==
    /\ call[c].op = "move"
    /\ LET m == call[c].m
       IN  /\ circuit' = [circuit EXCEPT ![m].state = "HALF_OPEN", ![m].aged = FALSE]
           /\ call' = [Outdate(m, call) EXCEPT ![c] = [@ EXCEPT !.op = "attempt", !.moved = FALSE]]
    /\ UNCHANGED <<gate, healthy, outages, cancels, resets, row>>

\* The model answers.
AttemptSucceeds(c) ==
    /\ call[c].op = "attempt" /\ ~ call[c].dead
    /\ LET m == call[c].m
       IN  /\ m \in healthy /\ gate[m]
           /\ circuit' = [circuit EXCEPT ![m] = Succeed(m)]
           /\ row' = [row EXCEPT ![m] = AtMost(@ + 1, SuccessThreshold)]
           /\ call' = [Outdate(m, call) EXCEPT ![c] = Uncalled]
    /\ UNCHANGED <<gate, healthy, outages, cancels, resets>>

\* An attempt fails in the network, at the model, at the gobreaker, or because
\* the caller's context is over; enough of them close the gate.
Failing(c) == call[c].op = "attempt" /\ (call[c].m \notin healthy \/ ~ gate[call[c].m] \/ call[c].dead)

Retry(c) ==
    /\ Failing(c) /\ ~ call[c].dead /\ call[c].tries < MaxRetries
    /\ call' = [call EXCEPT ![c].tries = @ + 1]
    /\ gate' \in {gate, [gate EXCEPT ![call[c].m] = FALSE]}
    /\ UNCHANGED <<circuit, healthy, outages, cancels, resets, row>>

\* The last attempt, or an error that is not retryable.
AttemptFails(c) ==
    /\ Failing(c)
    /\ LET m == call[c].m
       IN  /\ circuit' = [circuit EXCEPT ![m] = Fail(m)]
           /\ row' = [row EXCEPT ![m] = 0]
           /\ gate' \in {gate, [gate EXCEPT ![m] = FALSE]}
           /\ call' = NextModel(c, Outdate(m, call))
    /\ UNCHANGED <<healthy, outages, cancels, resets>>

\* The context of a call ends: every attempt left fails, on every model.
ContextDone(c) ==
    /\ call[c] # Uncalled /\ ~ call[c].dead /\ cancels < MaxCancels
    /\ cancels' = cancels + 1
    /\ call' = [call EXCEPT ![c].dead = TRUE]
    /\ UNCHANGED <<circuit, gate, healthy, outages, resets, row>>

-----------------------------------------------------------------------------
(* The models and their gobreakers.                                        *)

Outage(m) ==
    /\ m \in healthy /\ outages < MaxOutages
    /\ outages' = outages + 1 /\ healthy' = healthy \ {m}
    /\ UNCHANGED <<circuit, gate, call, cancels, resets, row>>

Recover(m) ==
    /\ m \notin healthy /\ healthy' = healthy \cup {m}
    /\ UNCHANGED <<circuit, gate, call, outages, cancels, resets, row>>

GateTimeout(m) ==
    /\ ~ gate[m] /\ gate' = [gate EXCEPT ![m] = TRUE]
    /\ UNCHANGED <<circuit, healthy, call, outages, cancels, resets, row>>

Proceed(c) ==
    Complete(c) \/ IsOpen(c) \/ MoveToHalfOpen(c) \/ AttemptSucceeds(c) \/ Retry(c) \/ AttemptFails(c)

LLMNext ==
    \/ \E c \in Callers : Proceed(c) \/ ContextDone(c)
    \/ \E m \in Models :
          \/ Age(m) \/ ResetCircuitBreaker(m) \/ Outage(m) \/ Recover(m) \/ GateTimeout(m)

\* Callers keep calling and their calls proceed; clocks advance.
Fairness ==
    /\ \A c \in Callers : WF_llm_vars(Proceed(c))
    /\ \A m \in Models : WF_llm_vars(Age(m)) /\ WF_llm_vars(GateTimeout(m))

LLMSpec == LLMInit /\ [][LLMNext]_llm_vars /\ Fairness

-----------------------------------------------------------------------------
(* Properties.                                                             *)

\* A closed circuit is one short of its threshold at most, whatever attempts
\* answered while it was open, resets included: it can still be opened by the
\* failures to come (RecordSuccess, RecordFailure, Reset).
ClosedBelowThreshold ==
    \A m \in Models : circuit[m].state = "CLOSED" => circuit[m].fails < FailureThreshold

\* A circuit closes again only after SuccessThreshold successes in a row, late
\* answers of attempts begun before it opened included, or a reset
\* (RecordSuccess).
ClosesAfterSuccesses ==
    [][\A m \in Models :
          (circuit[m].state # "CLOSED" /\ circuit'[m].state = "CLOSED") => row'[m] >= SuccessThreshold]_llm_vars

\* A circuit is probed before its timeout, or a closed one put on probation,
\* only by a caller whose look at it was outdated by another's before it took
\* the write lock (IsOpen).
ProbesAfterTimeout ==
    [][\A m \in Models :
          (circuit[m].state # "HALF_OPEN" /\ circuit'[m].state = "HALF_OPEN") =>
             \/ circuit[m].state = "OPEN" /\ circuit[m].aged
             \/ \E c \in Callers : call[c].op = "move" /\ call[c].m = m /\ call[c].moved]_llm_vars

\* A primary model that works again is used again: its circuit closes and stays
\* closed, through stale looks and calls that were under way (IsOpen,
\* RecordSuccess).
PrimaryReturns ==
    <>[](1 \in healthy) => <>[](circuit[1].state = "CLOSED")
=============================================================================
