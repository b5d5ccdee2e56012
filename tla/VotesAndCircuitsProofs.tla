------------------------ MODULE VotesAndCircuitsProofs ------------------------
(***************************************************************************)
(* Proofs about three loops that go on whatever fails.                     *)
(*                                                                         *)
(* The circuits of the language models (LLMFallback) and the life of the   *)
(* user data stream (BinanceStream), for any number of models, callers,    *)
(* thresholds, retries, controllers and starts.  LInv: a caller that is    *)
(* about to put a circuit on probation saw it open and old enough, which   *)
(* stays true until somebody else moves it (that is what the window        *)
(* between the read lock and the write lock of IsOpen leaves); and the     *)
(* successes a circuit counts came in a row.  SInv: the flag wsConnected   *)
(* and the closes under way are one token for the stream that is open, as  *)
(* long as no start came between a stop and its close and no flag was      *)
(* reset for another stream.                                               *)
(*                                                                         *)
(* The votes (SignalVoting), for every set of agents, every weight type,   *)
(* every interval and timeout, and any number of messages.                 *)
(***************************************************************************)
EXTENDS MCLive, SignalVoting, TLAPS, FiniteSetTheorems, WellFoundedInduction

-----------------------------------------------------------------------------
(* Circuits.                                                               *)

Circuit == [state : {"CLOSED", "OPEN", "HALF_OPEN"}, fails : 0 .. FailureThreshold,
            succ : 0 .. SuccessThreshold, aged : BOOLEAN]
Call == [op : {"idle", "check", "move", "attempt"}, m : Models, tries : 0 .. MaxRetries,
         dead : BOOLEAN, moved : BOOLEAN]

\* A caller that is about to move a circuit saw it open and old enough, and that
\* still holds unless it was outdated.
CallOK(c) ==
    call[c].op = "move" /\ ~ call[c].moved =>
        circuit[call[c].m].state = "OPEN" /\ circuit[call[c].m].aged

\* The successes a circuit counts are successes in a row.
CircuitOK(m) ==
    /\ circuit[m].state = "CLOSED" => circuit[m].fails < FailureThreshold
    /\ circuit[m].succ <= row[m]

LInv ==
    /\ circuit \in [Models -> Circuit] /\ call \in [Callers -> Call]
    /\ row \in [Models -> 0 .. SuccessThreshold]
    /\ (\A c \in Callers : CallOK(c)) /\ (\A m \in Models : CircuitOK(m))

LEMMA CappedBelow ==
    ASSUME NEW n \in Nat, NEW b \in Nat
    PROVE  /\ AtMost(n + 1, b) \in 0 .. b /\ AtMost(n + 1, b) <= n + 1
           /\ AtMost(n + 1, b) >= b <=> n + 1 >= b
           /\ \A m \in Nat : m <= n => AtMost(m + 1, b) <= AtMost(n + 1, b)
BY DEF AtMost

\* One field of a circuit changes.
LEMMA CircuitField ==
    ASSUME NEW x \in Circuit
    PROVE  /\ \A s \in {"CLOSED", "OPEN", "HALF_OPEN"} : [x EXCEPT !.state = s] \in Circuit
           /\ \A n \in 0 .. FailureThreshold : [x EXCEPT !.fails = n] \in Circuit
           /\ \A n \in 0 .. SuccessThreshold : [x EXCEPT !.succ = n] \in Circuit
           /\ \A a \in BOOLEAN : [x EXCEPT !.aged = a] \in Circuit
<1>1. \A s \in {"CLOSED", "OPEN", "HALF_OPEN"} : [x EXCEPT !.state = s] \in Circuit
  BY DEF Circuit
<1>2. \A n \in 0 .. FailureThreshold : [x EXCEPT !.fails = n] \in Circuit
  BY DEF Circuit
<1>3. \A n \in 0 .. SuccessThreshold : [x EXCEPT !.succ = n] \in Circuit
  BY DEF Circuit
<1>4. \A a \in BOOLEAN : [x EXCEPT !.aged = a] \in Circuit
  BY DEF Circuit
<1> QED
  BY <1>1, <1>2, <1>3, <1>4

LEMMA CircuitData ==
    ASSUME NEW x \in Circuit
    PROVE  /\ x.state \in {"CLOSED", "OPEN", "HALF_OPEN"} /\ x.fails \in 0 .. FailureThreshold
           /\ x.succ \in 0 .. SuccessThreshold /\ x.aged \in BOOLEAN
BY DEF Circuit

LEMMA ClosedData ==
    ASSUME LLMAssumption
    PROVE  /\ Closed \in Circuit /\ Closed.state = "CLOSED" /\ Closed.fails = 0 /\ Closed.succ = 0
           /\ ~ Closed.aged /\ 0 < FailureThreshold
<1>1. 0 \in 0 .. FailureThreshold /\ 0 \in 0 .. SuccessThreshold /\ 0 < FailureThreshold
  BY DEF LLMAssumption
<1> QED
  BY <1>1 DEF Closed, Circuit

\* After a success a closed circuit counts no failure, and it closes only when
\* it has counted enough successes.
LEMMA SucceedData ==
    ASSUME LLMAssumption, NEW m \in Models, circuit[m] \in Circuit, NEW x, x = Succeed(m)
    PROVE  /\ x \in Circuit /\ x.fails = 0 /\ x.succ <= AtMost(circuit[m].succ + 1, SuccessThreshold)
           /\ x.state # circuit[m].state =>
                 /\ x.state = "CLOSED" /\ circuit[m].state = "HALF_OPEN"
                 /\ AtMost(circuit[m].succ + 1, SuccessThreshold) >= SuccessThreshold
<1>1. PICK n : n = AtMost(circuit[m].succ + 1, SuccessThreshold)
  OBVIOUS
<1>2. circuit[m].succ \in Nat /\ SuccessThreshold \in Nat
  BY CircuitData DEF LLMAssumption
<1>3. n \in 0 .. SuccessThreshold /\ 0 <= n
  BY <1>1, <1>2, CappedBelow
<1>4. CASE circuit[m].state = "HALF_OPEN" /\ n >= SuccessThreshold
  <2>1. x = Closed
    BY <1>1, <1>4 DEF Succeed
  <2> QED
    BY <1>1, <1>3, <1>4, <2>1, ClosedData
<1>5. CASE ~ (circuit[m].state = "HALF_OPEN" /\ n >= SuccessThreshold)
  <2>1. x = [circuit[m] EXCEPT !.succ = n, !.fails = 0]
    BY <1>1, <1>5 DEF Succeed
  <2>2. PICK y : y = [circuit[m] EXCEPT !.succ = n]
    OBVIOUS
  <2>3. y \in Circuit /\ y.state = circuit[m].state /\ y.succ = n
    BY <1>3, <2>2, CircuitField DEF Circuit
  <2>4. x = [y EXCEPT !.fails = 0] /\ 0 \in 0 .. FailureThreshold
    BY <2>1, <2>2 DEF LLMAssumption
  <2>5. x \in Circuit
    BY <2>3, <2>4, CircuitField
  <2>6. x.state = y.state /\ x.succ = y.succ /\ x.fails = 0
    BY <2>3, <2>4 DEF Circuit
  <2> QED
    BY <1>1, <1>3, <2>3, <2>5, <2>6
<1> QED
  BY <1>4, <1>5

\* After a failure a closed circuit is still below its threshold, because it
\* opens when it reaches it.
LEMMA FailData ==
    ASSUME LLMAssumption, NEW m \in Models, circuit[m] \in Circuit, NEW x, x = Fail(m)
    PROVE  /\ x \in Circuit /\ x.succ = 0
           /\ x.state = "CLOSED" => x.fails < FailureThreshold /\ circuit[m].state = "CLOSED"
           /\ x.state = "HALF_OPEN" => circuit[m].state = "HALF_OPEN"
<1>1. PICK n : n = AtMost(circuit[m].fails + 1, FailureThreshold)
  OBVIOUS
<1>2. circuit[m].fails \in Nat /\ FailureThreshold \in Nat /\ 0 \in 0 .. SuccessThreshold
  BY CircuitData DEF LLMAssumption
<1>3. n \in 0 .. FailureThreshold
  BY <1>1, <1>2, CappedBelow
<1>4. CASE \/ circuit[m].state = "CLOSED" /\ n >= FailureThreshold
           \/ circuit[m].state = "HALF_OPEN"
  <2>1. x = [state |-> "OPEN", fails |-> n, succ |-> 0, aged |-> FALSE]
    BY <1>1, <1>4 DEF Fail
  <2> QED
    BY <1>2, <1>3, <2>1 DEF Circuit
<1>5. CASE ~ (\/ circuit[m].state = "CLOSED" /\ n >= FailureThreshold
              \/ circuit[m].state = "HALF_OPEN")
  <2>1. x = [circuit[m] EXCEPT !.fails = n, !.succ = 0]
    BY <1>1, <1>5 DEF Fail
  <2>2. PICK y : y = [circuit[m] EXCEPT !.fails = n]
    OBVIOUS
  <2>3. y \in Circuit /\ y.state = circuit[m].state /\ y.fails = n
    BY <1>3, <2>2, CircuitField DEF Circuit
  <2>4. x = [y EXCEPT !.succ = 0]
    BY <2>1, <2>2
  <2>5. x \in Circuit
    BY <1>2, <2>3, <2>4, CircuitField
  <2>6. x.state = y.state /\ x.fails = y.fails /\ x.succ = 0
    BY <2>3, <2>4 DEF Circuit
  <2> QED
    BY <1>2, <1>3, <1>5, <2>3, <2>5, <2>6
<1> QED
  BY <1>4, <1>5

\* One field of a call changes.
LEMMA CallField ==
    ASSUME NEW x \in Call
    PROVE  /\ \A p \in {"idle", "check", "move", "attempt"} : [x EXCEPT !.op = p] \in Call
           /\ \A m \in Models : [x EXCEPT !.m = m] \in Call
           /\ \A n \in 0 .. MaxRetries : [x EXCEPT !.tries = n] \in Call
           /\ \A b \in BOOLEAN : [x EXCEPT !.dead = b] \in Call /\ [x EXCEPT !.moved = b] \in Call
<1>1. \A p \in {"idle", "check", "move", "attempt"} : [x EXCEPT !.op = p] \in Call
  BY DEF Call
<1>2. \A m \in Models : [x EXCEPT !.m = m] \in Call
  BY DEF Call
<1>3. \A n \in 0 .. MaxRetries : [x EXCEPT !.tries = n] \in Call
  BY DEF Call
<1>4. \A b \in BOOLEAN : [x EXCEPT !.dead = b] \in Call /\ [x EXCEPT !.moved = b] \in Call
  BY DEF Call
<1> QED
  BY <1>1, <1>2, <1>3, <1>4

\* Of the callers that are about to move m, none believes its look is current.
LEMMA Outdated ==
    ASSUME NEW m \in Models, NEW calls \in [Callers -> Call], NEW out, out = Outdate(m, calls)
    PROVE  /\ out \in [Callers -> Call]
           /\ \A d \in Callers : /\ out[d].op = calls[d].op /\ out[d].m = calls[d].m
                                 /\ calls[d].op = "move" /\ calls[d].m = m => out[d].moved
                                 /\ ~ (calls[d].op = "move" /\ calls[d].m = m) => out[d] = calls[d]
<1>1. ASSUME NEW d \in Callers
      PROVE  /\ out[d] \in Call /\ out[d].op = calls[d].op /\ out[d].m = calls[d].m
             /\ calls[d].op = "move" /\ calls[d].m = m => out[d].moved
             /\ ~ (calls[d].op = "move" /\ calls[d].m = m) => out[d] = calls[d]
  <2>1. calls[d] \in Call /\ [calls[d] EXCEPT !.moved = TRUE] \in Call
    BY CallField
  <2>2. out[d] = IF calls[d].op = "move" /\ calls[d].m = m THEN [calls[d] EXCEPT !.moved = TRUE] ELSE calls[d]
    BY DEF Outdate
  <2> QED
    BY <2>1, <2>2 DEF Call
<1>2. out = [d \in Callers |-> out[d]]
  BY DEF Outdate
<1> QED
  BY <1>1, <1>2

\* A caller is idle, or looks at the next model.
LEMMA NextModelData ==
    ASSUME LLMAssumption, NEW c \in Callers, NEW calls \in [Callers -> Call], NEW next, next = NextModel(c, calls)
    PROVE  /\ next \in [Callers -> Call] /\ next[c].op \in {"idle", "check"}
           /\ \A d \in Callers \ {c} : next[d] = calls[d]
<1>0. NumModels \in Nat /\ 1 \in Models /\ Models = 1 .. NumModels /\ 0 \in 0 .. MaxRetries
  BY DEF LLMAssumption, Models
<1>1. CASE calls[c].m = NumModels
  <2>1. Uncalled \in Call /\ Uncalled.op = "idle"
    BY <1>0 DEF Uncalled, Call
  <2>2. next = [calls EXCEPT ![c] = Uncalled]
    BY <1>1 DEF NextModel
  <2> QED
    BY <2>1, <2>2
<1>2. CASE calls[c].m # NumModels
  <2>1. PICK x, y, z, w : /\ x = [calls[c] EXCEPT !.op = "check"] /\ y = [x EXCEPT !.m = calls[c].m + 1]
                          /\ z = [y EXCEPT !.tries = 0] /\ w = [z EXCEPT !.moved = FALSE]
    OBVIOUS
  <2>2. calls[c] \in Call /\ calls[c].m + 1 \in Models
    BY <1>0, <1>2 DEF Call
  <2>3. x \in Call /\ x.op = "check"
    BY <2>1, <2>2, CallField DEF Call
  <2>4. y \in Call /\ y.op = "check"
    BY <2>1, <2>2, <2>3, CallField DEF Call
  <2>5. z \in Call /\ z.op = "check"
    <3>1. z \in Call
      BY <1>0, <2>1, <2>4, CallField
    <3> QED
      BY <2>1, <2>4, <3>1 DEF Call
  <2>6. w \in Call /\ w.op = "check"
    <3>1. w \in Call
      BY <2>1, <2>5, CallField
    <3> QED
      BY <2>1, <2>5, <3>1 DEF Call
  <2>7. next = [calls EXCEPT ![c] = w]
    <3>1. [calls[c] EXCEPT !.op = "check", !.m = @ + 1, !.tries = 0, !.moved = FALSE] = w
      BY <2>1
    <3>2. next = [calls EXCEPT ![c] = [calls[c] EXCEPT !.op = "check", !.m = @ + 1, !.tries = 0, !.moved = FALSE]]
      BY <1>2 DEF NextModel
    <3> QED
      BY <3>1, <3>2
  <2> QED
    BY <2>6, <2>7
<1> QED
  BY <1>1, <1>2
-----------------------------------------------------------------------------
(* The calls.                                                              *)

\* Calls go on and no circuit moves.
LEMMA CallsMove ==
    ASSUME LInv, UNCHANGED <<circuit, row>>, call' \in [Callers -> Call],
           \A d \in Callers : call'[d].op = "move" /\ ~ call'[d].moved =>
               \/ call[d].op = "move" /\ ~ call[d].moved /\ call'[d].m = call[d].m
               \/ circuit[call'[d].m].state = "OPEN" /\ circuit[call'[d].m].aged
    PROVE  LInv'
<1>1. ASSUME NEW d \in Callers PROVE CallOK(d)'
  <2>1. CallOK(d)
    BY DEF LInv
  <2> QED
    BY <2>1 DEF CallOK
<1>2. ASSUME NEW m \in Models PROVE CircuitOK(m)'
  BY DEF LInv, CircuitOK
<1> QED
  BY <1>1, <1>2 DEF LInv

\* Circuit m moves, and the callers that looked at it are outdated.
LEMMA CircuitMoves ==
    ASSUME LInv, NEW m \in Models, NEW x \in Circuit, NEW r \in 0 .. SuccessThreshold,
           circuit' = [circuit EXCEPT ![m] = x], row' = [row EXCEPT ![m] = r],
           x.state = "CLOSED" => x.fails < FailureThreshold, x.succ <= r,
           call' \in [Callers -> Call],
           \A d \in Callers : call'[d].op = "move" /\ ~ call'[d].moved => call'[d] = call[d] /\ call[d].m # m
    PROVE  LInv'
<1>1. ASSUME NEW d \in Callers PROVE CallOK(d)'
  <2>1. (CallOK(d) /\ call[d].m \in Models) \/ call'[d].op # "move" \/ call'[d].moved
    BY DEF LInv, Call
  <2> QED
    BY <2>1 DEF CallOK, LInv
<1>2. ASSUME NEW n \in Models PROVE CircuitOK(n)'
  <2>1. CircuitOK(n)
    BY DEF LInv
  <2> QED
    BY <2>1 DEF CircuitOK, LInv
<1>3. circuit' \in [Models -> Circuit] /\ row' \in [Models -> 0 .. SuccessThreshold]
  BY DEF LInv
<1> QED
  BY <1>1, <1>2, <1>3 DEF LInv

LEMMA CompleteKeeps ==
    ASSUME LLMAssumption, LInv, NEW c \in Callers, Complete(c)
    PROVE  LInv'
<1>1. PICK x : x = [call[c] EXCEPT !.op = "check"]
  OBVIOUS
<1>2. x \in Call /\ x.op = "check"
  <2>1. call[c] \in Call
    BY DEF LInv
  <2>2. x \in Call
    BY <1>1, <2>1, CallField
  <2> QED
    BY <1>1, <2>1, <2>2 DEF Call
<1>3. call' = [call EXCEPT ![c] = x] /\ UNCHANGED <<circuit, row>>
  BY <1>1 DEF Complete
<1>4. call' \in [Callers -> Call] /\ call'[c] = x /\ \A d \in Callers \ {c} : call'[d] = call[d]
  BY <1>2, <1>3 DEF LInv
<1> QED
  BY <1>2, <1>3, <1>4, CallsMove

LEMMA IsOpenKeeps ==
    ASSUME LLMAssumption, LInv, NEW c \in Callers, IsOpen(c)
    PROVE  LInv'
<1>1. call[c] \in Call /\ call[c].op = "check" /\ call[c].m \in Models /\ UNCHANGED <<circuit, row>>
  BY DEF IsOpen, LInv, Call
<1>2. ASSUME NEW p \in {"attempt", "move"}, call' = [call EXCEPT ![c].op = p],
             p = "move" => circuit[call[c].m].state = "OPEN" /\ circuit[call[c].m].aged
      PROVE  LInv'
  <2>1. PICK x : x = [call[c] EXCEPT !.op = p]
    OBVIOUS
  <2>2. x \in Call
    BY <1>1, <2>1, CallField
  <2>3. x.op = p /\ x.m = call[c].m
    BY <1>1, <2>1 DEF Call
  <2>4. call' \in [Callers -> Call] /\ call'[c] = x /\ \A d \in Callers \ {c} : call'[d] = call[d]
    BY <1>2, <2>1, <2>2 DEF LInv
  <2> QED
    BY <1>1, <1>2, <2>3, <2>4, CallsMove
<1>3. ASSUME call' = NextModel(c, call) PROVE LInv'
  <2>1. call' \in [Callers -> Call] /\ call'[c].op \in {"idle", "check"} /\ \A d \in Callers \ {c} : call'[d] = call[d]
    BY <1>3, NextModelData DEF LInv
  <2> QED
    BY <1>1, <2>1, CallsMove
<1> QED
  BY <1>2, <1>3 DEF IsOpen

LEMMA MoveToHalfOpenKeeps ==
    ASSUME LLMAssumption, LInv, NEW c \in Callers, MoveToHalfOpen(c)
    PROVE  LInv'
<1>1. PICK m : m = call[c].m
  OBVIOUS
<1>2. call[c] \in Call /\ m \in Models /\ circuit[m] \in Circuit /\ call[c].op = "move"
  BY <1>1 DEF LInv, Call, MoveToHalfOpen
<1>3. PICK x, y : x = [circuit[m] EXCEPT !.state = "HALF_OPEN"] /\ y = [x EXCEPT !.aged = FALSE]
  OBVIOUS
<1>4. y \in Circuit /\ y.state = "HALF_OPEN" /\ y.succ = circuit[m].succ
  <2>1. x \in Circuit
    BY <1>2, <1>3, CircuitField
  <2>2. x.state = "HALF_OPEN" /\ x.succ = circuit[m].succ
    BY <1>2, <1>3 DEF Circuit
  <2>3. y \in Circuit
    BY <1>3, <2>1, CircuitField
  <2> QED
    BY <1>3, <2>1, <2>2, <2>3 DEF Circuit
<1>5. circuit' = [circuit EXCEPT ![m] = y] /\ row' = row
  <2>1. circuit' = [circuit EXCEPT ![m].state = "HALF_OPEN", ![m].aged = FALSE] /\ row' = row
    BY <1>1 DEF MoveToHalfOpen
  <2> QED
    BY <1>2, <1>3, <2>1 DEF LInv
<1>6. PICK out : out = Outdate(m, call)
  OBVIOUS
<1>7. PICK u, w : u = [out[c] EXCEPT !.op = "attempt"] /\ w = [u EXCEPT !.moved = FALSE]
  OBVIOUS
<1>8. /\ out \in [Callers -> Call]
      /\ \A d \in Callers : /\ out[d].op = call[d].op /\ out[d].m = call[d].m
                            /\ call[d].op = "move" /\ call[d].m = m => out[d].moved
                            /\ ~ (call[d].op = "move" /\ call[d].m = m) => out[d] = call[d]
  BY <1>2, <1>6, Outdated DEF LInv
<1>9. w \in Call /\ w.op = "attempt"
  <2>1. u \in Call
    BY <1>7, <1>8, CallField
  <2>2. w \in Call
    BY <1>7, <2>1, CallField
  <2> QED
    BY <1>7, <1>8, <2>1, <2>2 DEF Call
<1>10. call' = [out EXCEPT ![c] = w]
  <2>1. call' = [out EXCEPT ![c] = [out[c] EXCEPT !.op = "attempt", !.moved = FALSE]]
    BY <1>1, <1>6 DEF MoveToHalfOpen
  <2>2. [out[c] EXCEPT !.op = "attempt", !.moved = FALSE] = w
    BY <1>7
  <2> QED
    BY <2>1, <2>2
<1>11. call' \in [Callers -> Call] /\ call'[c] = w /\ \A d \in Callers \ {c} : call'[d] = out[d]
  BY <1>8, <1>9, <1>10
<1>12. \A d \in Callers : call'[d].op = "move" /\ ~ call'[d].moved => call'[d] = call[d] /\ call[d].m # m
  BY <1>8, <1>9, <1>11
<1>13. PICK r : r = row[m]
  OBVIOUS
<1>14. r \in 0 .. SuccessThreshold /\ row' = [row EXCEPT ![m] = r] /\ y.succ <= r
  BY <1>2, <1>4, <1>5, <1>13 DEF LInv, CircuitOK
<1> QED
  BY <1>2, <1>4, <1>5, <1>11, <1>12, <1>14, CircuitMoves

LEMMA AttemptSucceedsKeeps ==
    ASSUME LLMAssumption, LInv, NEW c \in Callers, AttemptSucceeds(c)
    PROVE  LInv'
<1>1. PICK m : m = call[c].m
  OBVIOUS
<1>2. call[c] \in Call /\ m \in Models /\ circuit[m] \in Circuit /\ CircuitOK(m)
  BY <1>1 DEF LInv, Call
<1>3. PICK x, r, out : x = Succeed(m) /\ r = AtMost(row[m] + 1, SuccessThreshold) /\ out = Outdate(m, call)
  OBVIOUS
<1>4. /\ circuit' = [circuit EXCEPT ![m] = x] /\ row' = [row EXCEPT ![m] = r]
      /\ call' = [out EXCEPT ![c] = Uncalled]
  BY <1>1, <1>3 DEF AttemptSucceeds
<1>5. /\ x \in Circuit /\ x.fails = 0 /\ x.succ <= AtMost(circuit[m].succ + 1, SuccessThreshold)
      /\ 0 < FailureThreshold
  BY <1>2, <1>3, SucceedData, ClosedData
<1>6. r \in 0 .. SuccessThreshold /\ AtMost(circuit[m].succ + 1, SuccessThreshold) <= r
  <2>1. row[m] \in Nat /\ circuit[m].succ \in Nat /\ SuccessThreshold \in Nat /\ circuit[m].succ <= row[m]
    BY <1>2, CircuitData DEF LInv, CircuitOK, LLMAssumption
  <2> QED
    BY <1>3, <2>1, CappedBelow
<1>7. x.succ <= r
  <2>1. x.succ \in Nat /\ AtMost(circuit[m].succ + 1, SuccessThreshold) \in Nat /\ r \in Nat
    <3>1. circuit[m].succ \in Nat /\ SuccessThreshold \in Nat
      BY <1>2, CircuitData DEF LLMAssumption
    <3>2. AtMost(circuit[m].succ + 1, SuccessThreshold) \in 0 .. SuccessThreshold
      BY <3>1, CappedBelow
    <3> QED
      BY <1>5, <1>6, <3>1, <3>2, CircuitData
  <2> QED
    BY <1>5, <1>6, <2>1
<1>8. /\ out \in [Callers -> Call]
      /\ \A d \in Callers : /\ out[d].op = call[d].op /\ out[d].m = call[d].m
                            /\ call[d].op = "move" /\ call[d].m = m => out[d].moved
                            /\ ~ (call[d].op = "move" /\ call[d].m = m) => out[d] = call[d]
  BY <1>2, <1>3, Outdated DEF LInv
<1>9. Uncalled \in Call /\ Uncalled.op = "idle"
  BY DEF Uncalled, Call, LLMAssumption, Models
<1>10. /\ call' \in [Callers -> Call]
       /\ \A d \in Callers : call'[d].op = "move" /\ ~ call'[d].moved => call'[d] = call[d] /\ call[d].m # m
  BY <1>4, <1>8, <1>9
<1> QED
  BY <1>2, <1>4, <1>5, <1>6, <1>7, <1>10, CircuitMoves

LEMMA RetryKeeps ==
    ASSUME LLMAssumption, LInv, NEW c \in Callers, Retry(c)
    PROVE  LInv'
<1>1. call[c] \in Call /\ call[c].op = "attempt" /\ call[c].tries < MaxRetries /\ UNCHANGED <<circuit, row>>
  BY DEF Retry, Failing, LInv
<1>2. PICK n : n = call[c].tries + 1
  OBVIOUS
<1>3. n \in 0 .. MaxRetries
  BY <1>1, <1>2 DEF Call, LLMAssumption
<1>4. PICK x : x = [call[c] EXCEPT !.tries = n]
  OBVIOUS
<1>5. x \in Call
  BY <1>1, <1>3, <1>4, CallField
<1>6. x.op = "attempt"
  BY <1>1, <1>4 DEF Call
<1>7. call' = [call EXCEPT ![c] = x]
  BY <1>2, <1>4 DEF Retry
<1>8. call' \in [Callers -> Call] /\ call'[c] = x /\ \A d \in Callers \ {c} : call'[d] = call[d]
  BY <1>5, <1>7 DEF LInv
<1> QED
  BY <1>1, <1>6, <1>8, CallsMove

LEMMA AttemptFailsKeeps ==
    ASSUME LLMAssumption, LInv, NEW c \in Callers, AttemptFails(c)
    PROVE  LInv'
<1>1. PICK m : m = call[c].m
  OBVIOUS
<1>2. call[c] \in Call /\ m \in Models /\ circuit[m] \in Circuit
  BY <1>1 DEF LInv, Call
<1>3. PICK x, out : x = Fail(m) /\ out = Outdate(m, call)
  OBVIOUS
<1>4. /\ circuit' = [circuit EXCEPT ![m] = x] /\ row' = [row EXCEPT ![m] = 0]
      /\ call' = NextModel(c, out)
  BY <1>1, <1>3 DEF AttemptFails
<1>5. x \in Circuit /\ x.succ = 0 /\ (x.state = "CLOSED" => x.fails < FailureThreshold)
  BY <1>2, <1>3, FailData
<1>6. 0 \in 0 .. SuccessThreshold /\ x.succ <= 0
  BY <1>5 DEF LLMAssumption
<1>7. /\ out \in [Callers -> Call]
      /\ \A d \in Callers : /\ out[d].op = call[d].op /\ out[d].m = call[d].m
                            /\ call[d].op = "move" /\ call[d].m = m => out[d].moved
                            /\ ~ (call[d].op = "move" /\ call[d].m = m) => out[d] = call[d]
  BY <1>2, <1>3, Outdated DEF LInv
<1>8. call' \in [Callers -> Call] /\ call'[c].op \in {"idle", "check"} /\ \A d \in Callers \ {c} : call'[d] = out[d]
  BY <1>4, <1>7, NextModelData
<1>9. \A d \in Callers : call'[d].op = "move" /\ ~ call'[d].moved => call'[d] = call[d] /\ call[d].m # m
  BY <1>7, <1>8
<1> QED
  BY <1>2, <1>4, <1>5, <1>6, <1>8, <1>9, CircuitMoves

LEMMA ContextDoneKeeps ==
    ASSUME LLMAssumption, LInv, NEW c \in Callers, ContextDone(c)
    PROVE  LInv'
<1>1. call[c] \in Call /\ UNCHANGED <<circuit, row>>
  BY DEF ContextDone, LInv
<1>2. PICK x : x = [call[c] EXCEPT !.dead = TRUE]
  OBVIOUS
<1>3. x \in Call
  BY <1>1, <1>2, CallField
<1>4. x.op = call[c].op /\ x.m = call[c].m /\ x.moved = call[c].moved
  BY <1>1, <1>2 DEF Call
<1>5. call' = [call EXCEPT ![c] = x]
  BY <1>2 DEF ContextDone
<1>6. call' \in [Callers -> Call] /\ call'[c] = x /\ \A d \in Callers \ {c} : call'[d] = call[d]
  BY <1>3, <1>5 DEF LInv
<1> QED
  BY <1>1, <1>4, <1>6, CallsMove

LEMMA AgeKeeps ==
    ASSUME LInv, NEW m \in Models, Age(m)
    PROVE  LInv'
<1>1. PICK x : x = [circuit[m] EXCEPT !.aged = TRUE]
  OBVIOUS
<1>2. circuit[m] \in Circuit /\ circuit[m].state = "OPEN" /\ ~ circuit[m].aged
  BY DEF Age, LInv
<1>3. x \in Circuit
  BY <1>1, <1>2, CircuitField
<1>4. x.state = "OPEN" /\ x.succ = circuit[m].succ
  BY <1>1, <1>2 DEF Circuit
<1>5. circuit' = [circuit EXCEPT ![m] = x] /\ UNCHANGED <<call, row>>
  BY <1>1 DEF Age
<1>6. /\ circuit' \in [Models -> Circuit] /\ circuit'[m] = x
      /\ \A n \in Models \ {m} : circuit'[n] = circuit[n]
  BY <1>3, <1>5 DEF LInv
<1>7. ASSUME NEW d \in Callers PROVE CallOK(d)'
  <2>1. CallOK(d) /\ call[d].m \in Models
    BY DEF LInv, Call
  <2> QED
    BY <1>2, <1>5, <1>6, <2>1 DEF CallOK
<1>8. ASSUME NEW n \in Models PROVE CircuitOK(n)'
  <2>1. CircuitOK(n)
    BY DEF LInv
  <2> QED
    BY <1>4, <1>5, <1>6, <2>1 DEF CircuitOK
<1> QED
  BY <1>5, <1>6, <1>7, <1>8 DEF LInv

LEMMA ResetKeeps ==
    ASSUME LLMAssumption, LInv, NEW m \in Models, ResetCircuitBreaker(m)
    PROVE  LInv'
<1>1. PICK r, out : r = SuccessThreshold /\ out = Outdate(m, call)
  OBVIOUS
<1>2. circuit' = [circuit EXCEPT ![m] = Closed] /\ row' = [row EXCEPT ![m] = r] /\ call' = out
  BY <1>1 DEF ResetCircuitBreaker
<1>3. r \in 0 .. SuccessThreshold /\ Closed \in Circuit /\ Closed.succ <= r /\ Closed.fails < FailureThreshold
  BY <1>1, ClosedData DEF LLMAssumption
<1>4. /\ out \in [Callers -> Call]
      /\ \A d \in Callers : /\ out[d].op = call[d].op /\ out[d].m = call[d].m
                            /\ call[d].op = "move" /\ call[d].m = m => out[d].moved
                            /\ ~ (call[d].op = "move" /\ call[d].m = m) => out[d] = call[d]
  BY <1>1, Outdated DEF LInv
<1>5. /\ call' \in [Callers -> Call]
      /\ \A d \in Callers : call'[d].op = "move" /\ ~ call'[d].moved => call'[d] = call[d] /\ call[d].m # m
  BY <1>2, <1>4
<1> QED
  BY <1>2, <1>3, <1>5, CircuitMoves

LEMMA LLMBegins ==
    ASSUME LLMAssumption, LLMInit
    PROVE  LInv
<1>1. Uncalled \in Call /\ Uncalled.op = "idle" /\ 0 \in 0 .. SuccessThreshold
  BY DEF Uncalled, Call, LLMAssumption, Models
<1>2. circuit \in [Models -> Circuit] /\ call \in [Callers -> Call] /\ row \in [Models -> 0 .. SuccessThreshold]
  BY <1>1, ClosedData DEF LLMInit
<1>3. ASSUME NEW m \in Models PROVE CircuitOK(m)
  BY ClosedData DEF LLMInit, CircuitOK
<1>4. ASSUME NEW c \in Callers PROVE CallOK(c)
  BY <1>1 DEF LLMInit, CallOK
<1> QED
  BY <1>2, <1>3, <1>4 DEF LInv

LEMMA LLMStep ==
    ASSUME LLMAssumption, LInv, [LLMNext]_llm_vars
    PROVE  LInv'
<1>1. CASE UNCHANGED llm_vars
  <2>1. \A d \in Callers : CallOK(d)' <=> CallOK(d)
    BY <1>1 DEF llm_vars, CallOK
  <2>2. \A m \in Models : CircuitOK(m)' <=> CircuitOK(m)
    BY <1>1 DEF llm_vars, CircuitOK
  <2> QED
    BY <1>1, <2>1, <2>2 DEF llm_vars, LInv
<1>2. CASE \E m \in Models : Outage(m) \/ Recover(m) \/ GateTimeout(m)
  <2>1. UNCHANGED <<circuit, row, call>>
    BY <1>2 DEF Outage, Recover, GateTimeout
  <2>2. call' \in [Callers -> Call]
    BY <2>1 DEF LInv
  <2> QED
    BY <2>1, <2>2, CallsMove
<1> QED
  BY <1>1, <1>2, CompleteKeeps, IsOpenKeeps, MoveToHalfOpenKeeps, AttemptSucceedsKeeps, RetryKeeps,
     AttemptFailsKeeps, ContextDoneKeeps, AgeKeeps, ResetKeeps DEF LLMNext, Proceed

\* A circuit that closes has counted its successes.
LEMMA ClosingCounted ==
    ASSUME LLMAssumption, LInv, [LLMNext]_llm_vars, NEW m \in Models,
           circuit[m].state # "CLOSED", circuit'[m].state = "CLOSED"
    PROVE  row'[m] >= SuccessThreshold
<1>1. ASSUME NEW n \in Models, NEW x \in Circuit, circuit' = [circuit EXCEPT ![n] = x],
             x.state = circuit[n].state \/ x.state # "CLOSED"
      PROVE  FALSE
  BY <1>1 DEF LInv
<1>2. SuccessThreshold \in Nat
  BY DEF LLMAssumption
<1>3. ASSUME NEW c \in Callers, AttemptSucceeds(c) PROVE row'[m] >= SuccessThreshold
  <2>1. PICK n \in Models : n = call[c].m
    BY DEF LInv, Call
  <2>2. circuit[n] \in Circuit /\ CircuitOK(n) /\ row[n] \in Nat
    BY DEF LInv
  <2>3. PICK x : x = Succeed(n)
    OBVIOUS
  <2>4. /\ circuit' = [circuit EXCEPT ![n] = x]
        /\ row' = [row EXCEPT ![n] = AtMost(row[n] + 1, SuccessThreshold)]
    BY <1>3, <2>1, <2>3 DEF AttemptSucceeds
  <2>5. /\ x \in Circuit
        /\ x.state # circuit[n].state => AtMost(circuit[n].succ + 1, SuccessThreshold) >= SuccessThreshold
    BY <2>2, <2>3, SucceedData
  <2>6. AtMost(circuit[n].succ + 1, SuccessThreshold) >= SuccessThreshold
    BY <1>1, <2>4, <2>5
  <2>7. circuit[n].succ \in Nat /\ circuit[n].succ <= row[n]
    BY <2>2, CircuitData DEF CircuitOK
  <2>8. AtMost(row[n] + 1, SuccessThreshold) >= SuccessThreshold
    <3>1. circuit[n].succ + 1 >= SuccessThreshold
      BY <1>2, <2>6, <2>7, CappedBelow
    <3>2. row[n] + 1 >= SuccessThreshold
      BY <1>2, <2>2, <2>7, <3>1
    <3> QED
      BY <1>2, <2>2, <3>2, CappedBelow
  <2>9. m = n
    BY <2>4 DEF LInv
  <2> QED
    BY <2>4, <2>8, <2>9 DEF LInv
<1>4. ASSUME NEW c \in Callers, AttemptFails(c) PROVE FALSE
  <2>1. PICK n \in Models : n = call[c].m
    BY DEF LInv, Call
  <2>2. PICK x : x = Fail(n)
    OBVIOUS
  <2>3. circuit' = [circuit EXCEPT ![n] = x]
    BY <1>4, <2>1, <2>2 DEF AttemptFails
  <2>4. x \in Circuit /\ (x.state = "CLOSED" => circuit[n].state = "CLOSED")
    BY <2>2, FailData DEF LInv
  <2> QED
    BY <1>1, <2>3, <2>4
<1>5. ASSUME NEW c \in Callers, MoveToHalfOpen(c) PROVE FALSE
  <2>1. call[c].m \in Models
    BY DEF LInv, Call
  <2>2. circuit' = [circuit EXCEPT ![call[c].m].state = "HALF_OPEN", ![call[c].m].aged = FALSE]
    BY <1>5 DEF MoveToHalfOpen
  <2>3. circuit'[call[c].m].state = "HALF_OPEN" /\ \A n \in Models \ {call[c].m} : circuit'[n] = circuit[n]
    BY <2>1, <2>2 DEF LInv, Circuit
  <2> QED
    BY <2>3
<1>6. ASSUME NEW n \in Models, ResetCircuitBreaker(n) PROVE row'[m] >= SuccessThreshold
  <2>1. circuit' = [circuit EXCEPT ![n] = Closed] /\ row' = [row EXCEPT ![n] = SuccessThreshold]
    BY <1>6 DEF ResetCircuitBreaker
  <2>2. m = n
    BY <2>1 DEF LInv
  <2> QED
    BY <1>2, <2>1, <2>2 DEF LInv
<1>7. ASSUME NEW n \in Models, Age(n) PROVE FALSE
  <2>1. circuit' = [circuit EXCEPT ![n].aged = TRUE] /\ circuit[n].state = "OPEN"
    BY <1>7 DEF Age
  <2>2. circuit'[m].state = circuit[m].state
    BY <2>1 DEF LInv, Circuit
  <2> QED
    BY <2>2
<1>8. CASE circuit' = circuit
  BY <1>8
<1> QED
  BY <1>3, <1>4, <1>5, <1>6, <1>7, <1>8 DEF LLMNext, Proceed, llm_vars, Complete, IsOpen, Retry, ContextDone,
     Outage, Recover, GateTimeout

\* A circuit that is put on probation was open for its timeout, or the caller
\* that does it was overtaken.
LEMMA ProbingExplained ==
    ASSUME LLMAssumption, LInv, [LLMNext]_llm_vars, NEW m \in Models,
           circuit[m].state # "HALF_OPEN", circuit'[m].state = "HALF_OPEN"
    PROVE  \/ circuit[m].state = "OPEN" /\ circuit[m].aged
           \/ \E c \in Callers : call[c].op = "move" /\ call[c].m = m /\ call[c].moved
<1>1. ASSUME NEW n \in Models, NEW x \in Circuit, circuit' = [circuit EXCEPT ![n] = x],
             x.state = circuit[n].state \/ x.state # "HALF_OPEN"
      PROVE  FALSE
  BY <1>1 DEF LInv
<1>2. ASSUME NEW c \in Callers, MoveToHalfOpen(c)
      PROVE  \/ circuit[m].state = "OPEN" /\ circuit[m].aged
             \/ \E d \in Callers : call[d].op = "move" /\ call[d].m = m /\ call[d].moved
  <2>1. call[c].m \in Models /\ call[c].op = "move" /\ CallOK(c)
    BY <1>2 DEF LInv, Call, MoveToHalfOpen
  <2>2. circuit' = [circuit EXCEPT ![call[c].m].state = "HALF_OPEN", ![call[c].m].aged = FALSE]
    BY <1>2 DEF MoveToHalfOpen
  <2>3. m = call[c].m
    BY <2>1, <2>2 DEF LInv
  <2> QED
    BY <2>1, <2>3 DEF CallOK
<1>3. ASSUME NEW c \in Callers, AttemptSucceeds(c) PROVE FALSE
  <2>1. PICK n \in Models : n = call[c].m
    BY DEF LInv, Call
  <2>2. PICK x : x = Succeed(n)
    OBVIOUS
  <2>3. circuit' = [circuit EXCEPT ![n] = x]
    BY <1>3, <2>1, <2>2 DEF AttemptSucceeds
  <2>4. x \in Circuit /\ (x.state # circuit[n].state => x.state = "CLOSED")
    BY <2>2, SucceedData DEF LInv
  <2> QED
    BY <1>1, <2>3, <2>4
<1>4. ASSUME NEW c \in Callers, AttemptFails(c) PROVE FALSE
  <2>1. PICK n \in Models : n = call[c].m
    BY DEF LInv, Call
  <2>2. PICK x : x = Fail(n)
    OBVIOUS
  <2>3. circuit' = [circuit EXCEPT ![n] = x]
    BY <1>4, <2>1, <2>2 DEF AttemptFails
  <2>4. x \in Circuit /\ (x.state = "HALF_OPEN" => circuit[n].state = "HALF_OPEN")
    BY <2>2, FailData DEF LInv
  <2> QED
    BY <1>1, <2>3, <2>4
<1>5. ASSUME NEW n \in Models, ResetCircuitBreaker(n) PROVE FALSE
  <2>1. circuit' = [circuit EXCEPT ![n] = Closed] /\ Closed \in Circuit /\ Closed.state = "CLOSED"
    BY <1>5, ClosedData DEF ResetCircuitBreaker
  <2> QED
    BY <1>1, <2>1
<1>6. ASSUME NEW n \in Models, Age(n) PROVE FALSE
  <2>1. circuit' = [circuit EXCEPT ![n].aged = TRUE]
    BY <1>6 DEF Age
  <2>2. circuit'[m].state = circuit[m].state
    BY <2>1 DEF LInv, Circuit
  <2> QED
    BY <2>2
<1>7. CASE circuit' = circuit
  BY <1>7
<1> QED
  BY <1>2, <1>3, <1>4, <1>5, <1>6, <1>7 DEF LLMNext, Proceed, llm_vars, Complete, IsOpen, Retry, ContextDone,
     Outage, Recover, GateTimeout
-----------------------------------------------------------------------------
(* The stream.                                                             *)

Closing == \E d \in Controllers : ctl[d].op = "close"
Starting(g) == \E d \in Controllers : ctl[d].op = "key" /\ ctl[d].g = g

\* Stream g delivers reports, or will, and no stop has reached it.
MayOpen(g) ==
    g \notin closed /\ (run[g] \in {"dialing", "connected", "waiting"} \/ Starting(g))

\* Streams that have not been started have left no trace.
Fresh ==
    \A g \in Stream!Streams : g > chan =>
        /\ run[g] = "none" /\ alive[g] = "none" /\ ~ Starting(g)
        /\ g \notin closed \cup up \cup cleared \cup overlapped

\* A start gets one key, and has no goroutine before.
KeysOK ==
    \A c \in Controllers : ctl[c].op = "key" =>
        /\ ctl[c].g \in Stream!Streams /\ run[ctl[c].g] = "none" /\ alive[ctl[c].g] = "none"
        /\ \A d \in Controllers : ctl[d].op = "key" /\ ctl[d].g = ctl[c].g => d = c

\* Unless a start came between a stop and its close, one close at a time is
\* under way, and of a channel that is open.
ClosesOK ==
    overlapped = {} =>
        /\ connected => ~ Closing
        /\ connected \/ Closing => chan \notin closed
        /\ \A c, d \in Controllers : ctl[c].op = "close" /\ ctl[d].op = "close" => c = d

\* And unless a flag was reset for another stream, only the latest stream can be
\* open, and only while the flag or a close says so.
OpenOK ==
    cleared = {} /\ overlapped = {} =>
        /\ \A g \in Stream!Streams : MayOpen(g) => g = chan
        /\ ~ connected /\ ~ Closing => \A g \in Stream!Streams : ~ MayOpen(g)

SInv ==
    /\ Stream!TypeOK /\ Fresh /\ KeysOK /\ ClosesOK /\ OpenOK
    /\ connected \/ Closing => chan > 0
    /\ panic => overlapped # {}

\* A stream that moves among the states of its goroutine does not become open.
LEMMA RunMoves ==
    ASSUME SInv, Stream!StreamAssumption, NEW g \in Stream!Streams,
           NEW to \in {"connected", "waiting", "stopping", "ending"},
           run[g] \in {"dialing", "connected", "waiting", "stopping"},
           to \in {"connected", "waiting"} => run[g] \in {"dialing", "connected"},
           run' = [run EXCEPT ![g] = to],
           runOn' \in [Stream!Streams -> 0 .. MaxStarts],
           up' \subseteq up \cup {g},
           UNCHANGED <<connected, chan, closed, alive, aliveOn, ctl, panic, cleared, overlapped>>
    PROVE  SInv'
<1>1. run'[g] = to /\ \A h \in Stream!Streams \ {g} : run'[h] = run[h]
  BY DEF SInv, Stream!TypeOK
<1>2. g <= chan /\ g \in Nat /\ chan \in Nat
  BY DEF SInv, Fresh, Stream!Streams, Stream!TypeOK, Stream!StreamAssumption
<1>3. Stream!TypeOK'
  <2>1. run' \in [Stream!Streams -> {"none", "dialing", "connected", "waiting", "stopping", "ending", "done"}]
    BY DEF SInv, Stream!TypeOK
  <2> QED
    BY <2>1 DEF SInv, Stream!TypeOK
<1>4. \A h : Starting(h)' <=> Starting(h)
  BY DEF Starting
<1>5. Closing' <=> Closing
  BY DEF Closing
<1>6. Fresh'
  BY <1>1, <1>2, <1>4 DEF SInv, Fresh
<1>7. KeysOK'
  <2>1. ASSUME NEW c \in Controllers, ctl[c].op = "key" PROVE ctl[c].g # g
    BY <2>1 DEF SInv, KeysOK
  <2> QED
    BY <1>1, <2>1 DEF SInv, KeysOK
<1>8. ClosesOK'
  BY <1>5 DEF SInv, ClosesOK
<1>9. ASSUME NEW h \in Stream!Streams, MayOpen(h)' PROVE MayOpen(h)
  BY <1>1, <1>4, <1>9 DEF MayOpen
<1>10. OpenOK'
  BY <1>5, <1>9 DEF SInv, OpenOK
<1> QED
  BY <1>3, <1>5, <1>6, <1>7, <1>8, <1>10 DEF SInv

LEMMA DialKeeps ==
    ASSUME SInv, Stream!StreamAssumption, NEW g \in Stream!Streams, Stream!Dial(g)
    PROVE  SInv'
<1>1. runOn' \in [Stream!Streams -> 0 .. MaxStarts]
  BY DEF Stream!Dial, SInv, Stream!TypeOK
<1>2. /\ run[g] = "dialing" /\ up' \subseteq up \cup {g}
      /\ \/ run' = [run EXCEPT ![g] = "connected"]
         \/ run' = [run EXCEPT ![g] = "ending"]
      /\ UNCHANGED <<connected, chan, closed, alive, aliveOn, ctl, panic, cleared, overlapped>>
  BY DEF Stream!Dial, Stream!RunGoes
<1>3. CASE run' = [run EXCEPT ![g] = "connected"]
  BY <1>1, <1>2, <1>3, RunMoves
<1>4. CASE run' = [run EXCEPT ![g] = "ending"]
  <2>1. "ending" \notin {"connected", "waiting"}
    OBVIOUS
  <2> QED
    BY <1>1, <1>2, <1>4, <2>1, RunMoves
<1> QED
  BY <1>2, <1>3, <1>4

LEMMA WaitKeeps ==
    ASSUME SInv, Stream!StreamAssumption, NEW g \in Stream!Streams, Stream!Wait(g)
    PROVE  SInv'
<1>1. PICK h \in g .. chan : runOn' = [runOn EXCEPT ![g] = h]
  BY DEF Stream!Wait
<1>2. h \in 0 .. MaxStarts
  BY <1>1 DEF SInv, Stream!TypeOK, Stream!Streams, Stream!StreamAssumption
<1>3. runOn' \in [Stream!Streams -> 0 .. MaxStarts]
  BY <1>1, <1>2 DEF SInv, Stream!TypeOK
<1>4. /\ run[g] = "connected" /\ up' \subseteq up \cup {g} /\ run' = [run EXCEPT ![g] = "waiting"]
      /\ UNCHANGED <<connected, chan, closed, alive, aliveOn, ctl, panic, cleared, overlapped>>
  BY DEF Stream!Wait, Stream!RunGoes
<1> QED
  BY <1>3, <1>4, RunMoves

LEMMA StopOrDoneKeeps ==
    ASSUME SInv, Stream!StreamAssumption, NEW g \in Stream!Streams,
           Stream!StopSignal(g) \/ Stream!ContextDone(g) \/ Stream!TellLibrary(g) \/ Stream!Done(g)
    PROVE  SInv'
<1>1. runOn' \in [Stream!Streams -> 0 .. MaxStarts]
  BY DEF Stream!StopSignal, Stream!ContextDone, Stream!TellLibrary, Stream!Done, SInv, Stream!TypeOK
<1>2. /\ run[g] \in {"waiting", "stopping"} /\ up' \subseteq up \cup {g}
      /\ \/ run' = [run EXCEPT ![g] = "stopping"]
         \/ run' = [run EXCEPT ![g] = "ending"]
      /\ UNCHANGED <<connected, chan, closed, alive, aliveOn, ctl, panic, cleared, overlapped>>
  BY DEF Stream!StopSignal, Stream!ContextDone, Stream!TellLibrary, Stream!Done, Stream!RunGoes
<1>3. CASE run' = [run EXCEPT ![g] = "stopping"]
  BY <1>1, <1>2, <1>3, RunMoves
<1>4. CASE run' = [run EXCEPT ![g] = "ending"]
  <2>1. "ending" \notin {"connected", "waiting"}
    OBVIOUS
  <2> QED
    BY <1>1, <1>2, <1>4, <2>1, RunMoves
<1> QED
  BY <1>2, <1>3, <1>4

\* Steps that no other stream can see.
LEMMA AsideKeeps ==
    ASSUME SInv, Stream!StreamAssumption, NEW g \in Stream!Streams,
           Stream!ConnectionLost(g) \/ Stream!KeepAlive(g) \/ Stream!KeepAliveCancelled(g)
    PROVE  SInv'
<1>1. /\ UNCHANGED <<connected, chan, closed, run, runOn, ctl, panic, cleared, overlapped>>
      /\ up' \subseteq up
  BY DEF Stream!ConnectionLost, Stream!KeepAlive, Stream!Tick, Stream!KeepAliveStops,
     Stream!KeepAliveCancelled
<1>2. aliveOn' \in [Stream!Streams -> 0 .. MaxStarts]
  <2>1. ASSUME NEW h \in g .. chan PROVE h \in 0 .. MaxStarts
    BY <2>1 DEF SInv, Stream!TypeOK, Stream!Streams, Stream!StreamAssumption
  <2> QED
    BY <2>1 DEF SInv, Stream!TypeOK, Stream!ConnectionLost, Stream!KeepAlive, Stream!Tick, Stream!KeepAliveStops,
     Stream!KeepAliveCancelled
<1>3. alive' \in [Stream!Streams -> {"none", "waiting", "done"}]
      /\ \A h \in Stream!Streams : alive[h] = "none" => alive'[h] = "none"
  BY DEF SInv, Stream!TypeOK, Stream!ConnectionLost, Stream!KeepAlive, Stream!Tick, Stream!KeepAliveStops,
     Stream!KeepAliveCancelled
<1>4. (\A h : (Starting(h)' <=> Starting(h)) /\ (MayOpen(h)' <=> MayOpen(h))) /\ (Closing' <=> Closing)
  BY <1>1 DEF Starting, Closing, MayOpen
<1>5. Stream!TypeOK'
  BY <1>1, <1>2, <1>3 DEF SInv, Stream!TypeOK
<1>6. Fresh' /\ KeysOK'
  BY <1>1, <1>3, <1>4 DEF SInv, Fresh, KeysOK
<1>7. ClosesOK' /\ OpenOK'
  BY <1>1, <1>4 DEF SInv, ClosesOK, OpenOK
<1> QED
  BY <1>1, <1>4, <1>5, <1>6, <1>7 DEF SInv

LEMMA StartKeeps ==
    ASSUME SInv, Stream!StreamAssumption, NEW c \in Controllers, Stream!StartUserDataStream(c)
    PROVE  SInv'
<1>1. PICK g : g = chan + 1
  OBVIOUS
<1>2. /\ ctl[c] = Stream!Idle /\ ~ connected /\ chan < MaxStarts
      /\ connected' = TRUE /\ chan' = g
      /\ ctl' = [ctl EXCEPT ![c] = [op |-> "key", g |-> g]]
      /\ overlapped' = IF Closing THEN overlapped \cup {g} ELSE overlapped
      /\ UNCHANGED <<closed, run, runOn, alive, aliveOn, up, panic, cleared>>
  BY <1>1 DEF Stream!StartUserDataStream, Closing
<1>3. g \in Stream!Streams /\ g \in 0 .. MaxStarts /\ chan \in Nat /\ g > chan /\ MaxStarts \in Nat
  BY <1>1, <1>2 DEF SInv, Stream!TypeOK, Stream!Streams, Stream!StreamAssumption
<1>4. ctl[c].op = "idle"
  BY <1>2 DEF Stream!Idle
<1>5. /\ ctl' \in [Controllers -> [op : {"idle", "key", "close"}, g : 0 .. MaxStarts]]
      /\ ctl'[c].op = "key" /\ ctl'[c].g = g /\ \A d \in Controllers \ {c} : ctl'[d] = ctl[d]
  BY <1>2, <1>3 DEF SInv, Stream!TypeOK
<1>6. Stream!TypeOK'
  <2>1. overlapped' \subseteq Stream!Streams /\ chan' \in 0 .. MaxStarts
    BY <1>2, <1>3 DEF SInv, Stream!TypeOK
  <2> QED
    BY <1>2, <1>5, <2>1 DEF SInv, Stream!TypeOK
<1>7. /\ Closing' <=> Closing
      /\ \A h : Starting(h)' <=> Starting(h) \/ h = g
  BY <1>4, <1>5 DEF Closing, Starting
<1>8. run[g] = "none" /\ alive[g] = "none" /\ ~ Starting(g) /\ g \notin closed
  BY <1>3 DEF SInv, Fresh
<1>9. Fresh'
  <2>1. ASSUME NEW h \in Stream!Streams, h > g PROVE h > chan /\ h # g
    BY <1>3, <2>1 DEF Stream!Streams
  <2> QED
    BY <1>2, <1>7, <2>1 DEF SInv, Fresh
<1>10. KeysOK'
  <2>1. ASSUME NEW d \in Controllers \ {c}, ctl[d].op = "key" PROVE ctl[d].g # g
    BY <1>8, <2>1 DEF Starting
  <2> QED
    BY <1>2, <1>3, <1>5, <1>8, <2>1 DEF SInv, KeysOK
<1>11. overlapped' = {} => overlapped = {} /\ ~ Closing
  BY <1>2
<1>12. ClosesOK'
  <2>1. SUFFICES ASSUME overlapped' = {} PROVE ClosesOK'
    BY DEF ClosesOK
  <2>2. \A d \in Controllers : ctl'[d].op # "close"
    BY <1>7, <1>11, <2>1 DEF Closing
  <2> QED
    BY <1>2, <1>7, <1>8, <1>11, <2>1, <2>2 DEF ClosesOK
<1>13. OpenOK'
  <2>1. SUFFICES ASSUME cleared = {}, overlapped' = {} PROVE \A h \in Stream!Streams : MayOpen(h)' => h = g
    BY <1>2 DEF OpenOK
  <2>2. \A h \in Stream!Streams : ~ MayOpen(h)
    BY <1>2, <1>11, <2>1 DEF SInv, OpenOK
  <2> QED
    BY <1>2, <1>7, <2>2 DEF MayOpen
<1> QED
  BY <1>2, <1>3, <1>6, <1>9, <1>10, <1>12, <1>13 DEF SInv, Stream!TypeOK

LEMMA StopKeeps ==
    ASSUME SInv, Stream!StreamAssumption, NEW c \in Controllers, Stream!StopUserDataStream(c)
    PROVE  SInv'
<1>1. /\ ctl[c].op = "idle" /\ connected /\ connected' = FALSE
      /\ ctl' = [ctl EXCEPT ![c] = [op |-> "close", g |-> chan]]
      /\ UNCHANGED <<chan, closed, run, runOn, alive, aliveOn, up, panic, cleared, overlapped>>
  BY DEF Stream!StopUserDataStream, Stream!Idle
<1>2. /\ ctl' \in [Controllers -> [op : {"idle", "key", "close"}, g : 0 .. MaxStarts]]
      /\ ctl'[c].op = "close" /\ \A d \in Controllers \ {c} : ctl'[d] = ctl[d]
  BY <1>1 DEF SInv, Stream!TypeOK
<1>3. Closing' /\ \A h : (Starting(h)' <=> Starting(h)) /\ (MayOpen(h)' <=> MayOpen(h))
  <2>1. Closing' /\ \A h : Starting(h)' <=> Starting(h)
    BY <1>1, <1>2 DEF Closing, Starting
  <2> QED
    BY <1>1, <2>1 DEF MayOpen
<1>4. Stream!TypeOK'
  BY <1>1, <1>2 DEF SInv, Stream!TypeOK
<1>5. Fresh' /\ KeysOK'
  BY <1>1, <1>2, <1>3 DEF SInv, Fresh, KeysOK
<1>6. ClosesOK'
  BY <1>1, <1>2 DEF SInv, ClosesOK, Closing
<1>7. OpenOK'
  BY <1>1, <1>3 DEF SInv, OpenOK
<1> QED
  BY <1>1, <1>3, <1>4, <1>5, <1>6, <1>7 DEF SInv

LEMMA ListenKeyKeeps ==
    ASSUME SInv, Stream!StreamAssumption, NEW c \in Controllers, Stream!ListenKey(c)
    PROVE  SInv'
<1>1. PICK g : g = ctl[c].g
  OBVIOUS
<1>2. /\ ctl[c].op = "key" /\ run' = [run EXCEPT ![g] = "dialing"]
      /\ \E h \in g .. chan : aliveOn' = [aliveOn EXCEPT ![g] = h]
      /\ alive' = [alive EXCEPT ![g] = "waiting"]
      /\ ctl' = [ctl EXCEPT ![c] = Stream!Idle]
      /\ UNCHANGED <<connected, chan, closed, runOn, up, panic, cleared, overlapped>>
  BY <1>1 DEF Stream!ListenKey
<1>3. /\ g \in Stream!Streams /\ run[g] = "none" /\ Starting(g) /\ g <= chan
      /\ \A d \in Controllers : ctl[d].op = "key" /\ ctl[d].g = g => d = c
  <2>1. /\ g \in Stream!Streams /\ run[g] = "none" /\ Starting(g)
        /\ \A d \in Controllers : ctl[d].op = "key" /\ ctl[d].g = g => d = c
    BY <1>1, <1>2 DEF SInv, KeysOK, Starting
  <2> QED
    BY <2>1 DEF SInv, Fresh, Stream!TypeOK, Stream!Streams, Stream!StreamAssumption
<1>4. /\ ctl' \in [Controllers -> [op : {"idle", "key", "close"}, g : 0 .. MaxStarts]]
      /\ ctl'[c].op = "idle" /\ \A d \in Controllers \ {c} : ctl'[d] = ctl[d]
  BY <1>2 DEF SInv, Stream!TypeOK, Stream!Idle, Stream!StreamAssumption
<1>5. /\ run' \in [Stream!Streams -> {"none", "dialing", "connected", "waiting", "stopping", "ending", "done"}]
      /\ alive' \in [Stream!Streams -> {"none", "waiting", "done"}]
      /\ run'[g] = "dialing" /\ \A h \in Stream!Streams \ {g} : run'[h] = run[h] /\ alive'[h] = alive[h]
  BY <1>2, <1>3 DEF SInv, Stream!TypeOK
<1>6. Stream!TypeOK'
  <2>1. ASSUME NEW h \in g .. chan PROVE h \in 0 .. MaxStarts
    BY <1>3, <2>1 DEF SInv, Stream!TypeOK, Stream!Streams, Stream!StreamAssumption
  <2>2. aliveOn' \in [Stream!Streams -> 0 .. MaxStarts]
    BY <1>2, <2>1 DEF SInv, Stream!TypeOK
  <2> QED
    BY <1>2, <1>4, <1>5, <2>2 DEF SInv, Stream!TypeOK
<1>7. /\ Closing' <=> Closing
      /\ \A h \in Stream!Streams : (Starting(h)' => Starting(h)) /\ (Starting(h) => Starting(h)' \/ h = g)
  BY <1>1, <1>2, <1>4 DEF Closing, Starting
<1>8. ASSUME NEW h \in Stream!Streams, MayOpen(h)' PROVE MayOpen(h)
  BY <1>2, <1>3, <1>5, <1>7, <1>8 DEF MayOpen
<1>9. Fresh'
  <2>1. ASSUME NEW h \in Stream!Streams, h > chan PROVE h # g
    BY <1>3, <2>1 DEF SInv, Stream!TypeOK, Stream!Streams, Stream!StreamAssumption
  <2> QED
    BY <1>2, <1>5, <1>7, <2>1 DEF SInv, Fresh
<1>10. KeysOK'
  <2>1. ASSUME NEW d \in Controllers \ {c}, ctl[d].op = "key" PROVE ctl[d].g # g
    BY <1>3, <2>1
  <2> QED
    BY <1>2, <1>4, <1>5, <2>1 DEF SInv, KeysOK
<1>11. ClosesOK'
  BY <1>2, <1>4, <1>7 DEF SInv, ClosesOK
<1>12. OpenOK'
  BY <1>2, <1>7, <1>8 DEF SInv, OpenOK
<1> QED
  BY <1>2, <1>6, <1>7, <1>9, <1>10, <1>11, <1>12 DEF SInv

\* The flag is reset by stream g, which can no longer be open.
LEMMA ResetKeepsOpen ==
    ASSUME SInv, Stream!StreamAssumption, NEW g \in Stream!Streams, Stream!Reset(g),
           UNCHANGED <<chan, closed, overlapped>>,
           \A h \in Stream!Streams : MayOpen(h)' => MayOpen(h) /\ h # g,
           Closing' <=> Closing
    PROVE  OpenOK'
<1>1. connected' = FALSE /\ cleared' = IF connected /\ chan # g THEN cleared \cup {chan} ELSE cleared
  BY DEF Stream!Reset
<1>2. SUFFICES ASSUME cleared' = {}, overlapped = {}
               PROVE  /\ \A h \in Stream!Streams : MayOpen(h)' => h = chan
                      /\ ~ Closing => \A h \in Stream!Streams : ~ MayOpen(h)'
  BY DEF OpenOK
<1>3. cleared = {} /\ (connected => chan = g)
  BY <1>1, <1>2
<1>4. \A h \in Stream!Streams : MayOpen(h) => h = chan
  BY <1>2, <1>3 DEF SInv, OpenOK
<1>5. ASSUME ~ Closing PROVE \A h \in Stream!Streams : ~ MayOpen(h)'
  BY <1>2, <1>3, <1>4, <1>5 DEF SInv, OpenOK
<1> QED
  BY <1>4, <1>5

LEMMA ListenKeyFailsKeeps ==
    ASSUME SInv, Stream!StreamAssumption, NEW c \in Controllers, Stream!ListenKeyFails(c)
    PROVE  SInv'
<1>1. PICK g : g = ctl[c].g
  OBVIOUS
<1>2. /\ ctl[c].op = "key" /\ Stream!Reset(g)
      /\ connected' = FALSE /\ cleared' = IF connected /\ chan # g THEN cleared \cup {chan} ELSE cleared
      /\ ctl' = [ctl EXCEPT ![c] = Stream!Idle]
      /\ UNCHANGED <<chan, closed, run, runOn, alive, aliveOn, up, panic, overlapped>>
  BY <1>1 DEF Stream!ListenKeyFails, Stream!Reset
<1>3. /\ g \in Stream!Streams /\ run[g] = "none"
      /\ \A d \in Controllers : ctl[d].op = "key" /\ ctl[d].g = g => d = c
  BY <1>1, <1>2 DEF SInv, KeysOK
<1>4. /\ ctl' \in [Controllers -> [op : {"idle", "key", "close"}, g : 0 .. MaxStarts]]
      /\ ctl'[c].op = "idle" /\ \A d \in Controllers \ {c} : ctl'[d] = ctl[d]
  BY <1>2 DEF SInv, Stream!TypeOK, Stream!Idle, Stream!StreamAssumption
<1>5. connected => chan \in Stream!Streams
  BY DEF SInv, Stream!TypeOK, Stream!Streams, Stream!StreamAssumption
<1>6. Stream!TypeOK'
  BY <1>2, <1>4, <1>5 DEF SInv, Stream!TypeOK
<1>7. /\ Closing' <=> Closing
      /\ \A h : Starting(h)' => Starting(h) /\ h # g
  BY <1>1, <1>2, <1>3, <1>4 DEF Closing, Starting
<1>8. ASSUME NEW h \in Stream!Streams, MayOpen(h)' PROVE MayOpen(h) /\ h # g
  BY <1>2, <1>3, <1>7, <1>8 DEF MayOpen
<1>9. Fresh'
  <2>1. chan \in Nat /\ \A h \in cleared' : h \in cleared \/ h = chan
    BY <1>2 DEF SInv, Stream!TypeOK
  <2> QED
    BY <1>2, <1>7, <2>1 DEF SInv, Fresh
<1>10. KeysOK'
  BY <1>2, <1>4 DEF SInv, KeysOK
<1>11. ClosesOK'
  BY <1>2, <1>4, <1>7 DEF SInv, ClosesOK
<1>12. OpenOK'
  BY <1>2, <1>3, <1>7, <1>8, ResetKeepsOpen
<1> QED
  BY <1>2, <1>6, <1>7, <1>9, <1>10, <1>11, <1>12 DEF SInv

LEMMA DeferredKeeps ==
    ASSUME SInv, Stream!StreamAssumption, NEW g \in Stream!Streams, Stream!Deferred(g)
    PROVE  SInv'
<1>1. /\ run[g] = "ending" /\ run' = [run EXCEPT ![g] = "done"] /\ Stream!Reset(g)
      /\ connected' = FALSE /\ cleared' = IF connected /\ chan # g THEN cleared \cup {chan} ELSE cleared
      /\ UNCHANGED <<chan, closed, runOn, alive, aliveOn, up, ctl, panic, overlapped>>
  BY DEF Stream!Deferred, Stream!RunGoes, Stream!Reset
<1>2. /\ run' \in [Stream!Streams -> {"none", "dialing", "connected", "waiting", "stopping", "ending", "done"}]
      /\ run'[g] = "done" /\ \A h \in Stream!Streams \ {g} : run'[h] = run[h]
  BY <1>1 DEF SInv, Stream!TypeOK
<1>3. connected => chan \in Stream!Streams
  BY DEF SInv, Stream!TypeOK, Stream!Streams, Stream!StreamAssumption
<1>4. Stream!TypeOK'
  BY <1>1, <1>2, <1>3 DEF SInv, Stream!TypeOK
<1>5. (Closing' <=> Closing) /\ \A h : Starting(h)' <=> Starting(h)
  BY <1>1 DEF Closing, Starting
<1>6. ~ Starting(g)
  BY <1>1 DEF SInv, KeysOK, Starting
<1>7. ASSUME NEW h \in Stream!Streams, MayOpen(h)' PROVE MayOpen(h) /\ h # g
  BY <1>1, <1>2, <1>5, <1>6, <1>7 DEF MayOpen
<1>8. Fresh'
  <2>1. chan \in Nat /\ \A h \in cleared' : h \in cleared \/ h = chan
    BY <1>1 DEF SInv, Stream!TypeOK
  <2>2. \A h \in Stream!Streams : h > chan => h # g
    BY <1>1 DEF SInv, Fresh
  <2> QED
    BY <1>1, <1>2, <1>5, <2>1, <2>2 DEF SInv, Fresh
<1>9. KeysOK'
  <2>1. ASSUME NEW c \in Controllers, ctl[c].op = "key" PROVE ctl[c].g # g
    BY <1>1, <2>1 DEF SInv, KeysOK
  <2> QED
    BY <1>1, <1>2, <2>1 DEF SInv, KeysOK
<1>10. ClosesOK'
  BY <1>1, <1>5 DEF SInv, ClosesOK
<1>11. OpenOK'
  BY <1>1, <1>5, <1>7, ResetKeepsOpen
<1> QED
  BY <1>1, <1>4, <1>5, <1>8, <1>9, <1>10, <1>11 DEF SInv

LEMMA CloseKeeps ==
    ASSUME SInv, Stream!StreamAssumption, NEW c \in Controllers, Stream!CloseStopChan(c)
    PROVE  SInv'
<1>1. /\ ctl[c].op = "close" /\ panic' = (chan \in closed) /\ closed' = closed \cup {chan}
      /\ ctl' = [ctl EXCEPT ![c] = Stream!Idle]
      /\ UNCHANGED <<connected, chan, run, runOn, alive, aliveOn, up, cleared, overlapped>>
  BY DEF Stream!CloseStopChan
<1>2. Closing /\ chan \in Stream!Streams /\ chan \in Nat
  <2>1. Closing
    BY <1>1 DEF Closing
  <2> QED
    BY <2>1 DEF SInv, Stream!TypeOK, Stream!Streams, Stream!StreamAssumption
<1>3. /\ ctl' \in [Controllers -> [op : {"idle", "key", "close"}, g : 0 .. MaxStarts]]
      /\ ctl'[c].op = "idle" /\ \A d \in Controllers \ {c} : ctl'[d] = ctl[d]
  BY <1>1 DEF SInv, Stream!TypeOK, Stream!Idle, Stream!StreamAssumption
<1>4. Stream!TypeOK'
  <2>1. closed' \subseteq Stream!Streams /\ panic' \in BOOLEAN
    BY <1>1, <1>2 DEF SInv, Stream!TypeOK
  <2> QED
    BY <1>1, <1>3, <2>1 DEF SInv, Stream!TypeOK
<1>5. (Closing' => Closing) /\ \A h : Starting(h)' <=> Starting(h)
  BY <1>1, <1>3 DEF Closing, Starting
<1>6. Fresh'
  BY <1>1, <1>2, <1>5 DEF SInv, Fresh
<1>7. KeysOK'
  BY <1>1, <1>3 DEF SInv, KeysOK
<1>8. overlapped = {} => ~ connected /\ chan \notin closed /\ ~ Closing'
  BY <1>1, <1>2, <1>3 DEF SInv, ClosesOK, Closing
<1>9. ClosesOK'
  BY <1>1, <1>8 DEF ClosesOK, Closing
<1>10. ASSUME NEW h \in Stream!Streams, MayOpen(h)' PROVE MayOpen(h) /\ h # chan
  BY <1>1, <1>5, <1>10 DEF MayOpen
<1>11. OpenOK'
  BY <1>1, <1>10 DEF SInv, OpenOK
<1>12. panic' => overlapped # {}
  BY <1>1, <1>8
<1>13. connected' \/ Closing' => chan' > 0
  BY <1>1, <1>5 DEF SInv
<1> QED
  BY <1>1, <1>4, <1>6, <1>7, <1>9, <1>11, <1>12, <1>13 DEF SInv

LEMMA StreamBegins ==
    ASSUME Stream!StreamAssumption, Stream!Init
    PROVE  SInv
<1>1. \A c \in Controllers : ctl[c].op = "idle"
  BY DEF Stream!Init, Stream!Idle
<1>2. Stream!TypeOK
  <2>1. 0 \in 0 .. MaxStarts
    BY DEF Stream!StreamAssumption
  <2>2. Stream!Idle \in [op : {"idle", "key", "close"}, g : 0 .. MaxStarts]
    BY <2>1 DEF Stream!Idle
  <2>3. ctl \in [Controllers -> [op : {"idle", "key", "close"}, g : 0 .. MaxStarts]]
    BY <2>2 DEF Stream!Init
  <2>4. runOn \in [Stream!Streams -> 0 .. MaxStarts] /\ aliveOn \in [Stream!Streams -> 0 .. MaxStarts]
    BY <2>1 DEF Stream!Init
  <2>5. /\ run \in [Stream!Streams -> {"none", "dialing", "connected", "waiting", "stopping", "ending", "done"}]
        /\ alive \in [Stream!Streams -> {"none", "waiting", "done"}]
    BY DEF Stream!Init
  <2> QED
    BY <2>1, <2>3, <2>4, <2>5 DEF Stream!Init, Stream!TypeOK
<1>3. ~ Closing /\ \A h : ~ Starting(h)
  BY <1>1 DEF Closing, Starting
<1>4. Fresh /\ KeysOK /\ ClosesOK /\ OpenOK
  BY <1>1, <1>3 DEF Stream!Init, Fresh, KeysOK, ClosesOK, OpenOK, MayOpen
<1> QED
  BY <1>2, <1>3, <1>4 DEF SInv, Stream!Init

LEMMA StreamStep ==
    ASSUME SInv, Stream!StreamAssumption, Stream!Next \/ UNCHANGED stream
    PROVE  SInv'
<1>1. CASE UNCHANGED stream
  <2>1. \A h : (Starting(h)' <=> Starting(h)) /\ (MayOpen(h)' <=> MayOpen(h))
    BY <1>1 DEF stream, Starting, MayOpen
  <2>2. Closing' <=> Closing
    BY <1>1 DEF stream, Closing
  <2>3. Stream!TypeOK' /\ Fresh' /\ KeysOK'
    BY <1>1, <2>1 DEF stream, SInv, Stream!TypeOK, Fresh, KeysOK
  <2>4. ClosesOK' /\ OpenOK'
    BY <1>1, <2>1, <2>2 DEF stream, SInv, ClosesOK, OpenOK
  <2> QED
    BY <1>1, <2>2, <2>3, <2>4 DEF stream, SInv
<1> QED
  BY <1>1, StartKeeps, StopKeeps, ListenKeyKeeps, ListenKeyFailsKeeps, CloseKeeps, DialKeeps, WaitKeeps,
     StopOrDoneKeeps, DeferredKeeps, AsideKeeps DEF Stream!Next, Stream!Control, Stream!RunStep

-----------------------------------------------------------------------------
(* Theorems of the specification.                                          *)

\* The inductive invariants of the two parts.
THEOREM LiveInvariant == ASSUME LiveAssumption PROVE MCSpec => [](LInv /\ SInv)
<1>1. MCInit => LInv /\ SInv
  BY LiveAssumption, LLMBegins, StreamBegins DEF MCInit
<1>2. LInv /\ SInv /\ [MCNext]_all => (LInv /\ SInv)'
  BY LiveAssumption, LLMStep, StreamStep DEF MCNext, LLM, OfStream, all, llm_vars, stream
<1> QED
  BY <1>1, <1>2, PTL DEF MCSpec

\* RacesAreContained: a closed circuit is below its failure threshold, two
\* streams are open or the stop channel is closed twice only through the windows
\* the code leaves open, for any number of models, callers and starts.
THEOREM RacesContained == ASSUME LiveAssumption PROVE MCSpec => []RacesAreContained
<1>1. ASSUME LInv, SInv PROVE RacesAreContained
  <2>1. LLMTypeOK
    <3>1. \A m \in Models : m \in 1 .. NumModels + 1
      BY LiveAssumption DEF Models, LLMAssumption
    <3>2. ASSUME NEW c \in Callers
          PROVE  call[c] \in [op : {"idle", "check", "move", "attempt"}, m : 1 .. NumModels + 1,
                              tries : 0 .. MaxRetries, dead : BOOLEAN, moved : BOOLEAN]
      <4>1. call[c] \in Call
        BY <1>1 DEF LInv
      <4> QED
        BY <3>1, <4>1 DEF Call
    <3> QED
      BY <1>1, <3>2 DEF LLMTypeOK, LInv, Circuit
  <2>2. ClosedBelowThreshold
    BY <1>1 DEF LInv, CircuitOK, ClosedBelowThreshold
  <2>3. Stream!OneStream
    <3> SUFFICES ASSUME NEW g \in Stream!Streams, NEW h \in Stream!Streams, g < h,
                        Stream!Open(g), Stream!Open(h), cleared = {}, overlapped = {}
                 PROVE  FALSE
      BY DEF Stream!OneStream
    <3>1. MayOpen(g) /\ MayOpen(h)
      BY DEF Stream!Open, MayOpen
    <3>2. g = h
      BY <1>1, <3>1 DEF SInv, OpenOK
    <3> QED
      BY <3>2 DEF Stream!Streams
  <2>4. Stream!TypeOK /\ Stream!NoDoubleClose
    BY <1>1 DEF SInv, Stream!NoDoubleClose
  <2> QED
    BY <2>1, <2>2, <2>3, <2>4 DEF RacesAreContained
<1> QED
  BY <1>1, LiveInvariant, PTL

\* CircuitsKeepOrder: a circuit closes after enough successes in a row, and is
\* put on probation before its timeout only by a caller another one overtook.
THEOREM CircuitsInOrder == ASSUME LiveAssumption PROVE MCSpec => CircuitsKeepOrder
<1>1. ASSUME LInv, [MCNext]_all
      PROVE  [\A m \in Models : (circuit[m].state # "CLOSED" /\ circuit'[m].state = "CLOSED") =>
                                    row'[m] >= SuccessThreshold]_llm_vars
  <2>1. [LLMNext]_llm_vars
    BY <1>1 DEF MCNext, LLM, OfStream, all
  <2> QED
    BY <1>1, <2>1, LiveAssumption, ClosingCounted
<1>2. ASSUME LInv, [MCNext]_all
      PROVE  [\A m \in Models : (circuit[m].state # "HALF_OPEN" /\ circuit'[m].state = "HALF_OPEN") =>
                  \/ circuit[m].state = "OPEN" /\ circuit[m].aged
                  \/ \E c \in Callers : call[c].op = "move" /\ call[c].m = m /\ call[c].moved]_llm_vars
  <2>1. [LLMNext]_llm_vars
    BY <1>2 DEF MCNext, LLM, OfStream, all
  <2> QED
    BY <1>2, <2>1, LiveAssumption, ProbingExplained
<1> QED
  BY <1>1, <1>2, LiveInvariant, PTL DEF MCSpec, CircuitsKeepOrder, ClosesAfterSuccesses, ProbesAfterTimeout

-----------------------------------------------------------------------------
(* The votes.                                                              *)

USE DEF Actions, Unit

-----------------------------------------------------------------------------
(* Data.                                                                   *)

\* Every agent has a weight, also one of an unknown type.
LEMMA WeightType == \A a \in Agents : Weight(a) \in Nat
<1> SUFFICES ASSUME NEW a \in Agents PROVE Weight(a) \in Nat
  OBVIOUS
<1> DEFINE type == AgentType[a]
<1>1. CASE type \in DOMAIN Weights
  <2>1. type \in {"technical", "orderbook", "sentiment", "trend", "reversion",
                  "arbitrage", "risk"}
    BY <1>1 DEF Weights
  <2>2. Weights[type] \in Nat
    BY <2>1 DEF Weights
  <2> QED BY <1>1, <2>2 DEF Weight, DefaultWeight
<1>2. CASE type \notin DOMAIN Weights
  BY <1>2 DEF Weight, DefaultWeight
<1> QED BY <1>1, <1>2

LEMMA SignalFields ==
  ASSUME NEW s \in Signal
  PROVE  /\ s.agent \in Agents /\ s.symbol \in Symbols /\ s.action \in Actions
         /\ s.confidence \in Int
         /\ s.sent \in Nat /\ s.n \in Nat /\ s.uses \in Nat
BY InputAssumption DEF Signal

\* Taking a signal into account, or numbering it, leaves it a signal and keeps
\* its agent and its time.
LEMMA UsedSignal ==
  ASSUME NEW s \in Signal
  PROVE  LET u == [s EXCEPT !.uses = @ + 1]
         IN  /\ u \in Signal
             /\ u.agent = s.agent
             /\ u.sent = s.sent
             /\ u.uses = s.uses + 1
BY DEF Signal

LEMMA NumberedSignal ==
  ASSUME NEW s \in Signal, NEW k \in Nat
  PROVE  LET u == [s EXCEPT !.n = k]
         IN  /\ u \in Signal
             /\ u.agent = s.agent
             /\ u.sent = s.sent
             /\ u.uses = s.uses
BY DEF Signal

LEMMA NewSession ==
  ASSUME NEW h \in Int, NEW t \in Int, NEW status \in Status, NEW e \in BOOLEAN
  PROVE  LET s == [enabled |-> e, heartbeat |-> h, signal |-> t, status |-> status]
         IN  s \in Session
BY DEF Session

LEMMA NoSessionFields == \A s \in Session : s # NoSession
BY DEF Session, NoSession

LEMMA SessionFields ==
  ASSUME NEW s \in Session
  PROVE  s.heartbeat \in Int /\ s.signal \in Int /\ s.enabled \in BOOLEAN
BY DEF Session

LEMMA HeartbeatSession ==
  ASSUME NEW s \in Session, NEW h \in Int, NEW st \in Status
  PROVE  /\ [s EXCEPT !.heartbeat = h, !.status = st] \in Session
         /\ [s EXCEPT !.heartbeat = h, !.status = st].heartbeat = h
         /\ [s EXCEPT !.heartbeat = h, !.status = st].enabled = s.enabled
BY DEF Session

LEMMA SignalSession ==
  ASSUME NEW s \in Session, NEW t \in Int
  PROVE  /\ [s EXCEPT !.signal = t] \in Session
         /\ [s EXCEPT !.signal = t].heartbeat = s.heartbeat
         /\ [s EXCEPT !.signal = t].enabled = s.enabled
BY DEF Session

\* The health check writes the status and, at most, takes the vote away.
LEMMA CheckedSession ==
  ASSUME NEW s \in Session, now \in Nat
  PROVE  /\ Checked(s) \in Session
         /\ Checked(s).heartbeat = s.heartbeat
         /\ Checked(s).enabled => s.enabled
         /\ Checked(s).enabled => now - s.heartbeat <= HeartbeatTimeout
<1>1. HeartbeatTimeout \in Nat /\ SignalTimeout \in Nat
  BY ConfigAssumption
<1>2. CASE now - s.heartbeat > HeartbeatTimeout
  <2>1. Checked(s) = [s EXCEPT !.status = "UNHEALTHY", !.enabled = FALSE]
    BY <1>1, <1>2, SessionFields DEF Checked
  <2>2. [s EXCEPT !.status = "UNHEALTHY", !.enabled = FALSE] \in Session
    BY DEF Session, Status
  <2>3. /\ [s EXCEPT !.status = "UNHEALTHY", !.enabled = FALSE].heartbeat = s.heartbeat
        /\ [s EXCEPT !.status = "UNHEALTHY", !.enabled = FALSE].enabled = FALSE
    BY DEF Session
  <2> QED BY <2>1, <2>2, <2>3
<1>3. CASE ~(now - s.heartbeat > HeartbeatTimeout) /\ now - s.signal > SignalTimeout
  <2>1. Checked(s) = [s EXCEPT !.status = "DEGRADED"]
    BY <1>1, <1>3, SessionFields DEF Checked
  <2>2. now - s.heartbeat <= HeartbeatTimeout
    BY <1>1, <1>3, SessionFields
  <2>3. [s EXCEPT !.status = "DEGRADED"] \in Session
    BY DEF Session, Status
  <2>4. /\ [s EXCEPT !.status = "DEGRADED"].heartbeat = s.heartbeat
        /\ [s EXCEPT !.status = "DEGRADED"].enabled = s.enabled
    BY DEF Session
  <2> QED BY <2>1, <2>2, <2>3, <2>4
<1>4. CASE ~(now - s.heartbeat > HeartbeatTimeout) /\ ~(now - s.signal > SignalTimeout)
  <2>1. Checked(s) = [s EXCEPT !.status = "HEALTHY"]
    BY <1>1, <1>4, SessionFields DEF Checked
  <2>2. now - s.heartbeat <= HeartbeatTimeout
    BY <1>1, <1>4, SessionFields
  <2>3. [s EXCEPT !.status = "HEALTHY"] \in Session
    BY DEF Session, Status
  <2>4. /\ [s EXCEPT !.status = "HEALTHY"].heartbeat = s.heartbeat
        /\ [s EXCEPT !.status = "HEALTHY"].enabled = s.enabled
    BY DEF Session
  <2> QED BY <2>1, <2>2, <2>3, <2>4
<1> QED BY <1>2, <1>3, <1>4

LEMMA InCycle ==
  ASSUME TypeOK, loop.pc # "idle"
  PROVE  loop \in Cycle
BY DEF TypeOK, Idle

-----------------------------------------------------------------------------
(* Type correctness, one lemma per group of actions.                       *)

LEMMA InitType == Init => TypeOK
<1>1. NoVotes \in [Actions -> Int]
  BY DEF NoVotes
<1>2. NoDecision \in Decision
  BY <1>1 DEF NoDecision, Decision
<1> SUFFICES ASSUME Init PROVE TypeOK
  OBVIOUS
<1>3. agents \in [Agents -> Session \cup {NoSession}]
  BY DEF Init
<1>4. spent \in [signals : Nat, beats : Nat, toggles : Nat]
  BY DEF Init
<1>5. nextStep \in Nat /\ nextCheck \in Nat
  BY ConfigAssumption DEF Init
<1> QED BY <1>2, <1>3, <1>4, <1>5 DEF Init, TypeOK

LEMMA InputType ==
  ASSUME TypeOK, NEW a \in Agents, SendSignal(a) \/ SendHeartbeat(a)
  PROVE  TypeOK'
<1>1. CASE SendSignal(a)
  <2>1. PICK sym \in Symbols, act \in Says[a], conf \in Confidences :
            pending' = pending \cup
               {[agent |-> a, symbol |-> sym, action |-> act, confidence |-> conf,
                 sent |-> now, n |-> spent.signals + 1, uses |-> 0]}
    BY <1>1 DEF SendSignal
  <2>2. act \in Actions
    BY <2>1, InputAssumption
  <2>3. pending' \subseteq Signal
    BY <2>1, <2>2 DEF TypeOK, Signal
  <2>4. spent' \in [signals : Nat, beats : Nat, toggles : Nat]
    BY <1>1 DEF SendSignal, TypeOK
  <2> QED BY <1>1, <2>3, <2>4 DEF SendSignal, TypeOK, clock
<1>2. CASE SendHeartbeat(a)
  <2>1. beats' \subseteq Heartbeat
    BY <1>2 DEF SendHeartbeat, TypeOK, Heartbeat
  <2>2. spent' \in [signals : Nat, beats : Nat, toggles : Nat]
    BY <1>2 DEF SendHeartbeat, TypeOK
  <2> QED BY <1>2, <2>1, <2>2 DEF SendHeartbeat, TypeOK, clock
<1> QED BY <1>1, <1>2

LEMMA EnvironmentType ==
  ASSUME TypeOK, Lose \/ Tick \/ TogglePause
  PROVE  TypeOK'
<1>1. CASE Lose
  BY <1>1 DEF Lose, TypeOK, clock
<1>2. CASE Tick
  BY <1>2, ConfigAssumption DEF Tick, TypeOK, netVars
<1>3. CASE TogglePause
  <2>1. spent' \in [signals : Nat, beats : Nat, toggles : Nat]
    BY <1>3 DEF TogglePause, TypeOK
  <2>2. paused' \in BOOLEAN
    BY <1>3 DEF TogglePause, TypeOK
  <2> QED BY <1>3, <2>1, <2>2 DEF TogglePause, TypeOK, clock
<1> QED BY <1>1, <1>2, <1>3

LEMMA UpdateAgentSessionType ==
  ASSUME TypeOK, NEW m \in Signal, UpdateAgentSession(m)
  PROVE  agents' \in [Agents -> Session \cup {NoSession}]
<1>1. m.agent \in Agents /\ m.sent \in Nat
  BY SignalFields
<1>2. CASE Registered(m.agent)
  <2>1. agents[m.agent] \in Session
    BY <1>1, <1>2 DEF TypeOK, Registered
  <2>2. [agents[m.agent] EXCEPT !.signal = m.sent] \in Session
    BY <1>1, <2>1 DEF Session
  <2> QED BY <1>1, <1>2, <2>2 DEF UpdateAgentSession, TypeOK
<1>3. CASE ~Registered(m.agent)
  <2>1. [enabled |-> TRUE, heartbeat |-> Never, signal |-> m.sent, status |-> "UNKNOWN"]
          \in Session
    BY <1>1, ConfigAssumption DEF Session, Status, Never
  <2> QED BY <1>1, <1>3, <2>1 DEF UpdateAgentSession, TypeOK
<1> QED BY <1>2, <1>3

LEMMA HandlerType ==
  ASSUME TypeOK, HandleSignal \/ BufferSignal \/ HandleHeartbeat \/ CheckAgentHealth
  PROVE  TypeOK'
<1>1. CASE HandleSignal
  <2>1. PICK m \in pending :
          /\ pending' = pending \ {m}
          /\ IF now - m.sent > MaxSignalAge
             THEN UNCHANGED <<agents, handling>>
             ELSE /\ AgentsUnlocked
                  /\ UpdateAgentSession(m)
                  /\ handling' = m
    BY <1>1 DEF HandleSignal
  <2>2. m \in Signal
    BY DEF TypeOK
  <2>3. agents' \in [Agents -> Session \cup {NoSession}] /\ handling' \in Signal \cup {NoSignal}
    BY <2>1, <2>2, UpdateAgentSessionType DEF TypeOK
  <2> QED BY <1>1, <2>1, <2>3 DEF HandleSignal, TypeOK, clock
<1>2. CASE BufferSignal
  <2>1. handling \in Signal
    BY <1>2 DEF BufferSignal, TypeOK
  <2>2. arrivals + 1 \in Nat
    BY DEF TypeOK
  <2>3. [handling EXCEPT !.n = arrivals + 1] \in Signal
    BY <2>1, <2>2, NumberedSignal
  <2>4. buffer' \subseteq Signal
    BY <1>2, <2>3 DEF BufferSignal, TypeOK
  <2> QED BY <1>2, <2>2, <2>4 DEF BufferSignal, TypeOK, clock, netVars
<1>3. CASE HandleHeartbeat
  <2>1. PICK b \in beats :
          /\ beats' = beats \ {b}
          /\ agents' = [agents EXCEPT ![b.agent] =
                IF Registered(b.agent)
                THEN [@ EXCEPT !.heartbeat = b.sent, !.status = AgentStatus[b.agent]]
                ELSE [enabled |-> TRUE, heartbeat |-> b.sent, signal |-> Never,
                      status |-> AgentStatus[b.agent]]]
    BY <1>3 DEF HandleHeartbeat
  <2>2. b.agent \in Agents /\ b.sent \in Nat
    BY DEF TypeOK, Heartbeat
  <2>3. agents' \in [Agents -> Session \cup {NoSession}]
    <3>1. CASE Registered(b.agent)
      <4>1. agents[b.agent] \in Session
        BY <2>2, <3>1 DEF TypeOK, Registered
      <4>2. [agents[b.agent] EXCEPT !.heartbeat = b.sent, !.status = AgentStatus[b.agent]]
              \in Session
        <5>1. b.sent \in Int /\ AgentStatus[b.agent] \in Status
          BY <2>2 DEF Status
        <5> QED BY <4>1, <5>1, HeartbeatSession, Zenon
      <4> QED BY <2>1, <2>2, <3>1, <4>2 DEF TypeOK
    <3>2. CASE ~Registered(b.agent)
      <4>1. [enabled |-> TRUE, heartbeat |-> b.sent, signal |-> Never,
             status |-> AgentStatus[b.agent]] \in Session
        BY <2>2, ConfigAssumption DEF Session, Status, Never
      <4> QED BY <2>1, <2>2, <3>2, <4>1 DEF TypeOK
    <3> QED BY <3>1, <3>2
  <2> QED BY <1>3, <2>1, <2>3 DEF HandleHeartbeat, TypeOK, clock
<1>4. CASE CheckAgentHealth
  <2>1. \A a \in Agents : Registered(a) => Checked(agents[a]) \in Session
    BY CheckedSession DEF TypeOK, Registered
  <2>2. agents' \in [Agents -> Session \cup {NoSession}]
    BY <1>4, <2>1 DEF CheckAgentHealth
  <2>3. nextCheck' \in Nat
    BY <1>4, ConfigAssumption DEF CheckAgentHealth, TypeOK
  <2> QED BY <1>4, <2>2, <2>3 DEF CheckAgentHealth, TypeOK, netVars
<1> QED BY <1>1, <1>2, <1>3, <1>4

\* What calculateDecision adds for a signal that counts.
LEMMA CountedVote ==
  ASSUME NEW c \in Cycle, NEW s \in Signal, NEW w \in Nat
  PROVE  [c EXCEPT !.todo = @ \ {s},
                   !.score[s.action] = @ + w * s.confidence, !.total = @ + w,
                   !.over = @ \/ s.confidence > Unit] \in Cycle
<1>1. s.action \in Actions /\ w * s.confidence \in Int
  BY SignalFields
<1>2. c.score \in [Actions -> Int] /\ c.total \in Nat
  BY DEF Cycle
<1>3. [c.score EXCEPT ![s.action] = @ + w * s.confidence] \in [Actions -> Int]
  BY <1>1, <1>2
<1>4. c.total + w \in Nat
  BY <1>2
<1>5. (c.over \/ s.confidence > Unit) \in BOOLEAN
  OBVIOUS
<1> QED BY <1>3, <1>4, <1>5 DEF Cycle

LEMMA CycleType ==
  ASSUME TypeOK, \/ Select
                 \/ \E sym \in Symbols : Choose(sym)
                 \/ Count \/ Decide \/ Publish \/ Clean
  PROVE  TypeOK'
<1>1. CASE Select
  <2>1. CASE paused
    BY <1>1, <2>1 DEF Select, TypeOK, netVars
  <2>2. CASE ~paused
    <3> DEFINE window == {s \in buffer : Recent(s)}
    <3>1. window \subseteq Signal /\ {s.symbol : s \in window} \subseteq Symbols
      BY SignalFields DEF TypeOK
    <3>2. NoVotes \in [Actions -> Int]
      BY DEF NoVotes
    <3>3. [pc |-> "choosing", left |-> {s.symbol : s \in window},
           window |-> window, todo |-> {},
           score |-> NoVotes, total |-> 0, action |-> "HOLD", over |-> FALSE] \in Cycle
      BY <3>1, <3>2 DEF Cycle
    <3>4. loop' \in Cycle
      BY <1>1, <2>2, <3>3 DEF Select
    <3>5. \A s \in buffer : [s EXCEPT !.uses = @ + 1] \in Signal
      BY UsedSignal DEF TypeOK
    <3>6. buffer' \subseteq Signal
      BY <1>1, <2>2, <3>5 DEF Select, TypeOK
    <3> QED BY <1>1, <2>2, <3>4, <3>6 DEF Select, TypeOK, netVars
  <2> QED BY <2>1, <2>2
<1>2. ASSUME NEW sym \in Symbols, Choose(sym)
      PROVE  TypeOK'
  <2>1. loop \in Cycle
    BY <1>2, InCycle DEF Choose
  <2>2. NoVotes \in [Actions -> Int]
    BY DEF NoVotes
  <2>3. loop' \in Cycle
    BY <1>2, <2>1, <2>2 DEF Choose, Cycle
  <2> QED BY <1>2, <2>3 DEF Choose, TypeOK, netVars, clock
<1>3. CASE Count
  <2>1. loop \in Cycle
    BY <1>3, InCycle DEF Count
  <2>2. PICK s \in loop.todo :
          loop' = IF agents[s.agent].enabled
                  THEN [loop EXCEPT !.todo = @ \ {s},
                                    !.score[s.action] = @ + Weight(s.agent) * s.confidence,
                                    !.total = @ + Weight(s.agent),
                                    !.over = @ \/ s.confidence > Unit]
                  ELSE [loop EXCEPT !.todo = @ \ {s}]
    BY <1>3 DEF Count
  <2>3. s \in Signal
    BY <2>1 DEF Cycle
  <2>4. s.agent \in Agents
    BY <2>3, SignalFields
  <2>5. Weight(s.agent) \in Nat
    BY <2>4, WeightType
  <2>6. [loop EXCEPT !.todo = @ \ {s}] \in Cycle
    BY <2>1 DEF Cycle
  <2>7. [loop EXCEPT !.todo = @ \ {s},
                     !.score[s.action] = @ + Weight(s.agent) * s.confidence,
                     !.total = @ + Weight(s.agent),
                     !.over = @ \/ s.confidence > Unit] \in Cycle
    BY <2>1, <2>3, <2>5, CountedVote
  <2>8. loop' \in Cycle
    BY <2>2, <2>6, <2>7
  <2> QED BY <1>3, <2>8 DEF Count, TypeOK, netVars, clock
<1>4. CASE Decide
  <2>1. loop \in Cycle
    BY <1>4, InCycle DEF Decide
  <2>2. PICK win \in Actions :
          loop' = [loop EXCEPT !.pc = "decided",
                     !.action = IF BelowThreshold(loop.score[win], loop.total)
                                THEN "HOLD" ELSE win]
    BY <1>4 DEF Decide, Winners
  <2>3. loop' \in Cycle
    BY <2>1, <2>2 DEF Cycle
  <2> QED BY <1>4, <2>3 DEF Decide, TypeOK, netVars, clock
<1>5. CASE Publish
  <2>1. loop \in Cycle
    BY <1>5, InCycle DEF Publish
  <2>2. loop' \in Cycle
    BY <1>5, <2>1 DEF Publish, Cycle
  <2>3. last' \in Decision
    <3>1. /\ loop.action \in Actions /\ loop.score \in [Actions -> Int]
          /\ loop.total \in Nat /\ loop.over \in BOOLEAN
      BY <2>1 DEF Cycle
    <3>2. (loop.total > 0) \in BOOLEAN
      OBVIOUS
    <3>3. [action |-> loop.action, score |-> loop.score, total |-> loop.total,
           over |-> loop.over, published |-> loop.total > 0] \in Decision
      BY <3>1, <3>2, Zenon DEF Decision
    <3> QED BY <1>5, <3>3 DEF Publish, TypeOK
  <2> QED BY <1>5, <2>2, <2>3 DEF Publish, TypeOK, netVars, clock
<1>6. CASE Clean
  BY <1>6 DEF Clean, TypeOK, netVars, clock
<1> QED BY <1>1, <1>2, <1>3, <1>4, <1>5, <1>6

LEMMA StepType == TypeOK /\ [Next]_vars => TypeOK'
<1> SUFFICES ASSUME TypeOK, [Next]_vars PROVE TypeOK'
  OBVIOUS
<1>1. CASE UNCHANGED vars
  BY <1>1 DEF vars, netVars, clock, TypeOK
<1>2. CASE Next
  BY <1>2, InputType, EnvironmentType, HandlerType, CycleType DEF Next
<1> QED BY <1>1, <1>2

\* Every reachable state is well typed: sessions, buffered signals, the
\* decision cycle and the published decisions.
THEOREM TypeCorrect == Spec => []TypeOK
BY InitType, StepType, PTL DEF Spec

-----------------------------------------------------------------------------
(* Clocks and messages.                                                    *)

ClockInv ==
    /\ now <= nextCheck /\ nextCheck <= now + HealthCheckInterval
    /\ now < nextStep
    /\ \A m \in pending : m.sent <= now /\ m.uses = 0
    /\ \A b \in beats : b.sent <= now /\ now - b.sent <= MaxDelay
    /\ handling # NoSignal => handling.sent <= now /\ handling.uses = 0

LEMMA ClockInit == Init => ClockInv
BY ConfigAssumption DEF Init, ClockInv

\* Actions that touch neither a clock nor a message.
LEMMA ClockKept ==
  ASSUME ClockInv, UNCHANGED <<now, nextStep, nextCheck, pending, beats, handling>>
  PROVE  ClockInv'
BY DEF ClockInv

LEMMA ClockStep == TypeOK /\ ClockInv /\ [Next]_vars => ClockInv'
<1> SUFFICES ASSUME TypeOK, ClockInv, [Next]_vars PROVE ClockInv'
  OBVIOUS
<1>1. ASSUME NEW a \in Agents, SendSignal(a)
      PROVE  ClockInv'
  <2>1. \A m \in pending' : m.sent <= now /\ m.uses = 0
    BY <1>1 DEF SendSignal, ClockInv, TypeOK
  <2> QED BY <1>1, <2>1 DEF SendSignal, ClockInv, clock
<1>2. ASSUME NEW a \in Agents, SendHeartbeat(a)
      PROVE  ClockInv'
  <2>1. \A b \in beats' : b.sent <= now /\ now - b.sent <= MaxDelay
    BY <1>2, BoundsAssumption DEF SendHeartbeat, ClockInv, TypeOK
  <2> QED BY <1>2, <2>1 DEF SendHeartbeat, ClockInv, clock
<1>3. CASE Lose
  BY <1>3 DEF Lose, ClockInv, clock
<1>4. CASE Tick
  <2>1. /\ now' = now + 1 /\ now < nextCheck /\ nextCheck' = nextCheck
        /\ UNCHANGED <<pending, beats, handling>>
        /\ nextStep' = IF now + 1 = nextStep THEN nextStep + StepInterval ELSE nextStep
        /\ \A m \in pending \cup beats : now - m.sent < MaxDelay
    BY <1>4 DEF Tick, netVars
  <2>2. /\ now \in Nat /\ nextCheck \in Nat /\ nextStep \in Nat
        /\ HealthCheckInterval \in Nat /\ StepInterval \in Nat \ {0} /\ MaxDelay \in Nat
    BY ConfigAssumption, BoundsAssumption DEF TypeOK
  <2>3. /\ now' <= nextCheck' /\ nextCheck' <= now' + HealthCheckInterval
        /\ now' < nextStep'
    BY <2>1, <2>2 DEF ClockInv
  <2>4. \A m \in pending' : m.sent <= now' /\ m.uses = 0
    <3>1. \A m \in pending : m.sent \in Nat
      BY SignalFields DEF TypeOK
    <3> QED BY <2>1, <2>2, <3>1 DEF ClockInv
  <2>5. \A b \in beats' : b.sent <= now' /\ now' - b.sent <= MaxDelay
    <3>1. \A b \in beats : b.sent \in Nat
      BY DEF TypeOK, Heartbeat
    <3> QED BY <2>1, <2>2, <3>1 DEF ClockInv
  <2>6. handling' # NoSignal => handling'.sent <= now' /\ handling'.uses = 0
    <3>1. handling # NoSignal => handling.sent \in Nat
      BY SignalFields DEF TypeOK
    <3> QED BY <2>1, <2>2, <3>1 DEF ClockInv
  <2> QED BY <2>3, <2>4, <2>5, <2>6 DEF ClockInv
<1>5. CASE HandleSignal
  <2>1. PICK m \in pending : pending' = pending \ {m} /\ handling' \in {handling, m}
    BY <1>5 DEF HandleSignal
  <2> QED BY <1>5, <2>1 DEF HandleSignal, ClockInv, clock
<1>6. CASE BufferSignal
  BY <1>6 DEF BufferSignal, ClockInv, clock, netVars
<1>7. CASE HandleHeartbeat
  BY <1>7 DEF HandleHeartbeat, ClockInv, clock
<1>8. CASE CheckAgentHealth
  <2>1. /\ now = nextCheck /\ nextCheck' = nextCheck + HealthCheckInterval
        /\ UNCHANGED <<now, nextStep, pending, beats, handling>>
    BY <1>8 DEF CheckAgentHealth, netVars
  <2>2. now \in Nat /\ HealthCheckInterval \in Nat
    BY ConfigAssumption DEF TypeOK
  <2> QED BY <2>1, <2>2 DEF ClockInv
<1>9. CASE TogglePause \/ Select
  BY <1>9, ClockKept DEF TogglePause, Select, clock, netVars
<1>10. CASE (\E sym \in Symbols : Choose(sym)) \/ Count \/ Decide \/ Publish \/ Clean
  BY <1>10, ClockKept DEF Choose, Count, Decide, Publish, Clean, clock, netVars
<1>11. CASE UNCHANGED vars
  BY <1>11, ClockKept DEF vars, clock, netVars
<1> QED BY <1>1, <1>2, <1>3, <1>4, <1>5, <1>6, <1>7, <1>8, <1>9, <1>10, <1>11 DEF Next

-----------------------------------------------------------------------------
(* Registration.                                                           *)

RegisteredInv ==
    /\ VotersAreRegistered
    /\ handling # NoSignal => Registered(handling.agent)

\* An agent is never forgotten.
LEMMA SessionsStay ==
  ASSUME TypeOK, [Next]_vars, NEW a \in Agents, Registered(a)
  PROVE  Registered(a)'
<1> USE DEF Registered
<1>1. agents[a] \in Session
  BY DEF TypeOK
<1>2. CASE HandleSignal
  <2>1. PICK m \in pending : UpdateAgentSession(m) \/ UNCHANGED agents
    BY <1>2 DEF HandleSignal
  <2>2. m \in Signal
    BY DEF TypeOK
  <2>3. CASE UpdateAgentSession(m)
    <3>1. CASE m.agent = a
      <4>1. agents'[a] = [agents[a] EXCEPT !.signal = m.sent]
        BY <2>3, <3>1 DEF UpdateAgentSession, TypeOK
      <4>2. agents'[a] \in Session
        BY <1>1, <2>2, <4>1, SignalFields DEF Session
      <4> QED BY <4>2, NoSessionFields
    <3>2. CASE m.agent # a
      BY <2>3, <3>2 DEF UpdateAgentSession, TypeOK
    <3> QED BY <3>1, <3>2
  <2> QED BY <2>1, <2>3
<1>3. CASE HandleHeartbeat
  <2>1. PICK b \in beats : agents' = [agents EXCEPT ![b.agent] =
                IF Registered(b.agent)
                THEN [@ EXCEPT !.heartbeat = b.sent, !.status = AgentStatus[b.agent]]
                ELSE [enabled |-> TRUE, heartbeat |-> b.sent, signal |-> Never,
                      status |-> AgentStatus[b.agent]]]
    BY <1>3 DEF HandleHeartbeat
  <2>2. b.sent \in Int /\ AgentStatus[a] \in Status
    BY DEF TypeOK, Heartbeat, Status
  <2>3. CASE b.agent = a
    <3>1. agents'[a] = [agents[a] EXCEPT !.heartbeat = b.sent, !.status = AgentStatus[a]]
      BY <2>1, <2>3 DEF TypeOK
    <3>2. [agents[a] EXCEPT !.heartbeat = b.sent, !.status = AgentStatus[a]] \in Session
      BY <1>1, <2>2, HeartbeatSession, Zenon
    <3> QED BY <3>1, <3>2, NoSessionFields
  <2>4. CASE b.agent # a
    BY <2>1, <2>4 DEF TypeOK
  <2> QED BY <2>3, <2>4
<1>4. CASE CheckAgentHealth
  <2>1. agents'[a] = Checked(agents[a])
    BY <1>4 DEF CheckAgentHealth
  <2>2. Checked(agents[a]) \in Session
    BY <1>1, CheckedSession DEF TypeOK
  <2> QED BY <2>1, <2>2, NoSessionFields
<1>5. CASE UNCHANGED agents
  BY <1>5
<1>6. HandleSignal \/ HandleHeartbeat \/ CheckAgentHealth \/ UNCHANGED agents
  BY DEF Next, vars, SendSignal, SendHeartbeat, Lose, Tick, TogglePause, BufferSignal,
         Select, Choose, Count, Decide, Publish, Clean
<1> QED BY <1>2, <1>3, <1>4, <1>5, <1>6

LEMMA RegisteredStep == TypeOK /\ RegisteredInv /\ [Next]_vars => RegisteredInv'
<1> SUFFICES ASSUME TypeOK, RegisteredInv, [Next]_vars PROVE RegisteredInv'
  OBVIOUS
<1>1. \A a \in Agents : Registered(a) => Registered(a)'
  BY SessionsStay
<1>2. \A s \in buffer : s.agent \in Agents
  BY SignalFields DEF TypeOK
<1>3. handling # NoSignal => handling \in Signal /\ handling.agent \in Agents
  BY SignalFields DEF TypeOK
<1>4. CASE HandleSignal
  <2>1. PICK m \in pending :
          IF now - m.sent > MaxSignalAge
          THEN UNCHANGED <<agents, handling>>
          ELSE UpdateAgentSession(m) /\ handling' = m
    BY <1>4 DEF HandleSignal
  <2>2. CASE UNCHANGED handling
    BY <1>1, <1>2, <1>3, <1>4, <2>2 DEF HandleSignal, RegisteredInv, VotersAreRegistered
  <2>3. CASE UpdateAgentSession(m) /\ handling' = m
    <3>1. m.agent \in Agents /\ m.sent \in Nat
      BY SignalFields DEF TypeOK
    <3>2. CASE Registered(m.agent)
      BY <1>1, <1>2, <1>4, <2>3, <3>1, <3>2 DEF HandleSignal, RegisteredInv, VotersAreRegistered
    <3>3. CASE ~Registered(m.agent)
      <4>1. agents'[m.agent] = [enabled |-> TRUE, heartbeat |-> Never, signal |-> m.sent,
                                status |-> "UNKNOWN"]
        BY <2>3, <3>1, <3>3 DEF UpdateAgentSession, TypeOK
      <4>2. agents'[m.agent].enabled
        BY <4>1
      <4>3. Registered(m.agent)'
        BY <4>2 DEF Registered, NoSession
      <4> QED BY <1>1, <1>2, <1>4, <2>3, <4>3 DEF HandleSignal, RegisteredInv, VotersAreRegistered
    <3> QED BY <3>2, <3>3
  <2> QED BY <2>1, <2>2, <2>3
<1>5. CASE BufferSignal
  <2>1. [handling EXCEPT !.n = arrivals + 1].agent = handling.agent
    BY <1>3, <1>5, NumberedSignal DEF BufferSignal, TypeOK
  <2>2. \A s \in buffer' : s \in buffer \/ s.agent = handling.agent
    BY <1>5, <2>1 DEF BufferSignal
  <2>3. agents' = agents /\ handling' = NoSignal
    BY <1>5 DEF BufferSignal
  <2>4. \A s \in buffer' : Registered(s.agent)
    BY <1>5, <2>2 DEF BufferSignal, RegisteredInv, VotersAreRegistered
  <2> QED BY <2>3, <2>4 DEF RegisteredInv, VotersAreRegistered, Registered
<1>6. CASE Select
  <2>1. \A s \in buffer : [s EXCEPT !.uses = @ + 1].agent = s.agent
    BY UsedSignal DEF TypeOK
  <2>2. \A s \in buffer' : \E u \in buffer : s.agent = u.agent
    <3>1. CASE paused
      BY <1>6, <3>1 DEF Select
    <3>2. CASE ~paused
      <4>1. buffer' = {IF Recent(s) THEN [s EXCEPT !.uses = @ + 1] ELSE s : s \in buffer}
        BY <1>6, <3>2 DEF Select
      <4> QED BY <2>1, <4>1
    <3> QED BY <3>1, <3>2
  <2> QED BY <1>1, <1>2, <1>3, <1>6, <2>2 DEF Select, RegisteredInv, VotersAreRegistered
<1>7. CASE buffer' \subseteq buffer /\ UNCHANGED handling
  BY <1>1, <1>2, <1>3, <1>7 DEF RegisteredInv, VotersAreRegistered
<1>8. \/ HandleSignal \/ BufferSignal \/ Select
      \/ buffer' \subseteq buffer /\ UNCHANGED handling
  BY DEF Next, vars, SendSignal, SendHeartbeat, Lose, Tick, TogglePause, HandleHeartbeat,
         CheckAgentHealth, Choose, Count, Decide, Publish, Clean
<1> QED BY <1>4, <1>5, <1>6, <1>7, <1>8

\* A signal in the buffer always has the session of its agent, although the
\* two are stored under different mutexes.
THEOREM BufferedAgentsKnown == Spec => []VotersAreRegistered
<1>1. Init => RegisteredInv
  BY DEF Init, RegisteredInv, VotersAreRegistered
<1>2. RegisteredInv => VotersAreRegistered
  BY DEF RegisteredInv
<1> QED BY <1>1, <1>2, RegisteredStep, TypeCorrect, PTL DEF Spec

-----------------------------------------------------------------------------
(* Silent agents.                                                          *)

\* A heartbeat is never older than the timeout when it arrives (5 minutes in
\* the code).
Prompt == MaxDelay <= HeartbeatTimeout

\* After a check an enabled agent has a heartbeat within the timeout, so until
\* the next check it is at most one interval older.
Lively(s) ==
    s.enabled /\ s.heartbeat # Never =>
        nextCheck - s.heartbeat <= HeartbeatTimeout + HealthCheckInterval

LivelyInv == \A a \in Agents : Registered(a) => Lively(agents[a])

LEMMA LivelyKept ==
  ASSUME LivelyInv, UNCHANGED <<agents, nextCheck>>
  PROVE  LivelyInv'
BY DEF LivelyInv, Lively, Registered

LEMMA LivelyStep ==
  ASSUME Prompt
  PROVE  TypeOK /\ ClockInv /\ LivelyInv /\ [Next]_vars => LivelyInv'
<1> SUFFICES ASSUME TypeOK, ClockInv, LivelyInv, [Next]_vars PROVE LivelyInv'
  OBVIOUS
<1>1. /\ now \in Nat /\ nextCheck \in Nat /\ HeartbeatTimeout \in Nat
      /\ HealthCheckInterval \in Nat /\ MaxDelay \in Nat
  BY ConfigAssumption, BoundsAssumption DEF TypeOK
<1>2. CASE HandleSignal
  <2>1. PICK m \in pending : UpdateAgentSession(m) \/ UNCHANGED agents
    BY <1>2 DEF HandleSignal
  <2>2. nextCheck' = nextCheck
    BY <1>2 DEF HandleSignal, clock
  <2>3. CASE UNCHANGED agents
    BY <2>2, <2>3, LivelyKept
  <2>4. CASE UpdateAgentSession(m)
    <3>1. m \in Signal /\ m.agent \in Agents /\ m.sent \in Int
      BY SignalFields DEF TypeOK
    <3>2. \A a \in Agents \ {m.agent} : agents'[a] = agents[a]
      BY <2>4, <3>1 DEF UpdateAgentSession, TypeOK
    <3>3. CASE Registered(m.agent)
      <4>1. agents'[m.agent] = [agents[m.agent] EXCEPT !.signal = m.sent]
        BY <2>4, <3>1, <3>3 DEF UpdateAgentSession, TypeOK
      <4>2. agents[m.agent] \in Session
        BY <3>1, <3>3 DEF Registered, TypeOK
      <4>3. /\ agents'[m.agent].enabled = agents[m.agent].enabled
            /\ agents'[m.agent].heartbeat = agents[m.agent].heartbeat
        BY <3>1, <4>1, <4>2 DEF Session
      <4> QED BY <2>2, <3>1, <3>2, <3>3, <4>3 DEF LivelyInv, Lively, Registered
    <3>4. CASE ~Registered(m.agent)
      <4>1. agents'[m.agent] = [enabled |-> TRUE, heartbeat |-> Never, signal |-> m.sent,
                                status |-> "UNKNOWN"]
        BY <2>4, <3>1, <3>4 DEF UpdateAgentSession, TypeOK
      <4>2. agents'[m.agent].heartbeat = Never
        BY <4>1
      <4> QED BY <2>2, <3>1, <3>2, <4>2 DEF LivelyInv, Lively, Registered
    <3> QED BY <3>3, <3>4
  <2> QED BY <2>1, <2>3, <2>4
<1>3. CASE HandleHeartbeat
  <2>1. PICK b \in beats : agents' = [agents EXCEPT ![b.agent] =
                IF Registered(b.agent)
                THEN [@ EXCEPT !.heartbeat = b.sent, !.status = AgentStatus[b.agent]]
                ELSE [enabled |-> TRUE, heartbeat |-> b.sent, signal |-> Never,
                      status |-> AgentStatus[b.agent]]]
    BY <1>3 DEF HandleHeartbeat
  <2>2. b.agent \in Agents /\ b.sent \in Int /\ AgentStatus[b.agent] \in Status
    BY DEF TypeOK, Heartbeat, Status
  <2>3. nextCheck' = nextCheck
    BY <1>3 DEF HandleHeartbeat, clock
  <2>4. \A a \in Agents \ {b.agent} : agents'[a] = agents[a]
    BY <2>1, <2>2 DEF TypeOK
  <2>5. agents'[b.agent].heartbeat = b.sent
    <3>1. CASE Registered(b.agent)
      <4>1. agents'[b.agent] =
              [agents[b.agent] EXCEPT !.heartbeat = b.sent, !.status = AgentStatus[b.agent]]
        BY <2>1, <2>2, <3>1 DEF TypeOK
      <4>2. agents[b.agent] \in Session
        BY <2>2, <3>1 DEF TypeOK, Registered
      <4>3. [agents[b.agent] EXCEPT !.heartbeat = b.sent,
                                    !.status = AgentStatus[b.agent]].heartbeat = b.sent
        BY <2>2, <4>2, HeartbeatSession, Zenon
      <4> QED BY <4>1, <4>3
    <3>2. CASE ~Registered(b.agent)
      BY <2>1, <2>2, <3>2 DEF TypeOK
    <3> QED BY <3>1, <3>2
  <2>6. nextCheck - b.sent <= HeartbeatTimeout + HealthCheckInterval
    BY <1>1, <2>2, Prompt DEF ClockInv, Prompt
  <2>7. Lively(agents[b.agent])'
    BY <2>3, <2>5, <2>6 DEF Lively
  <2> QED BY <2>3, <2>4, <2>7 DEF LivelyInv, Lively, Registered
<1>4. CASE CheckAgentHealth
  <2>1. now = nextCheck /\ nextCheck' = nextCheck + HealthCheckInterval
    BY <1>4 DEF CheckAgentHealth
  <2>2. ASSUME NEW a \in Agents, Registered(a)'
        PROVE  Lively(agents[a])'
    <3>1. Registered(a) /\ agents'[a] = Checked(agents[a])
      BY <1>4, <2>2 DEF CheckAgentHealth, Registered
    <3>2. agents[a] \in Session
      BY <3>1 DEF TypeOK, Registered
    <3>3. /\ Checked(agents[a]).heartbeat = agents[a].heartbeat
          /\ Checked(agents[a]).enabled => now - agents[a].heartbeat <= HeartbeatTimeout
      BY <3>2, CheckedSession DEF TypeOK
    <3>4. agents[a].heartbeat \in Int
      BY <3>2, SessionFields
    <3> QED BY <1>1, <2>1, <3>1, <3>3, <3>4 DEF Lively
  <2> QED BY <2>2 DEF LivelyInv
<1>5. CASE UNCHANGED <<agents, nextCheck>>
  BY <1>5, LivelyKept
<1>6. \/ HandleSignal \/ HandleHeartbeat \/ CheckAgentHealth
      \/ UNCHANGED <<agents, nextCheck>>
  BY DEF Next, vars, clock, netVars, SendSignal, SendHeartbeat, Lose, Tick, TogglePause,
         BufferSignal, Select, Choose, Count, Decide, Publish, Clean
<1> QED BY <1>2, <1>3, <1>4, <1>5, <1>6

\* An agent whose heartbeats stop loses its vote at the first health check
\* after the timeout, whatever the intervals of the checks.
THEOREM SilentAgentsLoseTheirVote ==
  ASSUME Prompt
  PROVE  Spec => []SilentAgentsAreDisabled
<1>1. Init => LivelyInv
  BY DEF Init, LivelyInv, Registered
<1>2. TypeOK /\ ClockInv /\ LivelyInv => SilentAgentsAreDisabled
  <2> SUFFICES ASSUME TypeOK, ClockInv, LivelyInv,
                      NEW a \in Agents, Registered(a), agents[a].enabled,
                      agents[a].heartbeat # Never
               PROVE  now - agents[a].heartbeat <= HeartbeatTimeout + HealthCheckInterval
    BY DEF SilentAgentsAreDisabled
  <2>1. agents[a] \in Session
    BY DEF TypeOK, Registered
  <2>2. nextCheck - agents[a].heartbeat <= HeartbeatTimeout + HealthCheckInterval
    BY DEF LivelyInv, Lively
  <2>3. agents[a].heartbeat \in Int
    BY <2>1, SessionFields
  <2> QED BY <2>2, <2>3, ConfigAssumption DEF ClockInv, TypeOK
<1>3. TypeOK /\ ClockInv /\ LivelyInv /\ [Next]_vars => LivelyInv'
  BY LivelyStep
<1> QED BY <1>1, <1>2, <1>3, ClockInit, ClockStep, TypeCorrect, PTL DEF Spec

-----------------------------------------------------------------------------
(* How often a signal counts.                                              *)

One(b) == IF b THEN 1 ELSE 0

\* A signal has counted so often, may count once for a tick that waits, and
\* once for the next tick: the ticks after that are more than a step away.
Budget(sent, uses) ==
    uses + One(due /\ now <= sent + StepInterval) + One(nextStep <= sent + StepInterval)

UsesInv == \A s \in buffer : s.sent <= now /\ Budget(s.sent, s.uses) <= 2

LEMMA UsesStep == TypeOK /\ ClockInv /\ UsesInv /\ [Next]_vars => UsesInv'
<1> SUFFICES ASSUME TypeOK, ClockInv, UsesInv, [Next]_vars PROVE UsesInv'
  OBVIOUS
<1>1. /\ now \in Nat /\ nextStep \in Nat /\ StepInterval \in Nat \ {0} /\ due \in BOOLEAN
      /\ now < nextStep
  BY ConfigAssumption DEF TypeOK, ClockInv
<1>2. \A s \in buffer : s \in Signal /\ s.sent \in Nat /\ s.uses \in Nat
  BY SignalFields DEF TypeOK
<1>3. CASE Tick
  <2>1. /\ now' = now + 1 /\ due' = (due \/ now + 1 = nextStep) /\ buffer' = buffer
        /\ nextStep' = IF now + 1 = nextStep THEN nextStep + StepInterval ELSE nextStep
    BY <1>3 DEF Tick
  <2>2. ASSUME NEW s \in buffer
        PROVE  s.sent <= now' /\ Budget(s.sent, s.uses)' <= 2
    <3>1. s.sent <= now /\ Budget(s.sent, s.uses) <= 2
      BY DEF UsesInv
    <3>2. CASE now + 1 = nextStep
      BY <1>1, <1>2, <2>1, <3>1, <3>2 DEF Budget, One
    <3>3. CASE now + 1 # nextStep
      BY <1>1, <1>2, <2>1, <3>1, <3>3 DEF Budget, One
    <3> QED BY <3>2, <3>3
  <2> QED BY <2>1, <2>2 DEF UsesInv
<1>4. CASE Select
  <2>1. /\ due = TRUE /\ due' = FALSE /\ now' = now /\ nextStep' = nextStep
    BY <1>1, <1>4 DEF Select
  <2>2. ASSUME NEW s \in buffer
        PROVE  /\ s.sent <= now'
               /\ Budget(s.sent, s.uses)' <= 2
               /\ Recent(s) => Budget(s.sent, s.uses + 1)' <= 2
    <3>1. s.sent <= now /\ Budget(s.sent, s.uses) <= 2
      BY DEF UsesInv
    <3> QED BY <1>1, <1>2, <2>1, <3>1 DEF Budget, One, Recent
  <2>3. CASE paused
    BY <1>4, <2>2, <2>3 DEF Select, UsesInv
  <2>4. CASE ~paused
    <3>1. buffer' = {IF Recent(s) THEN [s EXCEPT !.uses = @ + 1] ELSE s : s \in buffer}
      BY <1>4, <2>4 DEF Select
    <3>2. \A s \in buffer : /\ [s EXCEPT !.uses = @ + 1].sent = s.sent
                            /\ [s EXCEPT !.uses = @ + 1].uses = s.uses + 1
      BY <1>2, UsedSignal
    <3>3. ASSUME NEW u \in buffer'
          PROVE  u.sent <= now' /\ Budget(u.sent, u.uses)' <= 2
      <4>1. PICK s \in buffer : u = IF Recent(s) THEN [s EXCEPT !.uses = @ + 1] ELSE s
        BY <3>1
      <4>2. CASE Recent(s)
        <5>1. u.sent = s.sent /\ u.uses = s.uses + 1
          BY <3>2, <4>1, <4>2
        <5> QED BY <2>2, <4>2, <5>1 DEF Budget
      <4>3. CASE ~Recent(s)
        BY <2>2, <4>1, <4>3
      <4> QED BY <4>2, <4>3
    <3> QED BY <3>3 DEF UsesInv
  <2> QED BY <2>3, <2>4
<1>5. CASE BufferSignal
  <2>1. UNCHANGED <<now, due, nextStep>>
    BY <1>5 DEF BufferSignal, clock
  <2>2. handling \in Signal /\ handling # NoSignal /\ arrivals + 1 \in Nat
    BY <1>5 DEF BufferSignal, TypeOK
  <2>3. /\ [handling EXCEPT !.n = arrivals + 1].sent = handling.sent
        /\ [handling EXCEPT !.n = arrivals + 1].uses = handling.uses
    BY <2>2, NumberedSignal
  <2>4. handling.sent <= now /\ handling.uses = 0 /\ handling.sent \in Nat
    BY <2>2, SignalFields DEF ClockInv
  <2>5. Budget(handling.sent, handling.uses) <= 2
    BY <1>1, <2>4 DEF Budget, One
  <2>6. \A s \in buffer' : s \in buffer \/ s = [handling EXCEPT !.n = arrivals + 1]
    BY <1>5 DEF BufferSignal
  <2>7. \A s \in buffer' : s.sent <= now /\ Budget(s.sent, s.uses) <= 2
    BY <2>3, <2>4, <2>5, <2>6 DEF UsesInv
  <2> QED BY <2>1, <2>7 DEF UsesInv, Budget
<1>6. CASE buffer' \subseteq buffer /\ UNCHANGED <<now, due, nextStep>>
  BY <1>6 DEF UsesInv, Budget
<1>7. \/ Tick \/ Select \/ BufferSignal
      \/ buffer' \subseteq buffer /\ UNCHANGED <<now, due, nextStep>>
  BY DEF Next, vars, clock, SendSignal, SendHeartbeat, Lose, TogglePause, HandleSignal,
         HandleHeartbeat, CheckAgentHealth, Choose, Count, Decide, Publish, Clean
<1> QED BY <1>3, <1>4, <1>5, <1>6, <1>7

\* No signal counts in more than two decision cycles, however late the cycles
\* run: the window is one step and the ticker keeps one tick.
THEOREM SignalsCountAtMostTwice == Spec => []CountedAtMostTwice
<1>1. Init => UsesInv
  BY DEF Init, UsesInv
<1>2. TypeOK /\ UsesInv => CountedAtMostTwice
  <2> SUFFICES ASSUME TypeOK, UsesInv, NEW s \in buffer PROVE s.uses <= 2
    BY DEF CountedAtMostTwice
  <2>1. s.uses \in Nat
    BY SignalFields DEF TypeOK
  <2>2. Budget(s.sent, s.uses) <= 2
    BY DEF UsesInv
  <2> QED BY <2>1, <2>2 DEF Budget, One
<1> QED BY <1>1, <1>2, UsesStep, ClockInit, ClockStep, TypeCorrect, PTL DEF Spec

-----------------------------------------------------------------------------
(* The vote.                                                               *)

\* More than half of the weight must agree.
Majority == 2 * MinConsensus > Unit

\* What speaks for an action, and for all of them.
For(c, action) == IF c.score[action] > 0 THEN c.score[action] ELSE 0
Scores(c) == For(c, "BUY") + For(c, "SELL") + For(c, "HOLD")
Strict(action, score) ==
    action # "HOLD" => \A b \in Actions \ {action} : score[b] < score[action]

\* While no confidence that counted is above 1, the scores do not exceed the weight
\* behind them: two actions cannot both have more than half of it.
VoteInv ==
    /\ loop.pc = "counting" => loop.over \/ Scores(loop) <= Unit * loop.total
    /\ loop.pc = "decided" => loop.over \/ Strict(loop.action, loop.score)
    /\ last.over \/ Strict(last.action, last.score)

LEMMA VoteKept ==
  ASSUME VoteInv, loop' = loop \/ loop'.pc \notin {"counting", "decided"}, UNCHANGED last
  PROVE  VoteInv'
BY DEF VoteInv, Scores, For, Strict

LEMMA Bounded ==
  ASSUME NEW w \in Nat, NEW k \in Int, k <= Unit
  PROVE  w * k \in Int /\ w * k <= Unit * w
<1>1. k \in Int /\ k <= 100
  OBVIOUS
<1>2. w * k <= w * 100
  BY <1>1, SMTT(30)
<1> QED BY <1>1, <1>2

LEMMA MoreThanHalf ==
  ASSUME NEW m \in Nat, NEW t \in Nat, 2 * m > Unit, t > 0
  PROVE  m * t \in Nat /\ 2 * (m * t) > Unit * t
<1>1. PICK d \in Nat : 2 * m = 101 + d
  <2>1. 2 * m - 101 \in Nat
    OBVIOUS
  <2> QED BY <2>1
<1>2. m * t \in Nat
  OBVIOUS
<1>3. (2 * m) * t = 101 * t + d * t
  BY <1>1
<1>4. d * t >= 0
  BY <1>1
<1>5. (2 * m) * t = 2 * (m * t)
  OBVIOUS
<1> QED BY <1>2, <1>3, <1>4, <1>5

LEMMA CountKeeps ==
  ASSUME NEW c \in Cycle, NEW s \in Signal, NEW w \in Nat, c.over \/ Scores(c) <= Unit * c.total
  PROVE  LET d == [c EXCEPT !.todo = @ \ {s},
                            !.score[s.action] = @ + w * s.confidence, !.total = @ + w,
                            !.over = @ \/ s.confidence > Unit]
         IN  d.pc = c.pc /\ (d.over \/ Scores(d) <= Unit * d.total)
<1> DEFINE k == w * s.confidence
           o == c.over \/ s.confidence > Unit
           d == [c EXCEPT !.todo = @ \ {s},
                          !.score[s.action] = @ + k, !.total = @ + w, !.over = o]
<1>1. s.action \in Actions /\ s.confidence \in Int
  BY SignalFields
<1>2. k \in Int
  BY <1>1
<1>3. c.score \in [Actions -> Int] /\ c.total \in Nat
  BY DEF Cycle
<1>4. o \/ (k <= Unit * w /\ Scores(c) <= Unit * c.total)
  BY <1>1, Bounded
<1> HIDE DEF k, o
<1>5. /\ d.pc = c.pc /\ d.total = c.total + w /\ d.score = [c.score EXCEPT ![s.action] = @ + k]
      /\ d.over = o
  BY DEF Cycle
<1> HIDE DEF d
<1>6. ASSUME k <= Unit * w PROVE Scores(d) <= Scores(c) + Unit * w
  <2>1. CASE s.action = "BUY"
    BY <1>2, <1>3, <1>5, <1>6, <2>1 DEF Scores, For
  <2>2. CASE s.action = "SELL"
    BY <1>2, <1>3, <1>5, <1>6, <2>2 DEF Scores, For
  <2>3. CASE s.action = "HOLD"
    BY <1>2, <1>3, <1>5, <1>6, <2>3 DEF Scores, For
  <2> QED BY <1>1, <2>1, <2>2, <2>3
<1>7. Scores(c) \in Int /\ Scores(d) \in Int
  <2>1. d.score \in [Actions -> Int]
    BY <1>1, <1>2, <1>3, <1>5
  <2> QED BY <1>3, <2>1 DEF Scores, For
<1>8. o \/ Scores(d) <= Unit * d.total
  BY <1>3, <1>4, <1>5, <1>6, <1>7
<1> QED BY <1>5, <1>8 DEF k, o, d

\* calculateDecision without the map: the winner's score is more than half of
\* the whole.
LEMMA DecideIsStrict ==
  ASSUME Majority, TypeOK, VoteInv, Decide
  PROVE  loop'.pc = "decided" /\ (loop'.over \/ Strict(loop'.action, loop'.score))
<1>1. loop \in Cycle /\ loop.pc = "counting"
  BY InCycle DEF Decide
<1>2. loop.score \in [Actions -> Int] /\ loop.total \in Nat
  BY <1>1 DEF Cycle
<1>3. PICK win \in IF Winners(loop.score) = {} THEN {"HOLD"} ELSE Winners(loop.score) :
          loop' = [loop EXCEPT !.pc = "decided",
                     !.action = IF BelowThreshold(loop.score[win], loop.total)
                                THEN "HOLD" ELSE win]
  BY DEF Decide
<1>4. /\ loop'.pc = "decided" /\ loop'.score = loop.score /\ loop'.over = loop.over
      /\ loop'.action = IF BelowThreshold(loop.score[win], loop.total) THEN "HOLD" ELSE win
  BY <1>1, <1>3 DEF Cycle
<1>5. CASE loop'.action = "HOLD"
  BY <1>4, <1>5 DEF Strict
<1>6. CASE loop'.action # "HOLD" /\ ~ loop.over
  <2>1. win \in Actions /\ loop'.action = win /\ ~BelowThreshold(loop.score[win], loop.total)
    BY <1>3, <1>4, <1>6 DEF Winners
  <2>2. loop.total > 0 /\ loop.score[win] \in Int
    BY <1>2, <2>1 DEF BelowThreshold
  <2>3. MinConsensus \in Nat
    BY ConfigAssumption
  <2>4. MinConsensus * loop.total \in Nat /\ 2 * (MinConsensus * loop.total) > Unit * loop.total
    BY <1>2, <2>2, <2>3, MoreThanHalf, Majority DEF Majority
  <2>5. loop.score[win] >= MinConsensus * loop.total
    BY <1>2, <2>1, <2>2, <2>4 DEF BelowThreshold
  <2>6. 2 * loop.score[win] > Unit * loop.total
    <3> DEFINE q == MinConsensus * loop.total
    <3>1. q \in Nat /\ 2 * q > Unit * loop.total /\ loop.score[win] >= q
      BY <2>4, <2>5
    <3> HIDE DEF q
    <3> QED BY <1>2, <2>2, <3>1
  <2>7. Scores(loop) <= Unit * loop.total
    BY <1>1, <1>6 DEF VoteInv
  <2>8. ASSUME NEW b \in Actions \ {win}
        PROVE  loop.score[b] < loop.score[win]
    <3>1. loop.score[b] + loop.score[win] <= Scores(loop)
      BY <1>2, <2>1 DEF Scores, For
    <3>2. loop.score[b] \in Int /\ Scores(loop) \in Int
      BY <1>2 DEF Scores, For
    <3> QED BY <1>2, <2>2, <2>6, <2>7, <3>1, <3>2
  <2> QED BY <1>4, <2>1, <2>8 DEF Strict
<1>7. CASE loop.over
  BY <1>4, <1>7
<1> QED BY <1>4, <1>5, <1>6, <1>7

LEMMA VoteStep ==
  ASSUME Majority
  PROVE  TypeOK /\ VoteInv /\ [Next]_vars => VoteInv'
<1> SUFFICES ASSUME TypeOK, VoteInv, [Next]_vars PROVE VoteInv'
  OBVIOUS
<1>1. ASSUME NEW sym \in Symbols, Choose(sym)
      PROVE  VoteInv'
  <2>1. loop \in Cycle
    BY <1>1, InCycle DEF Choose
  <2>2. loop'.pc = "counting" /\ loop'.score = NoVotes /\ loop'.total = 0 /\ last' = last
    BY <1>1, <2>1 DEF Choose, Cycle
  <2>3. Scores(loop') <= Unit * loop'.total
    BY <2>2 DEF Scores, For, NoVotes
  <2> QED BY <2>2, <2>3 DEF VoteInv, Strict
<1>2. CASE Count
  <2>1. loop \in Cycle /\ loop.pc = "counting" /\ (loop.over \/ Scores(loop) <= Unit * loop.total)
    BY <1>2, InCycle DEF Count, VoteInv
  <2>2. PICK s \in loop.todo :
          loop' = IF agents[s.agent].enabled
                  THEN [loop EXCEPT !.todo = @ \ {s},
                                    !.score[s.action] = @ + Weight(s.agent) * s.confidence,
                                    !.total = @ + Weight(s.agent),
                                    !.over = @ \/ s.confidence > Unit]
                  ELSE [loop EXCEPT !.todo = @ \ {s}]
    BY <1>2 DEF Count
  <2>3. s \in Signal
    BY <2>1 DEF Cycle
  <2>4. Weight(s.agent) \in Nat
    BY <2>3, SignalFields, WeightType
  <2>5. CASE agents[s.agent].enabled
    <3>1. loop' = [loop EXCEPT !.todo = @ \ {s},
                                    !.score[s.action] = @ + Weight(s.agent) * s.confidence,
                                    !.total = @ + Weight(s.agent),
                                    !.over = @ \/ s.confidence > Unit]
      BY <2>2, <2>5
    <3>2. loop'.pc = "counting" /\ (loop'.over \/ Scores(loop') <= Unit * loop'.total)
      BY <2>1, <2>3, <2>4, <3>1, CountKeeps
    <3> QED BY <1>2, <3>2 DEF Count, VoteInv, Scores, For, Strict
  <2>6. CASE ~agents[s.agent].enabled
    <3>1. loop' = [loop EXCEPT !.todo = @ \ {s}]
      BY <2>2, <2>6
    <3>2. /\ loop'.pc = "counting" /\ loop'.score = loop.score /\ loop'.total = loop.total
          /\ loop'.over = loop.over
      BY <2>1, <3>1 DEF Cycle
    <3> QED BY <1>2, <2>1, <3>2 DEF Count, VoteInv, Scores, For, Strict
  <2> QED BY <2>5, <2>6
<1>3. CASE Decide
  <2>1. loop'.pc = "decided" /\ (loop'.over \/ Strict(loop'.action, loop'.score))
    BY <1>3, DecideIsStrict
  <2>2. last' = last
    BY <1>3 DEF Decide
  <2> QED BY <2>1, <2>2 DEF VoteInv, Strict
<1>4. CASE Publish
  <2>1. loop \in Cycle /\ loop.pc = "decided"
    BY <1>4, InCycle DEF Publish
  <2>2. CASE paused
    <3>1. loop'.pc = "cleaning" /\ last' = last
      BY <1>4, <2>1, <2>2 DEF Publish, Cycle
    <3> QED BY <3>1, VoteKept
  <2>3. CASE ~paused
    <3>1. loop'.pc = "choosing"
      BY <1>4, <2>1, <2>3 DEF Publish, Cycle
    <3>2. last'.action = loop.action /\ last'.score = loop.score /\ last'.over = loop.over
      BY <1>4, <2>3 DEF Publish
    <3> QED BY <2>1, <3>1, <3>2 DEF VoteInv, Strict
  <2> QED BY <2>2, <2>3
<1>5. CASE Select
  <2>1. CASE paused
    BY <1>5, <2>1, VoteKept DEF Select
  <2>2. CASE ~paused
    <3>1. loop'.pc = "choosing" /\ last' = last
      BY <1>5, <2>2 DEF Select
    <3> QED BY <3>1, VoteKept
  <2> QED BY <2>1, <2>2
<1>6. CASE Clean
  BY <1>6, VoteKept DEF Clean, Idle
<1>7. CASE UNCHANGED <<loop, last>>
  BY <1>7, VoteKept
<1>8. \/ \E sym \in Symbols : Choose(sym)
      \/ Count \/ Decide \/ Publish \/ Select \/ Clean
      \/ UNCHANGED <<loop, last>>
  BY DEF Next, vars, SendSignal, SendHeartbeat, Lose, Tick, TogglePause, HandleSignal,
         BufferSignal, HandleHeartbeat, CheckAgentHealth
<1> QED BY <1>1, <1>2, <1>3, <1>4, <1>5, <1>6, <1>7, <1>8

\* With a threshold above one half no decision to trade depends on the order in
\* which Go visits the map of scores, whatever numbers the agents claim as their
\* confidence, unless one that counted is above 1 (handleSignal checks none).
THEOREM NoTradeDependsOnMapOrder ==
  ASSUME Majority
  PROVE  Spec => []TradesAreDetermined
<1>1. Init => VoteInv
  BY DEF Init, VoteInv, Idle, NoDecision, Strict
<1>2. VoteInv => TradesAreDetermined
  BY DEF VoteInv, TradesAreDetermined, Strict
<1>3. TypeOK /\ VoteInv /\ [Next]_vars => VoteInv'
  BY VoteStep
<1> QED BY <1>1, <1>2, <1>3, TypeCorrect, PTL DEF Spec

-----------------------------------------------------------------------------
(* The size of the buffer.                                                 *)

BufferInv == IsFiniteSet(buffer) /\ BufferBounded

\* A set of signals that is not empty has an oldest one.
LEMMA OldestSignal ==
  ASSUME NEW S, S \subseteq Signal, S # {}
  PROVE  \E s \in S : \A t \in S : ~ (t.n < s.n)
<1> DEFINE N == {s.n : s \in S}
<1>1. N \subseteq Nat /\ N # {}
  BY SignalFields
<1>2. IsWellFoundedOn(OpToRel(<, Nat), Nat)
  BY NatLessThanWellFounded
<1>3. PICK m \in N : \A k \in N : ~ (<<k, m>> \in OpToRel(<, Nat))
  BY <1>1, <1>2, WFMin
<1>4. \A k \in N : ~ (k < m)
  BY <1>1, <1>3 DEF OpToRel
<1> QED BY <1>4

\* Eviction makes room: the oldest signal of a full buffer is among those that go.
LEMMA EvictionMakesRoom ==
  ASSUME TypeOK, BufferInv
  PROVE  /\ IsFiniteSet(buffer \ Evicted)
         /\ Cardinality(buffer \ Evicted) < MaxSignalBufferSize
<1>1. /\ MaxSignalBufferSize \in Nat /\ MaxSignalBufferSize >= 2
      /\ IsFiniteSet(buffer) /\ Cardinality(buffer) \in Nat /\ Cardinality(buffer) <= MaxSignalBufferSize
  BY ConfigAssumption, FS_CardinalityType DEF BufferInv, BufferBounded
<1>2. /\ IsFiniteSet(buffer \ Evicted) /\ Cardinality(buffer \ Evicted) <= Cardinality(buffer)
      /\ Cardinality(buffer) = Cardinality(buffer \ Evicted) => buffer = buffer \ Evicted
  <2>1. buffer \ Evicted \in SUBSET buffer
    OBVIOUS
  <2> QED BY <1>1, <2>1, FS_Subset
<1>3. Cardinality(buffer \ Evicted) \in Nat
  BY <1>2, FS_CardinalityType
<1>4. CASE Cardinality(buffer) < MaxSignalBufferSize
  BY <1>1, <1>2, <1>3, <1>4
<1>5. CASE Cardinality(buffer) >= MaxSignalBufferSize
  <2>1. buffer # {} /\ buffer \subseteq Signal
    BY <1>1, <1>5, FS_EmptySet DEF TypeOK
  <2>2. PICK s \in buffer : \A t \in buffer : ~ (t.n < s.n)
    BY <2>1, OldestSignal
  <2>3. {t \in buffer : t.n < s.n} = {}
    BY <2>2
  <2>4. Cardinality({t \in buffer : t.n < s.n}) = 0
    BY <2>3, FS_EmptySet
  <2>5. 0 < MaxSignalBufferSize \div 2
    BY <1>1
  <2>6. s \in Evicted
    BY <1>5, <2>2, <2>4, <2>5 DEF Evicted
  <2>7. buffer # buffer \ Evicted
    BY <2>2, <2>6
  <2> QED BY <1>1, <1>2, <1>3, <2>7
<1> QED BY <1>1, <1>4, <1>5

\* What else happens to the buffer takes signals out or counts one more use.
LEMMA BufferShrinks ==
  ASSUME BufferInv, NEW T, T \subseteq buffer, buffer' = T
  PROVE  BufferInv'
<1>1. IsFiniteSet(T) /\ Cardinality(T) <= Cardinality(buffer)
  BY FS_Subset DEF BufferInv
<1>2. Cardinality(T) \in Nat /\ Cardinality(buffer) \in Nat /\ MaxSignalBufferSize \in Nat
  BY <1>1, FS_CardinalityType, ConfigAssumption DEF BufferInv
<1> QED BY <1>1, <1>2 DEF BufferInv, BufferBounded

LEMMA CountingUsesKeepsSize ==
  ASSUME BufferInv, buffer' = {IF Recent(s) THEN [s EXCEPT !.uses = @ + 1] ELSE s : s \in buffer}
  PROVE  BufferInv'
<1> DEFINE f == [s \in buffer |-> IF Recent(s) THEN [s EXCEPT !.uses = @ + 1] ELSE s]
<1>1. f \in Surjection(buffer, buffer')
  BY DEF Surjection
<1>2. IsFiniteSet(buffer') /\ Cardinality(buffer') <= Cardinality(buffer)
  BY <1>1, FS_Surjection DEF BufferInv
<1>3. Cardinality(buffer') \in Nat /\ Cardinality(buffer) \in Nat /\ MaxSignalBufferSize \in Nat
  BY <1>2, FS_CardinalityType, ConfigAssumption DEF BufferInv
<1> QED BY <1>2, <1>3 DEF BufferInv, BufferBounded

LEMMA BufferStep == TypeOK /\ BufferInv /\ [Next]_vars => BufferInv'
<1> SUFFICES ASSUME TypeOK, BufferInv, [Next]_vars PROVE BufferInv'
  OBVIOUS
<1>1. CASE BufferSignal
  <2> DEFINE x == [handling EXCEPT !.n = arrivals + 1]
             rest == buffer \ Evicted
  <2>1. buffer' = rest \cup {x}
    BY <1>1 DEF BufferSignal
  <2>2. IsFiniteSet(rest) /\ Cardinality(rest) < MaxSignalBufferSize
    BY EvictionMakesRoom
  <2>3. Cardinality(rest) \in Nat /\ MaxSignalBufferSize \in Nat
    BY <2>2, FS_CardinalityType, ConfigAssumption
  <2> HIDE DEF x, rest
  <2>4. /\ IsFiniteSet(rest \cup {x})
        /\ Cardinality(rest \cup {x}) = IF x \in rest THEN Cardinality(rest) ELSE Cardinality(rest) + 1
    BY <2>2, FS_AddElement
  <2> QED BY <2>1, <2>2, <2>3, <2>4 DEF BufferInv, BufferBounded
<1>2. CASE Select
  <2>1. CASE paused
    BY <1>2, <2>1, BufferShrinks DEF Select
  <2>2. CASE ~ paused
    BY <1>2, <2>2, CountingUsesKeepsSize DEF Select
  <2> QED BY <2>1, <2>2
<1>3. CASE Clean
  BY <1>3, BufferShrinks DEF Clean
<1>4. CASE UNCHANGED buffer
  BY <1>4, BufferShrinks
<1>5. [Next]_vars => UNCHANGED buffer \/ BufferSignal \/ Select \/ Clean
  BY DEF Next, vars, SendSignal, SendHeartbeat, Lose, Tick, TogglePause, HandleSignal, HandleHeartbeat,
         CheckAgentHealth, Choose, Count, Decide, Publish
<1> QED BY <1>1, <1>2, <1>3, <1>4, <1>5

\* The buffer holds no more signals than it may, however long trading is paused
\* and no cycle cleans it, and none whose agent is not known.
THEOREM BufferStaysSound == Spec => []BufferSound
<1>1. Init => BufferInv
  BY FS_EmptySet, ConfigAssumption DEF Init, BufferInv, BufferBounded
<1>2. BufferInv /\ VotersAreRegistered => BufferSound
  BY DEF BufferInv, BufferSound
<1> QED BY <1>1, <1>2, BufferStep, BufferedAgentsKnown, TypeCorrect, PTL DEF Spec

=============================================================================
