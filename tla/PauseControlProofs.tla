-------------------------- MODULE PauseControlProofs --------------------------
(***************************************************************************)
(* Proofs about pause control, for any number of orchestrators, agents,    *)
(* clients, calls, errors and crashes: type correctness and the bound on   *)
(* late decisions; and, for the single orchestrator that is deployed, that *)
(* memory follows the database, that stored transitions alternate, that a  *)
(* refusal is honest and that an agent every event reached holds the flag. *)
(***************************************************************************)
EXTENDS PauseControl, TLAPS, SequenceTheorems

Holding == {"entered", "selected", "locked", "stored"}

-----------------------------------------------------------------------------
(* Type correctness.                                                       *)

LEMMA UnsentType == Unsent \in Call
<1>1. (CHOOSE o \in Orchestrators : TRUE) \in Orchestrators
  BY SomeOrchestrator
<1> QED
  BY <1>1 DEF Unsent, Call, Ended

LEMMA InitTypeOK == Init => TypeOK
<1> SUFFICES ASSUME Init PROVE TypeOK
  OBVIOUS
<1>1. call \in [Calls -> Call]
  BY UnsentType DEF Init
<1>2. rows \in Seq(BOOLEAN) /\ rows # <<>>
  BY DEF Init
<1>3. client \in [Clients -> Client] /\ loop \in [Orchestrators -> Loop]
  BY BoundsAssumption DEF Init, Client, Loop, Idle
<1>4. inbox \in [Agents -> Seq(BOOLEAN)]
  BY DEF Init
<1> QED
  BY <1>1, <1>2, <1>3, <1>4, BoundsAssumption DEF Init, TypeOK

\* The fields of a call change a few at a time and keep its type.
CallPCs == {"unused", "sent", "entered", "selected", "locked", "stored", "done", "lost"}

LEMMA GotoType ==
    ASSUME TypeOK, NEW c \in Calls, NEW pc \in CallPCs, Goto(c, pc)
    PROVE  call' \in [Calls -> Call]
<1>1. call \in [Calls -> Call] /\ call[c] \in Call
  BY DEF TypeOK
<1>2. [call[c] EXCEPT !.pc = pc] \in Call
  BY <1>1 DEF Call, Ended, CallPCs
<1> QED
  BY <1>1, <1>2 DEF Goto

LEMMA AnswerType ==
    ASSUME TypeOK, NEW c \in Calls, NEW what \in {"ok", "refused", "error"}, Answer(c, what)
    PROVE  call' \in [Calls -> Call]
<1>1. call \in [Calls -> Call] /\ call[c] \in Call
  BY DEF TypeOK
<1>2. [call[c] EXCEPT !.pc = "done", !.answer = what] \in Call
  BY <1>1 DEF Call, Ended
<1>3. call' = [call EXCEPT ![c] = [call[c] EXCEPT !.pc = "done", !.answer = what]]
  BY <1>1 DEF Answer, Call
<1> QED
  BY <1>1, <1>2, <1>3

LEMMA SelectType ==
    ASSUME TypeOK, NEW c \in Calls, Select(c)
    PROVE  call' \in [Calls -> Call]
<1>1. call \in [Calls -> Call] /\ call[c] \in Call /\ Len(rows) \in Nat
  BY DEF TypeOK
<1>2. [call[c] EXCEPT !.pc = "selected", !.snap = Len(rows)] \in Call
  BY <1>1 DEF Call, Ended
<1>3. call' = [call EXCEPT ![c] = [call[c] EXCEPT !.pc = "selected", !.snap = Len(rows)]]
  BY <1>1 DEF Select, Call
<1> QED
  BY <1>1, <1>2, <1>3

LEMMA UnlockType ==
    ASSUME TypeOK, NEW o \in Orchestrators, Unlock(o)
    PROVE  mutex' \in [Orchestrators -> 0 .. MaxCalls]
  BY BoundsAssumption DEF TypeOK, Unlock

LEMMA CommitTypes ==
    ASSUME TypeOK, NEW c \in Calls, NEW stored \in BOOLEAN, NEW acked \in BOOLEAN,
           Commit(c, stored, acked)
    PROVE  /\ rows' \in Seq(BOOLEAN) /\ rows' # <<>>
           /\ paused' \in [Orchestrators -> BOOLEAN]
           /\ torn' \in [Orchestrators -> BOOLEAN]
           /\ late' \in [Orchestrators -> Nat]
<1>1. call[c].to \in BOOLEAN /\ call[c].at \in Orchestrators
  BY DEF TypeOK, Call
<1>2. rows' \in Seq(BOOLEAN) /\ rows' # <<>>
  <2>1. Append(rows, call[c].to) \in Seq(BOOLEAN) /\ Append(rows, call[c].to) # <<>>
    <3>1. Len(Append(rows, call[c].to)) = Len(rows) + 1 /\ Len(rows) \in Nat
      BY <1>1 DEF TypeOK
    <3>2. Append(rows, call[c].to) \in Seq(BOOLEAN)
      BY <1>1 DEF TypeOK
    <3>3. Len(<<>>) = 0
      OBVIOUS
    <3> QED
      BY <3>1, <3>2, <3>3
  <2> QED
    BY <2>1 DEF Commit, TypeOK
<1> QED
  BY <1>1, <1>2 DEF Commit, TypeOK

LEMMA SendTypes ==
    ASSUME TypeOK, NEW a \in Clients, NEW to \in BOOLEAN, NEW o \in Orchestrators,
           NEW n \in 0 .. MaxTries, Send(a, to, o, n)
    PROVE  call' \in [Calls -> Call] /\ client' \in [Clients -> Client]
<1>1. PICK c \in Calls :
        /\ call' = [call EXCEPT ![c] = [Unsent EXCEPT !.to = to, !.at = o,
                                        !.pc = IF up[o] THEN "sent" ELSE "lost"]]
        /\ client' = [client EXCEPT ![a] = [to |-> to, tries |-> n, cur |-> c,
                                            result |-> "waiting"]]
  BY DEF Send
<1>2. [Unsent EXCEPT !.to = to, !.at = o, !.pc = IF up[o] THEN "sent" ELSE "lost"] \in Call
  BY UnsentType DEF Call, Ended
<1>3. c \in 0 .. MaxCalls
  BY BoundsAssumption DEF Calls
<1> QED
  BY <1>1, <1>2, <1>3 DEF TypeOK, Client

\* A client that waits has sent a call.
WaitsForCall == \A a \in Clients : client[a].result = "waiting" => client[a].cur \in Calls

TInv == TypeOK /\ WaitsForCall

LEMMA SendWaits ==
    ASSUME TInv, NEW a \in Clients, NEW to \in BOOLEAN, NEW o \in Orchestrators,
           NEW n \in 0 .. MaxTries, Send(a, to, o, n)
    PROVE  WaitsForCall'
  BY DEF Send, TInv, WaitsForCall, TypeOK

\* The steps of a handler, of the loop and of the processes leave the clients.
LEMMA WaitsKept == TInv /\ UNCHANGED client => WaitsForCall'
  BY DEF TInv, WaitsForCall

\* A client's request ends.
LEMMA ClientEnds ==
    ASSUME TInv, NEW a \in Clients, NEW what \in {"ok", "failed"},
           client' = [client EXCEPT ![a].result = what]
    PROVE  client' \in [Clients -> Client] /\ WaitsForCall'
<1>1. \A b \in Clients : client[b] \in Client
  BY DEF TInv, TypeOK
<1>2. [client[a] EXCEPT !.result = what] \in Client
        /\ [client[a] EXCEPT !.result = what].result # "waiting"
  BY <1>1 DEF Client
<1>3. client' = [client EXCEPT ![a] = [client[a] EXCEPT !.result = what]]
  OBVIOUS
<1>4. client \in [Clients -> Client]
  BY DEF TInv, TypeOK
<1> DEFINE ended == [client[a] EXCEPT !.result = what]
<1> HIDE DEF ended
<1>5. client' = [client EXCEPT ![a] = ended] /\ ended \in Client /\ ended.result # "waiting"
  BY <1>2, <1>3 DEF ended
<1>6. client' \in [Clients -> Client]
  BY <1>4, <1>5
<1>7. \A b \in Clients : client'[b].result = "waiting" => client'[b] = client[b]
  BY <1>4, <1>5
<1> QED
  BY <1>6, <1>7 DEF TInv, WaitsForCall

LEMMA NextTInv == TInv /\ [Next]_vars => TInv'
<1> SUFFICES ASSUME TInv, [Next]_vars PROVE TypeOK' /\ WaitsForCall'
  BY DEF TInv
<1> USE BoundsAssumption
<1>0. TypeOK
  BY DEF TInv
<1>1. ASSUME NEW a \in Clients, NEW to \in BOOLEAN, NEW o \in Orchestrators, Request(a, to, o)
      PROVE  TypeOK' /\ WaitsForCall'
  <2>1. call' \in [Calls -> Call] /\ client' \in [Clients -> Client] /\ WaitsForCall'
    BY <1>0, <1>1, SendTypes, SendWaits DEF Request
  <2> QED
    BY <1>0, <1>1, <2>1 DEF Request, TypeOK, procVars, agentVars
<1>2. ASSUME NEW a \in Clients, Retry(a) PROVE TypeOK' /\ WaitsForCall'
  <2>1. call' \in [Calls -> Call] /\ client' \in [Clients -> Client] /\ WaitsForCall'
    <3>1. CASE client[a].tries < MaxTries
      <4>1. client[a].cur \in Calls
        BY <1>2 DEF Retry, TInv, WaitsForCall
      <4>2. /\ client[a].to \in BOOLEAN /\ client[a].tries + 1 \in 0 .. MaxTries
            /\ call[client[a].cur].at \in Orchestrators
        BY <1>0, <3>1, <4>1 DEF TypeOK, Client, Call
      <4>3. Send(a, client[a].to, call[client[a].cur].at, client[a].tries + 1)
        BY <1>2, <3>1 DEF Retry
      <4> QED
        BY <1>0, <4>2, <4>3, SendTypes, SendWaits
    <3>2. CASE ~ (client[a].tries < MaxTries)
      <4>1. client' = [client EXCEPT ![a].result = "failed"] /\ call' = call
        BY <1>2, <3>2 DEF Retry
      <4>2. client' \in [Clients -> Client] /\ WaitsForCall'
        BY <4>1, ClientEnds
      <4> QED
        BY <1>0, <4>1, <4>2 DEF TypeOK
    <3> QED
      BY <3>1, <3>2
  <2> QED
    BY <1>0, <1>2, <2>1 DEF Retry, TypeOK, procVars, agentVars
<1>3. ASSUME NEW a \in Clients, Answered(a) PROVE TypeOK' /\ WaitsForCall'
  <2>0. \E what \in {"ok", "failed"} : client' = [client EXCEPT ![a].result = what]
    BY <1>3 DEF Answered
  <2>1. client' \in [Clients -> Client] /\ WaitsForCall'
    <3> PICK what \in {"ok", "failed"} : client' = [client EXCEPT ![a].result = what]
      BY <2>0
    <3> QED
      BY ClientEnds
  <2> QED
    BY <1>0, <1>3, <2>1 DEF Answered, TypeOK, procVars, agentVars
<1>4. ASSUME NEW c \in Calls, Handler(c) PROVE TypeOK' /\ WaitsForCall'
  <2>0. call[c].to \in BOOLEAN /\ call[c].at \in Orchestrators /\ c \in 0 .. MaxCalls
    BY <1>0 DEF TypeOK, Call, Calls
  <2>1. CASE Enter(c)
    <3>1. call' \in [Calls -> Call]
      BY <1>0, <2>1, GotoType, AnswerType DEF Enter, CallPCs
    <3>2. mutex' \in [Orchestrators -> 0 .. MaxCalls]
      BY <1>0, <2>0, <2>1 DEF Enter, TypeOK
    <3> QED
      BY <1>0, <2>1, <3>1, <3>2, WaitsKept DEF Enter, TypeOK, agentVars
  <2>2. CASE Select(c)
    <3>1. call' \in [Calls -> Call]
      BY <1>0, <2>2, SelectType
    <3> QED
      BY <1>0, <2>2, <3>1, WaitsKept DEF Select, TypeOK, agentVars, procVars
  <2>3. CASE LockRow(c)
    <3>1. call' \in [Calls -> Call]
      BY <1>0, <2>3, GotoType, AnswerType DEF LockRow, CallPCs
    <3>2. mutex' \in [Orchestrators -> 0 .. MaxCalls]
      BY <1>0, <2>0, <2>3, UnlockType DEF LockRow, TypeOK
    <3> QED
      BY <1>0, <2>3, <3>1, <3>2, WaitsKept DEF LockRow, TypeOK, agentVars
  <2>4. CASE Store(c)
    <3>1. call' \in [Calls -> Call]
      BY <1>0, <2>4, GotoType DEF Store, CallPCs
    <3>2. /\ rows' \in Seq(BOOLEAN) /\ rows' # <<>>
          /\ paused' \in [Orchestrators -> BOOLEAN]
          /\ torn' \in [Orchestrators -> BOOLEAN]
          /\ late' \in [Orchestrators -> Nat]
      BY <1>0, <2>4, CommitTypes DEF Store
    <3> QED
      BY <1>0, <2>4, <3>1, <3>2, WaitsKept DEF Store, TypeOK, agentVars
  <2>5. CASE StoreFails(c)
    <3>0. PICK stored \in BOOLEAN :
            /\ Fault /\ Commit(c, stored, FALSE) /\ Answer(c, "error") /\ Unlock(call[c].at)
            /\ missed' = IF stored THEN Agents ELSE missed
            /\ UNCHANGED <<up, loop, client, agentPaused, inbox, crashes>>
      BY <2>5 DEF StoreFails
    <3>1. call' \in [Calls -> Call]
      BY <1>0, <3>0, AnswerType
    <3>2. /\ rows' \in Seq(BOOLEAN) /\ rows' # <<>>
          /\ paused' \in [Orchestrators -> BOOLEAN]
          /\ torn' \in [Orchestrators -> BOOLEAN]
          /\ late' \in [Orchestrators -> Nat]
      BY <1>0, <3>0, CommitTypes
    <3>3. mutex' \in [Orchestrators -> 0 .. MaxCalls] /\ faults' \in 0 .. MaxFaults
      BY <1>0, <2>0, <3>0, UnlockType DEF TypeOK, Fault
    <3> QED
      BY <1>0, <3>0, <3>1, <3>2, <3>3, WaitsKept DEF TypeOK
  <2>6. CASE Broadcast(c)
    <3>1. call' \in [Calls -> Call]
      BY <1>0, <2>6, AnswerType DEF Broadcast
    <3>2. mutex' \in [Orchestrators -> 0 .. MaxCalls]
      BY <1>0, <2>0, <2>6, UnlockType DEF Broadcast
    <3>3. inbox' \in [Agents -> Seq(BOOLEAN)]
      BY <1>0, <2>0, <2>6 DEF Broadcast, TypeOK
    <3> QED
      BY <1>0, <2>6, <3>1, <3>2, <3>3, WaitsKept DEF Broadcast, TypeOK
  <2>7. CASE BroadcastFails(c)
    <3>1. call' \in [Calls -> Call]
      BY <1>0, <2>7, AnswerType DEF BroadcastFails
    <3>2. mutex' \in [Orchestrators -> 0 .. MaxCalls] /\ faults' \in 0 .. MaxFaults
      BY <1>0, <2>0, <2>7, UnlockType DEF BroadcastFails, TypeOK, Fault
    <3> QED
      BY <1>0, <2>7, <3>1, <3>2, WaitsKept DEF BroadcastFails, TypeOK
  <2> QED
    BY <1>4, <2>1, <2>2, <2>3, <2>4, <2>5, <2>6, <2>7 DEF Handler
<1>5. ASSUME NEW o \in Orchestrators, MakeDecision(o) PROVE TypeOK' /\ WaitsForCall'
  <2>0. loop[o].pc # "idle" => loop[o].pc \in {"deciding", "publishing"} /\ loop[o].left \in 1 .. MaxSymbols
    BY <1>0 DEF TypeOK, Loop, Idle
  <2>1. CASE Tick(o)
    <3>1. loop' \in [Orchestrators -> Loop]
      BY <1>0, <2>1 DEF Tick, TypeOK, Loop
    <3> QED
      BY <1>0, <2>1, <3>1, WaitsKept DEF Tick, TypeOK, agentVars
  <2>2. CASE Recheck(o)
    <3>1. loop' \in [Orchestrators -> Loop]
      BY <1>0, <2>0, <2>2 DEF Recheck, TypeOK, Loop, Idle
    <3> QED
      BY <1>0, <2>2, <3>1, WaitsKept DEF Recheck, TypeOK, agentVars
  <2>3. CASE Publish(o)
    <3>1. loop' \in [Orchestrators -> Loop]
      <4>1. (IF loop[o].left = 1 THEN Idle ELSE [pc |-> "deciding", left |-> loop[o].left - 1]) \in Loop
        BY <2>0, <2>3 DEF Loop, Idle, Publish
      <4> QED
        BY <1>0, <2>3, <4>1 DEF Publish, TypeOK
    <3>2. late' \in [Orchestrators -> Nat]
      BY <1>0, <2>3 DEF Publish, TypeOK
    <3> QED
      BY <1>0, <2>3, <3>1, <3>2, WaitsKept DEF Publish, TypeOK, agentVars
  <2> QED
    BY <1>5, <2>1, <2>2, <2>3 DEF MakeDecision
<1>6. ASSUME NEW o \in Orchestrators, Crash(o) PROVE TypeOK' /\ WaitsForCall'
  <2>1. call' \in [Calls -> Call]
    <3>1. PICK dying \in SUBSET Calls :
            call' = [c \in Calls |-> IF c \in dying THEN [call[c] EXCEPT !.pc = "lost"] ELSE call[c]]
      BY <1>6 DEF Crash
    <3>2. \A c \in Calls : call[c] \in Call
      BY <1>0 DEF TypeOK
    <3>3. \A c \in Calls : [call[c] EXCEPT !.pc = "lost"] \in Call
      BY <3>2 DEF Call, Ended
    <3> QED
      BY <3>1, <3>2, <3>3
  <2>2. rows' \in Seq(BOOLEAN) /\ rows' # <<>>
    <3>1. ASSUME NEW c \in Calls, rows' = Append(rows, call[c].to)
          PROVE  rows' \in Seq(BOOLEAN) /\ rows' # <<>>
      <4>1. call[c].to \in BOOLEAN
        BY <1>0 DEF TypeOK, Call
      <4> QED
        BY <1>0, <3>1, <4>1 DEF TypeOK
    <3> QED
      BY <1>0, <1>6, <3>1 DEF Crash, TypeOK
  <2>3. loop' \in [Orchestrators -> Loop]
    BY <1>0, <1>6 DEF Crash, TypeOK, Loop, Idle
  <2>4. missed' \subseteq Agents /\ crashes' \in 0 .. MaxCrashes
    BY <1>0, <1>6 DEF Crash, TypeOK
  <2>5. mutex' \in [Orchestrators -> 0 .. MaxCalls] /\ late' \in [Orchestrators -> Nat]
    BY <1>0, <1>6 DEF Crash, TypeOK
  <2>6. /\ up' \in [Orchestrators -> BOOLEAN] /\ paused' \in [Orchestrators -> BOOLEAN]
        /\ torn' \in [Orchestrators -> BOOLEAN]
    BY <1>0, <1>6 DEF Crash, TypeOK
  <2>7. client' = client /\ agentPaused' = agentPaused /\ inbox' = inbox /\ faults' = faults
    BY <1>6 DEF Crash
  <2> QED
    BY <1>0, <2>1, <2>2, <2>3, <2>4, <2>5, <2>6, <2>7, WaitsKept DEF TypeOK
<1>7. ASSUME NEW o \in Orchestrators, Initialize(o) PROVE TypeOK' /\ WaitsForCall'
  <2>1. Stored \in BOOLEAN
    BY <1>0 DEF TypeOK, Stored, Last
  <2> QED
    BY <1>0, <1>7, <2>1, WaitsKept DEF Initialize, TypeOK, agentVars
<1>8. ASSUME NEW o \in Orchestrators, InitializeFails(o) PROVE TypeOK' /\ WaitsForCall'
  BY <1>0, <1>8, WaitsKept DEF InitializeFails, TypeOK, Fault
<1>9. ASSUME NEW a \in Agents, HandleControlEvent(a) PROVE TypeOK' /\ WaitsForCall'
  <2>1. Head(inbox[a]) \in BOOLEAN /\ Tail(inbox[a]) \in Seq(BOOLEAN)
    BY <1>0, <1>9 DEF HandleControlEvent, TypeOK
  <2> QED
    BY <1>0, <1>9, <2>1, WaitsKept DEF HandleControlEvent, TypeOK, procVars
<1>10. ASSUME NEW a \in Agents, AgentRestart(a) PROVE TypeOK' /\ WaitsForCall'
  BY <1>0, <1>10, WaitsKept DEF AgentRestart, TypeOK, procVars
<1>11. CASE UNCHANGED vars
  BY <1>0, <1>11, WaitsKept DEF vars, TypeOK
<1> QED
  BY <1>1, <1>2, <1>3, <1>4, <1>5, <1>6, <1>7, <1>8, <1>9, <1>10, <1>11 DEF Next

\* The state of pause control is well typed: no client tries more often than
\* MaxTries, no loop counts below zero.
THEOREM TypeCorrect == Spec => []TypeOK
<1>1. Init => TInv
  BY InitTypeOK DEF Init, TInv, WaitsForCall
<1>2. TInv => TypeOK
  BY DEF TInv
<1> QED
  BY <1>1, <1>2, NextTInv, PTL DEF Spec

-----------------------------------------------------------------------------
(* At most one late decision.  The loop is past its second check when a    *)
(* decision comes late, and finds trading paused at the next one.          *)

LateOK ==
    \A o \in Orchestrators :
        /\ late[o] \in {0, 1}
        /\ late[o] = 1 => paused[o] /\ loop[o].pc # "publishing"
        /\ ~ up[o] => late[o] = 0 /\ loop[o] = Idle

LInv == TInv /\ LateOK

LEMMA LateKept == LateOK /\ UNCHANGED <<up, paused, loop, late>> => LateOK'
  BY DEF LateOK

LEMMA CommitLate ==
    ASSUME TypeOK, LateOK, NEW c \in Calls, NEW stored \in BOOLEAN, NEW acked \in BOOLEAN,
           Commit(c, stored, acked), UNCHANGED <<up, loop>>
    PROVE  LateOK'
  BY DEF Commit, LateOK, TypeOK

LEMMA NextLate == LInv /\ [Next]_vars => LateOK'
<1> SUFFICES ASSUME LInv, [Next]_vars PROVE LateOK'
  OBVIOUS
<1>0. TypeOK /\ LateOK
  BY DEF LInv, TInv
<1>1. ASSUME NEW a \in Clients, NEW to \in BOOLEAN, NEW o \in Orchestrators, Request(a, to, o)
      PROVE  LateOK'
  BY <1>0, <1>1, LateKept DEF Request, procVars
<1>2. ASSUME NEW a \in Clients, Retry(a) \/ Answered(a) PROVE LateOK'
  BY <1>0, <1>2, LateKept DEF Retry, Answered, procVars
<1>3. ASSUME NEW c \in Calls, Handler(c) PROVE LateOK'
  <2>1. CASE Enter(c) \/ Select(c) \/ LockRow(c) \/ Broadcast(c) \/ BroadcastFails(c)
    BY <1>0, <2>1, LateKept DEF Enter, Select, LockRow, Broadcast, BroadcastFails, procVars
  <2>2. CASE Store(c)
    BY <1>0, <2>2, CommitLate DEF Store
  <2>3. CASE StoreFails(c)
    BY <1>0, <2>3, CommitLate DEF StoreFails
  <2> QED
    BY <1>3, <2>1, <2>2, <2>3 DEF Handler
<1>4. ASSUME NEW o \in Orchestrators, MakeDecision(o) PROVE LateOK'
  <2>1. CASE Tick(o)
    <3>1. up[o] /\ ~ paused[o] /\ UNCHANGED <<up, paused, late>>
      BY <2>1 DEF Tick
    <3>2. \A p \in Orchestrators : p # o => loop'[p] = loop[p]
      BY <1>0, <2>1 DEF Tick, TypeOK
    <3> QED
      BY <1>0, <3>1, <3>2 DEF LateOK
  <2>2. CASE Recheck(o)
    <3>1. paused[o] => loop'[o].pc = "idle"
      BY <1>0, <2>2 DEF Recheck, TypeOK, Idle
    <3>2. \A p \in Orchestrators : p # o => loop'[p] = loop[p]
      BY <1>0, <2>2 DEF Recheck, TypeOK
    <3>3. UNCHANGED <<up, paused, late>>
      BY <2>2 DEF Recheck
    <3>4. up[o]
      BY <1>0, <2>2 DEF Recheck, LateOK, Idle
    <3> QED
      BY <1>0, <3>1, <3>2, <3>3, <3>4 DEF LateOK
  <2>3. CASE Publish(o)
    <3>1. loop'[o].pc # "publishing"
      BY <1>0, <2>3 DEF Publish, TypeOK, Idle
    <3>2. \A p \in Orchestrators : p # o => loop'[p] = loop[p] /\ late'[p] = late[p]
      BY <1>0, <2>3 DEF Publish, TypeOK
    <3>3. late[o] = 0 /\ late'[o] = (IF paused[o] THEN 1 ELSE 0) /\ UNCHANGED <<up, paused>>
      BY <1>0, <2>3 DEF Publish, TypeOK, LateOK
    <3>4. loop[o].pc = "publishing"
      BY <2>3 DEF Publish
    <3>5. up[o]
      BY <1>0, <3>4 DEF LateOK, Idle
    <3> QED
      BY <1>0, <3>1, <3>2, <3>3, <3>5 DEF LateOK
  <2> QED
    BY <1>4, <2>1, <2>2, <2>3 DEF MakeDecision
<1>5. ASSUME NEW o \in Orchestrators, Crash(o) PROVE LateOK'
  BY <1>0, <1>5 DEF Crash, LateOK, TypeOK
<1>6. ASSUME NEW o \in Orchestrators, Initialize(o) \/ InitializeFails(o) PROVE LateOK'
  <2>1. late[o] = 0 /\ loop[o] = Idle /\ UNCHANGED <<late, loop>>
    BY <1>0, <1>6 DEF Initialize, InitializeFails, LateOK
  <2>2. \A p \in Orchestrators : p # o => paused'[p] = paused[p] /\ up'[p] = up[p]
    BY <1>0, <1>6 DEF Initialize, InitializeFails, TypeOK
  <2> QED
    BY <1>0, <2>1, <2>2 DEF LateOK
<1>7. ASSUME NEW a \in Agents, HandleControlEvent(a) \/ AgentRestart(a) PROVE LateOK'
  BY <1>0, <1>7, LateKept DEF HandleControlEvent, AgentRestart, procVars
<1>8. CASE UNCHANGED vars
  BY <1>0, <1>8, LateKept DEF vars
<1> QED
  BY <1>1, <1>2, <1>3, <1>4, <1>5, <1>6, <1>7, <1>8 DEF Next

\* For every number of symbols and of orchestrators, no second decision is
\* published after Pause has taken effect: the second check of makeDecision
\* leaves a window of one publication.
THEOREM LateDecisionsBounded == Spec => []AtMostOneLateDecision
<1>1. Init => LInv
  BY InitTypeOK DEF Init, LInv, TInv, WaitsForCall, LateOK
<1>2. LInv /\ [Next]_vars => LInv'
  BY NextTInv, NextLate DEF LInv
<1>3. LInv => AtMostOneLateDecision
  <2> SUFFICES ASSUME LInv, NEW o \in Orchestrators PROVE late[o] <= 1
    BY DEF AtMostOneLateDecision
  <2>1. late[o] \in {0, 1}
    BY DEF LInv, LateOK
  <2> QED
    BY <2>1
<1> QED
  BY <1>1, <1>2, <1>3, PTL DEF Spec

-----------------------------------------------------------------------------
(* One orchestrator: the mutex makes its transactions run one at a time,   *)
(* so the row a handler locks is still the last one when it commits.       *)

Single == \A o, p \in Orchestrators : o = p

HolderOK == \A c \in Calls : call[c].pc \in Holding => mutex[call[c].at] = c

\* A handler that has looked at the table knows its last row.
SnapOK ==
    \A c \in Calls :
        /\ call[c].pc \in {"selected", "locked"} => call[c].snap = Len(rows)
        /\ call[c].pc = "locked" => Stored # call[c].to

\* A handler runs in a process that runs.
AliveOK == \A c \in Calls : call[c].pc \in Holding \cup {"sent"} => up[call[c].at]

AgreeOK == \A o \in Orchestrators : up[o] /\ ~ torn[o] => paused[o] = Stored

SInv == HolderOK /\ SnapOK /\ AgreeOK

LEMMA StoredAppend ==
    ASSUME NEW s \in Seq(BOOLEAN), NEW b \in BOOLEAN
    PROVE  Last(Append(s, b)) = b /\ Len(Append(s, b)) = Len(s) + 1
  BY DEF Last

LEMMA SKept == SInv /\ UNCHANGED <<call, mutex, rows, up, torn, paused>> => SInv'
  BY DEF SInv, HolderOK, SnapOK, AgreeOK, Stored

\* A new call is in no handler yet.
LEMMA SendS ==
    ASSUME TypeOK, SInv, NEW a \in Clients, NEW to \in BOOLEAN, NEW o \in Orchestrators,
           NEW n \in Nat, Send(a, to, o, n), UNCHANGED <<mutex, rows, up, torn, paused>>
    PROVE  SInv'
<1>1. PICK c \in Calls : call' = [call EXCEPT ![c] = [Unsent EXCEPT !.to = to, !.at = o,
                                                     !.pc = IF up[o] THEN "sent" ELSE "lost"]]
  BY DEF Send
<1>2. call'[c].pc \in {"sent", "lost"}
  BY <1>1 DEF TypeOK, Unsent
<1>3. \A d \in Calls : d # c => call'[d] = call[d]
  BY <1>1 DEF TypeOK
<1>4. HolderOK'
  BY <1>2, <1>3 DEF SInv, HolderOK, Holding
<1>5. SnapOK'
  BY <1>2, <1>3 DEF SInv, SnapOK, Stored
<1>6. AgreeOK'
  BY DEF SInv, AgreeOK, Stored
<1> QED
  BY <1>4, <1>5, <1>6 DEF SInv

\* The handler that holds the mutex of the only orchestrator is alone.
LEMMA Alone ==
    ASSUME Single, TypeOK, SInv, NEW c \in Calls, NEW d \in Calls,
           call[c].pc \in Holding, call[d].pc \in Holding
    PROVE  c = d
<1>1. call[c].at = call[d].at
  BY DEF Single, TypeOK, Call
<1> QED
  BY <1>1 DEF SInv, HolderOK

LEMMA NobodyHolds ==
    ASSUME Single, TypeOK, SInv, NEW o \in Orchestrators, mutex[o] = 0
    PROVE  \A c \in Calls : call[c].pc \notin Holding
<1> SUFFICES ASSUME NEW c \in Calls, call[c].pc \in Holding PROVE FALSE
  OBVIOUS
<1>1. mutex[call[c].at] = c
  BY DEF SInv, HolderOK
<1>2. call[c].at = o
  BY DEF Single, TypeOK, Call
<1> QED
  BY <1>1, <1>2, BoundsAssumption DEF Calls

\* What Goto and Answer do to the calls.
LEMMA StepOfCall ==
    ASSUME TypeOK, NEW c \in Calls, NEW pc, NEW what,
           Goto(c, pc) \/ (pc = "done" /\ Answer(c, what))
    PROVE  /\ call'[c].pc = pc /\ call'[c].at = call[c].at
           /\ call'[c].to = call[c].to /\ call'[c].snap = call[c].snap
           /\ \A d \in Calls : d # c => call'[d] = call[d]
<1>1. call \in [Calls -> Call] /\ call[c] \in Call
  BY DEF TypeOK
<1>2. CASE Goto(c, pc)
  BY <1>1, <1>2 DEF Goto, Call
<1>3. CASE pc = "done" /\ Answer(c, what)
  BY <1>1, <1>3 DEF Answer, Call
<1> QED
  BY <1>2, <1>3

\* A handler that ends, with the mutex unlocked or never taken, keeps the
\* invariant when memory and the table agree afterwards.
LEMMA EndsS ==
    ASSUME Single, TypeOK, SInv, NEW c \in Calls, NEW what, Answer(c, what),
           \/ Unlock(call[c].at) /\ call[c].pc \in Holding
           \/ UNCHANGED mutex /\ call[c].pc = "sent" /\ UNCHANGED rows,
           AgreeOK'
    PROVE  SInv'
<1>1. /\ call'[c].pc = "done"
      /\ \A d \in Calls : d # c => call'[d] = call[d]
  BY StepOfCall
<1>2. CASE Unlock(call[c].at) /\ call[c].pc \in Holding
  <2>1. \A d \in Calls : d # c => call[d].pc \notin Holding
    BY <1>2, Alone
  <2>2. \A d \in Calls : call'[d].pc \notin Holding
    BY <1>1, <2>1 DEF Holding
  <2> QED
    BY <2>2 DEF SInv, HolderOK, SnapOK, Holding
<1>3. CASE UNCHANGED mutex /\ call[c].pc = "sent" /\ UNCHANGED rows
  BY <1>1, <1>3 DEF SInv, HolderOK, SnapOK, Stored, Holding
<1> QED
  BY <1>2, <1>3

LEMMA CommitAgrees ==
    ASSUME Single, TypeOK, SInv, NEW c \in Calls, NEW stored \in BOOLEAN, NEW acked \in BOOLEAN,
           acked => stored, Commit(c, stored, acked), UNCHANGED up
    PROVE  AgreeOK'
<1> DEFINE o == call[c].at
<1>0. o \in Orchestrators /\ call[c].to \in BOOLEAN
  BY DEF TypeOK, Call
<1>1. \A p \in Orchestrators : p = o
  BY <1>0 DEF Single
<1>2. CASE acked
  <2>1. Stored' = call[c].to
    BY <1>0, <1>2, StoredAppend DEF Commit, Stored, TypeOK
  <2>2. paused'[o] = call[c].to
    BY <1>0, <1>2 DEF Commit, TypeOK
  <2> QED
    BY <1>1, <2>1, <2>2 DEF AgreeOK
<1>3. CASE ~ acked /\ stored
  <2>1. torn'[o] = TRUE
    BY <1>0, <1>3 DEF Commit, TypeOK
  <2> QED
    BY <1>1, <2>1 DEF AgreeOK
<1>4. CASE ~ acked /\ ~ stored
  <2>1. rows' = rows /\ paused' = paused /\ torn'[o] = torn[o]
    BY <1>0, <1>4 DEF Commit, TypeOK
  <2> QED
    BY <1>1, <2>1 DEF SInv, AgreeOK, Stored
<1> QED
  BY <1>2, <1>3, <1>4

LEMMA HandlerS ==
    ASSUME Single, TypeOK, SInv, NEW c \in Calls, Handler(c)
    PROVE  SInv'
<1> DEFINE o == call[c].at
<1>0. o \in Orchestrators /\ call[c].to \in BOOLEAN /\ call[c] \in Call
  BY DEF TypeOK, Call
<1>a. ASSUME UNCHANGED <<rows, up, torn, paused>> PROVE AgreeOK'
  BY <1>a DEF SInv, AgreeOK, Stored
<1>1. CASE Enter(c)
  <2>0. AgreeOK'
    BY <1>1, <1>a DEF Enter
  <2>1. CASE paused[o] = call[c].to
    BY <1>1, <2>0, <2>1, EndsS DEF Enter
  <2>2. CASE paused[o] # call[c].to
    <3>1. Goto(c, "entered") /\ mutex' = [mutex EXCEPT ![o] = c] /\ rows' = rows
      BY <1>1, <2>2 DEF Enter
    <3>2. /\ call'[c].pc = "entered" /\ call'[c].at = o
          /\ \A d \in Calls : d # c => call'[d] = call[d]
      BY <3>1, StepOfCall
    <3>3. \A d \in Calls : call[d].pc \notin Holding
      BY <1>0, <1>1, NobodyHolds DEF Enter
    <3>4. mutex'[o] = c
      BY <1>0, <3>1 DEF TypeOK
    <3> QED
      BY <2>0, <3>1, <3>2, <3>3, <3>4 DEF SInv, HolderOK, SnapOK, Holding
  <2> QED
    BY <2>1, <2>2
<1>2. CASE Select(c)
  <2>0. AgreeOK'
    BY <1>2, <1>a DEF Select, procVars
  <2>1. /\ call'[c].pc = "selected" /\ call'[c].at = o /\ call'[c].snap = Len(rows)
        /\ \A d \in Calls : d # c => call'[d] = call[d]
    BY <1>0, <1>2 DEF Select, TypeOK, Call
  <2>2. rows' = rows /\ mutex' = mutex /\ call[c].pc = "entered"
    BY <1>2 DEF Select, procVars
  <2> QED
    BY <2>0, <2>1, <2>2 DEF SInv, HolderOK, SnapOK, Stored, Holding
<1>3. CASE LockRow(c)
  <2>0. AgreeOK'
    BY <1>3, <1>a DEF LockRow
  <2>1. CASE rows[call[c].snap] = call[c].to
    BY <1>3, <2>0, <2>1, EndsS DEF LockRow, Holding
  <2>2. CASE rows[call[c].snap] # call[c].to
    <3>1. Goto(c, "locked") /\ mutex' = mutex /\ rows' = rows /\ call[c].pc = "selected"
      BY <1>3, <2>2 DEF LockRow
    <3>2. /\ call'[c].pc = "locked" /\ call'[c].at = o /\ call'[c].snap = call[c].snap
          /\ call'[c].to = call[c].to /\ \A d \in Calls : d # c => call'[d] = call[d]
      BY <3>1, StepOfCall
    <3>3. Stored # call[c].to
      BY <2>2, <3>1 DEF SInv, SnapOK, Stored, Last
    <3> QED
      BY <2>0, <3>1, <3>2, <3>3 DEF SInv, HolderOK, SnapOK, Stored, Holding
  <2> QED
    BY <2>1, <2>2
<1>4. CASE Store(c)
  <2>0. AgreeOK'
    BY <1>4, CommitAgrees DEF Store
  <2>1. /\ call'[c].pc = "stored" /\ call'[c].at = o
        /\ \A d \in Calls : d # c => call'[d] = call[d]
    BY <1>4, StepOfCall DEF Store
  <2>2. mutex' = mutex /\ call[c].pc = "locked"
    BY <1>4 DEF Store
  <2>3. \A d \in Calls : d # c => call[d].pc \notin Holding
    BY <2>2, Alone DEF Holding
  <2> QED
    BY <2>0, <2>1, <2>2, <2>3 DEF SInv, HolderOK, SnapOK, Holding
<1>5. CASE StoreFails(c)
  <2>1. PICK stored \in BOOLEAN :
          Commit(c, stored, FALSE) /\ Answer(c, "error") /\ Unlock(o) /\ UNCHANGED up
    BY <1>5 DEF StoreFails
  <2>2. AgreeOK'
    BY <2>1, CommitAgrees
  <2> QED
    BY <1>5, <2>1, <2>2, EndsS DEF StoreFails, Holding
<1>6. CASE Broadcast(c) \/ BroadcastFails(c)
  <2>0. AgreeOK'
    BY <1>6, <1>a DEF Broadcast, BroadcastFails
  <2> QED
    BY <1>6, <2>0, EndsS DEF Broadcast, BroadcastFails, Holding
<1> QED
  BY <1>1, <1>2, <1>3, <1>4, <1>5, <1>6 DEF Handler

LEMMA CrashS ==
    ASSUME Single, TypeOK, SInv, NEW o \in Orchestrators, Crash(o)
    PROVE  SInv'
<1>1. \A c \in Calls : call'[c].pc \notin Holding
  BY DEF Crash, Single, TypeOK, Call, Ended, Holding
<1>2. \A p \in Orchestrators : ~ up'[p]
  BY DEF Crash, Single, TypeOK
<1> QED
  BY <1>1, <1>2 DEF SInv, HolderOK, SnapOK, AgreeOK, Holding

LEMMA NextS == Single /\ TInv /\ SInv /\ [Next]_vars => SInv'
<1> SUFFICES ASSUME Single, TInv, SInv, [Next]_vars PROVE SInv'
  OBVIOUS
<1>0. TypeOK
  BY DEF TInv
<1>1. ASSUME NEW a \in Clients, NEW to \in BOOLEAN, NEW o \in Orchestrators, Request(a, to, o)
      PROVE  SInv'
  BY <1>0, <1>1, SendS DEF Request, procVars
<1>2. ASSUME NEW a \in Clients, Retry(a) PROVE SInv'
  <2>1. CASE client[a].tries < MaxTries
    <3>1. client[a].cur \in Calls
      BY <1>2 DEF Retry, TInv, WaitsForCall
    <3>2. /\ client[a].to \in BOOLEAN /\ client[a].tries + 1 \in Nat
          /\ call[client[a].cur].at \in Orchestrators
      BY <1>0, <3>1 DEF TypeOK, Client, Call
    <3>3. Send(a, client[a].to, call[client[a].cur].at, client[a].tries + 1)
      BY <1>2, <2>1 DEF Retry
    <3>4. UNCHANGED <<mutex, rows, up, torn, paused>>
      BY <1>2 DEF Retry, procVars
    <3> QED
      BY <1>0, <3>2, <3>3, <3>4, SendS
  <2>2. CASE ~ (client[a].tries < MaxTries)
    BY <1>2, <2>2, SKept DEF Retry, procVars
  <2> QED
    BY <2>1, <2>2
<1>3. ASSUME NEW a \in Clients, Answered(a) PROVE SInv'
  BY <1>3, SKept DEF Answered, procVars
<1>4. ASSUME NEW c \in Calls, Handler(c) PROVE SInv'
  BY <1>0, <1>4, HandlerS
<1>5. ASSUME NEW o \in Orchestrators, MakeDecision(o) PROVE SInv'
  BY <1>5, SKept DEF MakeDecision, Tick, Recheck, Publish
<1>6. ASSUME NEW o \in Orchestrators, Crash(o) PROVE SInv'
  BY <1>0, <1>6, CrashS
<1>7. ASSUME NEW o \in Orchestrators, Initialize(o) \/ InitializeFails(o) PROVE SInv'
  <2>1. UNCHANGED <<mutex, rows, call>>
    BY <1>7 DEF Initialize, InitializeFails
  <2>2. paused'[o] = Stored \/ torn'[o]
    BY <1>0, <1>7 DEF Initialize, InitializeFails, TypeOK
  <2>3. AgreeOK'
    BY <2>1, <2>2 DEF AgreeOK, Single, Stored
  <2> QED
    BY <2>1, <2>3 DEF SInv, HolderOK, SnapOK, Stored
<1>8. ASSUME NEW a \in Agents, HandleControlEvent(a) \/ AgentRestart(a) PROVE SInv'
  BY <1>8, SKept DEF HandleControlEvent, AgentRestart, procVars
<1>9. CASE UNCHANGED vars
  BY <1>9, SKept DEF vars
<1> QED
  BY <1>1, <1>2, <1>3, <1>4, <1>5, <1>6, <1>7, <1>8, <1>9 DEF Next

LEMMA InitS == Init => SInv
<1> SUFFICES ASSUME Init PROVE SInv
  OBVIOUS
<1>1. \A c \in Calls : call[c].pc = "unused"
  BY DEF Init, Unsent
<1>2. Stored = FALSE
  BY DEF Init, Stored, Last
<1>3. \A o \in Orchestrators : paused[o] = FALSE
  BY DEF Init
<1> QED
  BY <1>1, <1>2, <1>3 DEF SInv, HolderOK, SnapOK, AgreeOK, Holding

\* With one orchestrator the flag in memory is the last row of
\* orchestrator_state whenever the process runs and no read or commit ended in
\* an error.
THEOREM MemoryAgrees ==
    ASSUME Single
    PROVE  Spec => []MemoryFollowsDatabase
<1>1. Init => TInv /\ SInv
  BY InitTypeOK, InitS DEF Init, TInv, WaitsForCall
<1>2. TInv /\ SInv /\ [Next]_vars => (TInv /\ SInv)'
  BY Single, NextTInv, NextS
<1>3. TInv /\ SInv => MemoryFollowsDatabase
  BY DEF SInv, AgreeOK, MemoryFollowsDatabase, Quiet
<1> QED
  BY <1>1, <1>2, <1>3, PTL DEF Spec

\* What may append a row: a handler that has locked the last one.
LEMMA StoreAlternates ==
    ASSUME Single, TInv, SInv, [Next]_vars, Len(rows') > Len(rows)
    PROVE  Stored' # Stored
<1>0. TypeOK /\ Len(rows) \in Nat
  BY DEF TInv, TypeOK
<1>1. ASSUME NEW c \in Calls, call[c].pc = "locked", rows' = Append(rows, call[c].to)
      PROVE  Stored' # Stored
  <2>1. Stored # call[c].to
    BY <1>1 DEF SInv, SnapOK
  <2>2. call[c].to \in BOOLEAN /\ rows \in Seq(BOOLEAN)
    BY <1>0 DEF TypeOK, Call
  <2>3. Stored' = call[c].to
    BY <1>1, <2>2, StoredAppend DEF Stored
  <2> QED
    BY <2>1, <2>3
<1>2. rows' # rows
  BY <1>0
<1>3. ASSUME NEW a \in Clients, NEW to \in BOOLEAN, NEW o \in Orchestrators, Request(a, to, o)
      PROVE  FALSE
  BY <1>2, <1>3 DEF Request
<1>4. ASSUME NEW a \in Clients, Retry(a) \/ Answered(a) PROVE FALSE
  BY <1>2, <1>4 DEF Retry, Answered
<1>5. ASSUME NEW c \in Calls, Handler(c) PROVE Stored' # Stored
  <2>1. CASE Enter(c) \/ Select(c) \/ LockRow(c) \/ Broadcast(c) \/ BroadcastFails(c)
    BY <1>2, <2>1 DEF Enter, Select, LockRow, Broadcast, BroadcastFails
  <2>2. CASE Store(c)
    BY <1>1, <2>2 DEF Store, Commit
  <2>3. CASE StoreFails(c)
    BY <1>1, <1>2, <2>3 DEF StoreFails, Commit
  <2> QED
    BY <1>5, <2>1, <2>2, <2>3 DEF Handler
<1>6. ASSUME NEW o \in Orchestrators,
             MakeDecision(o) \/ Initialize(o) \/ InitializeFails(o)
      PROVE  FALSE
  BY <1>2, <1>6 DEF MakeDecision, Tick, Recheck, Publish, Initialize, InitializeFails
<1>7. ASSUME NEW o \in Orchestrators, Crash(o) PROVE Stored' # Stored
  BY <1>1, <1>2, <1>7 DEF Crash
<1>8. ASSUME NEW a \in Agents, HandleControlEvent(a) \/ AgentRestart(a) PROVE FALSE
  BY <1>2, <1>8 DEF HandleControlEvent, AgentRestart
<1>9. CASE UNCHANGED vars
  BY <1>2, <1>9 DEF vars
<1> QED
  BY <1>3, <1>4, <1>5, <1>6, <1>7, <1>8, <1>9 DEF Next

\* With one orchestrator no two rows of orchestrator_state in a row hold the
\* same flag, whatever fails: the mutex and the row lock together make the check
\* of the transition sound.
THEOREM StoredTransitionsAlternate ==
    ASSUME Single
    PROVE  Spec => TransitionsAlternate
<1>1. Init => TInv /\ SInv
  BY InitTypeOK, InitS DEF Init, TInv, WaitsForCall
<1>2. TInv /\ SInv /\ [Next]_vars => (TInv /\ SInv)'
  BY Single, NextTInv, NextS
<1>3. TInv /\ SInv /\ [Next]_vars => [Len(rows') > Len(rows) => Stored' # Stored]_vars
  BY Single, StoreAlternates
<1> QED
  BY <1>1, <1>2, <1>3, PTL DEF Spec, TransitionsAlternate

LEMMA NextAlive == TInv /\ AliveOK /\ [Next]_vars => AliveOK'
<1> SUFFICES ASSUME TInv, AliveOK, [Next]_vars PROVE AliveOK'
  OBVIOUS
<1>0. TypeOK
  BY DEF TInv
<1> DEFINE Busy == Holding \cup {"sent"}
<1>a. ASSUME UNCHANGED <<call, up>> PROVE AliveOK'
  BY <1>a DEF AliveOK
<1>b. ASSUME NEW a \in Clients, NEW to \in BOOLEAN, NEW o \in Orchestrators, NEW n \in Nat,
             Send(a, to, o, n), UNCHANGED up
      PROVE  AliveOK'
  <2>1. PICK c \in Calls : call' = [call EXCEPT ![c] = [Unsent EXCEPT !.to = to, !.at = o,
                                                       !.pc = IF up[o] THEN "sent" ELSE "lost"]]
    BY <1>b DEF Send
  <2>2. call'[c].at = o /\ call'[c].pc = IF up[o] THEN "sent" ELSE "lost"
    BY <1>0, <2>1 DEF TypeOK, Unsent
  <2>3. \A d \in Calls : d # c => call'[d] = call[d]
    BY <1>0, <2>1 DEF TypeOK
  <2> QED
    BY <1>b, <2>2, <2>3 DEF AliveOK, Holding
<1>1. ASSUME NEW a \in Clients, NEW to \in BOOLEAN, NEW o \in Orchestrators, Request(a, to, o)
      PROVE  AliveOK'
  BY <1>b, <1>1 DEF Request, procVars
<1>2. ASSUME NEW a \in Clients, Retry(a) PROVE AliveOK'
  <2>1. client[a].cur \in Calls
    BY <1>2 DEF Retry, TInv, WaitsForCall
  <2>2. /\ client[a].to \in BOOLEAN /\ client[a].tries + 1 \in Nat
        /\ call[client[a].cur].at \in Orchestrators
    BY <1>0, <2>1 DEF TypeOK, Client, Call
  <2> QED
    BY <1>a, <1>b, <1>2, <2>2 DEF Retry, procVars
<1>3. ASSUME NEW a \in Clients, Answered(a) PROVE AliveOK'
  BY <1>a, <1>3 DEF Answered, procVars
<1>4. ASSUME NEW c \in Calls, Handler(c) PROVE AliveOK'
  <2>1. UNCHANGED up /\ call[c].pc \in Busy
    BY <1>4 DEF Handler, Enter, Select, LockRow, Store, StoreFails, Broadcast, BroadcastFails,
                procVars, Holding
  <2>2. call'[c].at = call[c].at /\ \A d \in Calls : d # c => call'[d] = call[d]
    <3>1. CASE Select(c)
      BY <1>0, <3>1 DEF Select, TypeOK, Call
    <3>2. ASSUME NEW pc, Goto(c, pc) PROVE <2>2!:
      BY <1>0, <3>2, StepOfCall
    <3>3. ASSUME NEW what, Answer(c, what) PROVE <2>2!:
      BY <1>0, <3>3, StepOfCall
    <3> QED
      BY <1>4, <3>1, <3>2, <3>3 DEF Handler, Enter, LockRow, Store, StoreFails, Broadcast,
                                    BroadcastFails
  <2> QED
    BY <2>1, <2>2 DEF AliveOK
<1>5. ASSUME NEW o \in Orchestrators, MakeDecision(o) PROVE AliveOK'
  BY <1>a, <1>5 DEF MakeDecision, Tick, Recheck, Publish
<1>6. ASSUME NEW o \in Orchestrators, Crash(o) PROVE AliveOK'
  <2>1. \A c \in Calls : /\ call'[c].at = call[c].at
                         /\ call[c].at = o => call'[c].pc \notin Busy
                         /\ call[c].at # o => call'[c] = call[c]
    BY <1>0, <1>6 DEF Crash, TypeOK, Call, Ended, Holding
  <2>2. \A p \in Orchestrators : p # o => up'[p] = up[p]
    BY <1>0, <1>6 DEF Crash, TypeOK
  <2>3. \A c \in Calls : call[c].at \in Orchestrators
    BY <1>0 DEF TypeOK, Call
  <2> QED
    BY <2>1, <2>2, <2>3 DEF AliveOK
<1>7. ASSUME NEW o \in Orchestrators, Initialize(o) \/ InitializeFails(o) PROVE AliveOK'
  <2>1. call' = call /\ \A p \in Orchestrators : up[p] => up'[p]
    BY <1>0, <1>7 DEF Initialize, InitializeFails, TypeOK
  <2>2. \A c \in Calls : call[c].at \in Orchestrators
    BY <1>0 DEF TypeOK, Call
  <2> QED
    BY <2>1, <2>2 DEF AliveOK
<1>8. ASSUME NEW a \in Agents, HandleControlEvent(a) \/ AgentRestart(a) PROVE AliveOK'
  BY <1>a, <1>8 DEF HandleControlEvent, AgentRestart, procVars
<1>9. CASE UNCHANGED vars
  BY <1>a, <1>9 DEF vars
<1> QED
  BY <1>1, <1>2, <1>3, <1>4, <1>5, <1>6, <1>7, <1>8, <1>9 DEF Next

\* A call is refused by the flag in memory or by the last row, and these agree.
Refusal(d) == call'[d].answer = "refused" /\ call[d].answer = "none"

LEMMA RefusalHonest ==
    ASSUME Single, TInv, SInv, AliveOK, [Next]_vars, NEW d \in Calls, Refusal(d)
    PROVE  paused[call[d].at] = call[d].to \/ torn[call[d].at]
<1>0. TypeOK /\ call \in [Calls -> Call] /\ call'[d] # call[d]
  BY DEF TInv, TypeOK, Refusal
<1> DEFINE Goal == paused[call[d].at] = call[d].to \/ torn[call[d].at]
<1>1. ASSUME NEW a \in Clients, NEW to \in BOOLEAN, NEW o \in Orchestrators, NEW n \in Nat,
             Send(a, to, o, n)
      PROVE  FALSE
  BY <1>0, <1>1 DEF Send, Unsent, Refusal, Call
<1>2. ASSUME NEW a \in Clients, NEW to \in BOOLEAN, NEW o \in Orchestrators, Request(a, to, o)
      PROVE  Goal
  BY <1>1, <1>2 DEF Request
<1>3. ASSUME NEW a \in Clients, Retry(a) PROVE Goal
  <2>1. client[a].cur \in Calls
    BY <1>3 DEF Retry, TInv, WaitsForCall
  <2>2. /\ client[a].to \in BOOLEAN /\ client[a].tries + 1 \in Nat
        /\ call[client[a].cur].at \in Orchestrators
    BY <1>0, <2>1 DEF TypeOK, Client, Call
  <2> QED
    BY <1>0, <1>1, <1>3, <2>2 DEF Retry
<1>4. ASSUME NEW a \in Clients, Answered(a) PROVE Goal
  BY <1>0, <1>4 DEF Answered
<1>5. ASSUME NEW c \in Calls, Handler(c) PROVE Goal
  <2>0. ASSUME NEW pc, Goto(c, pc) PROVE FALSE
    BY <1>0, <2>0 DEF Goto, Refusal, Call
  <2>1. ASSUME NEW what, Answer(c, what) PROVE d = c /\ what = "refused"
    BY <1>0, <2>1 DEF Answer, Refusal, Call
  <2>2. CASE Enter(c)
    BY <2>0, <2>1, <2>2 DEF Enter
  <2>3. CASE Select(c)
    BY <1>0, <2>3 DEF Select, Refusal, Call
  <2>4. CASE LockRow(c)
    <3>1. d = c /\ rows[call[c].snap] = call[c].to /\ call[c].pc = "selected"
      BY <2>0, <2>1, <2>4 DEF LockRow
    <3>2. Stored = call[c].to
      BY <3>1 DEF SInv, SnapOK, Stored, Last
    <3>3. call[c].at \in Orchestrators
      BY <1>0 DEF Call
    <3>4. up[call[c].at]
      BY <3>1 DEF AliveOK, Holding
    <3> QED
      BY <3>1, <3>2, <3>3, <3>4 DEF SInv, AgreeOK
  <2>5. CASE Store(c)
    BY <2>0, <2>5 DEF Store
  <2>6. ASSUME NEW what, Answer(c, what), what # "refused" PROVE FALSE
    BY <2>1, <2>6
  <2>7. CASE StoreFails(c)
    BY <2>6, <2>7 DEF StoreFails
  <2>8. CASE Broadcast(c) \/ BroadcastFails(c)
    BY <2>6, <2>8 DEF Broadcast, BroadcastFails
  <2> QED
    BY <1>5, <2>2, <2>3, <2>4, <2>5, <2>7, <2>8 DEF Handler
<1>6. ASSUME NEW o \in Orchestrators,
             MakeDecision(o) \/ Initialize(o) \/ InitializeFails(o)
      PROVE  Goal
  BY <1>0, <1>6 DEF MakeDecision, Tick, Recheck, Publish, Initialize, InitializeFails
<1>7. ASSUME NEW o \in Orchestrators, Crash(o) PROVE Goal
  BY <1>0, <1>7 DEF Crash, Refusal, Call
<1>8. ASSUME NEW a \in Agents, HandleControlEvent(a) \/ AgentRestart(a) PROVE Goal
  BY <1>0, <1>8 DEF HandleControlEvent, AgentRestart
<1>9. CASE UNCHANGED vars
  BY <1>0, <1>9 DEF vars
<1> QED
  BY <1>2, <1>3, <1>4, <1>5, <1>6, <1>7, <1>8, <1>9 DEF Next

\* With one orchestrator "already paused" is answered only while trading is
\* paused, and "not paused" only while it is not, unless an earlier read or
\* commit ended in an error.
THEOREM RefusalsAreHonest ==
    ASSUME Single
    PROVE  Spec => RefusedOnlyIfSo
<1>1. Init => TInv /\ SInv
  BY InitTypeOK, InitS DEF Init, TInv, WaitsForCall
<1>a. Init => AliveOK
  BY DEF Init, AliveOK, Unsent, Holding
<1>2. TInv /\ SInv /\ AliveOK /\ [Next]_vars => (TInv /\ SInv /\ AliveOK)'
  BY Single, NextTInv, NextS, NextAlive
<1>3. TInv /\ SInv /\ AliveOK /\ [Next]_vars =>
        [\A c \in Calls :
            call'[c].answer = "refused" /\ call[c].answer = "none" =>
                paused[call[c].at] = call[c].to \/ torn[call[c].at]]_vars
  BY Single, RefusalHonest DEF Refusal
<1> QED
  BY <1>1, <1>a, <1>2, <1>3, PTL DEF Spec, RefusedOnlyIfSo

-----------------------------------------------------------------------------
(* The agents.                                                             *)

\* What an agent will hold once it has read its events.
Tip(a) == IF inbox[a] = <<>> THEN agentPaused[a] ELSE Last(inbox[a])

NoneStored == \A c \in Calls : call[c].pc # "stored"

\* A change that is stored and not yet broadcast is in memory.
StoredOK == \A c \in Calls : call[c].pc = "stored" => paused[call[c].at] = call[c].to

\* An agent that missed nothing will hold the flag: the one in memory, or the one
\* a restarted process will read.
TipOK ==
    \A o \in Orchestrators, a \in Agents \ missed :
        /\ up[o] /\ NoneStored => Tip(a) = paused[o]
        /\ ~ up[o] => Tip(a) = Stored

FInv == StoredOK /\ TipOK

LEMMA FKept ==
    ASSUME FInv, UNCHANGED <<paused, up, rows, agentVars>>,
           \A c \in Calls : /\ call'[c].pc = "stored" => call[c].pc = "stored" /\ call'[c] = call[c]
                            /\ call[c].pc = "stored" => call'[c].pc = "stored"
    PROVE  FInv'
<1>1. NoneStored' => NoneStored
  BY DEF NoneStored
<1>2. \A a \in Agents : Tip(a)' = Tip(a)
  BY DEF Tip, agentVars
<1> QED
  BY <1>1, <1>2 DEF FInv, StoredOK, TipOK, Stored, agentVars

\* While a handler runs, none of the others has a change to broadcast.
LEMMA OthersNotStored ==
    ASSUME Single, TypeOK, SInv, NEW c \in Calls, call[c].pc \in Holding
    PROVE  \A d \in Calls : d # c => call[d].pc # "stored"
  BY Alone DEF Holding

LEMMA HandlerF ==
    ASSUME Single, TypeOK, SInv, AliveOK, FInv, NEW c \in Calls, Handler(c)
    PROVE  FInv'
<1> DEFINE o == call[c].at
<1>0. o \in Orchestrators /\ call[c].to \in BOOLEAN /\ call[c] \in Call /\ call \in [Calls -> Call]
  BY DEF TypeOK, Call
<1>a. \A p \in Orchestrators : p = o
  BY <1>0 DEF Single
<1>b. call[c].pc \in Holding \cup {"sent"} /\ up' = up
  BY DEF Handler, Enter, Select, LockRow, Store, StoreFails, Broadcast, BroadcastFails, procVars, Holding
<1>c. up[o]
  BY <1>b DEF AliveOK
<1>1. CASE Enter(c) \/ Select(c) \/ LockRow(c)
  <2>1. UNCHANGED <<paused, up, rows, agentVars>>
    BY <1>1 DEF Enter, Select, LockRow, procVars
  <2>2. call[c].pc # "stored" /\ call'[c].pc # "stored" /\ \A d \in Calls : d # c => call'[d] = call[d]
    <3>1. CASE Select(c)
      BY <1>0, <3>1 DEF Select, Call
    <3>2. ASSUME NEW pc \in {"entered", "locked"}, Goto(c, pc)
          PROVE  call'[c].pc # "stored" /\ \A d \in Calls : d # c => call'[d] = call[d]
      BY <3>2, StepOfCall
    <3>3. ASSUME Answer(c, "refused")
          PROVE  call'[c].pc # "stored" /\ \A d \in Calls : d # c => call'[d] = call[d]
      BY <3>3, StepOfCall
    <3> QED
      BY <1>1, <3>1, <3>2, <3>3 DEF Enter, LockRow
  <2> QED
    BY <2>1, <2>2, FKept
<1>2. CASE Store(c)
  <2>1. /\ call'[c].pc = "stored" /\ call'[c].at = o /\ call'[c].to = call[c].to
        /\ \A d \in Calls : d # c => call'[d] = call[d]
    BY <1>2, StepOfCall DEF Store
  <2>2. \A d \in Calls : d # c => call[d].pc # "stored"
    BY <1>2, OthersNotStored DEF Store, Holding
  <2>3. paused'[o] = call[c].to
    BY <1>0, <1>2 DEF Store, Commit, TypeOK
  <2>4. StoredOK'
    BY <2>1, <2>2, <2>3 DEF StoredOK
  <2>5. TipOK'
    BY <1>a, <1>b, <1>c, <2>1 DEF TipOK, NoneStored
  <2> QED
    BY <2>4, <2>5 DEF FInv
<1>3. CASE StoreFails(c)
  <2>1. PICK stored \in BOOLEAN :
          /\ Commit(c, stored, FALSE) /\ Answer(c, "error")
          /\ missed' = IF stored THEN Agents ELSE missed
    BY <1>3 DEF StoreFails
  <2>2. call'[c].pc = "done" /\ \A d \in Calls : d # c => call'[d] = call[d]
    BY <2>1, StepOfCall
  <2>3. paused' = paused
    BY <2>1 DEF Commit
  <2>4. \A d \in Calls : call[d].pc # "stored"
    BY <1>3, OthersNotStored DEF StoreFails, Holding
  <2>5. StoredOK'
    BY <2>2, <2>4 DEF StoredOK
  <2>6. \A a \in Agents : Tip(a)' = Tip(a)
    BY <1>3 DEF StoreFails, Tip
  <2>7. TipOK'
    BY <1>a, <1>b, <1>c, <2>1, <2>3, <2>4, <2>6 DEF FInv, TipOK, NoneStored
  <2> QED
    BY <2>5, <2>7 DEF FInv
<1>4. CASE Broadcast(c) \/ BroadcastFails(c)
  <2>1. Answer(c, "ok") /\ call[c].pc = "stored" /\ paused' = paused
    BY <1>4 DEF Broadcast, BroadcastFails
  <2>2. call'[c].pc = "done" /\ \A d \in Calls : d # c => call'[d] = call[d]
    BY <2>1, StepOfCall
  <2>3. \A d \in Calls : d # c => call[d].pc # "stored"
    BY <2>1, OthersNotStored DEF Holding
  <2>4. StoredOK'
    BY <2>2, <2>3 DEF StoredOK
  <2>5. paused[o] = call[c].to
    BY <2>1 DEF FInv, StoredOK
  <2>6. CASE Broadcast(c)
    <3>1. ASSUME NEW a \in Agents PROVE Tip(a)' = call[c].to
      <4>1. inbox[a] \in Seq(BOOLEAN) /\ inbox'[a] = Append(inbox[a], call[c].to)
        BY <2>6, <3>1 DEF Broadcast, TypeOK
      <4>2. inbox'[a] # <<>> /\ Last(inbox'[a]) = call[c].to
        BY <1>0, <4>1, StoredAppend
      <4> QED
        BY <4>2 DEF Tip
    <3> QED
      BY <1>a, <1>b, <1>c, <2>1, <2>4, <2>5, <3>1 DEF FInv, TipOK
  <2>7. CASE BroadcastFails(c)
    BY <2>4, <2>7 DEF FInv, TipOK, BroadcastFails
  <2> QED
    BY <1>4, <2>6, <2>7
<1> QED
  BY <1>1, <1>2, <1>3, <1>4 DEF Handler

LEMMA CrashF ==
    ASSUME Single, TypeOK, SInv, AliveOK, FInv, NEW o \in Orchestrators, Crash(o)
    PROVE  FInv'
<1>1. \A c \in Calls : call[c].at = o /\ call[c] \in Call
  BY DEF Single, TypeOK, Call
<1>2. \A c \in Calls : call'[c].pc # "stored"
  BY <1>1 DEF Crash, Call, Ended
<1>3. \A p \in Orchestrators : p = o /\ ~ up'[p] /\ up[p]
  BY DEF Crash, Single, TypeOK
<1>4. ASSUME NEW a \in Agents \ missed' PROVE Tip(a)' = Stored'
  <2>1. ~ torn[o] /\ (\A c \in Calls : call[c].pc \notin {"locked", "stored"}) /\ a \notin missed
    BY <1>1, <1>4 DEF Crash, Ended
  <2>2. rows' = rows
    BY <2>1 DEF Crash
  <2>3. Tip(a) = paused[o]
    BY <1>3, <2>1 DEF FInv, TipOK, NoneStored
  <2>4. paused[o] = Stored
    BY <1>3, <2>1 DEF SInv, AgreeOK
  <2>5. Tip(a)' = Tip(a)
    BY DEF Crash, Tip
  <2> QED
    BY <2>2, <2>3, <2>4, <2>5 DEF Stored
<1> QED
  BY <1>2, <1>3, <1>4 DEF FInv, StoredOK, TipOK

\* A process that starts holds what it read, or nobody knows what it holds.
LEMMA StartF ==
    ASSUME Single, TypeOK, AliveOK, FInv, NEW o \in Orchestrators,
           Initialize(o) \/ InitializeFails(o)
    PROVE  FInv'
<1>1. ~ up[o] /\ call' = call /\ rows' = rows /\ inbox' = inbox /\ agentPaused' = agentPaused
  BY DEF Initialize, InitializeFails, agentVars
<1>2. \A c \in Calls : call[c].at = o
  BY DEF Single, TypeOK, Call
<1>3. \A c \in Calls : call[c].pc # "stored"
  BY <1>1, <1>2 DEF AliveOK, Holding
<1>4. \A a \in Agents : Tip(a)' = Tip(a)
  BY <1>1 DEF Tip
<1>5. CASE Initialize(o)
  <2>1. paused'[o] = Stored /\ up'[o] /\ missed' = missed
    BY <1>5 DEF Initialize, TypeOK, agentVars
  <2> QED
    BY <1>1, <1>3, <1>4, <2>1 DEF FInv, StoredOK, TipOK, Single
<1>6. CASE InitializeFails(o)
  BY <1>1, <1>3, <1>6 DEF InitializeFails, FInv, StoredOK, TipOK
<1> QED
  BY <1>5, <1>6

\* Reading the only event there is, and reading one of several.
LEMMA ReadOne ==
    ASSUME NEW S, NEW s \in Seq(S), Len(s) = 1
    PROVE  Tail(s) = <<>> /\ Head(s) = Last(s)
<1>1. s # <<>>
  BY EmptySeq
<1>2. Tail(s) \in Seq(S) /\ Len(Tail(s)) = 0
  BY <1>1, HeadTailProperties
<1>3. Tail(s) = <<>>
  BY <1>2, EmptySeq
<1>4. Head(s) = Last(s)
  BY <1>1 DEF Last
<1> QED
  BY <1>3, <1>4

LEMMA ReadMore ==
    ASSUME NEW S, NEW s \in Seq(S), s # <<>>, Len(s) # 1
    PROVE  Tail(s) # <<>> /\ Last(Tail(s)) = Last(s)
<1>1. Len(s) \in Nat /\ Len(s) > 1
  BY EmptySeq
<1>2. Len(Tail(s)) = Len(s) - 1 /\ Tail(s) \in Seq(S)
  BY HeadTailProperties
<1>3. Tail(s) # <<>>
  <2>1. Len(<<>>) = 0
    OBVIOUS
  <2>2. Len(Tail(s)) # 0
    BY <1>1, <1>2
  <2> QED
    BY <2>1, <2>2, Zenon
<1>4. Len(s) - 1 \in 1 .. Len(Tail(s)) /\ (Len(s) - 1) + 1 = Len(s)
  BY <1>1, <1>2
<1>5. Tail(s)[Len(s) - 1] = s[(Len(s) - 1) + 1]
  BY <1>4, HeadTailProperties
<1> QED
  BY <1>2, <1>3, <1>4, <1>5 DEF Last

LEMMA AgentF ==
    ASSUME TypeOK, FInv, NEW b \in Agents, HandleControlEvent(b) \/ AgentRestart(b)
    PROVE  FInv'
<1>0. UNCHANGED <<up, paused, rows, call>>
  BY DEF HandleControlEvent, AgentRestart, procVars
<1>1. StoredOK'
  BY <1>0 DEF FInv, StoredOK
<1>2. \A a \in Agents : a # b => Tip(a)' = Tip(a)
  BY DEF HandleControlEvent, AgentRestart, Tip, TypeOK
<1>3. CASE HandleControlEvent(b)
  <2>1. /\ inbox[b] \in Seq(BOOLEAN) /\ inbox[b] # <<>> /\ missed' = missed
        /\ agentPaused'[b] = Head(inbox[b]) /\ inbox'[b] = Tail(inbox[b])
    BY <1>3 DEF HandleControlEvent, TypeOK
  <2>2. Tip(b)' = Tip(b)
    <3>1. CASE Len(inbox[b]) = 1
      BY <2>1, <3>1, ReadOne DEF Tip
    <3>2. CASE Len(inbox[b]) # 1
      BY <2>1, <3>2, ReadMore DEF Tip
    <3> QED
      BY <3>1, <3>2
  <2> QED
    BY <1>0, <1>1, <1>2, <2>1, <2>2 DEF FInv, TipOK, NoneStored, Stored
<1>4. CASE AgentRestart(b)
  <2>1. Tip(b)' = FALSE
    BY <1>4 DEF AgentRestart, Tip, TypeOK
  <2>2. b \notin missed' => \A o \in Orchestrators : paused[o] = FALSE /\ up[o]
    BY <1>4 DEF AgentRestart, TypeOK
  <2>3. \A a \in Agents \ missed' : a # b => a \notin missed
    BY <1>4 DEF AgentRestart
  <2> QED
    BY <1>0, <1>1, <1>2, <2>1, <2>2, <2>3 DEF FInv, TipOK, NoneStored, Stored
<1> QED
  BY <1>3, <1>4

LEMMA NextF == Single /\ TInv /\ SInv /\ AliveOK /\ FInv /\ [Next]_vars => FInv'
<1> SUFFICES ASSUME Single, TInv, SInv, AliveOK, FInv, [Next]_vars PROVE FInv'
  OBVIOUS
<1>0. TypeOK
  BY DEF TInv
<1>a. ASSUME NEW a \in Clients, NEW to \in BOOLEAN, NEW o \in Orchestrators, NEW n \in Nat,
             Send(a, to, o, n), UNCHANGED <<paused, up, rows, agentVars>>
      PROVE  FInv'
  <2>1. PICK c \in Calls : /\ call[c].pc = "unused"
                           /\ call' = [call EXCEPT ![c] = [Unsent EXCEPT !.to = to, !.at = o,
                                                       !.pc = IF up[o] THEN "sent" ELSE "lost"]]
    BY <1>a DEF Send
  <2>2. call'[c].pc \in {"sent", "lost"} /\ \A d \in Calls : d # c => call'[d] = call[d]
    BY <1>0, <2>1 DEF TypeOK, Unsent
  <2> QED
    BY <1>a, <2>1, <2>2, FKept
<1>1. ASSUME NEW a \in Clients, NEW to \in BOOLEAN, NEW o \in Orchestrators, Request(a, to, o)
      PROVE  FInv'
  BY <1>a, <1>1 DEF Request, procVars
<1>2. ASSUME NEW a \in Clients, Retry(a) PROVE FInv'
  <2>1. client[a].cur \in Calls
    BY <1>2 DEF Retry, TInv, WaitsForCall
  <2>2. /\ client[a].to \in BOOLEAN /\ client[a].tries + 1 \in Nat
        /\ call[client[a].cur].at \in Orchestrators
    BY <1>0, <2>1 DEF TypeOK, Client, Call
  <2>3. CASE client[a].tries < MaxTries
    BY <1>a, <1>2, <2>2, <2>3 DEF Retry, procVars
  <2>4. CASE ~ (client[a].tries < MaxTries)
    BY <1>2, <2>4, FKept DEF Retry, procVars
  <2> QED
    BY <2>3, <2>4
<1>3. ASSUME NEW a \in Clients, Answered(a) PROVE FInv'
  BY <1>3, FKept DEF Answered, procVars
<1>4. ASSUME NEW c \in Calls, Handler(c) PROVE FInv'
  BY <1>0, <1>4, HandlerF
<1>5. ASSUME NEW o \in Orchestrators, MakeDecision(o) PROVE FInv'
  BY <1>5, FKept DEF MakeDecision, Tick, Recheck, Publish
<1>6. ASSUME NEW o \in Orchestrators, Crash(o) PROVE FInv'
  BY <1>0, <1>6, CrashF
<1>7. ASSUME NEW o \in Orchestrators, Initialize(o) \/ InitializeFails(o) PROVE FInv'
  BY <1>0, <1>7, StartF
<1>8. ASSUME NEW a \in Agents, HandleControlEvent(a) \/ AgentRestart(a) PROVE FInv'
  BY <1>0, <1>8, AgentF
<1>9. CASE UNCHANGED vars
  BY <1>9, FKept DEF vars, agentVars
<1> QED
  BY <1>1, <1>2, <1>3, <1>4, <1>5, <1>6, <1>7, <1>8, <1>9 DEF Next

LEMMA InitF == Init => FInv
<1> SUFFICES ASSUME Init PROVE FInv
  OBVIOUS
<1>1. \A c \in Calls : call[c].pc = "unused"
  BY DEF Init, Unsent
<1>2. Stored = FALSE
  BY DEF Init, Stored, Last
<1>3. \A o \in Orchestrators : paused[o] = FALSE
  BY DEF Init
<1>4. \A a \in Agents : Tip(a) = FALSE
  BY DEF Init, Tip
<1> QED
  BY <1>1, <1>2, <1>3, <1>4 DEF FInv, StoredOK, TipOK

\* With one orchestrator an agent that every event reached holds the flag once it
\* has read its events, whatever was retried, failed or restarted before.
THEOREM AgentsFollowTheFlag ==
    ASSUME Single
    PROVE  Spec => []AgentsFollow
<1>1. Init => TInv /\ SInv /\ FInv
  BY InitTypeOK, InitS, InitF DEF Init, TInv, WaitsForCall
<1>a. Init => AliveOK
  BY DEF Init, AliveOK, Unsent, Holding
<1>2. TInv /\ SInv /\ AliveOK /\ FInv /\ [Next]_vars => (TInv /\ SInv /\ AliveOK /\ FInv)'
  BY Single, NextTInv, NextS, NextAlive, NextF
<1>3. FInv => AgentsFollow
  BY DEF FInv, TipOK, Tip, NoneStored, AgentsFollow, Quiet
<1> QED
  BY <1>1, <1>a, <1>2, <1>3, PTL DEF Spec

=============================================================================
