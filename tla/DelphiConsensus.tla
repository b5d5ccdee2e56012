---------------------------- MODULE DelphiConsensus ----------------------------
(***************************************************************************)
(* The Delphi sessions of the orchestrator's ConsensusManager              *)
(* (internal/orchestrator/consensus.go).  A session asks its participants  *)
(* the same question in rounds; a round ends when all of them responded or *)
(* its timeout handler fires; the session ends when a round converges, the *)
(* rounds are used up, or too few responded.                               *)
(*                                                                         *)
(* SubmitDelphiResponse, the body of a timeout handler and                 *)
(* CleanupExpiredSessions run under cm.mu and are one step each;           *)
(* StartDelphiConsensus takes the mutex twice and starts the first round   *)
(* without it.  Timers have no clock here: an armed timer may fire at any  *)
(* time, and a session may reach its TTL at any time after it was started. *)
(***************************************************************************)
EXTENDS Integers, Sequences, FiniteSets, FiniteSetsExt

CONSTANTS
    Sessions,              \* calls of StartDelphiConsensus
    Agents,
    Participants,          \* the agents each session asks, without repetition
    Values,                \* numbers an agent may answer
    MinParticipants, MaxParticipants, MaxRounds,
    MaxActiveSessions, MaxConcurrentTimeouts

ASSUME SessionAssumption ==
    /\ IsFiniteSet(Agents)
    /\ Participants \in [Sessions -> SUBSET Agents]
    /\ Values \subseteq Int

ASSUME LimitAssumption ==
    /\ MinParticipants \in Nat
    /\ MaxParticipants \in Nat
    /\ MaxRounds \in Nat \ {0}
    /\ MaxActiveSessions \in Nat
    /\ MaxConcurrentTimeouts \in Nat

VARIABLES
    call,        \* how far each StartDelphiConsensus has come
    sessions,    \* cm.sessions: the sessions in the map
    session,     \* the session objects
    expired,     \* sessions past their ExpiresAt
    handlers,    \* the roundTimeoutHandlers; a given-up one stays as history
    requests,    \* the consensus_request messages sent
    posted       \* results posted on the blackboard, by session

delphi_vars == <<call, sessions, session, expired, handlers, requests, posted>>

-----------------------------------------------------------------------------
(* Data.                                                                   *)

\* asked is history: the round whose question the agent answers.
Response == [value : Values, asked : Nat]
NoResponse == [asked |-> 0]
Round == [responses : [Agents -> Response \cup {NoResponse}], completed : BOOLEAN]
NewRound == [responses |-> [a \in Agents |-> NoResponse], completed |-> FALSE]

Status == {"none", "pending", "active", "converged", "failed", "expired"}
Session == [status : Status, rounds : Seq(Round)]
Handler == [session : Sessions, round : Nat \ {0}, at : {"queued", "timing", "gone"}]
Request == [session : Sessions, round : Nat, agent : Agents]

Responded(round) == {a \in Agents : round.responses[a] # NoResponse}

\* calculateStatistics: 1 - stdDev / |mean| >= 0.80, squared and multiplied out.
\* The session's ConvergenceThreshold is read by no code.
Converges(round) ==
    LET R == Responded(round)
        n == Cardinality(R)
        value(a) == round.responses[a].value
        sum == MapThenSumSet(value, R)
        squares == MapThenSumSet(LAMBDA a : value(a) * value(a), R)
    IN  n > 0 /\ 25 * (n * squares - sum * sum) <= sum * sum

DelphiTypeOK ==
    /\ call \in [Sessions -> {"idle", "checked", "inserted", "opened", "done", "refused"}]
    /\ sessions \subseteq Sessions
    /\ session \in [Sessions -> Session]
    /\ expired \subseteq Sessions
    /\ handlers \subseteq Handler
    /\ requests \subseteq Request
    /\ posted \in [Sessions -> Nat]

DelphiInit ==
    /\ call = [s \in Sessions |-> "idle"]
    /\ sessions = {}
    /\ session = [s \in Sessions |-> [status |-> "none", rounds |-> <<>>]]
    /\ expired = {}
    /\ handlers = {}
    /\ requests = {}
    /\ posted = [s \in Sessions |-> 0]

-----------------------------------------------------------------------------
(* Rounds.                                                                 *)

Queued(s, n) == [session |-> s, round |-> n, at |-> "queued"]

\* Appends a round to object ss of session s and asks the participants.  A lost
\* message is a participant that does not answer.
OpenRound(s, ss) ==
    LET n == Len(ss.rounds) + 1 IN
    /\ session' = [session EXCEPT ![s] =
                     [status |-> "active", rounds |-> Append(ss.rounds, NewRound)]]
    /\ requests' = requests \cup [session : {s}, round : {n}, agent : Participants[s]]

StartDelphiRoundUntimed(s, ss, rest) ==
    /\ OpenRound(s, ss)
    /\ handlers' = rest
    /\ UNCHANGED posted

\* startDelphiRound as called under the mutex, with its timeout handler.
StartDelphiRound(s, ss, rest) ==
    /\ OpenRound(s, ss)
    /\ handlers' = rest \cup {Queued(s, Len(ss.rounds) + 1)}
    /\ UNCHANGED posted

\* The result stays in the session object; a Post that fails is only logged.
FinalizeDelphiConsensus(s, ss, rest) ==
    /\ session' = [session EXCEPT ![s] = [ss EXCEPT !.status = "converged"]]
    /\ \E results \in {posted[s], posted[s] + 1} : posted' = [posted EXCEPT ![s] = results]
    /\ handlers' = rest
    /\ UNCHANGED requests

Completed(ss, n) == [ss EXCEPT !.rounds[n].completed = TRUE]

CompleteDelphiRoundLate(s, ss, n, rest) ==
    LET done == Completed(ss, n)
        last == Converges(done.rounds[n]) \/ n > MaxRounds
    IN  \/ last /\ FinalizeDelphiConsensus(s, done, rest)
        \/ ~last /\ StartDelphiRound(s, done, rest)

\* Round n of ss ends; rest are the handlers that keep running.
CompleteDelphiRound(s, ss, n, rest) ==
    LET done == Completed(ss, n)
        last == Converges(done.rounds[n]) \/ n >= MaxRounds
    IN  \/ last /\ FinalizeDelphiConsensus(s, done, rest)
        \/ ~last /\ StartDelphiRound(s, done, rest)

-----------------------------------------------------------------------------
(* StartDelphiConsensus.                                                   *)

\* countActiveSessions: ended sessions count until their TTL.
Counted == {s \in sessions : session[s].status \notin {"failed", "expired"}
                             /\ s \notin expired}

\* The limits, read under a read lock that is released before the insertion.
StartCheck(s) ==
    /\ call[s] = "idle"
    /\ call' = [call EXCEPT ![s] =
                  IF Cardinality(Counted) < MaxActiveSessions
                     /\ Cardinality(Participants[s]) \in MinParticipants .. MaxParticipants
                  THEN "checked" ELSE "refused"]
    /\ UNCHANGED <<sessions, session, expired, handlers, requests, posted>>

StartInsert(s) ==
    /\ call[s] = "checked"
    /\ call' = [call EXCEPT ![s] = "inserted"]
    /\ sessions' = sessions \cup {s}
    /\ session' = [session EXCEPT ![s].status = "pending"]
    /\ UNCHANGED <<expired, handlers, requests, posted>>

\* The first round, without the mutex: participants may answer before the
\* timeout handler is started.
StartFirstRound(s) ==
    /\ call[s] = "inserted"
    /\ call' = [call EXCEPT ![s] = "opened"]
    /\ OpenRound(s, session[s])
    /\ UNCHANGED <<sessions, expired, handlers, posted>>

StartFirstTimeout(s) ==
    /\ call[s] = "opened"
    /\ call' = [call EXCEPT ![s] = "done"]
    /\ handlers' = handlers \cup {Queued(s, 1)}
    /\ UNCHANGED <<sessions, session, expired, requests, posted>>

-----------------------------------------------------------------------------
(* Responses, timeouts, expiry.                                            *)

\* Mutant: the first round takes the responses of all.
WithFirstResponse(ss, n, a, response) == [ss EXCEPT !.rounds[1].responses[a] = response]

WithResponse(ss, n, a, response) == [ss EXCEPT !.rounds[n].responses[a] = response]

\* The response goes to the round that is current when it arrives: nothing in
\* the call says which round r it answers.  An agent may answer again.
SubmitDelphiResponse(s, a, v, r) ==
    /\ s \in sessions
    /\ session[s].status = "active"
    /\ a \in Participants[s]
    /\ LET n == Len(session[s].rounds)
           ss == WithResponse(session[s], n, a, [value |-> v, asked |-> r])
       IN  IF Cardinality(Responded(ss.rounds[n])) = Cardinality(Participants[s])
           THEN CompleteDelphiRound(s, ss, n, handlers)
           ELSE /\ session' = [session EXCEPT ![s] = ss]
                /\ UNCHANGED <<handlers, requests, posted>>
    /\ UNCHANGED <<call, sessions, expired>>

Answer ==
    \E q \in requests, v \in Values : SubmitDelphiResponse(q.session, q.agent, v, q.round)

\* The semaphore of MaxConcurrentTimeouts: a handler's timer starts only then.
AcquireTimeout(h) ==
    /\ h.at = "queued"
    /\ Cardinality({k \in handlers : k.at = "timing"}) < MaxConcurrentTimeouts
    /\ handlers' = (handlers \ {h}) \cup {[h EXCEPT !.at = "timing"]}
    /\ UNCHANGED <<call, sessions, session, expired, requests, posted>>

\* The early returns of a handler whose timer fired.
Stale(h) ==
    \/ h.session \notin sessions
    \/ session[h.session].status # "active"
    \/ Len(session[h.session].rounds) < h.round
    \/ session[h.session].rounds[h.round].completed

TimedOut(s) == [session EXCEPT ![s].status = "timeout"]

\* Too few responses when the timer fires.
Failed(s) == [session EXCEPT ![s].status = "failed"]

RoundTimeoutWithAny(h) ==
    /\ h.at = "timing"
    /\ LET s == h.session
           rest == handlers \ {h}
       IN  IF Stale(h)
           THEN handlers' = rest /\ UNCHANGED <<session, requests, posted>>
           ELSE CompleteDelphiRound(s, session[s], h.round, rest)
    /\ UNCHANGED <<call, sessions, expired>>

RoundTimeout(h) ==
    /\ h.at = "timing"
    /\ LET s == h.session
           rest == handlers \ {h}
           enough == Cardinality(Responded(session[s].rounds[h.round])) >= MinParticipants
       IN  \/ /\ Stale(h)
              /\ handlers' = rest
              /\ UNCHANGED <<session, requests, posted>>
           \/ ~Stale(h) /\ enough /\ CompleteDelphiRound(s, session[s], h.round, rest)
           \/ /\ ~Stale(h) /\ ~enough
              /\ session' = Failed(s)
              /\ handlers' = rest
              /\ UNCHANGED <<requests, posted>>
    /\ UNCHANGED <<call, sessions, expired>>

\* The context a handler was given ends: that of the call which started its round.
CallerCancelled(h) ==
    /\ h.at # "gone"
    /\ handlers' = (handlers \ {h}) \cup {[h EXCEPT !.at = "gone"]}
    /\ UNCHANGED <<call, sessions, session, expired, requests, posted>>

\* Assumption: SessionTTL is longer than the call that starts the session.
Expire(s) ==
    /\ call[s] = "done"
    /\ s \notin expired
    /\ expired' = expired \cup {s}
    /\ UNCHANGED <<call, sessions, session, handlers, requests, posted>>

CleanupExpiredSessions ==
    /\ sessions \cap expired # {}
    /\ session' = [s \in Sessions |->
                     IF s \in sessions \cap expired
                        /\ session[s].status \in {"active", "pending"}
                     THEN [session[s] EXCEPT !.status = "expired"] ELSE session[s]]
    /\ sessions' = sessions \ expired
    /\ UNCHANGED <<call, expired, handlers, requests, posted>>

-----------------------------------------------------------------------------
Start(s) == StartCheck(s) \/ StartInsert(s) \/ StartFirstRound(s) \/ StartFirstTimeout(s)

DelphiNext ==
    \/ \E s \in Sessions : Start(s) \/ Expire(s)
    \/ Answer
    \/ \E h \in handlers : AcquireTimeout(h) \/ RoundTimeout(h) \/ CallerCancelled(h)
    \/ CleanupExpiredSessions

\* The runtime runs every goroutine and fires every armed timer.  Participants
\* owe no answer, nobody has to call CleanupExpiredSessions.
Fairness ==
    /\ \A s \in Sessions : WF_delphi_vars(Start(s))
    /\ WF_delphi_vars(\E h \in handlers : AcquireTimeout(h))
    /\ WF_delphi_vars(\E h \in handlers : RoundTimeout(h))

DelphiSpec == DelphiInit /\ [][DelphiNext]_delphi_vars
DelphiFairSpec == DelphiSpec /\ Fairness

-----------------------------------------------------------------------------
(* Properties.                                                             *)

LastRound(s) == session[s].rounds[Len(session[s].rounds)]

\* Rounds follow each other: at most MaxRounds, all but the last completed, and
\* the last one open while the session is active.  Responses and timers
\* of earlier rounds, which compete to end a round, never open a second one.
RoundsInOrder ==
    \A s \in Sessions :
        LET rounds == session[s].rounds IN
        /\ Len(rounds) <= MaxRounds
        /\ \A i \in 1 .. Len(rounds) - 1 : rounds[i].completed
        /\ session[s].status = "active" => Len(rounds) > 0 /\ ~LastRound(s).completed

\* At most one result is posted for a session, only when it converged, and it
\* rests on the responses of enough participants.  A session whose result could
\* not be posted has converged all the same (finalizeDelphiConsensus).
OneResult ==
    \A s \in Sessions :
        /\ posted[s] <= (IF session[s].status = "converged" THEN 1 ELSE 0)
        /\ session[s].status = "converged" =>
              /\ Len(session[s].rounds) > 0
              /\ LastRound(s).completed
              /\ Cardinality(Responded(LastRound(s))) >= MinParticipants

\* What was decided stays: a completed round never changes, also when responses
\* and timers of that round arrive afterwards.
CompletedRoundsAreFinal ==
    [][\A s \in Sessions : \A i \in 1 .. Len(session[s].rounds) :
          session[s].rounds[i].completed =>
             /\ i <= Len(session'[s].rounds)
             /\ session'[s].rounds[i] = session[s].rounds[i]]_delphi_vars

\* A session ends although no participant has to answer, also when more
\* handlers wait than the semaphore admits - unless the call that opened its
\* current round ended first and took the round's timeout handler with it.
SessionsEnd ==
    \A s \in Sessions :
        session[s].status = "active" ~>
            \/ session[s].status # "active"
            \/ \E h \in handlers : h.session = s /\ h.round = Len(session[s].rounds) /\ h.at = "gone"

=============================================================================
