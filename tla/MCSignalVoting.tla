---------------------------- MODULE MCSignalVoting ----------------------------
(* The voting with agents named after their types. *)
EXTENDS SignalVoting, TLC

OwnType == [a \in Agents |-> a]
\* The risk agent sends its own heartbeats, the others use HeartbeatPublisher.
OwnStatus == [a \in Agents |-> IF a = "risk" THEN "HEALTHY" ELSE "healthy"]
SaysTrades == [a \in Agents |-> {"BUY", "SELL"}]

=============================================================================
