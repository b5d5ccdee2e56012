-------------------------- MODULE MCDelphiConsensus --------------------------
(* Every session asks all agents. *)
EXTENDS DelphiConsensus, TLC

AskAll == [s \in Sessions |-> Agents]
Symmetries == Permutations(Agents)

=============================================================================
