------------------------------ MODULE ContractNet ------------------------------
(***************************************************************************)
(* The contract net of the orchestrator (internal/orchestrator/            *)
(* consensus.go): a task is announced, bids are collected from a topic of  *)
(* the blackboard (blackboard.go) until a timeout, and the best one gets   *)
(* the contract.  Two goroutines stand between a bid and its collector:    *)
(* the one of the subscription and one that decodes; the collector closes  *)
(* the channel of the latter.                                              *)
(* Scores are in percent: 3 for the cost, 5 for the quality and 2 for the  *)
(* time to the deadline of the task, of 10.                                *)
(***************************************************************************)
EXTENDS Integers, Sequences, SequencesExt, FiniteSets, FiniteSetsExt

CONSTANTS
    Bidders,   \* eligible agents
    Offers,    \* what a bid may offer: [cost, quality, spare], the last two in percent
    TopicCap,  \* capacity of a subscription's channel
    BidCap,    \* capacity of the channel of decoded bids
    None

\* Nothing checks the cost an agent asks for, SubmitBid the quality.
Bid == [agent : Bidders, cost : Int, quality : 0 .. 100, spare : 0 .. 100]
ContractAssumption ==
    /\ Offers \subseteq [cost : Int, quality : 0 .. 100, spare : 0 .. 100]
    /\ None \notin Bid /\ TopicCap \in Nat /\ BidCap \in Nat

VARIABLES
    phase,       \* "announce", "subscribe", "collect", "award", "reject", "done"
    announced,   \* agents that were sent the task, or could not be
    informed,    \* agents that know of it
    bidding,     \* what each agent is doing: "none", "bidding", "bid"
    subscribed,  \* the subscription exists
    topic,       \* its channel
    hand,        \* bid the decoding goroutine is about to send
    decoder,     \* that goroutine: "off", "on", "done"
    bids,        \* the channel of decoded bids
    collected,   \* bids collected
    contract,    \* the bid that was awarded the contract
    rejected,    \* agents told that another one was selected
    late,        \* history: bids posted that were not collected at the timeout
    over,        \* the context is done
    panicked     \* a goroutine sent to the closed channel: the process ends

net == <<phase, announced, informed, bidding, subscribed, topic, hand, decoder, bids, collected, contract,
         rejected, late, over, panicked>>

Range1(s) == {s[i] : i \in DOMAIN s}

ContractInit ==
    /\ phase = "announce" /\ announced = {} /\ informed = {} /\ rejected = {} /\ late = {}
    /\ bidding = [a \in Bidders |-> "none"]
    /\ subscribed = FALSE /\ decoder = "off" /\ over = FALSE /\ panicked = FALSE
    /\ topic = <<>> /\ bids = <<>> /\ collected = <<>> /\ hand = None /\ contract = None

-----------------------------------------------------------------------------
(* StartContractNet.                                                       *)

\* The announcement reaches the agent or fails; the next one is tried.
Announce(a) ==
    /\ ~ panicked /\ phase = "announce" /\ a \notin announced
    /\ announced' = announced \cup {a}
    /\ informed' \in {informed, informed \cup {a}}
    /\ phase' = IF announced' = Bidders THEN "subscribe" ELSE "announce"
    /\ UNCHANGED <<bidding, subscribed, topic, hand, decoder, bids, collected, contract, rejected, late, over, panicked>>

\* collectBids: without a subscription there are no bids.
Subscribe ==
    /\ ~ panicked /\ phase = "subscribe"
    /\ \/ phase' = "collect" /\ subscribed' = TRUE /\ decoder' = "on"
       \/ phase' = "award" /\ UNCHANGED <<subscribed, decoder>>
    /\ UNCHANGED <<announced, informed, bidding, topic, hand, bids, collected, contract, rejected, late, over, panicked>>

Collect ==
    /\ ~ panicked /\ phase = "collect" /\ bids # <<>>
    /\ collected' = Append(collected, Head(bids)) /\ bids' = Tail(bids)
    /\ UNCHANGED <<phase, announced, informed, bidding, subscribed, topic, hand, decoder, contract, rejected, late, over, panicked>>

\* The timer: the channel is closed, and what is in it is collected.
TimerFires ==
    /\ ~ panicked /\ phase = "collect" /\ phase' = "award"
    /\ collected' = collected \o bids /\ bids' = <<>>
    /\ late' = Range1(topic) \cup (IF hand = None THEN {} ELSE {hand})
    /\ UNCHANGED <<announced, informed, bidding, subscribed, topic, hand, decoder, contract, rejected, over, panicked>>

CostScore(bid, all) ==
    LET most == Max({0} \cup {b.cost : b \in all})
    IN  IF most = 0 THEN 100 ELSE 100 - (100 * bid.cost) \div most

Score(bid, all) == 3 * CostScore(bid, all) + 5 * bid.quality + 2 * bid.spare

\* selectBestBid: of bids with one score, any.
BestBids(all) == {b \in all : \A o \in all : Score(o, all) <= Score(b, all)}

\* The contractor is told first: if that fails, nobody hears any more.
Award ==
    /\ ~ panicked /\ phase = "award"
    /\ IF collected = <<>> THEN phase' = "done" /\ UNCHANGED contract
       ELSE \E bid \in BestBids(Range1(collected)) :
               \/ phase' = "reject" /\ contract' = bid
               \/ phase' = "done" /\ UNCHANGED contract
    /\ UNCHANGED <<announced, informed, bidding, subscribed, topic, hand, decoder, bids, collected, rejected, late, over, panicked>>

\* The others are told, each if that works; then the contract is posted.
Reject ==
    /\ ~ panicked /\ phase = "reject" /\ phase' = "done"
    /\ rejected' \in SUBSET ({b.agent : b \in Range1(collected)} \ {contract.agent})
    /\ UNCHANGED <<announced, informed, bidding, subscribed, topic, hand, decoder, bids, collected, contract, late, over, panicked>>

-----------------------------------------------------------------------------
(* Bids on their way.                                                      *)

\* SubmitBid begins.
SubmitBid(a) ==
    /\ ~ panicked /\ a \in informed /\ bidding[a] = "none" /\ bidding' = [bidding EXCEPT ![a] = "bidding"]
    /\ UNCHANGED <<phase, announced, informed, subscribed, topic, hand, decoder, bids, collected, contract, rejected, late, over, panicked>>

\* Post: the message is stored and announced to those who subscribed; storing
\* or announcing it may fail.
Post(a) ==
    /\ ~ panicked /\ bidding[a] = "bidding" /\ bidding' = [bidding EXCEPT ![a] = "bid"]
    /\ \/ UNCHANGED <<topic, late>>
       \/ \E offer \in Offers :
             LET bid == [agent |-> a, cost |-> offer.cost, quality |-> offer.quality, spare |-> offer.spare]
             IN  /\ topic' = IF subscribed /\ ~ over /\ Len(topic) < TopicCap THEN Append(topic, bid) ELSE topic
                 /\ late' = IF phase \in {"award", "reject", "done"} THEN late \cup {bid} ELSE late
    /\ UNCHANGED <<phase, announced, informed, subscribed, hand, decoder, bids, collected, contract, rejected, over, panicked>>

\* The decoding goroutine takes a bid of the subscription.
Decode ==
    /\ ~ panicked /\ decoder = "on" /\ hand = None /\ topic # <<>>
    /\ hand' = Head(topic) /\ topic' = Tail(topic)
    /\ UNCHANGED <<phase, announced, informed, bidding, subscribed, decoder, bids, collected, contract, rejected, late, over, panicked>>

\* It sends the bid: to a closed channel that panics.
Forward ==
    /\ ~ panicked /\ hand # None
    /\ IF phase # "collect" THEN panicked' = TRUE /\ UNCHANGED <<bids, hand>>
       ELSE Len(bids) < BidCap /\ bids' = Append(bids, hand) /\ hand' = None /\ UNCHANGED panicked
    /\ UNCHANGED <<phase, announced, informed, bidding, subscribed, topic, decoder, collected, contract, rejected, late, over>>

ContextDone ==
    /\ ~ panicked /\ ~ over /\ over' = TRUE
    /\ UNCHANGED <<phase, announced, informed, bidding, subscribed, topic, hand, decoder, bids, collected, contract, rejected, late, panicked>>

\* Both goroutines end; a bid in hand is sent first.
DecoderEnds ==
    /\ ~ panicked /\ decoder = "on" /\ over /\ hand = None
    /\ decoder' = "done" /\ topic' = <<>>
    /\ UNCHANGED <<phase, announced, informed, bidding, subscribed, hand, bids, collected, contract, rejected, late, over, panicked>>

ContractNext ==
    \/ \E a \in Bidders : Announce(a) \/ SubmitBid(a) \/ Post(a)
    \/ Subscribe \/ Collect \/ TimerFires \/ Award \/ Reject \/ Decode \/ Forward \/ ContextDone \/ DecoderEnds

\* The orchestrator goes on, and its timer fires; no agent has to bid.
ContractSpec ==
    /\ ContractInit /\ [][ContractNext]_net
    /\ WF_net(\E a \in Bidders : Announce(a)) /\ WF_net(Subscribe) /\ WF_net(TimerFires) /\ WF_net(Award) /\ WF_net(Reject)

-----------------------------------------------------------------------------
(* Properties.                                                             *)

ContractTypeOK ==
    /\ Len(topic) <= TopicCap /\ Len(bids) <= BidCap
    /\ decoder \in {"off", "on", "done"} /\ informed \subseteq announced

\* The contract goes to a bid that none of the bids collected beats in price,
\* quality and time together, and whoever is turned away had bid for it
\* (selectBestBid).
BestBidWins ==
    contract # None =>
        /\ contract \in Range1(collected)
        /\ \A b \in Range1(collected) :
              ~ (b.cost < contract.cost /\ b.quality > contract.quality /\ b.spare > contract.spare)
        /\ rejected \subseteq {b.agent : b \in Range1(collected)} \ {contract.agent}

\* No bid that reached the channel in time is left out, none is counted twice,
\* and the process ends only by a bid that came too late, or was on its way at
\* the timeout (collectBids).
OnlyLateBidsPanic ==
    /\ panicked => late # {}
    /\ phase \in {"award", "reject", "done"} => bids = <<>>
    /\ \A i, j \in DOMAIN collected : i # j => collected[i].agent # collected[j].agent

\* An attempt comes to an end.
ContractsEnd == <>(phase = "done" \/ panicked)
=============================================================================
