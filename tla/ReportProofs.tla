----------------------------- MODULE ReportProofs -----------------------------
(***************************************************************************)
(* What a backtest, a search, a contract net and the jobs keep, for every  *)
(* instance of them: each has its invariant (NInv of the contract net,     *)
(* JInv of the jobs, OInv of the search, BInv of the backtest), and lemmas *)
(* saying that it holds at the beginning, is kept by the steps of its part *)
(* and what it shows.  PlatformProofs puts them together.                  *)
(***************************************************************************)
EXTENDS MCPlatform, TLAPS, FiniteSetTheorems, WellFoundedInduction

-----------------------------------------------------------------------------
(* Data.                                                                   *)

\* A set of natural numbers has a least element.
LEMMA Least ==
    ASSUME NEW N \in SUBSET Nat, N # {}
    PROVE  \E n \in N : \A m \in N : ~ (m < n)
<1>1. \E n \in N : \A m \in N : ~ (<<m, n>> \in OpToRel(<, Nat))
  BY NatLessThanWellFounded, WFMin, Zenon
<1>2. \A m, n \in Nat : <<m, n>> \in OpToRel(<, Nat) <=> m < n
  BY DEF OpToRel
<1> QED
  BY <1>1, <1>2, Zenon

-----------------------------------------------------------------------------
(* The contract net.  A bid is in one place at a time, and so of one agent *)
(* at most; what is posted or in the decoder's hand once the manager has    *)
(* stopped collecting is late, and only such a bid meets a closed channel.  *)

Bid == Net!Bid
AgentsOf(s) == {s[i].agent : i \in DOMAIN s}
Distinct(s) == \A i, j \in DOMAIN s : i # j => s[i].agent # s[j].agent
InHand == IF hand = None THEN {} ELSE {hand.agent}
After == phase \in {"award", "reject", "done"}

NetTyped ==
    /\ phase \in {"announce", "subscribe", "collect", "award", "reject", "done"}
    /\ {topic, bids, collected} \subseteq Seq(Bid) /\ {hand, contract} \subseteq Bid \cup {None}
    /\ bidding \in [Bidders -> {"none", "bidding", "bid"}] /\ late \subseteq Bid
    /\ informed \subseteq Bidders /\ announced \subseteq Bidders /\ rejected \subseteq Bidders
    /\ {subscribed, over, panicked} \subseteq BOOLEAN

\* The bids on their way and those collected are of different agents.
Apart ==
    /\ Distinct(topic) /\ Distinct(bids) /\ Distinct(collected)
    /\ AgentsOf(topic) \cap AgentsOf(bids) = {} /\ AgentsOf(topic) \cap AgentsOf(collected) = {}
    /\ AgentsOf(bids) \cap AgentsOf(collected) = {}
    /\ InHand \cap (AgentsOf(topic) \cup AgentsOf(bids) \cup AgentsOf(collected)) = {}
    /\ \A a \in InHand \cup AgentsOf(topic) \cup AgentsOf(bids) \cup AgentsOf(collected) : bidding[a] = "bid"

LateOK ==
    /\ ~ subscribed => topic = <<>> /\ hand = None /\ bids = <<>>
    /\ phase \in {"announce", "subscribe"} => ~ subscribed /\ collected = <<>>
    /\ After => bids = <<>> /\ Net!Range1(topic) \subseteq late /\ (hand # None => hand \in late)

NInv ==
    /\ NetTyped /\ Apart /\ LateOK
    /\ Net!ContractTypeOK /\ Net!BestBidWins /\ Net!OnlyLateBidsPanic
    /\ contract # None => phase \in {"reject", "done"}
    /\ contract = None => rejected = {} /\ phase # "reject"

\* What a bid at the end adds to a channel.
LEMMA BidsAppend ==
    ASSUME NEW s \in Seq(Bid), NEW b \in Bid
    PROVE  /\ Append(s, b) \in Seq(Bid) /\ Len(Append(s, b)) = Len(s) + 1
           /\ AgentsOf(Append(s, b)) = AgentsOf(s) \cup {b.agent}
           /\ Net!Range1(Append(s, b)) = Net!Range1(s) \cup {b}
           /\ Distinct(s) /\ b.agent \notin AgentsOf(s) => Distinct(Append(s, b))
<1> DEFINE t == Append(s, b)
<1>1. t \in Seq(Bid) /\ Len(t) = Len(s) + 1 /\ Len(s) \in Nat
  OBVIOUS
<1>2. DOMAIN t = DOMAIN s \cup {Len(s) + 1} /\ Len(s) + 1 \notin DOMAIN s
      /\ t[Len(s) + 1] = b /\ \A i \in DOMAIN s : t[i] = s[i]
  OBVIOUS
<1> HIDE DEF t
<1>3. AgentsOf(t) = AgentsOf(s) \cup {b.agent}
  BY <1>2 DEF AgentsOf
<1>4. Net!Range1(t) = Net!Range1(s) \cup {b}
  BY <1>2 DEF Net!Range1
<1>5. Distinct(s) /\ b.agent \notin AgentsOf(s) => Distinct(t)
  BY <1>2 DEF Distinct, AgentsOf
<1> QED
  BY <1>1, <1>3, <1>4, <1>5 DEF t

\* What is left of a channel when its first bid is taken.
LEMMA BidsTail ==
    ASSUME NEW s \in Seq(Bid), s # <<>>
    PROVE  /\ Tail(s) \in Seq(Bid) /\ Len(Tail(s)) = Len(s) - 1 /\ Head(s) \in Bid
           /\ AgentsOf(s) = AgentsOf(Tail(s)) \cup {Head(s).agent}
           /\ Net!Range1(s) = Net!Range1(Tail(s)) \cup {Head(s)}
           /\ Distinct(s) => Distinct(Tail(s)) /\ Head(s).agent \notin AgentsOf(Tail(s))
<1> DEFINE t == Tail(s)
           h == Head(s)
<1>1. t \in Seq(Bid) /\ Len(t) = Len(s) - 1 /\ Len(s) \in Nat /\ Len(s) > 0 /\ h \in Bid /\ h = s[1]
  OBVIOUS
<1>2. DOMAIN t = 1 .. Len(s) - 1 /\ DOMAIN s = 1 .. Len(s) /\ \A i \in DOMAIN t : t[i] = s[i + 1]
  OBVIOUS
<1> HIDE DEF t, h
<1>3. 1 \in DOMAIN s /\ (\A i \in DOMAIN t : i + 1 \in DOMAIN s /\ i + 1 # 1)
      /\ (\A i, j \in DOMAIN t : i # j => i + 1 # j + 1)
      /\ \A i \in DOMAIN s : i = 1 \/ \E j \in DOMAIN t : i = j + 1
  <2>1. \A i \in DOMAIN s : i = 1 \/ (i - 1 \in DOMAIN t /\ i = (i - 1) + 1)
    BY <1>1, <1>2
  <2> QED
    BY <1>1, <1>2, <2>1
<1>4. AgentsOf(s) = AgentsOf(t) \cup {h.agent}
  BY <1>1, <1>2, <1>3 DEF AgentsOf
<1>5. Net!Range1(s) = Net!Range1(t) \cup {h}
  BY <1>1, <1>2, <1>3 DEF Net!Range1
<1>6. Distinct(s) => Distinct(t) /\ h.agent \notin AgentsOf(t)
  BY <1>1, <1>2, <1>3 DEF Distinct, AgentsOf
<1> QED
  BY <1>1, <1>4, <1>5, <1>6 DEF t, h

\* Bids behind bids.
LEMMA BidsConcat ==
    ASSUME NEW s \in Seq(Bid), NEW r \in Seq(Bid)
    PROVE  /\ s \o r \in Seq(Bid)
           /\ AgentsOf(s \o r) = AgentsOf(s) \cup AgentsOf(r)
           /\ Distinct(s) /\ Distinct(r) /\ AgentsOf(s) \cap AgentsOf(r) = {} => Distinct(s \o r)
<1> DEFINE t == s \o r
           n == Len(s)
<1>1. t \in Seq(Bid) /\ n \in Nat /\ Len(r) \in Nat
  OBVIOUS
<1>2. DOMAIN t = 1 .. n + Len(r) /\ DOMAIN s = 1 .. n /\ DOMAIN r = 1 .. Len(r)
      /\ (\A i \in DOMAIN s : t[i] = s[i]) /\ \A i \in DOMAIN r : t[n + i] = r[i]
  OBVIOUS
<1> HIDE DEF t, n
<1>3. (\A i \in DOMAIN t : i \in DOMAIN s \/ \E j \in DOMAIN r : i = n + j)
      /\ (\A i \in DOMAIN s : i \in DOMAIN t) /\ \A j \in DOMAIN r : n + j \in DOMAIN t
  <2>1. \A i \in DOMAIN t : i \in DOMAIN s \/ (i - n \in DOMAIN r /\ i = n + (i - n))
    BY <1>1, <1>2
  <2> QED
    BY <1>1, <1>2, <2>1
<1>4. AgentsOf(t) = AgentsOf(s) \cup AgentsOf(r)
  BY <1>2, <1>3 DEF AgentsOf
<1>5. Distinct(s) /\ Distinct(r) /\ AgentsOf(s) \cap AgentsOf(r) = {} => Distinct(t)
  <2> SUFFICES ASSUME Distinct(s), Distinct(r), AgentsOf(s) \cap AgentsOf(r) = {},
                      NEW i \in DOMAIN t, NEW j \in DOMAIN t, i # j
               PROVE  t[i].agent # t[j].agent
    BY DEF Distinct
  <2>1. \A k \in DOMAIN s : s[k].agent \in AgentsOf(s)
    BY DEF AgentsOf
  <2>2. \A k \in DOMAIN r : r[k].agent \in AgentsOf(r)
    BY DEF AgentsOf
  <2>3. CASE i \in DOMAIN s /\ j \in DOMAIN s
    BY <1>2, <2>3 DEF Distinct
  <2>4. ASSUME NEW k \in DOMAIN r, i = n + k, NEW l \in DOMAIN r, j = n + l PROVE t[i].agent # t[j].agent
    <3>1. t[i] = r[k] /\ t[j] = r[l] /\ k # l
      BY <1>2, <2>4
    <3> QED
      BY <3>1 DEF Distinct
  <2>5. ASSUME NEW k \in DOMAIN s, NEW l \in DOMAIN r PROVE s[k].agent # r[l].agent
    BY <2>1, <2>2
  <2> QED
    BY <1>2, <1>3, <2>3, <2>4, <2>5
<1> QED
  BY <1>1, <1>4, <1>5 DEF t

\* A finite set of integers has a greatest element.
LEMMA Greatest ==
    ASSUME NEW S \in SUBSET Int, IsFiniteSet(S), S # {}
    PROVE  \E x \in S : \A y \in S : x >= y
<1> DEFINE Has(T) == \E x \in T : \A y \in T : x >= y
           Bad == {n \in Nat : \E T \in SUBSET S : T # {} /\ Cardinality(T) = n /\ ~ Has(T)}
<1> SUFFICES ASSUME ~ Has(S) PROVE FALSE
  OBVIOUS
<1>1. Cardinality(S) \in Bad
  BY FS_CardinalityType
<1>2. PICK n \in Bad : \A m \in Bad : ~ (m < n)
  <2>1. Bad \in SUBSET Nat /\ Bad # {}
    BY <1>1
  <2> HIDE DEF Bad
  <2> QED
    BY <2>1, Least
<1>3. PICK T \in SUBSET S : T # {} /\ Cardinality(T) = n /\ ~ Has(T)
  BY <1>2
<1>4. PICK a : a \in T
  BY <1>3
<1>5. Cardinality(T \ {a}) = n - 1 /\ n - 1 \in Nat /\ n - 1 < n
  <2>1. IsFiniteSet(T)
    BY FS_Subset
  <2>2. Cardinality(T \ {a}) = Cardinality(T) - 1 /\ IsFiniteSet(T \ {a})
    BY <1>4, <2>1, FS_RemoveElement
  <2> QED
    BY <1>3, <2>2, FS_CardinalityType
<1>6. T \ {a} # {}
  <2>1. ASSUME T \ {a} = {} PROVE Has(T)
    <3>1. a \in T /\ a \in Int /\ \A y \in T : y = a
      BY <1>4, <2>1
    <3> QED
      BY <3>1
  <2> QED
    BY <1>3, <2>1
<1>7. Has(T \ {a})
  BY <1>2, <1>5, <1>6
<1>8. PICK x \in T \ {a} : \A y \in T \ {a} : x >= y
  BY <1>7
<1>9. T \subseteq Int
  OBVIOUS
<1>10. CASE x >= a
  BY <1>3, <1>4, <1>8, <1>9, <1>10
<1>11. CASE ~ (x >= a)
  <2>1. \A y \in T : a >= y
    BY <1>4, <1>8, <1>9, <1>11
  <2> QED
    BY <1>3, <1>4, <2>1
<1> QED
  BY <1>10, <1>11

\* A function takes finitely many values on a finite set.
LEMMA ImageFinite ==
    ASSUME NEW S, IsFiniteSet(S), NEW f
    PROVE  IsFiniteSet({f[x] : x \in S})
<1> DEFINE T == {f[x] : x \in S}
           g == [x \in S |-> f[x]]
<1>1. g \in Surjection(S, T)
  BY DEF Surjection
<1> QED
  BY <1>1, FS_Surjection

\* The bids of a channel are finitely many.
LEMMA BidsFinite ==
    ASSUME NEW s \in Seq(Bid)
    PROVE  Net!Range1(s) \subseteq Bid /\ IsFiniteSet(Net!Range1(s)) /\ (s # <<>> => Net!Range1(s) # {})
<1>1. DOMAIN s = 1 .. Len(s) /\ Len(s) \in Nat /\ \A i \in 1 .. Len(s) : s[i] \in Bid
  OBVIOUS
<1>2. IsFiniteSet(1 .. Len(s))
  BY <1>1, FS_Interval
<1>3. Net!Range1(s) = {s[i] : i \in 1 .. Len(s)}
  BY <1>1 DEF Net!Range1
<1>4. IsFiniteSet({s[i] : i \in 1 .. Len(s)})
  BY <1>2, ImageFinite
<1>5. s # <<>> => 1 \in 1 .. Len(s)
  OBVIOUS
<1> QED
  BY <1>1, <1>3, <1>4, <1>5

\* Division rounds the greater number to no less.
LEMMA DivMonotone ==
    ASSUME NEW m \in Nat, m > 0, NEW x \in Int, NEW y \in Int, x <= y
    PROVE  x \div m <= y \div m /\ x \div m \in Int /\ y \div m \in Int
OBVIOUS

\* The dearer bid has no better score for its cost.
LEMMA CostCounts ==
    ASSUME NEW R \in SUBSET Bid, IsFiniteSet(R), NEW b \in R, NEW c \in R, b.cost < c.cost
    PROVE  Net!CostScore(c, R) <= Net!CostScore(b, R)
           /\ Net!CostScore(c, R) \in Int /\ Net!CostScore(b, R) \in Int
<1> DEFINE costs == {0} \cup {x.cost : x \in R}
           most == Net!Max(costs)
<1>1. costs \in SUBSET Int /\ 0 \in costs
  BY DEF Bid, Net!Bid
<1>2. IsFiniteSet(costs)
  <2>1. IsFiniteSet({x.cost : x \in R})
    <3> DEFINE f == [x \in R |-> x.cost]
    <3>1. {f[x] : x \in R} = {x.cost : x \in R}
      OBVIOUS
    <3> HIDE DEF f
    <3>2. IsFiniteSet({f[x] : x \in R})
      BY ImageFinite
    <3> QED
      BY <3>1, <3>2
  <2>2. IsFiniteSet({0})
    BY FS_Singleton
  <2> QED
    BY <2>1, <2>2, FS_Union
<1>3. b.cost \in Int /\ c.cost \in Int
  BY DEF Bid, Net!Bid
<1> HIDE DEF costs
<1>4. most \in costs /\ \A y \in costs : most >= y
  BY <1>1, <1>2, Greatest DEF Net!Max
<1>5. most \in Nat
  <2>1. most \in Int /\ most >= 0
    BY <1>1, <1>4
  <2> HIDE DEF most
  <2> QED
    BY <2>1
<1>6. \A x : Net!CostScore(x, R) = IF most = 0 THEN 100 ELSE 100 - (100 * x.cost) \div most
  BY DEF Net!CostScore, costs
<1> HIDE DEF most
<1>7. most # 0 => (100 * b.cost) \div most <= (100 * c.cost) \div most
                  /\ (100 * b.cost) \div most \in Int /\ (100 * c.cost) \div most \in Int
  <2>1. 100 * b.cost \in Int /\ 100 * c.cost \in Int /\ 100 * b.cost <= 100 * c.cost
    BY <1>3
  <2> HIDE DEF Bid
  <2> QED
    BY <1>5, <2>1, DivMonotone
<1> QED
  BY <1>6, <1>7

LEMMA BestIsUnbeaten ==
    ASSUME NEW R \in SUBSET Bid, IsFiniteSet(R), NEW c \in Net!BestBids(R), NEW b \in R,
           b.cost < c.cost, b.quality > c.quality, b.spare > c.spare
    PROVE  FALSE
<1>1. c \in R /\ Net!Score(b, R) <= Net!Score(c, R)
  BY DEF Net!BestBids
<1>2. b.quality \in Int /\ c.quality \in Int /\ b.spare \in Int /\ c.spare \in Int
  BY <1>1 DEF Bid, Net!Bid
<1>3. Net!CostScore(c, R) <= Net!CostScore(b, R) /\ Net!CostScore(c, R) \in Int /\ Net!CostScore(b, R) \in Int
  BY <1>1, CostCounts
<1> QED
  BY <1>1, <1>2, <1>3 DEF Net!Score

LEMMA BidAgents == \A s \in Seq(Bid) : AgentsOf(s) \subseteq Bidders
<1>1. ASSUME NEW s \in Seq(Bid), NEW i \in DOMAIN s PROVE s[i].agent \in Bidders
  <2>1. s[i] \in Bid
    OBVIOUS
  <2> QED
    BY <2>1 DEF Bid, Net!Bid
<1> QED
  BY <1>1 DEF AgentsOf

-----------------------------------------------------------------------------
(* Steps of the contract net.                                              *)

\* Nothing of a bid moves before the timeout.
LEMMA NetQuiet ==
    ASSUME NInv, NetTyped', UNCHANGED <<topic, hand, bids, collected, contract, rejected, late, panicked>>,
           \A a \in Bidders : bidding[a] = "bid" => bidding'[a] = "bid",
           subscribed => subscribed', phase' \in {"announce", "subscribe"} => ~ subscribed',
           \/ phase' = phase
           \/ phase \in {"announce", "subscribe"} /\ phase' \in {"announce", "subscribe", "collect"}
           \/ phase = "subscribe" /\ phase' = "award",
           decoder' \in {"off", "on", "done"}, informed' \subseteq announced'
    PROVE  NInv'
<1>1. Apart'
  <2>1. InHand \cup AgentsOf(topic) \cup AgentsOf(bids) \cup AgentsOf(collected) \subseteq Bidders
    BY BidAgents DEF NInv, NetTyped, InHand, Bid, Net!Bid
  <2>2. InHand' = InHand /\ AgentsOf(topic)' = AgentsOf(topic) /\ AgentsOf(bids)' = AgentsOf(bids)
        /\ AgentsOf(collected)' = AgentsOf(collected) /\ Distinct(topic)' = Distinct(topic)
        /\ Distinct(bids)' = Distinct(bids) /\ Distinct(collected)' = Distinct(collected)
    BY DEF InHand, AgentsOf, Distinct
  <2> QED
    BY <2>1, <2>2 DEF NInv, Apart
<1>2. LateOK'
  <2>1. phase \in {"announce", "subscribe"} => topic = <<>> /\ hand = None /\ collected = <<>>
    BY DEF NInv, LateOK
  <2>2. phase = "subscribe" => Net!Range1(topic) = {} /\ bids = <<>>
    BY <2>1 DEF NInv, LateOK, Net!Range1
  <2> QED
    BY <2>1, <2>2 DEF NInv, LateOK, After
<1>3. Net!ContractTypeOK' /\ Net!BestBidWins'
  BY DEF NInv, Net!ContractTypeOK, Net!BestBidWins, Net!Range1
<1>4. Net!OnlyLateBidsPanic'
  BY <1>2 DEF NInv, LateOK, After, Net!OnlyLateBidsPanic
<1>5. (contract' # None => phase' \in {"reject", "done"}) /\ (contract' = None => rejected' = {} /\ phase' # "reject")
  BY DEF NInv
<1> QED
  BY <1>1, <1>2, <1>3, <1>4, <1>5 DEF NInv

\* The steps of a contract net, one by one.
LEMMA AnnounceKeeps == ASSUME NInv, NEW a \in Bidders, Net!Announce(a) PROVE NInv'
<1>1. NetTyped'
  BY DEF NInv, NetTyped, Net!Announce
<1> QED
  BY <1>1, NetQuiet DEF Net!Announce, NInv, NetTyped, LateOK, Net!ContractTypeOK

LEMMA SubscribeKeeps == ASSUME NInv, Net!Subscribe PROVE NInv'
<1>1. NetTyped'
  BY DEF NInv, NetTyped, Net!Subscribe
<1> QED
  BY <1>1, NetQuiet DEF Net!Subscribe, NInv, NetTyped, LateOK, Net!ContractTypeOK

LEMMA SubmitBidKeeps == ASSUME NInv, NEW a \in Bidders, Net!SubmitBid(a) PROVE NInv'
<1>1. NetTyped'
  BY DEF NInv, NetTyped, Net!SubmitBid
<1> QED
  BY <1>1, NetQuiet DEF Net!SubmitBid, NInv, NetTyped, LateOK, Net!ContractTypeOK

LEMMA ContextDoneOfNetKeeps == ASSUME NInv, Net!ContextDone PROVE NInv'
<1>1. NetTyped'
  BY DEF NInv, NetTyped, Net!ContextDone
<1> QED
  BY <1>1, NetQuiet DEF Net!ContextDone, NInv, NetTyped, LateOK, Net!ContractTypeOK

LEMMA CollectKeeps == ASSUME NInv, Net!Collect PROVE NInv'
<1>1. bids # <<>> /\ bids \in Seq(Bid) /\ collected \in Seq(Bid) /\ phase = "collect" /\ phase' = phase
      /\ collected' = Append(collected, Head(bids)) /\ bids' = Tail(bids)
      /\ UNCHANGED <<announced, informed, bidding, subscribed, topic, hand, decoder, contract, rejected, late, over,
                     panicked>>
  BY DEF Net!Collect, NInv, NetTyped
<1>2. Tail(bids) \in Seq(Bid) /\ Len(Tail(bids)) = Len(bids) - 1 /\ Head(bids) \in Bid
      /\ AgentsOf(bids) = AgentsOf(bids') \cup {Head(bids).agent}
      /\ Distinct(bids') /\ Head(bids).agent \notin AgentsOf(bids')
  BY <1>1, BidsTail DEF NInv, Apart
<1>3. collected' \in Seq(Bid) /\ AgentsOf(collected') = AgentsOf(collected) \cup {Head(bids).agent}
      /\ Distinct(collected')
  BY <1>1, <1>2, BidsAppend DEF NInv, Apart
<1>4. NetTyped'
  BY <1>1, <1>2, <1>3 DEF NInv, NetTyped
<1>5. InHand' = InHand /\ AgentsOf(topic)' = AgentsOf(topic)
      /\ AgentsOf(bids)' = AgentsOf(bids') /\ AgentsOf(collected)' = AgentsOf(collected')
      /\ Distinct(topic)' = Distinct(topic) /\ Distinct(bids)' = Distinct(bids')
      /\ Distinct(collected)' = Distinct(collected')
  BY <1>1 DEF InHand, AgentsOf, Distinct
<1>6. Apart'
  BY <1>1, <1>2, <1>3, <1>5 DEF NInv, Apart
<1>7. contract = None
  BY <1>1 DEF NInv
<1>8. LateOK' /\ Net!BestBidWins'
  BY <1>1, <1>7 DEF NInv, LateOK, After, Net!BestBidWins
<1>9. Net!ContractTypeOK'
  <2>1. Len(bids) \in Nat
    BY <1>1
  <2> QED
    BY <1>1, <1>2, <2>1, PlatformAssumption DEF NInv, Net!ContractTypeOK, Net!ContractAssumption
<1>10. Net!OnlyLateBidsPanic'
  BY <1>1, <1>3 DEF NInv, Net!OnlyLateBidsPanic, Distinct
<1> QED
  BY <1>1, <1>4, <1>6, <1>7, <1>8, <1>9, <1>10 DEF NInv

LEMMA TimerFiresKeeps == ASSUME NInv, Net!TimerFires PROVE NInv'
<1>1. bids \in Seq(Bid) /\ collected \in Seq(Bid) /\ topic \in Seq(Bid) /\ phase = "collect" /\ phase' = "award"
      /\ collected' = collected \o bids /\ bids' = <<>> /\ ~ panicked
      /\ late' = Net!Range1(topic) \cup (IF hand = None THEN {} ELSE {hand})
      /\ UNCHANGED <<announced, informed, bidding, subscribed, topic, hand, decoder, contract, rejected, over,
                     panicked>>
  BY DEF Net!TimerFires, NInv, NetTyped
<1>2. collected' \in Seq(Bid) /\ AgentsOf(collected') = AgentsOf(collected) \cup AgentsOf(bids)
      /\ Distinct(collected')
  BY <1>1, BidsConcat DEF NInv, Apart
<1>3. <<>> \in Seq(Bid) /\ AgentsOf(<<>>) = {} /\ Distinct(<<>>) /\ Len(<<>>) = 0
  BY DEF AgentsOf, Distinct
<1>4. Net!Range1(topic) \subseteq Bid
  BY <1>1, BidsFinite
<1>5. NetTyped'
  BY <1>1, <1>2, <1>3, <1>4 DEF NInv, NetTyped
<1>6. InHand' = InHand /\ AgentsOf(topic)' = AgentsOf(topic)
      /\ AgentsOf(bids)' = AgentsOf(bids') /\ AgentsOf(collected)' = AgentsOf(collected')
      /\ Distinct(topic)' = Distinct(topic) /\ Distinct(bids)' = Distinct(bids')
      /\ Distinct(collected)' = Distinct(collected')
  BY <1>1 DEF InHand, AgentsOf, Distinct
<1>7. Apart'
  BY <1>1, <1>2, <1>3, <1>6 DEF NInv, Apart
<1>8. contract = None
  BY <1>1 DEF NInv
<1>9. LateOK'
  <2>1. Net!Range1(topic)' = Net!Range1(topic)
    BY <1>1 DEF Net!Range1
  <2> QED
    BY <1>1, <2>1 DEF NInv, LateOK, After
<1>10. Net!BestBidWins'
  BY <1>1, <1>8 DEF Net!BestBidWins
<1>11. Net!ContractTypeOK'
  BY <1>1, <1>3, PlatformAssumption DEF NInv, Net!ContractTypeOK, Net!ContractAssumption
<1>12. Net!OnlyLateBidsPanic'
  BY <1>1, <1>2 DEF NInv, Net!OnlyLateBidsPanic, Distinct
<1> QED
  BY <1>1, <1>5, <1>7, <1>8, <1>9, <1>10, <1>11, <1>12 DEF NInv

LEMMA AwardKeeps == ASSUME NInv, Net!Award PROVE NInv'
<1>1. collected \in Seq(Bid) /\ phase = "award" /\ phase' \in {"reject", "done"}
      /\ UNCHANGED <<announced, informed, bidding, subscribed, topic, hand, decoder, bids, collected, rejected, late,
                     over, panicked>>
      /\ contract = None /\ rejected = {}
  BY DEF Net!Award, NInv, NetTyped
<1>2. \/ contract' = None /\ phase' = "done"
      \/ collected # <<>> /\ contract' \in Net!BestBids(Net!Range1(collected))
  BY <1>1 DEF Net!Award
<1>3. Net!Range1(collected) \in SUBSET Bid /\ IsFiniteSet(Net!Range1(collected))
      /\ Net!Range1(collected)' = Net!Range1(collected)
  BY <1>1, BidsFinite DEF Net!Range1
<1>4. contract' # None => contract' \in Net!Range1(collected) /\ contract' \in Bid
  BY <1>2, <1>3 DEF Net!BestBids
<1>5. NetTyped'
  BY <1>1, <1>2, <1>4 DEF NInv, NetTyped
<1>6. Apart'
  <2>1. InHand' = InHand /\ AgentsOf(topic)' = AgentsOf(topic)
        /\ AgentsOf(bids)' = AgentsOf(bids) /\ AgentsOf(collected)' = AgentsOf(collected)
        /\ Distinct(topic)' = Distinct(topic) /\ Distinct(bids)' = Distinct(bids)
        /\ Distinct(collected)' = Distinct(collected)
    BY <1>1 DEF InHand, AgentsOf, Distinct
  <2> QED
    BY <1>1, <2>1 DEF NInv, Apart
<1>7. LateOK' /\ Net!ContractTypeOK' /\ Net!OnlyLateBidsPanic'
  BY <1>1 DEF NInv, LateOK, After, Net!ContractTypeOK, Net!OnlyLateBidsPanic, Net!Range1
<1>8. Net!BestBidWins'
  <2>1. ASSUME contract' # None, NEW b \in Net!Range1(collected)
        PROVE  ~ (b.cost < contract'.cost /\ b.quality > contract'.quality /\ b.spare > contract'.spare)
    <3>1. contract' \in Net!BestBids(Net!Range1(collected))
      BY <1>2, <2>1
    <3> QED
      BY <1>3, <2>1, <3>1, BestIsUnbeaten
  <2> QED
    BY <1>1, <1>3, <1>4, <2>1 DEF Net!BestBidWins
<1>9. contract' = None => phase' # "reject"
  <2>1. contract' \in Net!BestBids(Net!Range1(collected)) => contract' # None
    BY <1>3, PlatformAssumption DEF Net!BestBids, Net!ContractAssumption, Bid
  <2> QED
    BY <1>2, <2>1
<1> QED
  BY <1>1, <1>5, <1>6, <1>7, <1>8, <1>9 DEF NInv

LEMMA RejectKeeps == ASSUME NInv, Net!Reject PROVE NInv'
<1>1. collected \in Seq(Bid) /\ phase = "reject" /\ phase' = "done" /\ contract # None
      /\ UNCHANGED <<announced, informed, bidding, subscribed, topic, hand, decoder, bids, collected, contract, late,
                     over, panicked>>
      /\ rejected' \subseteq {b.agent : b \in Net!Range1(collected)} \ {contract.agent}
  BY DEF Net!Reject, NInv, NetTyped
<1>2. {b.agent : b \in Net!Range1(collected)} \subseteq Bidders
  <2>1. {b.agent : b \in Net!Range1(collected)} = AgentsOf(collected)
    BY DEF Net!Range1, AgentsOf
  <2> QED
    BY <1>1, <2>1, BidAgents
<1>3. NetTyped'
  BY <1>1, <1>2 DEF NInv, NetTyped
<1>4. Apart'
  <2>1. InHand' = InHand /\ AgentsOf(topic)' = AgentsOf(topic)
        /\ AgentsOf(bids)' = AgentsOf(bids) /\ AgentsOf(collected)' = AgentsOf(collected)
        /\ Distinct(topic)' = Distinct(topic) /\ Distinct(bids)' = Distinct(bids)
        /\ Distinct(collected)' = Distinct(collected)
    BY <1>1 DEF InHand, AgentsOf, Distinct
  <2> QED
    BY <1>1, <2>1 DEF NInv, Apart
<1>5. LateOK' /\ Net!ContractTypeOK' /\ Net!OnlyLateBidsPanic'
  BY <1>1 DEF NInv, LateOK, After, Net!ContractTypeOK, Net!OnlyLateBidsPanic, Net!Range1
<1>6. Net!BestBidWins'
  BY <1>1 DEF NInv, Net!BestBidWins, Net!Range1
<1> QED
  BY <1>1, <1>3, <1>4, <1>5, <1>6 DEF NInv

LEMMA PostKeeps == ASSUME NInv, NEW a \in Bidders, Net!Post(a) PROVE NInv'
<1>1. ~ panicked /\ bidding[a] = "bidding" /\ bidding' = [bidding EXCEPT ![a] = "bid"]
      /\ UNCHANGED <<phase, announced, informed, subscribed, hand, decoder, bids, collected, contract, rejected, over,
                     panicked>>
  BY DEF Net!Post
<1>2. CASE UNCHANGED <<topic, late>>
  <2>1. NetTyped'
    BY <1>1, <1>2 DEF NInv, NetTyped
  <2> QED
    BY <1>1, <1>2, <2>1, NetQuiet DEF NInv, NetTyped, LateOK, Net!ContractTypeOK
<1>3. CASE ~ UNCHANGED <<topic, late>>
  <2>1. PICK offer \in Offers :
           LET bid == [agent |-> a, cost |-> offer.cost, quality |-> offer.quality, spare |-> offer.spare]
           IN  /\ topic' = IF subscribed /\ ~ over /\ Len(topic) < TopicCap THEN Append(topic, bid) ELSE topic
               /\ late' = IF phase \in {"award", "reject", "done"} THEN late \cup {bid} ELSE late
    BY <1>3 DEF Net!Post
  <2> DEFINE bid == [agent |-> a, cost |-> offer.cost, quality |-> offer.quality, spare |-> offer.spare]
  <2>2. bid \in Bid /\ bid.agent = a
    BY PlatformAssumption DEF Net!ContractAssumption, Bid, Net!Bid
  <2> HIDE DEF bid
  <2>3. topic \in Seq(Bid)
        /\ topic' = (IF subscribed /\ ~ over /\ Len(topic) < TopicCap THEN Append(topic, bid) ELSE topic)
        /\ late' = IF After THEN late \cup {bid} ELSE late
    BY <2>1 DEF bid, NInv, NetTyped, After
  <2>4. a \notin InHand \cup AgentsOf(topic) \cup AgentsOf(bids) \cup AgentsOf(collected)
    BY <1>1 DEF NInv, Apart
  <2>5. topic' \in Seq(Bid) /\ Distinct(topic') /\ Len(topic') <= TopicCap
        /\ AgentsOf(topic') \subseteq AgentsOf(topic) \cup {a}
        /\ Net!Range1(topic') \subseteq Net!Range1(topic) \cup {bid}
    <3>1. Len(topic) \in Nat /\ TopicCap \in Nat /\ Len(topic) <= TopicCap
      BY <2>3, PlatformAssumption DEF NInv, Net!ContractTypeOK, Net!ContractAssumption
    <3>2. Append(topic, bid) \in Seq(Bid) /\ Len(Append(topic, bid)) = Len(topic) + 1
          /\ AgentsOf(Append(topic, bid)) = AgentsOf(topic) \cup {a}
          /\ Net!Range1(Append(topic, bid)) = Net!Range1(topic) \cup {bid} /\ Distinct(Append(topic, bid))
      BY <2>2, <2>3, <2>4, BidsAppend DEF NInv, Apart
    <3> QED
      BY <2>3, <3>1, <3>2 DEF NInv, Apart
  <2>6. NetTyped'
    BY <1>1, <2>2, <2>3, <2>5 DEF NInv, NetTyped
  <2>7. Apart'
    <3>1. InHand' = InHand /\ AgentsOf(topic)' = AgentsOf(topic')
          /\ AgentsOf(bids)' = AgentsOf(bids) /\ AgentsOf(collected)' = AgentsOf(collected)
          /\ Distinct(topic)' = Distinct(topic') /\ Distinct(bids)' = Distinct(bids)
          /\ Distinct(collected)' = Distinct(collected)
      BY <1>1 DEF InHand, AgentsOf, Distinct
    <3>2. bidding \in [Bidders -> {"none", "bidding", "bid"}]
          /\ InHand \cup AgentsOf(topic) \cup AgentsOf(bids) \cup AgentsOf(collected) \subseteq Bidders
      BY BidAgents DEF NInv, NetTyped, InHand, Bid, Net!Bid
    <3> QED
      BY <1>1, <2>4, <2>5, <3>1, <3>2 DEF NInv, Apart
  <2>8. LateOK'
    <3>1. Net!Range1(topic)' = Net!Range1(topic')
      BY DEF Net!Range1
    <3>2. After' = After
      BY <1>1 DEF After
    <3> QED
      BY <1>1, <2>3, <2>5, <3>1, <3>2 DEF NInv, LateOK
  <2>9. Net!ContractTypeOK' /\ Net!OnlyLateBidsPanic'
    BY <1>1, <2>5 DEF NInv, Net!ContractTypeOK, Net!OnlyLateBidsPanic
  <2>10. Net!BestBidWins'
    BY <1>1 DEF NInv, Net!BestBidWins, Net!Range1
  <2> QED
    BY <1>1, <2>6, <2>7, <2>8, <2>9, <2>10 DEF NInv
<1> QED
  BY <1>2, <1>3

LEMMA DecodeKeeps == ASSUME NInv, Net!Decode PROVE NInv'
<1>1. ~ panicked /\ topic \in Seq(Bid) /\ topic # <<>> /\ hand = None /\ hand' = Head(topic) /\ topic' = Tail(topic)
      /\ UNCHANGED <<phase, announced, informed, bidding, subscribed, decoder, bids, collected, contract, rejected,
                     late, over, panicked>>
  BY DEF Net!Decode, NInv, NetTyped
<1>2. topic' \in Seq(Bid) /\ Len(topic') = Len(topic) - 1 /\ hand' \in Bid
      /\ AgentsOf(topic) = AgentsOf(topic') \cup {hand'.agent}
      /\ Net!Range1(topic) = Net!Range1(topic') \cup {hand'}
      /\ Distinct(topic') /\ hand'.agent \notin AgentsOf(topic')
  BY <1>1, BidsTail DEF NInv, Apart
<1>3. NetTyped'
  BY <1>1, <1>2 DEF NInv, NetTyped
<1>4. hand' # None
  BY <1>2, PlatformAssumption DEF Net!ContractAssumption, Bid
<1>5. Apart'
  <2>1. InHand' = {hand'.agent} /\ InHand = {} /\ AgentsOf(topic)' = AgentsOf(topic')
        /\ AgentsOf(bids)' = AgentsOf(bids) /\ AgentsOf(collected)' = AgentsOf(collected)
        /\ Distinct(topic)' = Distinct(topic') /\ Distinct(bids)' = Distinct(bids)
        /\ Distinct(collected)' = Distinct(collected)
    BY <1>1, <1>4 DEF InHand, AgentsOf, Distinct
  <2> QED
    BY <1>1, <1>2, <2>1 DEF NInv, Apart
<1>6. LateOK'
  <2>1. Net!Range1(topic)' = Net!Range1(topic') /\ After' = After
    BY <1>1 DEF Net!Range1, After
  <2> QED
    BY <1>1, <1>2, <2>1 DEF NInv, LateOK
<1>7. Net!ContractTypeOK' /\ Net!OnlyLateBidsPanic'
  <2>1. Len(topic) \in Nat /\ TopicCap \in Nat
    BY <1>1, PlatformAssumption DEF Net!ContractAssumption
  <2> QED
    BY <1>1, <1>2, <2>1 DEF NInv, Net!ContractTypeOK, Net!OnlyLateBidsPanic
<1>8. Net!BestBidWins'
  BY <1>1 DEF NInv, Net!BestBidWins, Net!Range1
<1> QED
  BY <1>1, <1>3, <1>5, <1>6, <1>7, <1>8 DEF NInv

LEMMA ForwardKeeps == ASSUME NInv, Net!Forward PROVE NInv'
<1>1. ~ panicked /\ hand # None /\ hand \in Bid /\ bids \in Seq(Bid)
      /\ UNCHANGED <<phase, announced, informed, bidding, subscribed, topic, decoder, collected, contract, rejected,
                     late, over>>
  BY DEF Net!Forward, NInv, NetTyped
<1>2. CASE phase # "collect"
  <2>1. panicked' = TRUE /\ bids' = bids /\ hand' = hand
    BY <1>2 DEF Net!Forward
  <2>2. After /\ hand \in late
    BY <1>1, <1>2 DEF NInv, NetTyped, LateOK, After
  <2>3. NetTyped'
    BY <1>1, <2>1 DEF NInv, NetTyped
  <2>4. Apart'
    <3>1. InHand' = InHand /\ AgentsOf(topic)' = AgentsOf(topic)
          /\ AgentsOf(bids)' = AgentsOf(bids) /\ AgentsOf(collected)' = AgentsOf(collected)
          /\ Distinct(topic)' = Distinct(topic) /\ Distinct(bids)' = Distinct(bids)
          /\ Distinct(collected)' = Distinct(collected)
      BY <1>1, <2>1 DEF InHand, AgentsOf, Distinct
    <3> QED
      BY <1>1, <3>1 DEF NInv, Apart
  <2>5. LateOK' /\ Net!ContractTypeOK' /\ Net!BestBidWins'
    BY <1>1, <2>1 DEF NInv, LateOK, After, Net!ContractTypeOK, Net!BestBidWins, Net!Range1
  <2>6. Net!OnlyLateBidsPanic'
    BY <1>1, <2>1, <2>2 DEF NInv, Net!OnlyLateBidsPanic
  <2> QED
    BY <1>1, <2>3, <2>4, <2>5, <2>6 DEF NInv
<1>3. CASE phase = "collect"
  <2>1. Len(bids) < BidCap /\ bids' = Append(bids, hand) /\ hand' = None /\ panicked' = panicked
    BY <1>3 DEF Net!Forward
  <2>2. hand.agent \in InHand /\ hand.agent \notin AgentsOf(bids)
    BY <1>1 DEF InHand, NInv, Apart
  <2>3. bids' \in Seq(Bid) /\ Len(bids') = Len(bids) + 1 /\ AgentsOf(bids') = AgentsOf(bids) \cup {hand.agent}
        /\ Distinct(bids')
    BY <1>1, <2>1, <2>2, BidsAppend DEF NInv, Apart
  <2>4. NetTyped'
    BY <1>1, <2>1, <2>3 DEF NInv, NetTyped
  <2>5. Apart'
    <3>1. InHand' = {} /\ AgentsOf(topic)' = AgentsOf(topic)
          /\ AgentsOf(bids)' = AgentsOf(bids') /\ AgentsOf(collected)' = AgentsOf(collected)
          /\ Distinct(topic)' = Distinct(topic) /\ Distinct(bids)' = Distinct(bids')
          /\ Distinct(collected)' = Distinct(collected)
      BY <1>1, <2>1 DEF InHand, AgentsOf, Distinct
    <3> QED
      BY <1>1, <2>2, <2>3, <3>1 DEF NInv, Apart
  <2>6. subscribed
    BY <1>1 DEF NInv, LateOK
  <2>7. LateOK'
    BY <1>1, <1>3, <2>6 DEF NInv, LateOK, After
  <2>8. Net!ContractTypeOK'
    <3>1. Len(bids) \in Nat /\ BidCap \in Nat
      BY <1>1, PlatformAssumption DEF Net!ContractAssumption
    <3> QED
      BY <1>1, <2>1, <2>3, <3>1 DEF NInv, Net!ContractTypeOK
  <2>9. Net!BestBidWins' /\ Net!OnlyLateBidsPanic'
    BY <1>1, <1>3, <2>1 DEF NInv, Net!BestBidWins, Net!OnlyLateBidsPanic
  <2> QED
    BY <1>1, <2>4, <2>5, <2>7, <2>8, <2>9 DEF NInv
<1> QED
  BY <1>2, <1>3

LEMMA DecoderEndsKeeps == ASSUME NInv, Net!DecoderEnds PROVE NInv'
<1>1. ~ panicked /\ hand = None /\ topic' = <<>> /\ decoder' = "done"
      /\ UNCHANGED <<phase, announced, informed, bidding, subscribed, hand, bids, collected, contract, rejected, late,
                     over, panicked>>
  BY DEF Net!DecoderEnds
<1>2. <<>> \in Seq(Bid) /\ AgentsOf(<<>>) = {} /\ Distinct(<<>>) /\ Len(<<>>) = 0 /\ Net!Range1(<<>>) = {}
  BY DEF AgentsOf, Distinct, Net!Range1
<1>3. NetTyped'
  BY <1>1, <1>2 DEF NInv, NetTyped
<1>4. Apart'
  <2>1. InHand' = InHand /\ AgentsOf(topic)' = {} /\ Distinct(topic)'
        /\ AgentsOf(bids)' = AgentsOf(bids) /\ AgentsOf(collected)' = AgentsOf(collected)
        /\ Distinct(bids)' = Distinct(bids) /\ Distinct(collected)' = Distinct(collected)
    BY <1>1, <1>2 DEF InHand, AgentsOf, Distinct
  <2> QED
    BY <1>1, <2>1 DEF NInv, Apart
<1>5. LateOK'
  <2>1. Net!Range1(topic)' = {} /\ After' = After
    BY <1>1, <1>2 DEF Net!Range1, After
  <2> QED
    BY <1>1, <2>1 DEF NInv, LateOK
<1>6. Net!ContractTypeOK'
  BY <1>1, <1>2, PlatformAssumption DEF NInv, Net!ContractTypeOK, Net!ContractAssumption
<1>7. Net!BestBidWins' /\ Net!OnlyLateBidsPanic'
  BY <1>1 DEF NInv, Net!BestBidWins, Net!OnlyLateBidsPanic, Net!Range1
<1> QED
  BY <1>1, <1>3, <1>4, <1>5, <1>6, <1>7 DEF NInv

LEMMA NetBegins == ASSUME Net!ContractInit PROVE NInv
<1>1. <<>> \in Seq(Bid) /\ AgentsOf(<<>>) = {} /\ Distinct(<<>>) /\ Len(<<>>) = 0 /\ Net!Range1(<<>>) = {}
  BY DEF AgentsOf, Distinct, Net!Range1
<1>2. NetTyped
  BY <1>1 DEF Net!ContractInit, NetTyped
<1>3. Apart
  BY <1>1 DEF Net!ContractInit, Apart, InHand
<1>4. Net!ContractTypeOK
  BY <1>1, PlatformAssumption DEF Net!ContractInit, Net!ContractTypeOK, Net!ContractAssumption
<1>5. LateOK /\ Net!BestBidWins /\ Net!OnlyLateBidsPanic
  BY DEF Net!ContractInit, LateOK, After, Net!BestBidWins, Net!OnlyLateBidsPanic
<1>6. contract = None /\ rejected = {} /\ phase = "announce"
  BY DEF Net!ContractInit
<1> QED
  BY <1>2, <1>3, <1>4, <1>5, <1>6 DEF NInv

LEMMA NetStep == ASSUME NInv, Net!ContractNext PROVE NInv'
BY AnnounceKeeps, SubmitBidKeeps, PostKeeps, SubscribeKeeps, CollectKeeps, TimerFiresKeeps, AwardKeeps, RejectKeeps,
   DecodeKeeps, ForwardKeeps, ContextDoneOfNetKeeps, DecoderEndsKeeps DEF Net!ContractNext

LEMMA NetStays == ASSUME NInv, UNCHANGED nets PROVE NInv'
<1>1. NetTyped' /\ LateOK'
  BY DEF nets, NInv, NetTyped, LateOK, After, Net!Range1
<1>2. Apart'
  <2>1. InHand' = InHand /\ AgentsOf(topic)' = AgentsOf(topic)
        /\ AgentsOf(bids)' = AgentsOf(bids) /\ AgentsOf(collected)' = AgentsOf(collected)
        /\ Distinct(topic)' = Distinct(topic) /\ Distinct(bids)' = Distinct(bids)
        /\ Distinct(collected)' = Distinct(collected)
    BY DEF nets, InHand, AgentsOf, Distinct
  <2> QED
    BY <2>1 DEF nets, NInv, Apart
<1>3. Net!ContractTypeOK' /\ Net!BestBidWins' /\ Net!OnlyLateBidsPanic'
  BY DEF nets, NInv, Net!ContractTypeOK, Net!BestBidWins, Net!OnlyLateBidsPanic, Net!Range1
<1> QED
  BY <1>1, <1>2, <1>3 DEF nets, NInv

-----------------------------------------------------------------------------
(* The jobs.  No row has its details, so that a handler that reads one row  *)
(* finds none and only the worker changes the table; a message is there     *)
(* once a worker began the job.                                             *)

Row == [user : Users, status : Job!Statuses, message : {"NULL", "blank", "Cancelled by user"}, details : {"NULL"},
        results : BOOLEAN, started : BOOLEAN, ended : BOOLEAN]

JInv ==
    /\ table \in [1 .. jobCount -> Row] /\ jobCount \in 0 .. MaxJobs
    /\ \A j \in DOMAIN table : table[j].message # "NULL" => table[j].started
    /\ answer.code \in {0, 200, 202, 400, 403, 404, 409, 500}
    /\ Job!PagesAreStarted

\* The columns of a job.
LEMMA RowData ==
    ASSUME NEW r \in Row
    PROVE  /\ r.user \in Users /\ r.status \in Job!Statuses
           /\ r.message \in {"NULL", "blank", "Cancelled by user"} /\ r.details = "NULL"
           /\ r.results \in BOOLEAN /\ r.started \in BOOLEAN /\ r.ended \in BOOLEAN
BY Zenon DEF Row

\* What may become of a table: its rows are still of the same users, and none
\* that was started, or has its results, has not.
RowOK(r) ==
    /\ r.message # "NULL" => r.started
    /\ r.status = "completed" => r.results
    /\ r.results => r.ended

LEMMA RowsAre == ASSUME JInv PROVE \A j \in DOMAIN table : RowOK(table[j])
BY DEF JInv, Job!PagesAreStarted, RowOK

\* The rank of a number in a finite set of them: as many are as great.
Rank(S, j) == Cardinality({i \in S : i >= j})

\* A finite set of numbers has an element of every rank: what a page counts to.
LEMMA Ranked ==
    ASSUME NEW n \in Nat, NEW S \in SUBSET (1 .. n), NEW k \in 1 .. Cardinality(S)
    PROVE  \E j \in S : Rank(S, j) = k
<1> DEFINE From(m) == {i \in S : i >= m}
           Few == {m \in Nat : Cardinality(From(m)) < k}
<1>0. \A i \in S : i \in Int /\ 1 <= i /\ i <= n
  OBVIOUS
<1>1. IsFiniteSet(S) /\ Cardinality(S) \in Nat
  <2>1. IsFiniteSet(1 .. n)
    BY FS_Interval
  <2> QED
    BY <2>1, FS_Subset, FS_CardinalityType
<1>2. \A m \in Nat : IsFiniteSet(From(m)) /\ Cardinality(From(m)) \in Nat
  <2> TAKE m \in Nat
  <2>1. From(m) \subseteq S
    OBVIOUS
  <2> QED
    BY <1>1, <2>1, FS_Subset, FS_CardinalityType
<1>3. n + 1 \in Few
  <2>0. \A i \in S : ~ (i >= n + 1)
    BY <1>0
  <2>1. From(n + 1) = {}
    BY <2>0
  <2> QED
    BY <2>1, FS_EmptySet
<1>4. 0 \notin Few
  <2>0. \A i \in S : i >= 0
    BY <1>0
  <2>1. From(0) = S
    BY <2>0
  <2> HIDE DEF From
  <2> QED
    BY <2>1, <1>1
<1>5. PICK m \in Few : \A l \in Few : ~ (l < m)
  <2>1. Few \in SUBSET Nat /\ Few # {}
    BY <1>3
  <2> HIDE DEF Few
  <2> QED
    BY <2>1, Least
<1> DEFINE j == m - 1
<1>6. m \in Nat /\ m # 0 /\ j \in Nat /\ j < m /\ Cardinality(From(m)) < k
  BY <1>4, <1>5
<1>7. ~ (Cardinality(From(j)) < k)
  BY <1>5, <1>6
<1>8. j \in S
  <2> SUFFICES ASSUME j \notin S PROVE FALSE
    OBVIOUS
  <2>1. \A i \in S : (i >= j) <=> (i >= m)
    BY <1>0, <1>6
  <2>2. From(j) = From(m)
    BY <2>1
  <2> HIDE DEF From
  <2> QED
    BY <1>6, <1>7, <2>2
<1>9. From(j) = From(m) \cup {j} /\ j \notin From(m)
  <2>1. \A i \in S : (i >= j) <=> (i >= m \/ i = j)
    BY <1>0, <1>6
  <2>2. ~ (j >= m)
    BY <1>6
  <2> HIDE DEF j
  <2> QED
    BY <1>8, <2>1, <2>2
<1> HIDE DEF From
<1>10. Cardinality(From(j)) = Cardinality(From(m)) + 1
  BY <1>2, <1>6, <1>9, FS_AddElement
<1>11. Cardinality(From(j)) = k
  BY <1>1, <1>2, <1>6, <1>7, <1>10
<1> QED
  BY <1>8, <1>11 DEF From, Rank

LEMMA JobCardinality == \A S : Job!Cardinality(S) = Cardinality(S)
BY DEF Job!Cardinality, Cardinality

\* A page has the user's own jobs, newest first.
LEMMA PageData ==
    ASSUME JInv, Job!JobsAssumption, NEW user \in Users, NEW limit \in Limits, NEW offset \in 0 .. MaxJobs
    PROVE  LET page == Job!Page(user, limit, offset)
           IN  /\ \A k \in DOMAIN page : page[k] \in Job!JobsOf(user)
               /\ \A k, l \in DOMAIN page : k < l => page[k] > page[l]
<1> DEFINE S == Job!JobsOf(user)
           page == Job!Page(user, limit, offset)
           rank(j) == Rank(S, j)
<1>1. jobCount \in Nat /\ S \in SUBSET (1 .. jobCount) /\ limit \in Nat /\ offset \in Nat
  BY DEF JInv, Job!JobsAssumption, Job!JobsOf
<1>2. IsFiniteSet(S) /\ Cardinality(S) \in Nat
  <2>1. IsFiniteSet(1 .. jobCount)
    BY <1>1, FS_Interval
  <2> QED
    BY <1>1, <2>1, FS_Subset, FS_CardinalityType
<1>3. \A k \in 1 .. Cardinality(S) : Job!Newest(user, k) \in S /\ rank(Job!Newest(user, k)) = k
  <2> HIDE DEF S
  <2> TAKE k \in 1 .. Cardinality(S)
  <2>1. \E j \in S : Rank(S, j) = k
    BY <1>1, Ranked
  <2> QED
    BY <2>1, JobCardinality DEF Job!Newest, S, Rank
<1>4. \A j, i \in S : j <= i => rank(i) <= rank(j)
  <2> TAKE j, i \in S
  <2> HAVE j <= i
  <2>1. {x \in S : x >= i} \subseteq {x \in S : x >= j} /\ {x \in S : x >= j} \subseteq S
    BY <1>1
  <2>2. IsFiniteSet({x \in S : x >= j})
    BY <1>2, <2>1, FS_Subset
  <2> QED
    BY <2>1, <2>2, FS_Subset DEF Rank
<1>5. \A j \in S : rank(j) \in Nat
  <2> TAKE j \in S
  <2>1. {x \in S : x >= j} \subseteq S
    OBVIOUS
  <2> QED
    BY <1>2, <2>1, FS_Subset, FS_CardinalityType DEF Rank
<1>6. \A k \in DOMAIN page : k \in Nat /\ offset + k \in 1 .. Cardinality(S) /\ page[k] = Job!Newest(user, offset + k)
  <2>1. Job!Cardinality(S) = Cardinality(S)
    BY JobCardinality
  <2>2. page = [k \in 1 .. (IF offset + limit > Cardinality(S) THEN Cardinality(S) - offset ELSE limit) |->
                   Job!Newest(user, offset + k)]
    BY <2>1 DEF Job!Page
  <2> HIDE DEF page, S
  <2> QED
    BY <1>1, <1>2, <2>2
<1> HIDE DEF page, rank, S
<1>7. ASSUME NEW k \in DOMAIN page, NEW l \in DOMAIN page, k < l PROVE page[k] > page[l]
  <2>1. page[k] \in S /\ page[l] \in S /\ rank(page[k]) = offset + k /\ rank(page[l]) = offset + l
    BY <1>3, <1>6
  <2>2. page[k] \in Nat /\ page[l] \in Nat
    <3>1. S \subseteq Nat
      BY <1>1
    <3> QED
      BY <2>1, <3>1
  <2>3. ~ (page[k] <= page[l])
    <3>1. ~ (offset + l <= offset + k)
      BY <1>1, <1>6, <1>7
    <3> QED
      BY <1>4, <2>1, <3>1
  <2> QED
    BY <2>2, <2>3
<1> QED
  BY <1>3, <1>6, <1>7 DEF page, S

\* No row can be scanned.
LEMMA NoneIsGot == ASSUME JInv, NEW j PROVE ~ Job!Got(j)
<1>1. ASSUME j \in DOMAIN table PROVE table[j] \in Row
  BY <1>1 DEF JInv
<1> QED
  BY <1>1, RowData, Zenon DEF Job!Got

LEMMA JobsBegin == ASSUME Job!JobsAssumption, Job!JobsInit PROVE JInv
<1>1. table = <<>> /\ jobCount = 0 /\ answer.request = "none" /\ answer.code = 0 /\ answer.page = <<>>
  BY DEF Job!JobsInit
<1>2. DOMAIN table = {} /\ 1 .. 0 = {} /\ table \in [{} -> Row] /\ DOMAIN answer.page = {}
  BY <1>1
<1> QED
  BY <1>1, <1>2 DEF JInv, Job!JobsAssumption, Job!PagesAreStarted

\* An answer without a page, over a table in which no job has gone, changed hands
\* or is no longer started.
LEMMA TableKeeps ==
    ASSUME JInv, Job!JobsAssumption,
           jobCount' \in 0 .. MaxJobs, table' \in [1 .. jobCount' -> Row],
           \A j \in DOMAIN table' : RowOK(table'[j]),
           \A j \in DOMAIN table :
              j \in DOMAIN table' /\ table'[j].user = table[j].user /\ (table[j].started => table'[j].started),
           answer' = answer \/ (answer'.page = <<>>
                                /\ answer'.code \in {0, 200, 202, 400, 403, 404, 409, 500})
    PROVE  JInv'
<1>1. answer'.code \in {0, 200, 202, 400, 403, 404, 409, 500}
  BY DEF JInv
<1>3. Job!PagesAreStarted'
  <2>1. ASSUME answer' = answer, NEW k \in DOMAIN answer.page
        PROVE  /\ answer.page[k] \in DOMAIN table' /\ table'[answer.page[k]].started
               /\ table'[answer.page[k]].user = answer'.user
               /\ \A l \in DOMAIN answer.page : k < l => answer.page[k] > answer.page[l]
    BY <2>1 DEF JInv, Job!PagesAreStarted
  <2>2. \A j \in DOMAIN table' : /\ table'[j].status = "completed" => table'[j].results
                                 /\ table'[j].results => table'[j].ended
    BY DEF RowOK
  <2>3. CASE answer' = answer
    BY <2>1, <2>2, <2>3 DEF Job!PagesAreStarted
  <2>4. CASE answer'.page = <<>>
    BY <2>2, <2>4 DEF Job!PagesAreStarted
  <2> QED
    BY <2>3, <2>4
<1> QED
  BY <1>1, <1>3 DEF JInv, RowOK

\* The handlers and the worker, one by one.
LEMMA RunBacktestKeeps ==
    ASSUME JInv, Job!JobsAssumption, NEW u \in Users, Job!RunBacktest(u) PROVE JInv'
<1>1. CASE table' = table /\ jobCount' = jobCount
           /\ answer'.page = <<>> /\ answer'.request = "run" /\ answer'.code \in {400, 500}
  <2>1. \A j \in DOMAIN table : RowOK(table[j])
    BY RowsAre
  <2> QED
    BY <1>1, <2>1, TableKeeps DEF JInv
<1>2. CASE /\ jobCount < MaxJobs /\ jobCount' = jobCount + 1 /\ table' = Job!CreateJob(u, jobCount')
           /\ answer' = Job!Answer("run", u, jobCount', 202)
  <2>1. jobCount \in Nat /\ jobCount' \in 0 .. MaxJobs /\ DOMAIN table = 1 .. jobCount
        /\ 1 .. jobCount' = (1 .. jobCount) \cup {jobCount'} /\ jobCount' \notin 1 .. jobCount
    BY <1>2 DEF JInv, Job!JobsAssumption
  <2>2. DOMAIN table' = 1 .. jobCount' /\ table'[jobCount'] = Job!NewJob(u)
        /\ \A j \in 1 .. jobCount : table'[j] = table[j]
    BY <1>2, <2>1 DEF Job!CreateJob
  <2>3. table' \in [1 .. jobCount' -> Row] /\ RowOK(Job!NewJob(u))
    <3>1. Job!NewJob(u) \in Row /\ RowOK(Job!NewJob(u))
      BY DEF Job!NewJob, Row, Job!Statuses, RowOK
    <3>2. \A j \in 1 .. jobCount : table[j] \in Row
      BY DEF JInv
    <3>3. table' = [j \in 1 .. jobCount' |-> table'[j]]
      BY <1>2, <2>1 DEF Job!CreateJob
    <3> QED
      BY <2>1, <2>2, <3>1, <3>2, <3>3
  <2>4. \A j \in DOMAIN table' : RowOK(table'[j])
    BY <2>1, <2>2, <2>3, RowsAre
  <2>5. answer'.page = <<>> /\ answer'.request = "run" /\ answer'.code = 202
    BY <1>2 DEF Job!Answer
  <2> QED
    BY <2>1, <2>2, <2>3, <2>4, <2>5, TableKeeps
<1> QED
  BY <1>1, <1>2 DEF Job!RunBacktest, Job!Answer

LEMMA ByIdKeeps ==
    ASSUME JInv, Job!JobsAssumption, NEW u \in Users, NEW j \in Job!Ids,
           Job!GetBacktest(u, j) \/ Job!DeleteBacktest(u, j) \/ Job!CancelBacktest(u, j)
    PROVE  JInv' /\ UNCHANGED table
<1>1. table' = table /\ jobCount' = jobCount /\ answer'.page = <<>> /\ answer'.code = 404
  <2>1. ~ Job!Got(j)
    BY NoneIsGot
  <2>2. \A r : Job!Answer(r, u, j, 404).page = <<>> /\ Job!Answer(r, u, j, 404).code = 404
    BY DEF Job!Answer
  <2>3. CASE Job!GetBacktest(u, j)
    BY <2>1, <2>2, <2>3 DEF Job!GetBacktest
  <2>4. CASE Job!DeleteBacktest(u, j)
    BY <2>1, <2>2, <2>4 DEF Job!DeleteBacktest
  <2>5. CASE Job!CancelBacktest(u, j)
    BY <2>1, <2>2, <2>5 DEF Job!CancelBacktest
  <2> QED
    BY <2>3, <2>4, <2>5
<1>2. \A i \in DOMAIN table : RowOK(table[i])
  BY RowsAre
<1> QED
  BY <1>1, <1>2, TableKeeps DEF JInv

LEMMA ListBacktestsKeeps ==
    ASSUME JInv, Job!JobsAssumption, NEW u \in Users, NEW limit \in Limits, NEW offset \in 0 .. MaxJobs,
           Job!ListBacktests(u, limit, offset)
    PROVE  JInv'
<1> DEFINE page == Job!Page(u, limit, offset)
<1>1. UNCHANGED <<table, jobCount>>
  BY DEF Job!ListBacktests
<1>2. CASE answer' = Job!Answer("list", u, 0, 500)
  <2>1. answer'.page = <<>> /\ answer'.request = "list" /\ answer'.code = 500
    BY <1>2 DEF Job!Answer
  <2>2. \A i \in DOMAIN table : RowOK(table[i])
    BY RowsAre
  <2> QED
    BY <1>1, <2>1, <2>2, TableKeeps DEF JInv
<1>3. CASE (\A k \in DOMAIN page : table[page[k]].message # "NULL")
           /\ answer'.page = page /\ answer'.user = u /\ answer'.request = "list" /\ answer'.code = 200
  <2>1. /\ \A k \in DOMAIN page : page[k] \in Job!JobsOf(u)
        /\ \A k, l \in DOMAIN page : k < l => page[k] > page[l]
    BY PageData
  <2> HIDE DEF page
  <2>2. \A k \in DOMAIN page : page[k] \in DOMAIN table /\ table[page[k]].user = u /\ table[page[k]].started
    BY <1>3, <2>1 DEF Job!JobsOf, JInv
  <2>3. answer'.code \in {0, 200, 202, 400, 403, 404, 409, 500}
    BY <1>3
  <2>5. \A i \in DOMAIN table : /\ table[i].status = "completed" => table[i].results
                                /\ table[i].results => table[i].ended
    BY RowsAre DEF RowOK
  <2>6. Job!PagesAreStarted'
    <3>1. \A k \in DOMAIN page : \A l \in DOMAIN page : k < l => page[k] > page[l]
      BY <2>1
    <3> QED
      <4>1. answer'.page = page /\ answer'.user = u /\ table' = table
        BY <1>1, <1>3
      <4>2. \A k \in DOMAIN answer'.page :
               /\ answer'.page[k] \in DOMAIN table' /\ table'[answer'.page[k]].started
               /\ table'[answer'.page[k]].user = answer'.user
               /\ \A l \in DOMAIN answer'.page : k < l => answer'.page[k] > answer'.page[l]
        BY <2>2, <3>1, <4>1
      <4>3. \A i \in DOMAIN table' : /\ table'[i].status = "completed" => table'[i].results
                                     /\ table'[i].results => table'[i].ended
        BY <2>5, <4>1
      <4> QED
        BY <4>2, <4>3 DEF Job!PagesAreStarted
  <2> QED
    BY <1>1, <2>3, <2>6 DEF JInv
<1> QED
  <2>1. \/ answer' = Job!Answer("list", u, 0, 500)
        \/ /\ ~ \E k \in DOMAIN page : table[page[k]].message = "NULL"
           /\ \E more : answer' = [Job!Answer("list", u, 0, 200) EXCEPT !.page = page, !.more = more]
    BY Zenon DEF Job!ListBacktests
  <2>2. CASE answer' = Job!Answer("list", u, 0, 500)
    BY <1>2, <2>2
  <2>3. ASSUME ~ \E k \in DOMAIN page : table[page[k]].message = "NULL",
               NEW more, answer' = [Job!Answer("list", u, 0, 200) EXCEPT !.page = page, !.more = more]
        PROVE  JInv'
    <3> HIDE DEF page
    <3>1. answer'.page = page /\ answer'.user = u /\ answer'.request = "list" /\ answer'.code = 200
      BY <2>3 DEF Job!Answer
    <3>2. \A k \in DOMAIN page : table[page[k]].message # "NULL"
      BY <2>3
    <3> QED
      BY <1>3, <3>1, <3>2
  <2> HIDE DEF page
  <2> QED
    BY <2>1, <2>2, <2>3, Zenon

LEMMA WorkerKeeps ==
    ASSUME JInv, Job!JobsAssumption, NEW j \in 1 .. jobCount, Job!ExecuteBacktestJob(j) \/ Job!SaveResults(j)
    PROVE  JInv'
<1> DEFINE r == table[j]
<1>1. r \in Row /\ RowOK(r) /\ DOMAIN table = 1 .. jobCount /\ (\A i \in 1 .. jobCount : table[i] \in Row)
  BY RowsAre DEF JInv
<1>2. ASSUME NEW s, s \in Row, RowOK(s), s.user = r.user, r.started => s.started,
             table' = [i \in DOMAIN table |-> IF i # j THEN table[i] ELSE s], UNCHANGED <<jobCount, answer>>
      PROVE  JInv'
  <2>1. table' \in [1 .. jobCount' -> Row] /\ DOMAIN table' = DOMAIN table /\ table'[j] = s
        /\ \A i \in DOMAIN table : i # j => table'[i] = table[i]
    BY <1>1, <1>2
  <2>2. \A i \in DOMAIN table' : RowOK(table'[i])
    BY <1>2, <2>1, RowsAre
  <2> HIDE DEF r
  <2>3. \A i \in DOMAIN table : i \in DOMAIN table' /\ table'[i].user = table[i].user
           /\ (table[i].started => table'[i].started)
    BY <1>2, <2>1 DEF r
  <2> QED
    BY <1>2, <2>1, <2>2, <2>3, TableKeeps DEF JInv
<1>3. CASE Job!ExecuteBacktestJob(j)
  <2> DEFINE s == [r EXCEPT !.status = "running", !.message = "blank", !.started = @ \/ "running" = "running",
                      !.ended = @ \/ "running" \in {"completed", "failed", "cancelled"}]
  <2>1. table' = [i \in DOMAIN table |-> IF i # j THEN table[i] ELSE s] /\ UNCHANGED <<jobCount, answer>>
    <3>1. \A i \in DOMAIN table :
             (IF i # j THEN table[i]
              ELSE [table[i] EXCEPT !.status = "running", !.message = "blank", !.started = @ \/ "running" = "running",
                      !.ended = @ \/ "running" \in {"completed", "failed", "cancelled"}])
             = IF i # j THEN table[i] ELSE s
      <4> TAKE i \in DOMAIN table
      <4>1. CASE i = j
        BY <4>1, Zenon
      <4>2. CASE i # j
        BY <4>2, Zenon
      <4> QED
        BY <4>1, <4>2
    <3> QED
      BY <1>3, <3>1, Zenon DEF Job!ExecuteBacktestJob, Job!UpdateJobStatus
  <2>2. s = [r EXCEPT !.status = "running", !.message = "blank", !.started = TRUE, !.ended = @]
    <3>1. (r.ended \/ "running" \in {"completed", "failed", "cancelled"}) = r.ended
      BY <1>1, RowData, Zenon
    <3>2. (r.started \/ "running" = "running") = TRUE
      OBVIOUS
    <3> HIDE DEF r
    <3> QED
      BY <3>1, <3>2, Zenon
  <2>3. s \in Row /\ RowOK(s) /\ s.user = r.user /\ (r.started => s.started)
    BY <1>1, <2>2, Zenon DEF Row, RowOK, Job!Statuses
  <2> QED
    BY <1>2, <2>1, <2>3
<1>4. CASE Job!SaveResults(j)
  <2> DEFINE s == [r EXCEPT !.results = TRUE, !.status = "completed", !.ended = TRUE]
  <2>1. table' = [i \in DOMAIN table |-> IF i # j THEN table[i] ELSE s] /\ UNCHANGED <<jobCount, answer>>
    BY <1>4, Zenon DEF Job!SaveResults
  <2>2. s \in Row /\ RowOK(s) /\ s.user = r.user /\ (r.started => s.started)
    BY <1>1, Zenon DEF Row, RowOK, Job!Statuses
  <2> QED
    BY <1>2, <2>1, <2>2
<1> QED
  BY <1>3, <1>4

LEMMA JobsStep == ASSUME JInv, Job!JobsAssumption, Job!JobsNext PROVE JInv'
BY RunBacktestKeeps, ByIdKeeps, ListBacktestsKeeps, WorkerKeeps DEF Job!JobsNext

LEMMA JobsRest == ASSUME JInv, UNCHANGED jobs PROVE JInv'
<1>1. table' = table /\ jobCount' = jobCount /\ answer' = answer
  BY DEF jobs
<1>3. Job!PagesAreStarted'
  BY <1>1 DEF JInv, Job!PagesAreStarted
<1> QED
  BY <1>1, <1>3 DEF JInv

LEMMA JobsShow == ASSUME JInv PROVE Job!JobsTypeOK
<1>1. jobCount \in 0 .. MaxJobs /\ DOMAIN table = 1 .. jobCount /\ \A j \in DOMAIN table : table[j] \in Row
  BY DEF JInv
<1>2. answer.code \in {0, 200, 202, 400, 403, 404, 409, 500}
  BY DEF JInv
<1>3. ASSUME NEW j \in DOMAIN table
      PROVE  /\ table[j].user \in Users /\ table[j].status \in Job!Statuses
             /\ table[j].message \in {"NULL", "blank", "Cancelled by user"} /\ table[j].details = "NULL"
             /\ table[j].results \in BOOLEAN /\ table[j].started \in BOOLEAN /\ table[j].ended \in BOOLEAN
  <2>1. table[j] \in Row
    BY <1>1
  <2> QED
    BY <2>1, RowData, Zenon
<1>4. jobCount \in 0 .. MaxJobs /\ DOMAIN table = 1 .. jobCount
  BY <1>1
<1> QED
  BY <1>2, <1>3, <1>4, ZenonT(60) DEF Job!JobsTypeOK

-----------------------------------------------------------------------------
(* The search.  While the candles were never garbled every result has the  *)
(* score of its parameter, and a worker that has sent has a result unless  *)
(* its run failed; that is what the best of a round is the best of.        *)

Values == Low .. High
Result == [param : Values, score : Int, run : Nat]

SearchTyped ==
    /\ order \in {"sorted", "unsorted", "garbled"} /\ outcome \in {"running", "testing", "summary", "panic"}
    /\ clean \in BOOLEAN /\ end \in Nat /\ round \in Nat \ {0} /\ best.score \in Int
    /\ IsFiniteSet(results) /\ results \subseteq Result
    /\ \E n \in Nat : DOMAIN population = 1 .. n /\ (method = "genetic" => n = PopSize)
    /\ \A i \in DOMAIN population : population[i] \in Values
    /\ worker \in [DOMAIN population -> {"waiting", "sorting", "running", "misled", "sent"}]
    /\ \A r \in tested : r.score \in Int
    /\ outcome = "testing" => method = "walk" /\ best.param \in Values
    /\ (round = 1 /\ method = "genetic" /\ outcome = "running") => best = Optimizer!NoResult /\ tested = {}

\* The result of a worker.
Reported(i) == \E r \in results : r.run = i /\ (clean => r.score = Scores[population[i]])

ResultsOK ==
    /\ \A r \in results : r.run \in DOMAIN population /\ r.param = population[r.run] /\ r.score >= Failed
    /\ clean => \A r \in results : r.score = Scores[r.param]
    /\ \A i \in DOMAIN population : worker[i] = "sent" =>
          \/ Reported(i)
          \/ method # "genetic" /\ (clean => Scores[population[i]] = Failed)
    /\ clean => order # "garbled" /\ \A i \in DOMAIN population : worker[i] # "misled"

OInv ==
    /\ SearchTyped /\ ResultsOK
    /\ Cardinality(Optimizer!In({"sorting", "running", "misled"})) <= Parallel
    /\ Optimizer!GridFindsTheBest /\ Optimizer!EliteSurvives
    /\ method = "genetic" => \A r \in tested : r.score <= best.score

LEMMA OptimizerCardinality == \A S : Optimizer!Cardinality(S) = Cardinality(S)
BY DEF Optimizer!Cardinality, Cardinality

\* A ranking has every result, in the order of the scores.
LEMMA RankingData ==
    ASSUME OInv, results # {}, NEW ranked \in Optimizer!Rankings
    PROVE  /\ ranked \in [1 .. Cardinality(results) -> results] /\ Cardinality(results) \in Nat \ {0}
           /\ ranked[1] \in results /\ \A r \in results : r.score <= ranked[1].score
<1> DEFINE n == Cardinality(results)
<1>1. ranked \in [1 .. n -> results] /\ (\A i, j \in 1 .. n : i # j => ranked[i] # ranked[j])
      /\ \A i, j \in DOMAIN ranked : i < j => ranked[i].score >= ranked[j].score
  <2>1. Optimizer!Cardinality(results) = n
    BY OptimizerCardinality
  <2> HIDE DEF n
  <2> QED
    BY <2>1 DEF Optimizer!Rankings, Optimizer!SetToSeqs
<1>2. IsFiniteSet(results) /\ n \in Nat /\ n # 0 /\ results \subseteq Result
  BY FS_CardinalityType, FS_EmptySet DEF OInv, SearchTyped
<1>3. ranked \in Injection(1 .. n, results)
  BY <1>1 DEF Injection, IsInjective
<1>4. IsFiniteSet(1 .. n) /\ Cardinality(1 .. n) = n
  BY <1>2, FS_Interval
<1>5. ranked \in Surjection(1 .. n, results)
  BY <1>2, <1>3, <1>4, FS_Injection
<1> HIDE DEF n
<1>6. \A r \in results : \E i \in 1 .. n : ranked[i] = r
  BY <1>5 DEF Surjection
<1>7. 1 \in 1 .. n /\ ranked[1] \in results
  BY <1>1, <1>2
<1>8. ASSUME NEW r \in results PROVE r.score <= ranked[1].score
  <2>1. PICK i \in 1 .. n : ranked[i] = r
    BY <1>6
  <2>2. r.score \in Int /\ ranked[1].score \in Int
    BY <1>2, <1>7 DEF Result
  <2>3. CASE i = 1
    BY <2>1, <2>2, <2>3
  <2>4. CASE i # 1
    <3>1. 1 < i /\ DOMAIN ranked = 1 .. n
      BY <1>1, <1>2, <2>4
    <3>2. ranked[1].score >= ranked[i].score
      BY <1>1, <1>7, <3>1
    <3> QED
      BY <2>1, <2>2, <3>2
  <2> QED
    BY <2>3, <2>4
<1> QED
  BY <1>1, <1>2, <1>7, <1>8 DEF n

\* When all have sent there are as many results as workers, of the genetic search.
LEMMA AllReported ==
    ASSUME OInv, Optimizer!AllSent, method = "genetic", Optimizer!OptimizerAssumption
    PROVE  results # {} /\ Cardinality(results) >= PopSize /\ DOMAIN population = 1 .. PopSize
           /\ \A i \in DOMAIN population : Reported(i)
<1>1. DOMAIN population = 1 .. PopSize /\ PopSize \in Nat /\ PopSize # 0
  BY DEF OInv, SearchTyped, Optimizer!OptimizerAssumption
<1>2. \A i \in DOMAIN population : Reported(i)
  <2> TAKE i \in DOMAIN population
  <2>1. worker[i] = "sent"
    BY DEF Optimizer!AllSent, Optimizer!In, Optimizer!Workers
  <2> QED
    BY <2>1 DEF OInv, ResultsOK
<1> DEFINE f == [i \in 1 .. PopSize |-> CHOOSE r \in results : r.run = i]
<1>3. \A i \in 1 .. PopSize : f[i] \in results /\ f[i].run = i
  BY <1>1, <1>2 DEF Reported
<1>4. f \in Injection(1 .. PopSize, results)
  <2>1. f \in [1 .. PopSize -> results]
    BY <1>3
  <2>2. \A i, j \in 1 .. PopSize : i # j => f[i] # f[j]
    BY <1>3
  <2> HIDE DEF f
  <2> QED
    BY <2>1, <2>2 DEF Injection, IsInjective
<1>5. IsFiniteSet(results) /\ Cardinality(results) \in Nat
  BY FS_CardinalityType DEF OInv, SearchTyped
<1>6. Cardinality(1 .. PopSize) <= Cardinality(results)
  <2> HIDE DEF f
  <2> QED
    BY <1>4, <1>5, FS_Injection
<1>7. Cardinality(1 .. PopSize) = PopSize
  BY <1>1, FS_Interval
<1>8. results # {}
  <2>1. f[1] \in results
    BY <1>1, <1>3
  <2> QED
    BY <2>1
<1> QED
  BY <1>1, <1>2, <1>5, <1>6, <1>7, <1>8

LEMMA SearchBegins == ASSUME Optimizer!OptimizerAssumption, Optimizer!OptimizerInit PROVE OInv
<1>1. worker = [i \in DOMAIN population |-> "waiting"] /\ results = {} /\ tested = {} /\ round = 1 /\ clean = TRUE
      /\ best = Optimizer!NoResult /\ order \in Orders /\ method \in Methods
      /\ outcome \in {"running", "panic"} /\ (outcome = "panic" => method = "walk")
  BY DEF Optimizer!OptimizerInit
<1>2. end \in Nat
  BY DEF Optimizer!OptimizerInit, Optimizer!OptimizerAssumption
<1>3. best.score = Failed /\ best.score \in Int
  BY <1>1 DEF Optimizer!NoResult, Optimizer!OptimizerAssumption
<1>4. /\ \E n \in Nat : DOMAIN population = 1 .. n /\ (method = "genetic" => n = PopSize)
      /\ \A i \in DOMAIN population : population[i] \in Values
  <2>1. CASE method = "genetic"
    BY <2>1 DEF Optimizer!OptimizerInit, Optimizer!Populations, Values, Optimizer!OptimizerAssumption
  <2>2. CASE method # "genetic"
    <3>1. PICK s \in Steps : population = Optimizer!Grid(s)
      BY <2>2 DEF Optimizer!OptimizerInit
    <3> DEFINE q == (High - Low) \div s
               n == IF q + 1 < 0 THEN 0 ELSE q + 1
    <3>2. s \in Nat /\ s > 0 /\ Low \in Int /\ High \in Int
      BY DEF Optimizer!OptimizerAssumption
    <3>3. q \in Int /\ q * s <= High - Low
      BY <3>2
    <3>4. DOMAIN population = 1 .. n /\ n \in Nat
      <4>1. DOMAIN population = 1 .. q + 1
        BY <3>1 DEF Optimizer!Grid
      <4> HIDE DEF q
      <4> QED
        BY <3>3, <4>1
    <3>5. \A i \in DOMAIN population : population[i] \in Values
      <4> TAKE i \in DOMAIN population
      <4>1. i \in 1 .. q + 1 /\ population[i] = Low + (i - 1) * s
        BY <3>1 DEF Optimizer!Grid
      <4> HIDE DEF q
      <4> DEFINE d == i - 1
      <4>2. d \in Nat /\ d <= q
        BY <3>3, <4>1
      <4>3. population[i] = Low + d * s
        BY <4>1
      <4> HIDE DEF d
      <4>4. d * s <= q * s /\ d * s \in Nat /\ q * s \in Int
        BY <3>2, <3>3, <4>2
      <4> DEFINE y == d * s
                 z == q * s
      <4>5. y <= z /\ y \in Nat /\ z \in Int /\ z <= High - Low /\ population[i] = Low + y
        BY <3>3, <4>3, <4>4
      <4> HIDE DEF y, z
      <4> QED
        BY <3>2, <4>5 DEF Values
    <3> QED
      BY <2>2, <3>4, <3>5
  <2> QED
    BY <2>1, <2>2
<1>5. Optimizer!In({"sorting", "running", "misled"}) = {}
  BY <1>1 DEF Optimizer!In, Optimizer!Workers
<1>6. order \in {"sorted", "unsorted", "garbled"} /\ order # "garbled"
  BY <1>1 DEF Optimizer!OptimizerAssumption
<1>7. SearchTyped
  BY <1>1, <1>2, <1>3, <1>4, <1>6, FS_EmptySet DEF SearchTyped
<1>8. ResultsOK
  BY <1>1, <1>6 DEF ResultsOK
<1>9. Cardinality({}) <= Parallel
  BY FS_EmptySet DEF Optimizer!OptimizerAssumption
<1>10. Optimizer!GridFindsTheBest /\ Optimizer!EliteSurvives
  BY <1>1 DEF Optimizer!GridFindsTheBest, Optimizer!EliteSurvives
<1> QED
  BY <1>1, <1>5, <1>7, <1>8, <1>9, <1>10 DEF OInv

Active == {i \in DOMAIN population : worker[i] \in {"sorting", "running", "misled"}}

\* The workers that hold a place of the semaphore.
LEMMA ActiveData ==
    ASSUME OInv
    PROVE  /\ Optimizer!In({"sorting", "running", "misled"}) = Active
           /\ IsFiniteSet(Active) /\ Cardinality(Active) \in Nat /\ Cardinality(Active) <= Parallel
<1>1. Optimizer!In({"sorting", "running", "misled"}) = Active
  BY DEF Optimizer!In, Optimizer!Workers, Active
<1>2. PICK n \in Nat : DOMAIN population = 1 .. n
  BY DEF OInv, SearchTyped
<1>3. IsFiniteSet(1 .. n) /\ Active \subseteq 1 .. n
  BY <1>2, FS_Interval DEF Active
<1> QED
  BY <1>1, <1>3, FS_Subset, FS_CardinalityType DEF OInv

\* The mark of the search that only its results are missing from.
LEMMA SearchSame ==
    ASSUME OInv, UNCHANGED <<method, end, round, population, tested, best, outcome>>, clean' => clean,
           clean' \in BOOLEAN, Parallel = 1 => clean'
    PROVE  Optimizer!GridFindsTheBest' /\ Optimizer!EliteSurvives'
           /\ (method = "genetic" => \A r \in tested : r.score <= best.score)'
<1>1. Optimizer!GridFindsTheBest'
  BY DEF OInv, Optimizer!GridFindsTheBest, Optimizer!Workers
<1>2. Optimizer!EliteSurvives'
  BY DEF OInv, Optimizer!EliteSurvives, Optimizer!Workers
<1> QED
  BY <1>1, <1>2 DEF OInv

\* A worker that moves on keeps the search sound while it has a place.
LEMMA WorkerMoves ==
    ASSUME OInv, Optimizer!OptimizerAssumption, NEW i \in DOMAIN population,
           UNCHANGED <<method, end, round, population, results, tested, best, outcome>>,
           NEW new \in {"sorting", "running", "misled"}, worker' = [worker EXCEPT ![i] = new],
           order' \in {"sorted", "unsorted", "garbled"}, clean' \in BOOLEAN, clean' => clean, Parallel = 1 => clean',
           clean' => order' # "garbled" /\ new # "misled",
           i \in Active \/ Cardinality(Active) < Parallel
    PROVE  OInv'
<1>1. worker' \in [DOMAIN population -> {"waiting", "sorting", "running", "misled", "sent"}]
      /\ worker'[i] = new /\ \A j \in DOMAIN population : j # i => worker'[j] = worker[j]
  BY DEF OInv, SearchTyped
<1>2. SearchTyped'
  BY <1>1 DEF OInv, SearchTyped, Optimizer!NoResult
<1>3. ResultsOK'
  <2>1. \A r \in results : r.run \in DOMAIN population /\ r.param = population[r.run] /\ r.score >= Failed
    BY DEF OInv, ResultsOK
  <2>2. clean' => \A r \in results : r.score = Scores[r.param]
    BY DEF OInv, ResultsOK
  <2>3. ASSUME NEW j \in DOMAIN population, worker'[j] = "sent"
        PROVE  Reported(j)' \/ (method # "genetic" /\ (clean' => Scores[population[j]] = Failed))
    <3>1. j # i /\ worker[j] = "sent"
      BY <1>1, <2>3
    <3>2. Reported(j) \/ (method # "genetic" /\ (clean => Scores[population[j]] = Failed))
      BY <3>1 DEF OInv, ResultsOK
    <3>3. Reported(j) => Reported(j)'
      BY DEF Reported
    <3> QED
      BY <3>2, <3>3
  <2>4. clean' => order' # "garbled" /\ \A j \in DOMAIN population : worker'[j] # "misled"
    BY <1>1 DEF OInv, ResultsOK
  <2> QED
    BY <2>1, <2>2, <2>3, <2>4 DEF ResultsOK
<1>4. Cardinality(Optimizer!In({"sorting", "running", "misled"}))' <= Parallel
  <2>1. Optimizer!In({"sorting", "running", "misled"})' = Active \cup {i}
    BY <1>1 DEF Optimizer!In, Optimizer!Workers, Active
  <2>2. Cardinality(Active \cup {i}) = IF i \in Active THEN Cardinality(Active) ELSE Cardinality(Active) + 1
    BY ActiveData, FS_AddElement
  <2>3. Parallel \in Nat
    BY DEF Optimizer!OptimizerAssumption
  <2> QED
    BY ActiveData, <2>1, <2>2, <2>3
<1> QED
  BY <1>2, <1>3, <1>4, SearchSame DEF OInv

LEMMA LoadKeeps ==
    ASSUME OInv, Optimizer!OptimizerAssumption, NEW i \in DOMAIN population, Optimizer!Load(i)
    PROVE  OInv'
<1>1. Cardinality(Active) < Parallel /\ UNCHANGED <<method, end, round, population, results, tested, best, outcome>>
  BY ActiveData, OptimizerCardinality DEF Optimizer!Load
<1>2. Parallel = 1 => clean /\ Optimizer!In({"sorting"}) = {}
  <2> SUFFICES ASSUME Parallel = 1 PROVE clean /\ Optimizer!In({"sorting"}) = {}
    OBVIOUS
  <2>1. Cardinality(Active) = 0
    BY <1>1, ActiveData
  <2>2. Active = {}
    BY <2>1, ActiveData, FS_EmptySet
  <2> QED
    BY <2>2 DEF Active, Optimizer!In, Optimizer!Workers, OInv, Optimizer!GridFindsTheBest
<1>3. CASE order = "sorted"
  <2>1. worker' = [worker EXCEPT ![i] = "running"] /\ UNCHANGED <<order, clean>>
    BY <1>3 DEF Optimizer!Load
  <2>2. order' # "garbled" /\ clean' \in BOOLEAN
    BY <1>3, <2>1 DEF OInv, SearchTyped
  <2> QED
    BY <1>1, <1>2, <1>3, <2>1, <2>2, WorkerMoves
<1>4. CASE order # "sorted"
  <2>1. worker' = [worker EXCEPT ![i] = "sorting"]
        /\ order' = (IF Optimizer!In({"sorting"}) = {} THEN order ELSE "garbled")
        /\ clean' = (clean /\ Optimizer!In({"sorting"}) = {})
    BY <1>4 DEF Optimizer!Load
  <2>2. order' \in {"sorted", "unsorted", "garbled"} /\ clean' \in BOOLEAN /\ (clean' => clean)
        /\ (Parallel = 1 => clean') /\ (clean' => order' # "garbled")
    BY <1>2, <2>1 DEF OInv, SearchTyped, ResultsOK
  <2> QED
    BY <1>1, <2>1, <2>2, WorkerMoves
<1> QED
  BY <1>3, <1>4

LEMMA SortKeeps ==
    ASSUME OInv, Optimizer!OptimizerAssumption, NEW i \in DOMAIN population, Optimizer!Sort(i)
    PROVE  OInv'
<1> DEFINE new == IF order = "garbled" THEN "misled" ELSE "running"
<1>1. worker[i] = "sorting" /\ worker' = [worker EXCEPT ![i] = new] /\ clean' = clean
      /\ UNCHANGED <<method, end, round, population, results, tested, best, outcome>>
  BY DEF Optimizer!Sort
<1>2. order' \in {"sorted", "unsorted", "garbled"} /\ (order # "garbled" => order' = "sorted")
  BY DEF Optimizer!Sort
<1>3. new \in {"sorting", "running", "misled"} /\ (clean' => order' # "garbled" /\ new # "misled")
      /\ clean' \in BOOLEAN /\ (Parallel = 1 => clean')
  BY <1>1, <1>2 DEF OInv, SearchTyped, ResultsOK, Optimizer!GridFindsTheBest
<1>4. i \in Active
  BY <1>1 DEF Active
<1> HIDE DEF new
<1> QED
  BY <1>1, <1>2, <1>3, <1>4, WorkerMoves

LEMMA RunEndsKeeps ==
    ASSUME OInv, Optimizer!OptimizerAssumption, NEW i \in DOMAIN population, Optimizer!RunEnds(i)
    PROVE  OInv'
<1>1. worker[i] \in {"running", "misled"} /\ worker' = [worker EXCEPT ![i] = "sent"]
      /\ UNCHANGED <<method, end, order, clean, round, population, tested, best, outcome>>
  BY DEF Optimizer!RunEnds
<1>2. PICK score \in IF worker[i] = "misled" THEN AnyScores ELSE {Scores[population[i]]} :
         results' = Optimizer!Sent(i, score)
  BY DEF Optimizer!RunEnds
<1> DEFINE result == [param |-> population[i], score |-> score, run |-> i]
<1>3. population[i] \in Values /\ i \in Nat
  BY DEF OInv, SearchTyped
<1>4. score \in Int /\ score >= Failed /\ (clean => score = Scores[population[i]])
  <2>1. CASE worker[i] = "misled"
    <3>1. ~ clean
      BY <2>1 DEF OInv, ResultsOK
    <3> QED
      BY <1>2, <2>1, <3>1 DEF Optimizer!OptimizerAssumption
  <2>2. CASE worker[i] # "misled"
    BY <1>2, <1>3, <2>2 DEF Optimizer!OptimizerAssumption, Values
  <2> QED
    BY <2>1, <2>2
<1>5. result \in Result /\ result.run = i /\ result.param = population[i] /\ result.score = score
  BY <1>3, <1>4 DEF Result
<1>6. \/ results' = results /\ score = Failed /\ method # "genetic"
      \/ results' = results \cup {result}
  BY <1>2 DEF Optimizer!Sent
<1> HIDE DEF result
<1>7. IsFiniteSet(results') /\ results' \subseteq Result
  BY <1>5, <1>6, FS_AddElement DEF OInv, SearchTyped
<1>8. worker' \in [DOMAIN population -> {"waiting", "sorting", "running", "misled", "sent"}]
      /\ worker'[i] = "sent" /\ \A j \in DOMAIN population : j # i => worker'[j] = worker[j]
  BY <1>1 DEF OInv, SearchTyped
<1>9. SearchTyped'
  BY <1>1, <1>7, <1>8 DEF OInv, SearchTyped, Optimizer!NoResult
<1>10. ResultsOK'
  <2>1. \A r \in results' : r.run \in DOMAIN population /\ r.param = population[r.run] /\ r.score >= Failed
    BY <1>4, <1>5, <1>6 DEF OInv, ResultsOK
  <2>2. clean => \A r \in results' : r.score = Scores[r.param]
    BY <1>4, <1>5, <1>6 DEF OInv, ResultsOK
  <2>3. ASSUME NEW j \in DOMAIN population, worker'[j] = "sent"
        PROVE  Reported(j)' \/ (method # "genetic" /\ (clean => Scores[population[j]] = Failed))
    <3>1. CASE j = i
      <4>1. CASE results' = results /\ score = Failed /\ method # "genetic"
        BY <1>4, <3>1, <4>1
      <4>2. CASE results' = results \cup {result}
        BY <1>1, <1>4, <1>5, <3>1, <4>2 DEF Reported
      <4> QED
        BY <1>6, <4>1, <4>2
    <3>2. CASE j # i
      <4>1. worker[j] = "sent"
        BY <1>8, <2>3, <3>2
      <4>2. Reported(j) \/ (method # "genetic" /\ (clean => Scores[population[j]] = Failed))
        BY <4>1 DEF OInv, ResultsOK
      <4>3. Reported(j) => Reported(j)'
        BY <1>1, <1>6 DEF Reported
      <4> QED
        BY <4>2, <4>3
    <3> QED
      BY <3>1, <3>2
  <2>4. clean => order # "garbled" /\ \A j \in DOMAIN population : worker'[j] # "misled"
    BY <1>8 DEF OInv, ResultsOK
  <2> QED
    BY <1>1, <2>1, <2>2, <2>3, <2>4 DEF ResultsOK
<1>11. Cardinality(Optimizer!In({"sorting", "running", "misled"}))' <= Parallel
  <2>1. Optimizer!In({"sorting", "running", "misled"})' = Active \ {i}
    BY <1>1, <1>8 DEF Optimizer!In, Optimizer!Workers, Active
  <2>2. Cardinality(Active \ {i}) <= Cardinality(Active) /\ Cardinality(Active \ {i}) \in Nat
    <3>1. Active \ {i} \subseteq Active
      OBVIOUS
    <3> QED
      BY <3>1, ActiveData, FS_Subset, FS_CardinalityType
  <2>3. Parallel \in Nat
    BY DEF Optimizer!OptimizerAssumption
  <2> QED
    BY ActiveData, <2>1, <2>2, <2>3
<1>12. clean' \in BOOLEAN /\ (Parallel = 1 => clean')
  BY <1>1 DEF OInv, SearchTyped, Optimizer!GridFindsTheBest
<1> QED
  BY <1>1, <1>9, <1>10, <1>11, <1>12, SearchSame DEF OInv

LEMMA RankGridKeeps ==
    ASSUME OInv, Optimizer!OptimizerAssumption, Optimizer!RankGrid
    PROVE  OInv'
<1>1. method # "genetic" /\ UNCHANGED <<method, end, order, clean, round, population, worker, results, tested>>
      /\ outcome' \in {"panic", "testing", "summary"}
  BY DEF Optimizer!RankGrid
<1>2. \A i \in DOMAIN population : worker[i] = "sent"
  BY DEF Optimizer!RankGrid, Optimizer!AllSent, Optimizer!In, Optimizer!Workers
<1>3. \/ results = {} /\ outcome' = "panic" /\ best' = best
      \/ results # {} /\ outcome' # "panic" /\ \E ranked \in Optimizer!Rankings : best' = ranked[1]
  BY DEF Optimizer!RankGrid
<1>4. best'.score \in Int /\ (results # {} => \A r \in results : r.score <= best'.score)
  <2>1. CASE results = {}
    BY <1>3, <2>1 DEF OInv, SearchTyped
  <2>2. CASE results # {}
    BY <1>3, <2>2, RankingData DEF OInv, SearchTyped, Result
  <2> QED
    BY <2>1, <2>2
<1>5. SearchTyped'
  <2>1. ASSUME outcome' = "testing" PROVE method = "walk" /\ best'.param \in Values
    <3>1. PICK ranked \in Optimizer!Rankings : best' = ranked[1]
      BY <1>3, <2>1
    <3>2. best' \in results
      BY <1>3, <2>1, <3>1, RankingData
    <3> QED
      BY <2>1, <3>2 DEF Optimizer!RankGrid, OInv, SearchTyped, Result
  <2> QED
    BY <1>1, <1>4, <2>1 DEF OInv, SearchTyped, Optimizer!NoResult
<1>6. ResultsOK'
  BY <1>1 DEF OInv, ResultsOK, Reported
<1>7. Optimizer!GridFindsTheBest'
  <2>1. Parallel = 1 => clean
    BY DEF OInv, Optimizer!GridFindsTheBest
  <2>2. ASSUME clean, results # {}, NEW i \in DOMAIN population PROVE Scores[population[i]] <= best'.score
    <3>1. CASE Reported(i)
      BY <1>4, <2>2, <3>1 DEF Reported
    <3>2. CASE Scores[population[i]] = Failed
      <4>1. PICK r \in results : TRUE
        BY <2>2
      <4>2. r.score \in Int /\ Failed <= r.score /\ r.score <= best'.score /\ Failed \in Int
        BY <1>4, <4>1 DEF OInv, SearchTyped, ResultsOK, Result, Optimizer!OptimizerAssumption
      <4> QED
        BY <1>4, <3>2, <4>2
    <3> QED
      BY <1>1, <1>2, <2>2, <3>1, <3>2 DEF OInv, ResultsOK
  <2>3. ASSUME clean, results = {}, NEW i \in DOMAIN population PROVE Scores[population[i]] = Failed
    BY <1>1, <1>2, <2>3 DEF OInv, ResultsOK, Reported
  <2> QED
    BY <1>1, <1>3, <2>1, <2>2, <2>3 DEF Optimizer!GridFindsTheBest, Optimizer!Workers
<1>8. Optimizer!EliteSurvives' /\ (Cardinality(Optimizer!In({"sorting", "running", "misled"})) <= Parallel)'
  BY <1>1 DEF OInv, Optimizer!EliteSurvives, Optimizer!In, Optimizer!Workers
<1> QED
  BY <1>1, <1>5, <1>6, <1>7, <1>8 DEF OInv

\* A round begins: every goroutine waits and no result is in.
LEMMA RoundBegins ==
    ASSUME OInv, Optimizer!OptimizerAssumption, results' = {}, clean' = clean, order' = order,
           worker' = [i \in DOMAIN population' |-> "waiting"]
    PROVE  ResultsOK' /\ Cardinality(Optimizer!In({"sorting", "running", "misled"}))' <= Parallel
           /\ worker' \in [DOMAIN population' -> {"waiting", "sorting", "running", "misled", "sent"}]
<1>1. ResultsOK'
  BY DEF OInv, ResultsOK
<1>2. Optimizer!In({"sorting", "running", "misled"})' = {}
  BY DEF Optimizer!In, Optimizer!Workers
<1>3. Cardinality({}) <= Parallel
  BY FS_EmptySet DEF Optimizer!OptimizerAssumption
<1> QED
  BY <1>1, <1>2, <1>3

LEMMA TestOutOfSampleKeeps ==
    ASSUME OInv, Optimizer!OptimizerAssumption, Optimizer!TestOutOfSample
    PROVE  OInv'
<1>1. outcome = "testing" /\ method = "walk" /\ best.param \in Values
      /\ UNCHANGED <<method, end, order, clean, population>>
  BY DEF Optimizer!TestOutOfSample, OInv, SearchTyped
<1>2. \A r \in tested' : r.score \in Int
  <2>1. PICK score \in {Scores[best.param], Failed} :
           tested' = IF score = Failed THEN tested
                     ELSE tested \cup {[param |-> best.param, score |-> score, run |-> round]}
    BY DEF Optimizer!TestOutOfSample
  <2>2. score \in Int
    BY <1>1 DEF Optimizer!OptimizerAssumption, Values
  <2> QED
    BY <2>1, <2>2 DEF OInv, SearchTyped
<1>3. Optimizer!GridFindsTheBest' /\ Optimizer!EliteSurvives'
  BY <1>1 DEF OInv, Optimizer!GridFindsTheBest, Optimizer!EliteSurvives
<1>4. CASE /\ round' = round + 1 /\ outcome' = "running" /\ best' = best /\ results' = {}
           /\ worker' = [i \in Optimizer!Workers |-> "waiting"]
  <2>1. worker' = [i \in DOMAIN population' |-> "waiting"]
    BY <1>1, <1>4 DEF Optimizer!Workers
  <2>2. SearchTyped'
    BY <1>1, <1>2, <1>4, <2>1, RoundBegins, FS_EmptySet DEF OInv, SearchTyped
  <2> QED
    BY <1>1, <1>3, <1>4, <2>1, <2>2, RoundBegins DEF OInv
<1>5. CASE /\ UNCHANGED <<round, worker, results>> /\ outcome' \in {"panic", "summary"}
           /\ best' \in tested' \cup {best}
  <2>1. best'.score \in Int
    BY <1>2, <1>5 DEF OInv, SearchTyped
  <2>2. SearchTyped'
    BY <1>1, <1>2, <1>5, <2>1 DEF OInv, SearchTyped
  <2>3. ResultsOK' /\ (Cardinality(Optimizer!In({"sorting", "running", "misled"})) <= Parallel)'
    BY <1>1, <1>5 DEF OInv, ResultsOK, Reported, Optimizer!In, Optimizer!Workers
  <2> QED
    BY <1>1, <1>3, <2>2, <2>3 DEF OInv
<1>6. \/ /\ round' = round + 1 /\ outcome' = "running" /\ best' = best /\ results' = {}
         /\ worker' = [i \in Optimizer!Workers |-> "waiting"]
      \/ /\ UNCHANGED <<round, worker, results>> /\ outcome' \in {"panic", "summary"}
         /\ best' \in tested' \cup {best}
  <2>1. CASE round < Optimizer!Cardinality(Optimizer!Windows(end))
    BY <2>1 DEF Optimizer!TestOutOfSample
  <2>2. CASE ~ (round < Optimizer!Cardinality(Optimizer!Windows(end)))
    <3>1. /\ UNCHANGED <<round, worker, results>>
          /\ outcome' = (IF tested' = {} THEN "panic" ELSE "summary")
          /\ best' \in IF tested' = {} THEN {best}
                       ELSE {r \in tested' : \A s \in tested' : s.score <= r.score}
      BY <2>2 DEF Optimizer!TestOutOfSample
    <3> QED
      BY <3>1
  <2> QED
    BY <2>1, <2>2
<1> QED
  BY <1>4, <1>5, <1>6

LEMMA NextGenerationKeeps ==
    ASSUME OInv, Optimizer!OptimizerAssumption, Optimizer!NextGeneration
    PROVE  OInv'
<1>1. Optimizer!AllSent /\ outcome = "running" /\ method = "genetic" /\ UNCHANGED <<method, end, order, clean>>
  BY DEF Optimizer!NextGeneration, Optimizer!AllSent
<1>2. results # {} /\ Cardinality(results) >= PopSize /\ DOMAIN population = 1 .. PopSize
      /\ \A i \in DOMAIN population : Reported(i)
  BY <1>1, AllReported
<1>3. PICK ranked \in Optimizer!Rankings :
         /\ best' = Optimizer!BestOf(ranked[1])
         /\ IF round = Generations
            THEN outcome' = "summary" /\ UNCHANGED <<round, population, worker, results>>
            ELSE /\ population' \in Optimizer!NextPopulations(ranked)
                 /\ round' = round + 1 /\ results' = {} /\ worker' = [i \in 1 .. PopSize |-> "waiting"]
                 /\ UNCHANGED outcome
  BY DEF Optimizer!NextGeneration
<1> DEFINE top == ranked[1]
           n == Cardinality(results)
<1>4. /\ ranked \in [1 .. n -> results] /\ n \in Nat \ {0} /\ top \in results
      /\ \A r \in results : r.score <= top.score
  BY <1>2, RankingData
<1>5. /\ results \subseteq Result /\ Failed \in Int /\ (\A r \in results : r.score \in Int /\ r.score >= Failed)
      /\ top.score \in Int /\ top.param \in Values /\ best.score \in Int /\ PopSize \in Nat \ {0}
  BY <1>4 DEF OInv, SearchTyped, ResultsOK, Result, Optimizer!OptimizerAssumption
<1>6. best' \in {top, best} /\ best'.score \in Int /\ best'.score >= top.score /\ best'.score >= best.score
      /\ (best' = top \/ (best # Optimizer!NoResult /\ top.score <= best.score /\ best' = best))
  <2> HIDE DEF top, n
  <2>1. best' = IF best = Optimizer!NoResult \/ top.score > best.score THEN top ELSE best
    BY <1>3 DEF Optimizer!BestOf, top
  <2>2. CASE best = Optimizer!NoResult
    <3>1. best' = top /\ best.score = Failed
      BY <2>1, <2>2 DEF Optimizer!NoResult
    <3> QED
      BY <1>4, <1>5, <3>1
  <2>3. CASE best # Optimizer!NoResult /\ top.score > best.score
    BY <1>5, <2>1, <2>3
  <2>4. CASE best # Optimizer!NoResult /\ ~ (top.score > best.score)
    BY <1>5, <2>1, <2>4
  <2> QED
    BY <2>2, <2>3, <2>4
<1>7. \A r \in tested' : r.score \in Int /\ r.score <= best'.score
  <2>1. tested' = tested \cup {[r EXCEPT !.run = <<round, r.run>>] : r \in results}
    BY DEF Optimizer!NextGeneration
  <2>2. \A r \in tested : r.score \in Int /\ r.score <= best.score
    BY <1>1 DEF OInv, SearchTyped
  <2>3. \A r \in results : [r EXCEPT !.run = <<round, r.run>>].score = r.score
    BY <1>5 DEF Result
  <2> HIDE DEF top, n
  <2>4. \A r \in results : r.score \in Int /\ r.score <= best'.score
    BY <1>4, <1>5, <1>6
  <2>5. \A r \in tested : r.score <= best'.score
    BY <1>5, <1>6, <2>2
  <2> QED
    BY <2>1, <2>2, <2>3, <2>4, <2>5
<1>8. ASSUME clean, EliteCount > 0 PROVE Scores[top.param] >= best'.score
  <2>1. top.score = Scores[top.param]
    BY <1>4, <1>8 DEF OInv, ResultsOK
  <2>2. CASE best' = top
    <3> HIDE DEF top
    <3> QED
      BY <1>5, <2>1, <2>2
  <2>3. CASE best # Optimizer!NoResult /\ best' = best
    <3>1. round > 1
      <4>1. round # 1 /\ round \in Nat \ {0}
        BY <1>1, <2>3 DEF OInv, SearchTyped
      <4> QED
        BY <4>1
    <3>2. PICK i \in DOMAIN population : Scores[population[i]] >= best.score
      BY <1>1, <1>8, <3>1 DEF OInv, Optimizer!EliteSurvives, Optimizer!Workers
    <3>3. PICK r \in results : r.run = i /\ r.score = Scores[population[i]]
      BY <1>2, <1>8 DEF Reported
    <3> HIDE DEF top
    <3>4. r.score <= top.score /\ r.score \in Int
      BY <1>4, <1>5
    <3> QED
      BY <1>5, <2>1, <2>3, <3>2, <3>3, <3>4
  <2> QED
    BY <1>6, <2>2, <2>3
<1>9. Optimizer!GridFindsTheBest'
  BY <1>1 DEF OInv, Optimizer!GridFindsTheBest
<1>10. CASE round = Generations
  <2>1. outcome' = "summary" /\ UNCHANGED <<round, population, worker, results>>
    BY <1>3, <1>10
  <2>2. SearchTyped'
    BY <1>1, <1>6, <1>7, <2>1 DEF OInv, SearchTyped
  <2>3. ResultsOK' /\ (Cardinality(Optimizer!In({"sorting", "running", "misled"})) <= Parallel)'
    BY <1>1, <2>1 DEF OInv, ResultsOK, Reported, Optimizer!In, Optimizer!Workers
  <2>4. Optimizer!EliteSurvives'
    <3>1. top.run \in DOMAIN population /\ top.param = population[top.run]
      BY <1>4 DEF OInv, ResultsOK
    <3> HIDE DEF top
    <3> QED
      BY <1>1, <1>7, <1>8, <2>1, <3>1 DEF Optimizer!EliteSurvives, Optimizer!Workers
  <2> QED
    BY <1>1, <1>7, <1>9, <2>2, <2>3, <2>4 DEF OInv
<1>11. CASE round # Generations
  <2>1. population' \in Optimizer!NextPopulations(ranked) /\ round' = round + 1 /\ results' = {}
        /\ worker' = [i \in 1 .. PopSize |-> "waiting"] /\ outcome' = outcome
    BY <1>3, <1>11
  <2> DEFINE elite == [i \in 1 .. EliteCount |-> ranked[i].param]
             children == {ranked[i].param : i \in DOMAIN ranked} \cup Values
  <2>2. PICK c \in [1 .. PopSize - EliteCount -> children] : population' = elite \o c
    BY <2>1 DEF Optimizer!NextPopulations, Values
  <2>3. EliteCount \in Nat /\ EliteCount <= PopSize /\ PopSize - EliteCount \in Nat /\ PopSize \in Nat
    BY <1>5 DEF Optimizer!OptimizerAssumption
  <2>4. \A i \in 1 .. n : ranked[i].param \in Values
    BY <1>4, <1>5 DEF Result
  <2>5. children = Values
    BY <1>4, <2>4
  <2>6. elite \in [1 .. EliteCount -> Values]
    BY <1>2, <1>4, <2>3, <2>4
  <2>7. EliteCount > 0 => elite[1] = top.param
    BY <2>3
  <2> HIDE DEF elite, children, top, n
  <2>8. elite \in Seq(Values) /\ Len(elite) = EliteCount /\ c \in Seq(Values) /\ Len(c) = PopSize - EliteCount
    <3> DEFINE m == PopSize - EliteCount
    <3>1. m \in Nat /\ c \in [1 .. m -> Values]
      BY <2>2, <2>3, <2>5
    <3>2. elite \in Seq(Values) /\ Len(elite) = EliteCount
      BY <2>3, <2>6
    <3> HIDE DEF m
    <3>3. c \in Seq(Values) /\ Len(c) = m
      BY <3>1
    <3> QED
      BY <3>2, <3>3 DEF m
  <2>9. population' \in Seq(Values) /\ Len(population') = PopSize /\ (EliteCount > 0 => population'[1] = top.param)
    BY <2>2, <2>3, <2>7, <2>8
  <2>10. DOMAIN population' = 1 .. PopSize /\ \A i \in DOMAIN population' : population'[i] \in Values
    BY <2>9
  <2>11. worker' = [i \in DOMAIN population' |-> "waiting"]
    BY <2>1, <2>10
  <2>12. /\ worker' \in [DOMAIN population' -> {"waiting", "sorting", "running", "misled", "sent"}]
         /\ ResultsOK' /\ (Cardinality(Optimizer!In({"sorting", "running", "misled"})) <= Parallel)'
    BY <1>1, <2>1, <2>11, RoundBegins
  <2>13. SearchTyped'
    <3>1. round' \in Nat \ {0} /\ round' # 1
      BY <2>1 DEF OInv, SearchTyped
    <3> QED
      BY <1>1, <1>6, <1>7, <2>1, <2>3, <2>10, <2>12, <3>1, FS_EmptySet DEF OInv, SearchTyped
  <2>14. Optimizer!EliteSurvives'
    <3>1. EliteCount > 0 => 1 \in DOMAIN population'
      BY <1>5, <2>10
    <3> QED
      BY <1>1, <1>7, <1>8, <2>1, <2>9, <3>1 DEF Optimizer!EliteSurvives, Optimizer!Workers
  <2> QED
    BY <1>1, <1>7, <1>9, <2>12, <2>13, <2>14 DEF OInv
<1> QED
  BY <1>10, <1>11

LEMMA SearchStep == ASSUME OInv, Optimizer!OptimizerAssumption, Optimizer!OptimizerNext PROVE OInv'
BY LoadKeeps, SortKeeps, RunEndsKeeps, RankGridKeeps, TestOutOfSampleKeeps, NextGenerationKeeps
DEF Optimizer!OptimizerNext, Optimizer!Workers

LEMMA SearchRests == ASSUME OInv, UNCHANGED searches PROVE OInv'
<1>1. UNCHANGED <<method, end, order, clean, round, population, worker, results, tested, best, outcome>>
  BY DEF searches
<1>2. SearchTyped' /\ ResultsOK'
  BY <1>1 DEF OInv, SearchTyped, ResultsOK, Reported, Optimizer!NoResult
<1>3. (Cardinality(Optimizer!In({"sorting", "running", "misled"})) <= Parallel)'
  BY <1>1 DEF OInv, Optimizer!In, Optimizer!Workers
<1>4. Optimizer!GridFindsTheBest' /\ Optimizer!EliteSurvives'
  BY <1>1 DEF OInv, Optimizer!GridFindsTheBest, Optimizer!EliteSurvives, Optimizer!Workers
<1> QED
  BY <1>1, <1>2, <1>3, <1>4 DEF OInv

LEMMA SearchShows ==
    ASSUME OInv, Optimizer!OptimizerAssumption
    PROVE  /\ Optimizer!OptimizerTypeOK /\ Optimizer!GridFindsTheBest
           /\ Optimizer!EliteSurvives
BY OptimizerCardinality
DEF OInv, SearchTyped, Optimizer!OptimizerTypeOK, Optimizer!Workers, Values

-----------------------------------------------------------------------------
(* Sums over sets.  The fold of the community modules takes a set in an    *)
(* order of its own; the sums do not depend on it.                         *)

\* g adds up w over the subsets of S, in any order.
Additive(g, w, S) ==
    /\ g \in [SUBSET S -> Int]
    /\ g[{}] = 0
    /\ \A T \in SUBSET S : \A x \in S \ T : g[T \cup {x}] = w[x] + g[T]

\* A sum over a finite set exists, by induction over its size ...
LEMMA AdditiveExists ==
    ASSUME NEW S, IsFiniteSet(S), NEW w, \A x \in S : w[x] \in Int
    PROVE  \E g : Additive(g, w, S)
<1> DEFINE Bad == {n \in Nat : \E T \in SUBSET S : Cardinality(T) = n /\ ~ \E g : Additive(g, w, T)}
<1> SUFFICES ASSUME ~ \E g : Additive(g, w, S) PROVE FALSE
  OBVIOUS
<1>1. Cardinality(S) \in Bad
  BY FS_CardinalityType
<1>2. PICK n \in Bad : \A m \in Bad : ~ (m < n)
  <2>1. Bad \in SUBSET Nat /\ Bad # {}
    BY <1>1
  <2> HIDE DEF Bad
  <2> QED
    BY <2>1, Least
<1>3. PICK T \in SUBSET S : Cardinality(T) = n /\ ~ \E g : Additive(g, w, T)
  BY <1>2
<1>4. IsFiniteSet(T)
  BY FS_Subset
<1>5. CASE T = {}
  <2>1. Additive([s \in SUBSET {} |-> 0], w, {})
    BY DEF Additive
  <2> QED
    BY <1>3, <1>5, <2>1
<1>6. CASE T # {}
  <2>1. PICK a : a \in T
    BY <1>6
  <2>2. Cardinality(T \ {a}) = n - 1 /\ n - 1 \in Nat /\ n - 1 < n
    <3>1. Cardinality(T \ {a}) = Cardinality(T) - 1 /\ IsFiniteSet(T \ {a})
      BY <1>4, <2>1, FS_RemoveElement
    <3> QED
      BY <1>3, <3>1, FS_CardinalityType
  <2>3. PICK g0 : Additive(g0, w, T \ {a})
    BY <2>2, <1>2
  <2> DEFINE g == [s \in SUBSET T |-> IF a \in s THEN w[a] + g0[s \ {a}] ELSE g0[s]]
  <2>4. w[a] \in Int
    BY <2>1
  <2>5. \A s \in SUBSET (T \ {a}) : g0[s] \in Int
    BY <2>3 DEF Additive
  <2>6. \A s \in SUBSET T : s \ {a} \in SUBSET (T \ {a}) /\ (a \notin s => s \in SUBSET (T \ {a}))
    OBVIOUS
  <2>7. g \in [SUBSET T -> Int]
    BY <2>4, <2>5, <2>6
  <2>8. g[{}] = 0
    BY <2>3 DEF Additive
  <2>9. ASSUME NEW s \in SUBSET T, NEW x \in T \ s PROVE g[s \cup {x}] = w[x] + g[s]
    <3>0. s \cup {x} \in SUBSET T
      OBVIOUS
    <3>1. CASE x = a
      <4>1. (s \cup {a}) \ {a} = s
        BY <2>9, <3>1
      <4> QED
        BY <3>0, <3>1, <4>1, <2>9
    <3>2. CASE x # a /\ a \in s
      <4>1. (s \cup {x}) \ {a} = (s \ {a}) \cup {x}
        BY <3>2
      <4>2. g0[(s \ {a}) \cup {x}] = w[x] + g0[s \ {a}]
        BY <2>3, <2>6, <2>9, <3>2 DEF Additive
      <4>3. w[x] \in Int /\ g0[s \ {a}] \in Int
        BY <2>5, <2>6
      <4>4. g[s \cup {x}] = w[a] + g0[(s \cup {x}) \ {a}] /\ g[s] = w[a] + g0[s \ {a}]
        BY <3>0, <3>2
      <4> HIDE DEF g
      <4> QED
        <5>1. g[s \cup {x}] = w[a] + (w[x] + g0[s \ {a}])
          BY <4>1, <4>2, <4>4
        <5>2. \A i, j, k \in Int : i + (j + k) = j + (i + k)
          OBVIOUS
        <5> QED
          BY <5>1, <5>2, <4>3, <4>4, <2>4
    <3>3. CASE x # a /\ a \notin s
      <4>1. g0[s \cup {x}] = w[x] + g0[s]
        BY <2>3, <2>6, <2>9, <3>3 DEF Additive
      <4> QED
        BY <3>0, <3>3, <4>1
    <3> QED
      BY <3>1, <3>2, <3>3
  <2>10. Additive(g, w, T)
    BY <2>7, <2>8, <2>9 DEF Additive
  <2> QED
    BY <1>3, <2>10
<1> QED
  BY <1>5, <1>6

\* The fold of the community modules is that sum.
LEMMA SumIsAdditive ==
    ASSUME NEW S, IsFiniteSet(S), NEW w, NEW g, Additive(g, w, S)
    PROVE  SumFunctionOnSet(w, S) = g[S]
<1> DEFINE c(s) == CHOOSE x \in s : TRUE
           E(f) == [s \in SUBSET S |-> IF s = {} THEN 0 ELSE w[c(s)] + f[s \ {c(s)}]]
           it == CHOOSE f : f = E(f)
<1>1. SumFunctionOnSet(w, S) = it[S]
  BY DEF SumFunctionOnSet, FoldFunctionOnSet, MapThenFoldSet
<1>2. \A s \in SUBSET S : s # {} => c(s) \in s /\ (s \ {c(s)}) \cup {c(s)} = s /\ s \ {c(s)} \in SUBSET S
  OBVIOUS
<1>3. g = E(g)
  <2>1. ASSUME NEW s \in SUBSET S, s # {} PROVE g[s] = w[c(s)] + g[s \ {c(s)}]
    <3>1. c(s) \in s /\ (s \ {c(s)}) \cup {c(s)} = s /\ s \ {c(s)} \in SUBSET S /\ c(s) \in S \ (s \ {c(s)})
      BY <1>2, <2>1
    <3> HIDE DEF c
    <3> QED
      BY <3>1 DEF Additive
  <2>2. g = [s \in SUBSET S |-> g[s]] /\ g[{}] = 0
    BY DEF Additive
  <2> HIDE DEF c
  <2> QED
    BY <2>1, <2>2
<1>4. it = E(it)
  BY <1>3
<1> HIDE DEF it, c
<1>5. \A s \in SUBSET S : it[s] = IF s = {} THEN 0 ELSE w[c(s)] + it[s \ {c(s)}]
  BY <1>4
<1>6. \A s \in SUBSET S : g[s] = IF s = {} THEN 0 ELSE w[c(s)] + g[s \ {c(s)}]
  BY <1>3
<1> HIDE DEF E
<1>7. SUFFICES ASSUME it[S] # g[S] PROVE FALSE
  BY <1>1
<1> DEFINE Bad == {n \in Nat : \E s \in SUBSET S : Cardinality(s) = n /\ it[s] # g[s]}
<1>8. Cardinality(S) \in Bad
  BY <1>7, FS_CardinalityType
<1>9. PICK n \in Bad : \A m \in Bad : ~ (m < n)
  <2>1. Bad \in SUBSET Nat /\ Bad # {}
    BY <1>8
  <2> HIDE DEF Bad
  <2> QED
    BY <2>1, Least
<1>10. PICK s \in SUBSET S : Cardinality(s) = n /\ it[s] # g[s]
  BY <1>9
<1>11. s # {}
  BY <1>5, <1>6, <1>10
<1>12. Cardinality(s \ {c(s)}) = n - 1 /\ n - 1 \in Nat /\ n - 1 < n
  <2>1. c(s) \in s /\ IsFiniteSet(s)
    BY <1>2, <1>11, FS_Subset
  <2>2. Cardinality(s \ {c(s)}) = Cardinality(s) - 1 /\ IsFiniteSet(s \ {c(s)})
    BY <2>1, FS_RemoveElement
  <2> QED
    BY <1>10, <2>1, <2>2, FS_CardinalityType
<1>13. it[s \ {c(s)}] = g[s \ {c(s)}]
  BY <1>2, <1>9, <1>11, <1>12
<1> QED
  BY <1>5, <1>6, <1>10, <1>11, <1>13

LEMMA SumEmpty == ASSUME NEW w PROVE SumFunctionOnSet(w, {}) = 0
<1>1. Additive([s \in SUBSET {} |-> 0], w, {})
  BY DEF Additive
<1> QED
  BY <1>1, SumIsAdditive, FS_EmptySet

\* ... and grows by the element that is added.
LEMMA SumAdd ==
    ASSUME NEW S, IsFiniteSet(S), NEW a, a \notin S, NEW w, \A x \in S \cup {a} : w[x] \in Int
    PROVE  SumFunctionOnSet(w, S \cup {a}) = w[a] + SumFunctionOnSet(w, S)
<1>1. IsFiniteSet(S \cup {a})
  BY FS_AddElement
<1>2. PICK g : Additive(g, w, S \cup {a})
  BY <1>1, AdditiveExists
<1> DEFINE h == [s \in SUBSET S |-> g[s]]
<1>3. Additive(h, w, S)
  <2>1. SUBSET S \subseteq SUBSET (S \cup {a})
    OBVIOUS
  <2>2. h \in [SUBSET S -> Int] /\ h[{}] = 0
    BY <1>2, <2>1 DEF Additive
  <2>3. ASSUME NEW T \in SUBSET S, NEW x \in S \ T PROVE h[T \cup {x}] = w[x] + h[T]
    <3>1. T \cup {x} \in SUBSET S /\ x \in (S \cup {a}) \ T /\ T \in SUBSET (S \cup {a})
      OBVIOUS
    <3>2. g[T \cup {x}] = w[x] + g[T]
      BY <1>2, <3>1 DEF Additive
    <3> QED
      BY <3>1, <3>2
  <2> QED
    BY <2>2, <2>3 DEF Additive
<1>4. SumFunctionOnSet(w, S) = g[S]
  BY <1>3, SumIsAdditive
<1>5. SumFunctionOnSet(w, S \cup {a}) = g[S \cup {a}]
  BY <1>1, <1>2, SumIsAdditive
<1>6. g[S \cup {a}] = w[a] + g[S]
  BY <1>2 DEF Additive
<1> QED
  BY <1>4, <1>5, <1>6

\* Sums of equal summands are equal.
LEMMA SumAgree ==
    ASSUME NEW S, IsFiniteSet(S), NEW w, NEW v, \A x \in S : w[x] \in Int /\ v[x] = w[x]
    PROVE  SumFunctionOnSet(v, S) = SumFunctionOnSet(w, S)
<1>1. PICK g : Additive(g, w, S)
  BY AdditiveExists
<1>2. Additive(g, v, S)
  BY <1>1 DEF Additive
<1> QED
  BY <1>1, <1>2, SumIsAdditive

-----------------------------------------------------------------------------
(* The backtest.  What its books, marks and judgements come from.          *)

CandleSet == [time : Nat, close : Nat \ {0}]
Position == [entry : Nat, qty : Nat \ {0}, at : Nat, fee : Nat, mark : Nat]
Trade == [symbol : Loaded, pl : Int, at : Nat, until : Nat]
Signal == [symbol : Loaded \cup {None}, side : {"BUY", "SELL", "HOLD"}]
Book == [cash : Nat, open : UNION {[S -> Position] : S \in SUBSET Loaded}, closed : Seq(Trade),
         profit : Nat, loss : Int]

\* What the open positions cost.
Cost(open) == SumFunction([s \in DOMAIN open |-> open[s].entry * open[s].qty + open[s].fee])

\* The time of a candle that a symbol is at or past, and of which an agent said to buy.
Passed(s, time) == \E k \in DOMAIN data[s] : k <= index[s] /\ data[s][k].time = time
Said(s, time) == \E a \in Agents : <<a, s, time>> \in bought

\* Sound books: they balance, what was sold was sold before it was bought again,
\* and every position was bought at a candle at which an agent said so.
BookOK(b) ==
    /\ b \in Book /\ b.loss <= 0 /\ b.cash = Capital + b.profit + b.loss - Cost(b.open)
    /\ \A i \in DOMAIN b.closed : b.closed[i].pl > 0 => b.profit > 0
    /\ \A s \in DOMAIN b.open : Passed(s, b.open[s].at) /\ Said(s, b.open[s].at)
    /\ \A i \in DOMAIN b.closed :
          /\ Passed(b.closed[i].symbol, b.closed[i].until) /\ Said(b.closed[i].symbol, b.closed[i].at)
          /\ \A s \in DOMAIN b.open : b.closed[i].symbol = s => b.closed[i].until <= b.open[s].at
          /\ \A j \in DOMAIN b.closed :
                i < j /\ b.closed[i].symbol = b.closed[j].symbol => b.closed[i].until <= b.closed[j].at

\* The loaded candles, in order.
LEMMA DataOK ==
    ASSUME BacktestAssumption, data \in Histories
    PROVE  /\ IsFiniteSet(Loaded) /\ None \notin Loaded
           /\ \A s \in Loaded :
                 /\ data[s] \in Seq(CandleSet) /\ DOMAIN data[s] = 1 .. Len(data[s]) /\ Len(data[s]) \in Nat
                 /\ \A i \in DOMAIN data[s] : data[s][i] \in CandleSet
                 /\ \A i, j \in DOMAIN data[s] : i <= j => data[s][i].time <= data[s][j].time
<1>1. IsFiniteSet(Loaded) /\ None \notin Loaded
  BY DEF BacktestAssumption, Loaded
<1>2. ASSUME NEW s \in Loaded
      PROVE  /\ data[s] \in Seq(CandleSet)
             /\ \A i, j \in DOMAIN data[s] : i < j => data[s][i].time <= data[s][j].time
  BY <1>2 DEF BacktestAssumption, Loaded, CandleSet
<1>3. ASSUME NEW s \in Loaded
      PROVE  /\ data[s] \in Seq(CandleSet) /\ DOMAIN data[s] = 1 .. Len(data[s]) /\ Len(data[s]) \in Nat
             /\ \A i \in DOMAIN data[s] : data[s][i] \in CandleSet
  BY <1>2, <1>3
<1>4. ASSUME NEW s \in Loaded, NEW i \in DOMAIN data[s], NEW j \in DOMAIN data[s], i <= j
      PROVE  data[s][i].time <= data[s][j].time
  <2>1. data[s][i].time \in Nat /\ data[s][j].time \in Nat
    BY <1>3, <1>4 DEF CandleSet
  <2>2. i = j \/ i < j
    BY <1>3, <1>4
  <2> QED
    BY <1>2, <1>4, <2>1, <2>2
<1> QED
  BY <1>1, <1>3, <1>4

\* The sums of books.
LEMMA SumInt ==
    ASSUME NEW S, IsFiniteSet(S), NEW w, \A x \in S : w[x] \in Int
    PROVE  SumFunctionOnSet(w, S) \in Int
<1>1. PICK g : Additive(g, w, S)
  BY AdditiveExists
<1>2. g[S] \in Int
  BY <1>1 DEF Additive
<1> QED
  BY <1>1, <1>2, SumIsAdditive

\* The numbers of a position.
LEMMA PositionCost ==
    ASSUME NEW p \in Position
    PROVE  /\ p.entry * p.qty + p.fee \in Int /\ p.mark * p.qty \in Int
           /\ p.entry \in Nat /\ p.qty \in Nat /\ p.qty > 0 /\ p.fee \in Nat /\ p.mark \in Nat /\ p.at \in Nat
BY DEF Position

LEMMA CostInt ==
    ASSUME NEW D, IsFiniteSet(D), NEW o \in [D -> Position]
    PROVE  Cost(o) \in Int
<1> DEFINE w == [s \in DOMAIN o |-> o[s].entry * o[s].qty + o[s].fee]
<1>1. DOMAIN w = D /\ \A x \in D : w[x] \in Int
  BY PositionCost
<1> HIDE DEF w
<1>2. SumFunctionOnSet(w, D) \in Int
  BY <1>1, SumInt
<1> QED
  BY <1>1, <1>2 DEF w, Cost, SumFunction

LEMMA EquityInt ==
    ASSUME NEW b, BookOK(b), IsFiniteSet(Loaded)
    PROVE  Equity(b) \in Int
<1> DEFINE w == [s \in DOMAIN b.open |-> b.open[s].mark * b.open[s].qty]
           D == DOMAIN b.open
<1>1. D \subseteq Loaded /\ b.open \in [D -> Position] /\ b.cash \in Nat
  BY DEF BookOK, Book
<1>2. IsFiniteSet(D)
  BY <1>1, FS_Subset
<1>3. DOMAIN w = D /\ \A x \in D : w[x] \in Int
  BY <1>1, PositionCost
<1> HIDE DEF w, D
<1>4. SumFunctionOnSet(w, D) \in Int
  BY <1>2, <1>3, SumInt
<1> QED
  BY <1>1, <1>3, <1>4 DEF w, Equity, SumFunction

LEMMA CostAgrees ==
    ASSUME NEW D, IsFiniteSet(D), NEW o \in [D -> Position], NEW q \in [D -> Position],
           \A s \in D : q[s].entry = o[s].entry /\ q[s].qty = o[s].qty /\ q[s].fee = o[s].fee
    PROVE  Cost(q) = Cost(o)
<1> DEFINE w == [s \in DOMAIN o |-> o[s].entry * o[s].qty + o[s].fee]
           v == [s \in DOMAIN q |-> q[s].entry * q[s].qty + q[s].fee]
<1>1. v = w
  OBVIOUS
<1> HIDE DEF v, w
<1> QED
  BY <1>1 DEF Cost, v, w

\* The cost of the positions grows by what a buy adds ...
LEMMA CostOpened ==
    ASSUME NEW D, IsFiniteSet(D), NEW o \in [D -> Position], NEW s, s \notin D, NEW p \in Position
    PROVE  Cost(Opened(o, s, p)) = Cost(o) + (p.entry * p.qty + p.fee)
<1> DEFINE q == Opened(o, s, p)
           w == [t \in DOMAIN o |-> o[t].entry * o[t].qty + o[t].fee]
           v == [t \in DOMAIN q |-> q[t].entry * q[t].qty + q[t].fee]
<1>1. DOMAIN q = D \cup {s} /\ q[s] = p /\ \A t \in D : q[t] = o[t]
  BY DEF Opened
<1> HIDE DEF q
<1>2. DOMAIN v = D \cup {s} /\ v[s] = p.entry * p.qty + p.fee /\ DOMAIN w = D
      /\ \A t \in D : w[t] \in Int /\ v[t] = w[t]
  BY <1>1, PositionCost
<1>3. v[s] \in Int
  BY <1>2, PositionCost
<1> HIDE DEF v, w
<1>4. SumFunctionOnSet(v, D \cup {s}) = v[s] + SumFunctionOnSet(v, D)
  <2>1. \A t \in D \cup {s} : v[t] \in Int
    BY <1>2, <1>3
  <2> QED
    BY <2>1, SumAdd
<1>5. SumFunctionOnSet(v, D) = SumFunctionOnSet(w, D)
  BY <1>2, SumAgree
<1>6. SumFunctionOnSet(w, D) \in Int
  BY <1>2, SumInt
<1>7. Cost(q) = SumFunctionOnSet(v, D \cup {s}) /\ Cost(o) = SumFunctionOnSet(w, D)
  BY <1>2 DEF Cost, SumFunction, v, w
<1> DEFINE x == p.entry * p.qty + p.fee
<1>8. x \in Int /\ v[s] = x
  BY <1>2, <1>3
<1> HIDE DEF x
<1>9. Cost(q) = Cost(o) + x
  BY <1>4, <1>5, <1>6, <1>7, <1>8
<1> QED
  BY <1>9 DEF x, q

\* ... and shrinks by what a sale removes.
LEMMA CostClosed ==
    ASSUME NEW D, IsFiniteSet(D), NEW o \in [D -> Position], NEW s \in D
    PROVE  Cost(Restrict(o, D \ {s})) = Cost(o) - (o[s].entry * o[s].qty + o[s].fee)
<1> DEFINE E == D \ {s}
           q == Restrict(o, E)
           p == o[s]
<1>1. IsFiniteSet(E) /\ q \in [E -> Position] /\ s \notin E /\ p \in Position
  <2>1. E \subseteq D
    OBVIOUS
  <2> QED
    BY <2>1, FS_Subset DEF Restrict
<1>2. Opened(q, s, p) = o
  <2>1. DOMAIN q \cup {s} = D
    BY DEF Restrict
  <2>2. \A t \in D : (IF t = s THEN p ELSE q[t]) = o[t]
    BY DEF Restrict
  <2>3. o = [t \in D |-> o[t]]
    OBVIOUS
  <2> HIDE DEF q
  <2> QED
    BY <2>1, <2>2, <2>3 DEF Opened
<1> HIDE DEF q, E
<1>3. Cost(o) = Cost(q) + (p.entry * p.qty + p.fee)
  BY <1>1, <1>2, CostOpened
<1>4. Cost(q) \in Int /\ p.entry * p.qty + p.fee \in Int
  BY <1>1, CostInt, PositionCost
<1> DEFINE x == p.entry * p.qty + p.fee
<1>5. x \in Int /\ Cost(o) = Cost(q) + x
  BY <1>3, <1>4
<1> HIDE DEF x
<1>6. Cost(q) = Cost(o) - x
  BY <1>4, <1>5
<1> QED
  BY <1>6 DEF x, q, E

\* What a position is bought for.
LEMMA KellyInt ==
    ASSUME BacktestAssumption, NEW b, BookOK(b)
    PROVE  KellyPct(b) \in Int
<1> DEFINE trades == Len(b.closed)
           won == Cardinality({i \in 1 .. trades : b.closed[i].pl > 0})
           kelly == (100 * won * (b.profit + b.loss)) \div (trades * b.profit)
           adjusted == (kelly * KellyFraction) \div 100
<1>1. trades \in Nat /\ b.profit \in Nat /\ b.loss \in Int /\ DOMAIN b.closed = 1 .. trades
  BY DEF BookOK, Book
<1>2. IsFiniteSet(1 .. trades)
  BY <1>1, FS_Interval
<1>3. won \in Nat
  <2>1. {i \in 1 .. trades : b.closed[i].pl > 0} \subseteq 1 .. trades
    OBVIOUS
  <2> QED
    BY <1>2, <2>1, FS_Subset, FS_CardinalityType
<1>4. won # 0 => trades > 0 /\ b.profit > 0
  <2> SUFFICES ASSUME won # 0 PROVE trades > 0 /\ b.profit > 0
    OBVIOUS
  <2>1. {i \in 1 .. trades : b.closed[i].pl > 0} # {}
    BY FS_EmptySet
  <2>2. PICK i \in 1 .. trades : b.closed[i].pl > 0
    BY <2>1
  <2> QED
    BY <1>1, <2>2 DEF BookOK
<1> HIDE DEF won, trades
<1>5. won # 0 => kelly \in Int /\ adjusted \in Int
  <2> SUFFICES ASSUME won # 0 PROVE kelly \in Int
    <3>1. ASSUME kelly \in Int PROVE adjusted \in Int
      <4> HIDE DEF kelly
      <4>1. KellyFraction \in Int
        BY DEF KellyFraction
      <4>2. \A k, f \in Int : (k * f) \div 100 \in Int
        <5>1. \A m \in Int : m \div 100 \in Int
          OBVIOUS
        <5> QED
          BY <5>1
      <4> QED
        BY <3>1, <4>1, <4>2
    <3> QED
      BY <3>1
  <2> DEFINE x == 100 * won * (b.profit + b.loss)
             y == trades * b.profit
  <2>1. x \in Int
    BY <1>1, <1>3
  <2>2. y \in Nat /\ y > 0
    BY <1>1, <1>4
  <2> HIDE DEF x, y
  <2>3. x \div y \in Int
    BY <2>1, <2>2
  <2> QED
    BY <2>3 DEF x, y
<1> HIDE DEF kelly, adjusted
<1>6. KellyPct(b) = IF trades < KellyTrades \/ won = 0 \/ won = trades \/ b.loss = 0 THEN 10
                    ELSE IF kelly <= 0 \/ adjusted < 1 THEN 1
                    ELSE IF adjusted > 25 THEN 25 ELSE adjusted
  BY DEF KellyPct, trades, won, kelly, adjusted
<1> QED
  BY <1>5, <1>6

\* The size of a position is a number whatever the method.
LEMMA SizeInt ==
    ASSUME BacktestAssumption, sizing \in Sizings, IsFiniteSet(Loaded), NEW b, BookOK(b), NEW price \in Nat, price > 0
    PROVE  PositionSize(b, price) \in Int
<1> DEFINE e == Equity(b)
           k == KellyPct(b)
<1>1. e \in Int /\ k \in Int /\ FixedSize \in Nat
  BY EquityInt, KellyInt DEF BacktestAssumption
<1> HIDE DEF e, k
<1>2. \A x \in Int : x \div price \in Int /\ x \div 100 \in Int
  OBVIOUS
<1>3. e * FixedSize \in Int /\ e * k \in Int
  BY <1>1
<1>4. sizing \in {"fixed", "percent", "kelly", "default"}
  <2>1. Sizings \subseteq {"fixed", "percent", "kelly", "default"}
    BY DEF BacktestAssumption
  <2> QED
    BY <2>1
<1>5. CASE sizing = "fixed"
  BY <1>1, <1>2, <1>5 DEF PositionSize
<1>6. CASE sizing = "percent"
  <2>1. PositionSize(b, price) = ((e * FixedSize) \div 100) \div price
    BY <1>6 DEF PositionSize, e
  <2> QED
    BY <1>2, <1>3, <2>1
<1>7. CASE sizing = "kelly"
  <2>1. PositionSize(b, price) = ((e * k) \div 100) \div price
    BY <1>7 DEF PositionSize, e, k
  <2> QED
    BY <1>2, <1>3, <2>1
<1>8. CASE sizing = "default"
  BY <1>2, <1>8 DEF PositionSize
<1> QED
  BY <1>4, <1>5, <1>6, <1>7, <1>8

\* A commission is a part of what is traded.
LEMMA CommissionPart ==
    ASSUME BacktestAssumption, NEW value \in Nat
    PROVE  Commission(value) \in Nat /\ Commission(value) <= value
<1>1. RatePct \in Nat /\ RatePct <= 100
  <2>1. RatePct \in 0 .. 100
    BY Zenon DEF BacktestAssumption
  <2> QED
    BY <2>1
<1> DEFINE x == value * RatePct
<1>2. x \in Nat /\ x <= value * 100
  BY <1>1
<1> HIDE DEF x
<1>3. x \div 100 \in Nat /\ x \div 100 <= value
  BY <1>2
<1> QED
  BY <1>3 DEF Commission, x

\* What every position and trade of sound books refers to.
LEMMA BookData ==
    ASSUME NEW b, BookOK(b), IsFiniteSet(Loaded)
    PROVE  /\ DOMAIN b.open \subseteq Loaded /\ b.open \in [DOMAIN b.open -> Position] /\ IsFiniteSet(DOMAIN b.open)
           /\ b.closed \in Seq(Trade) /\ Len(b.closed) \in Nat /\ DOMAIN b.closed = 1 .. Len(b.closed)
           /\ \A i \in DOMAIN b.closed : b.closed[i] \in Trade
           /\ b.cash \in Nat /\ b.profit \in Nat /\ b.loss \in Int /\ b.loss <= 0 /\ Cost(b.open) \in Int
           /\ b = [cash |-> b.cash, open |-> b.open, closed |-> b.closed, profit |-> b.profit, loss |-> b.loss]
<1>1. b \in Book /\ b.loss <= 0
  BY DEF BookOK
<1>2. DOMAIN b.open \subseteq Loaded /\ b.open \in [DOMAIN b.open -> Position]
  BY <1>1 DEF Book
<1>3. IsFiniteSet(DOMAIN b.open)
  BY <1>2, FS_Subset
<1>4. Cost(b.open) \in Int
  BY <1>2, <1>3, CostInt
<1>5. b.closed \in Seq(Trade) /\ b.cash \in Nat /\ b.profit \in Nat /\ b.loss \in Int
      /\ b = [cash |-> b.cash, open |-> b.open, closed |-> b.closed, profit |-> b.profit, loss |-> b.loss]
  BY <1>1 DEF Book
<1> QED
  BY <1>1, <1>2, <1>3, <1>4, <1>5

\* A book is made of its parts.
LEMMA BookMade ==
    ASSUME NEW D \in SUBSET Loaded, NEW o \in [D -> Position], NEW c \in Seq(Trade),
           NEW cash \in Nat, NEW profit \in Nat, NEW loss \in Int
    PROVE  [cash |-> cash, open |-> o, closed |-> c, profit |-> profit, loss |-> loss] \in Book
<1>1. o \in UNION {[S -> Position] : S \in SUBSET Loaded}
  OBVIOUS
<1> QED
  BY <1>1 DEF Book

\* The current candle is not before any that its symbol passed.
LEMMA CandleData ==
    ASSUME BacktestAssumption, data \in Histories, NEW s \in Loaded, HasCandle(s), index[s] \in Nat, index[s] > 0
    PROVE  /\ Candle(s) \in CandleSet /\ Candle(s).time \in Nat /\ Candle(s).close \in Nat /\ Candle(s).close > 0
           /\ Passed(s, Candle(s).time)
           /\ \A time : Passed(s, time) => time \in Nat /\ time <= Candle(s).time
<1>1. index[s] \in DOMAIN data[s] /\ Candle(s) = data[s][index[s]]
  BY DataOK DEF HasCandle, Candle
<1>2. Candle(s) \in CandleSet
  BY <1>1, DataOK
<1>3. Passed(s, Candle(s).time)
  BY <1>1 DEF Passed
<1>4. ASSUME NEW time, Passed(s, time) PROVE time \in Nat /\ time <= Candle(s).time
  <2>1. PICK k \in DOMAIN data[s] : k <= index[s] /\ data[s][k].time = time
    BY <1>4 DEF Passed
  <2>2. data[s][k] \in CandleSet
    BY DataOK
  <2> QED
    BY <1>1, <2>1, <2>2, DataOK DEF CandleSet
<1> QED
  BY <1>2, <1>3, <1>4 DEF CandleSet

\* A buy keeps the books.
LEMMA BuyKeeps ==
    ASSUME BacktestAssumption, data \in Histories, sizing \in Sizings,
           NEW s \in Loaded, HasCandle(s), index[s] \in Nat, index[s] > 0,
           NEW b, BookOK(b), Said(s, Candle(s).time)
    PROVE  BookOK(Buy(b, s, Candle(s)))
<1> DEFINE c == Candle(s)
           qty == PositionSize(b, c.close)
           value == qty * c.close
           fee == Commission(value)
           p == [entry |-> c.close, qty |-> qty, at |-> c.time, fee |-> fee, mark |-> c.close]
           o == Opened(b.open, s, p)
           D == DOMAIN b.open \cup {s}
           new == [b EXCEPT !.cash = @ - value - fee, !.open = Opened(@, s, p)]
<1>1. Buy(b, s, c) = b \/ (s \notin DOMAIN b.open /\ qty > 0 /\ b.cash >= value + fee /\ Buy(b, s, c) = new)
  <2>1. qty \in Int
    BY SizeInt, CandleData, DataOK
  <2>2. Buy(b, s, c) = IF \/ s \in DOMAIN b.open \/ Cardinality(DOMAIN b.open) >= MaxPositions
                          \/ qty <= 0 \/ b.cash < value + fee
                       THEN b ELSE new
    BY DEF Buy
  <2>3. qty > 0 => value \in Nat /\ fee \in Nat
    <3>1. qty > 0 => value \in Nat
      <4> HIDE DEF qty
      <4> QED
        BY <2>1, CandleData
    <3> HIDE DEF value
    <3> QED
      BY <3>1, CommissionPart
  <2>4. b.cash \in Nat
    BY DataOK, BookData
  <2> HIDE DEF new, fee, value, qty
  <2> QED
    BY <2>1, <2>2, <2>3, <2>4
<1>2. SUFFICES ASSUME s \notin DOMAIN b.open, qty > 0, b.cash >= value + fee PROVE BookOK(new)
  BY <1>1
<1>3. c.close \in Nat /\ c.close > 0 /\ c.time \in Nat /\ Passed(s, c.time)
      /\ (\A time : Passed(s, time) => time \in Nat /\ time <= c.time)
  BY CandleData
<1>4. qty \in Int /\ IsFiniteSet(Loaded)
  BY <1>3, SizeInt, DataOK
<1> HIDE DEF c, qty
<1>5. value \in Nat /\ qty \in Nat
  BY <1>2, <1>3, <1>4
<1>6. fee \in Nat
  <2> HIDE DEF value
  <2> QED
    BY <1>5, CommissionPart
<1>7. p \in Position
  <2> HIDE DEF fee
  <2> QED
    BY <1>2, <1>3, <1>5, <1>6 DEF Position
<1>8. p.at = c.time /\ p.entry * p.qty + p.fee = value + fee
  <2> HIDE DEF fee
  <2> QED
    BY <1>3, <1>5
<1> HIDE DEF value, fee, p
<1>9. DOMAIN o = D /\ o[s] = p /\ (\A t \in DOMAIN b.open : o[t] = b.open[t]) /\ o = [t \in D |-> o[t]]
  BY <1>2 DEF Opened
<1>10. D \in SUBSET Loaded /\ o \in [D -> Position]
  BY <1>4, <1>7, <1>9, BookData, ZenonT(60)
<1>11. Cost(o) = Cost(b.open) + (value + fee)
  BY <1>2, <1>4, <1>7, <1>8, BookData, CostOpened
<1>12. b.cash - value - fee \in Nat
  BY <1>2, <1>4, <1>5, <1>6, BookData
<1> DEFINE cash == b.cash - value - fee
<1>13. new = [cash |-> cash, open |-> o, closed |-> b.closed, profit |-> b.profit, loss |-> b.loss]
  <2> HIDE DEF cash
  <2>1. new = [b EXCEPT !.cash = cash, !.open = o]
    BY DEF cash
  <2> HIDE DEF new, o
  <2>2. b = [cash |-> b.cash, open |-> b.open, closed |-> b.closed, profit |-> b.profit, loss |-> b.loss]
    BY <1>4, BookData
  <2> QED
    BY <2>1, <2>2
<1> HIDE DEF new, o
<1>14. cash = Capital + b.profit + b.loss - Cost(o)
  <2>1. b.cash = Capital + b.profit + b.loss - Cost(b.open)
    BY DEF BookOK
  <2>2. Cost(b.open) \in Int /\ b.profit \in Nat /\ b.loss \in Int /\ Capital \in Nat
    BY <1>4, BookData DEF BacktestAssumption
  <2> QED
    BY <1>5, <1>6, <1>11, <2>1, <2>2
<1>15. cash \in Nat
  BY <1>12
<1> HIDE DEF cash
<1>16. new \in Book
  BY <1>4, <1>10, <1>13, <1>15, BookData, BookMade
<1>17. \A t \in D : Passed(t, o[t].at) /\ Said(t, o[t].at)
  BY <1>3, <1>8, <1>9 DEF BookOK, c
<1>18. \A i \in DOMAIN b.closed : \A t \in D : b.closed[i].symbol = t => b.closed[i].until <= o[t].at
  BY <1>3, <1>8, <1>9 DEF BookOK
<1>19. new.open = o /\ new.closed = b.closed /\ new.profit = b.profit /\ new.loss = b.loss /\ new.cash = cash
  BY <1>13
<1> QED
  BY <1>9, <1>14, <1>16, <1>17, <1>18, <1>19, ZenonT(60) DEF BookOK

\* A sale keeps the books: what the position cost leaves them, and the gain is booked.
LEMMA SellKeeps ==
    ASSUME BacktestAssumption, data \in Histories,
           NEW s \in Loaded, HasCandle(s), index[s] \in Nat, index[s] > 0,
           NEW b, BookOK(b)
    PROVE  BookOK(Sell(b, s, Candle(s)))
<1> SUFFICES ASSUME s \in DOMAIN b.open PROVE BookOK(Sell(b, s, Candle(s)))
  BY DEF Sell
<1> DEFINE c == Candle(s)
           p == b.open[s]
           value == p.qty * c.close
           proceeds == value - Commission(value)
           pl == proceeds - p.entry * p.qty - p.fee
           trade == [symbol |-> s, pl |-> pl, at |-> p.at, until |-> c.time]
           D == DOMAIN b.open \ {s}
           o == Restrict(b.open, D)
           trades == Append(b.closed, trade)
           cash == b.cash + proceeds
           profit == IF pl > 0 THEN b.profit + pl ELSE b.profit
           loss == IF pl > 0 THEN b.loss ELSE b.loss + pl
           new == [cash |-> cash, open |-> o, closed |-> trades, profit |-> profit, loss |-> loss]
           n == Len(b.closed)
<1>0. IsFiniteSet(Loaded)
  BY DataOK
<1>1. c.close \in Nat /\ c.close > 0 /\ c.time \in Nat /\ Passed(s, c.time)
      /\ (\A time : Passed(s, time) => time \in Nat /\ time <= c.time)
  BY CandleData
<1> HIDE DEF c
<1>2. p \in Position /\ p.entry \in Nat /\ p.qty \in Nat /\ p.fee \in Nat /\ p.at \in Nat
      /\ Passed(s, p.at) /\ Said(s, p.at) /\ p.entry * p.qty + p.fee \in Int
  BY <1>0, BookData, PositionCost DEF BookOK
<1>3. Cost(o) = Cost(b.open) - (p.entry * p.qty + p.fee)
  BY <1>0, BookData, CostClosed
<1> HIDE DEF p
<1>4. value \in Nat
  BY <1>1, <1>2
<1> HIDE DEF value
<1>5. Commission(value) \in Nat /\ Commission(value) <= value
  BY <1>4, CommissionPart
<1>6. proceeds \in Nat
  BY <1>4, <1>5
<1> HIDE DEF proceeds
<1> DEFINE paid == p.entry * p.qty
<1>7. paid \in Nat /\ pl = proceeds - paid - p.fee /\ Cost(o) = Cost(b.open) - (paid + p.fee) /\ pl \in Int
  BY <1>2, <1>3, <1>6
<1> HIDE DEF paid, pl
<1>8. Sell(b, s, c) = new
  <2>1. Sell(b, s, c) = [b EXCEPT !.cash = cash, !.open = o, !.closed = trades, !.profit = profit, !.loss = loss]
    BY DEF Sell, p, value, proceeds, pl, paid
  <2> HIDE DEF cash, o, trades, profit, loss
  <2>2. b = [cash |-> b.cash, open |-> b.open, closed |-> b.closed, profit |-> b.profit, loss |-> b.loss]
    BY <1>0, BookData
  <2> QED
    BY <2>1, <2>2
<1>9. /\ b.cash \in Nat /\ b.profit \in Nat /\ b.loss \in Int /\ b.loss <= 0 /\ Cost(b.open) \in Int
      /\ b.closed \in Seq(Trade) /\ n \in Nat /\ DOMAIN b.closed = 1 .. n /\ Capital \in Nat
  BY <1>0, BookData DEF BacktestAssumption
<1>10. cash \in Nat /\ profit \in Nat /\ loss \in Int /\ loss <= 0 /\ (pl > 0 => profit > 0)
       /\ (b.profit > 0 => profit > 0) /\ profit + loss = b.profit + b.loss + pl
  <2>1. pl \in Int /\ b.profit \in Nat /\ b.loss \in Int /\ b.loss <= 0 /\ b.cash \in Nat /\ proceeds \in Nat
    BY <1>6, <1>7, <1>9
  <2>2. CASE pl > 0
    <3>1. profit = b.profit + pl /\ loss = b.loss
      BY <2>2
    <3> QED
      BY <2>1, <2>2, <3>1
  <2>3. CASE ~ (pl > 0)
    <3>1. profit = b.profit /\ loss = b.loss + pl
      BY <2>3
    <3> QED
      BY <2>1, <2>3, <3>1
  <2> QED
    BY <2>2, <2>3
<1>11. cash = Capital + profit + loss - Cost(o)
  <2>1. b.cash = Capital + b.profit + b.loss - Cost(b.open)
    BY DEF BookOK
  <2> DEFINE before == Cost(b.open)
             after == Cost(o)
  <2>2. before \in Int /\ after = before - (paid + p.fee) /\ b.cash = Capital + b.profit + b.loss - before
    BY <1>7, <1>9, <2>1
  <2> DEFINE x == b.profit
             y == b.loss
             fee == p.fee
  <2>5. pl = proceeds - paid - p.fee /\ profit + loss = b.profit + b.loss + pl
    BY <1>7, <1>10
  <2>3. /\ before \in Int /\ paid \in Int /\ fee \in Int /\ x \in Int /\ y \in Int /\ Capital \in Int
        /\ profit \in Int /\ loss \in Int /\ proceeds \in Int
        /\ after = before - (paid + fee) /\ b.cash = Capital + x + y - before
        /\ pl = proceeds - paid - fee /\ profit + loss = x + y + pl
    <3> HIDE DEF before, after, profit, loss
    <3> QED
      <4>1. p.fee \in Int /\ paid \in Int /\ proceeds \in Int /\ b.profit \in Int /\ b.loss \in Int /\ Capital \in Int
        BY <1>2, <1>6, <1>7, <1>9
      <4>2. profit \in Int /\ loss \in Int
        BY <1>10
      <4> QED
        BY <2>2, <2>5, <4>1, <4>2
  <2> HIDE DEF before, after, profit, loss, x, y, fee
  <2>4. Capital + x + y - before + proceeds = Capital + profit + loss - after
    BY <2>3
  <2> QED
    BY <2>3, <2>4 DEF after
<1> HIDE DEF cash, profit, loss
<1>12. trade \in Trade
  BY <1>1, <1>2, <1>7 DEF Trade
<1>13. trade.symbol = s /\ trade.pl = pl /\ trade.at = p.at /\ trade.until = c.time
  OBVIOUS
<1> HIDE DEF trade
<1>14. /\ trades \in Seq(Trade) /\ DOMAIN trades = 1 .. n + 1 /\ trades[n + 1] = trade
       /\ \A i \in 1 .. n : trades[i] = b.closed[i]
  BY <1>9, <1>12
<1> HIDE DEF trades, n
<1>15. DOMAIN o = D /\ (\A t \in D : o[t] = b.open[t]) /\ D \in SUBSET Loaded /\ o \in [D -> Position]
  <2>1. b.open \in [DOMAIN b.open -> Position] /\ DOMAIN b.open \subseteq Loaded
    BY <1>0, BookData
  <2> QED
    BY <2>1 DEF Restrict
<1> HIDE DEF o
<1>16. new \in Book
  BY <1>10, <1>14, <1>15, BookMade
<1>17. \A i \in 1 .. n + 1 : i \in 1 .. n \/ i = n + 1
  BY <1>9
<1>18. \A i \in DOMAIN trades : trades[i].pl > 0 => profit > 0
  <2>1. \A i \in 1 .. n : b.closed[i].pl > 0 => b.profit > 0
    BY <1>9 DEF BookOK
  <2> QED
    BY <1>10, <1>13, <1>14, <1>17, <2>1
<1>19. \A t \in D : Passed(t, o[t].at) /\ Said(t, o[t].at)
  BY <1>15 DEF BookOK
<1>20. \A i \in DOMAIN trades :
          /\ Passed(trades[i].symbol, trades[i].until) /\ Said(trades[i].symbol, trades[i].at)
          /\ \A t \in D : trades[i].symbol = t => trades[i].until <= o[t].at
  <2>1. \A i \in 1 .. n :
           /\ Passed(b.closed[i].symbol, b.closed[i].until) /\ Said(b.closed[i].symbol, b.closed[i].at)
           /\ \A t \in DOMAIN b.open : b.closed[i].symbol = t => b.closed[i].until <= b.open[t].at
    BY <1>9 DEF BookOK
  <2>2. s \notin D
    OBVIOUS
  <2> QED
    BY <1>1, <1>2, <1>13, <1>14, <1>15, <1>17, <2>1, <2>2
<1>21. \A i, j \in DOMAIN trades : i < j /\ trades[i].symbol = trades[j].symbol => trades[i].until <= trades[j].at
  <2> SUFFICES ASSUME NEW i \in 1 .. n + 1, NEW j \in 1 .. n + 1, i < j, trades[i].symbol = trades[j].symbol
               PROVE  trades[i].until <= trades[j].at
    BY <1>14
  <2>1. i \in 1 .. n /\ (j \in 1 .. n \/ j = n + 1)
    BY <1>9
  <2>2. CASE j \in 1 .. n
    BY <1>9, <1>14, <2>1, <2>2 DEF BookOK
  <2>3. CASE j = n + 1
    <3>1. b.closed[i].symbol = s
      BY <1>13, <1>14, <2>1, <2>3
    <3>2. b.closed[i].until <= b.open[s].at
      BY <1>9, <2>1, <3>1 DEF BookOK
    <3> QED
      BY <1>13, <1>14, <2>1, <2>3, <3>2 DEF p
  <2> QED
    BY <2>1, <2>2, <2>3
<1>22. new.open = o /\ new.closed = trades /\ new.profit = profit /\ new.loss = loss /\ new.cash = cash
  OBVIOUS
<1> HIDE DEF new
<1>23. BookOK(new)
  BY <1>10, <1>11, <1>15, <1>16, <1>18, <1>19, <1>20, <1>21, <1>22 DEF BookOK
<1> QED
  BY <1>8, <1>23 DEF c

MarketOK ==
    /\ data \in Histories /\ consensus \in Consensuses /\ sizing \in Sizings /\ index \in [Loaded -> Nat \ {0}]
    /\ stage \in {"step", "signals", "execute", "done", "cancelled"}

\* The capital, then the equity of each step.
Value(i) == IF i = 0 THEN Capital ELSE curve[i].equity

\* The peak is the largest value so far, and the drawdown the largest fall.
CurveOK ==
    /\ curve \in Seq([time : Nat, equity : Int]) /\ drawdown.peak \in Int /\ drawdown.max \in Int
    /\ drawdown = [peak |-> drawdown.peak, max |-> drawdown.max, pct |-> drawdown.pct]
    /\ \A i \in 0 .. Len(curve) : Value(i) <= drawdown.peak
    /\ \E i \in 0 .. Len(curve) : Value(i) = drawdown.peak
    /\ \A i, j \in 0 .. Len(curve) : i <= j => Value(i) - Value(j) <= drawdown.max
    /\ \E i, j \in 0 .. Len(curve) : i <= j /\ Value(i) - Value(j) = drawdown.max

\* Where the symbols are aligned, they have moved on to the same time.
TimesOK ==
    /\ curve = <<>> => \A s \in Loaded : index[s] = 1
    /\ (Aligned /\ curve # <<>>) =>
          \A s \in Loaded : \A i \in DOMAIN data[s] : (i < index[s]) <=> (data[s][i].time <= Now)

\* What a signal may say: it names a symbol only where signals of agents pass, and
\* then of a candle at which an agent said so.
SignalsOK ==
    /\ stage \in {"step", "done", "cancelled"} => signals = <<>>
    /\ signals \in Seq(Signal)
    /\ \A i \in DOMAIN signals : signals[i].symbol \in Loaded =>
          /\ consensus \in {"first", "all"}
          /\ signals[i].side = "BUY" => Said(signals[i].symbol, Candle(signals[i].symbol).time)

\* Only the consensus that passes the signals of agents on trades: the signal of a
\* vote names no symbol.
VotesNeverTrade == consensus \notin {"first", "all"} => Open = {} /\ books.closed = <<>>

BInv == MarketOK /\ BookOK(books) /\ CurveOK /\ TimesOK /\ SignalsOK /\ VotesNeverTrade /\ MarksAreOfTheTime

\* Sound books stay sound as the run goes on.
LEMMA BookOnward ==
    ASSUME data' = data, index \in [Loaded -> Nat \ {0}], index' \in [Loaded -> Nat \ {0}],
           \A s \in Loaded : index[s] <= index'[s], bought \subseteq bought',
           BacktestAssumption, data \in Histories,
           NEW b, BookOK(b), books' = b
    PROVE  BookOK(books)'
<1>1. Loaded' = Loaded /\ Book' = Book
  BY DEF Loaded, Book, Trade
<1>2. ASSUME NEW s \in Loaded, NEW time, Passed(s, time) PROVE Passed(s, time)'
  <2>1. PICK k \in DOMAIN data[s] : k <= index[s] /\ data[s][k].time = time
    BY <1>2 DEF Passed
  <2>2. k \in Nat /\ index[s] \in Nat /\ index'[s] \in Nat /\ index[s] <= index'[s]
    BY DataOK
  <2>3. k <= index'[s]
    BY <2>1, <2>2
  <2> QED
    BY <2>1, <2>3 DEF Passed
<1>3. ASSUME NEW s, NEW time, Said(s, time) PROVE Said(s, time)'
  BY <1>3 DEF Said
<1>4. (\A i \in DOMAIN b.closed : b.closed[i].symbol \in Loaded) /\ DOMAIN b.open \subseteq Loaded
  BY BookData, DataOK DEF Trade
<1>5. b \in Book /\ b.loss <= 0 /\ b.cash = Capital + b.profit + b.loss - Cost(b.open)
      /\ (\A i \in DOMAIN b.closed : b.closed[i].pl > 0 => b.profit > 0)
  BY DEF BookOK
<1>6. \A s \in DOMAIN b.open : Passed(s, b.open[s].at)' /\ Said(s, b.open[s].at)'
  BY <1>2, <1>3, <1>4 DEF BookOK
<1>7. \A i \in DOMAIN b.closed :
         Passed(b.closed[i].symbol, b.closed[i].until)' /\ Said(b.closed[i].symbol, b.closed[i].at)'
  BY <1>2, <1>3, <1>4 DEF BookOK
<1>8. \A i \in DOMAIN b.closed :
         /\ \A s \in DOMAIN b.open : b.closed[i].symbol = s => b.closed[i].until <= b.open[s].at
         /\ \A j \in DOMAIN b.closed :
               i < j /\ b.closed[i].symbol = b.closed[j].symbol => b.closed[i].until <= b.closed[j].at
  BY DEF BookOK
<1> QED
  BY <1>1, <1>5, <1>6, <1>7, <1>8 DEF BookOK

\* New marks change what is unrealized only.
LEMMA MarkedKeeps ==
    ASSUME BacktestAssumption, data \in Histories, index \in [Loaded -> Nat \ {0}], BookOK(books)
    PROVE  /\ BookOK(Marked) /\ DOMAIN Marked.open = Open /\ Marked.closed = books.closed
           /\ \A s \in Open : Marked.open[s].at = books.open[s].at
           /\ \A s \in Open : HasCandle(s) => Marked.open[s].mark = Candle(s).close
<1> DEFINE o == [s \in Open |->
                    IF HasCandle(s) THEN [books.open[s] EXCEPT !.mark = Candle(s).close] ELSE books.open[s]]
           b == books
<1>0. IsFiniteSet(Loaded)
  BY DataOK
<1>1. /\ Open \subseteq Loaded /\ b.open \in [Open -> Position] /\ IsFiniteSet(Open) /\ Open = DOMAIN b.open
      /\ b = [cash |-> b.cash, open |-> b.open, closed |-> b.closed, profit |-> b.profit, loss |-> b.loss]
      /\ b.closed \in Seq(Trade) /\ b.cash \in Nat /\ b.profit \in Nat /\ b.loss \in Int
  BY <1>0, BookData DEF Open
<1>2. ASSUME NEW s \in Open
      PROVE  /\ o[s] \in Position /\ o[s].at = b.open[s].at
             /\ o[s].entry = b.open[s].entry /\ o[s].qty = b.open[s].qty /\ o[s].fee = b.open[s].fee
             /\ HasCandle(s) => o[s].mark = Candle(s).close
  <2>1. b.open[s] \in Position /\ s \in Loaded /\ index[s] \in Nat /\ index[s] > 0
    BY <1>1
  <2>2. CASE HasCandle(s)
    <3>1. Candle(s).close \in Nat
      BY <2>1, <2>2, CandleData
    <3> DEFINE p == b.open[s]
               c == Candle(s).close
    <3>2. o[s] = [p EXCEPT !.mark = c]
      BY <2>2
    <3>3. p \in Position /\ c \in Nat
      BY <2>1, <3>1
    <3> HIDE DEF p, c, o
    <3>4. o[s] \in Position /\ o[s].at = p.at /\ o[s].entry = p.entry /\ o[s].qty = p.qty /\ o[s].fee = p.fee
          /\ o[s].mark = c
      BY <3>2, <3>3 DEF Position
    <3> QED
      BY <3>4 DEF p, c
  <2>3. CASE ~ HasCandle(s)
    BY <2>1, <2>3
  <2> QED
    BY <2>2, <2>3
<1>3. DOMAIN o = Open /\ o = [s \in Open |-> o[s]]
  OBVIOUS
<1>4. Marked = [cash |-> b.cash, open |-> o, closed |-> b.closed, profit |-> b.profit, loss |-> b.loss]
  <2>1. Marked = [b EXCEPT !.open = o]
    BY DEF Marked, Open
  <2> HIDE DEF o, b
  <2> QED
    BY <1>1, <2>1
<1> HIDE DEF o
<1>5. o \in [Open -> Position]
  BY <1>2, <1>3
<1>6. Cost(o) = Cost(b.open)
  <2> DEFINE q == b.open
             D == Open
  <2>1. q \in [D -> Position] /\ o \in [D -> Position] /\ IsFiniteSet(D)
    BY <1>1, <1>5
  <2>2. \A s \in D : o[s].entry = q[s].entry /\ o[s].qty = q[s].qty /\ o[s].fee = q[s].fee
    BY <1>2
  <2> HIDE DEF q, D
  <2>3. Cost(o) = Cost(q)
    BY <2>1, <2>2, CostAgrees
  <2> QED
    BY <2>3 DEF q
<1>7. Marked \in Book
  BY <1>1, <1>4, <1>5, BookMade
<1>8. Marked.open = o /\ Marked.closed = b.closed /\ Marked.profit = b.profit /\ Marked.loss = b.loss
      /\ Marked.cash = b.cash
  BY <1>4
<1>9. BookOK(Marked)
  BY <1>1, <1>2, <1>3, <1>6, <1>7, <1>8 DEF BookOK
<1> QED
  BY <1>2, <1>3, <1>8, <1>9

\* A point of the curve: the drawdown is still of the deepest fall.
LEMMA DrawdownKeeps ==
    ASSUME CurveOK, Capital \in Nat, NEW time \in Nat, NEW e \in Int,
           curve' = Append(curve, [time |-> time, equity |-> e]), drawdown' = Drawdown(e)
    PROVE  CurveOK'
<1>0. PICK n \in Nat : n = Len(curve)
  <2>1. curve \in Seq([time : Nat, equity : Int])
    BY DEF CurveOK
  <2> QED
    BY <2>1
<1> DEFINE point == [time |-> time, equity |-> e]
           peak == IF e > drawdown.peak THEN e ELSE drawdown.peak
           fall == peak - e
<1>1. /\ curve \in Seq([time : Nat, equity : Int]) /\ n \in Nat /\ n = Len(curve)
      /\ point \in [time : Nat, equity : Int]
      /\ point.equity = e
  BY <1>0 DEF CurveOK
<1> HIDE DEF point
<1>2. /\ curve' \in Seq([time : Nat, equity : Int]) /\ Len(curve') = n + 1 /\ curve'[n + 1] = point
      /\ \A i \in 1 .. n : curve'[i] = curve[i]
  BY <1>1 DEF point
<1>3. /\ drawdown.peak \in Int /\ drawdown.max \in Int
      /\ drawdown = [peak |-> drawdown.peak, max |-> drawdown.max, pct |-> drawdown.pct]
  BY <1>0 DEF CurveOK
<1>4. \A i \in 0 .. n : Value(i) \in Int /\ Value(i)' = Value(i)
  <2> SUFFICES ASSUME NEW i \in 0 .. n PROVE Value(i) \in Int /\ Value(i)' = Value(i)
    OBVIOUS
  <2>1. CASE i = 0
    BY <2>1 DEF Value
  <2>2. CASE i # 0
    <3>1. i \in 1 .. n
      BY <1>1, <2>2
    <3>2. curve'[i] = curve[i]
      BY <1>2, <3>1
    <3>3. curve[i] \in [time : Nat, equity : Int]
      <4> DEFINE P == [time : Nat, equity : Int]
      <4>1. curve \in Seq(P) /\ i \in 1 .. Len(curve)
        BY <1>1, <3>1
      <4> HIDE DEF P
      <4>2. curve[i] \in P
        BY <4>1
      <4> QED
        BY <4>2 DEF P
    <3>4. curve[i].equity \in Int
      BY <3>3
    <3> QED
      BY <2>2, <3>2, <3>4 DEF Value
  <2> QED
    BY <2>1, <2>2
<1>5. Value(n + 1)' = e
  BY <1>1, <1>2 DEF Value
<1>6. peak \in Int /\ peak >= e /\ peak >= drawdown.peak /\ fall \in Int /\ fall >= 0 /\ peak \in {e, drawdown.peak}
  BY <1>3
<1>7. \A i \in 0 .. n + 1 : i \in 0 .. n \/ i = n + 1
  BY <1>1
<1>8. \A i \in 0 .. n : Value(i) <= drawdown.peak
  BY <1>0 DEF CurveOK
<1> DEFINE deepest == IF fall > drawdown.max THEN fall ELSE drawdown.max
<1>9. /\ drawdown'.peak = peak /\ drawdown'.max = deepest
      /\ drawdown' = [peak |-> drawdown'.peak, max |-> drawdown'.max, pct |-> drawdown'.pct]
  <2>1. CASE fall > drawdown.max
    <3>1. drawdown' = [peak |-> peak, max |-> fall, pct |-> (100 * fall) \div peak]
      BY <2>1 DEF Drawdown
    <3> DEFINE rate == (100 * fall) \div peak
    <3> HIDE DEF peak, fall, rate
    <3>2. drawdown' = [peak |-> peak, max |-> fall, pct |-> rate]
      BY <3>1 DEF rate
    <3> QED
      BY <2>1, <3>2
  <2>2. CASE ~ (fall > drawdown.max)
    <3>1. drawdown' = [drawdown EXCEPT !.peak = peak]
      BY <2>2 DEF Drawdown
    <3> HIDE DEF peak, fall
    <3>2. drawdown' = [peak |-> peak, max |-> drawdown.max, pct |-> drawdown.pct]
      BY <1>3, <3>1
    <3> QED
      BY <2>2, <3>2
  <2> QED
    BY <2>1, <2>2
<1>10. deepest \in Int /\ deepest >= drawdown.max /\ deepest >= fall /\ deepest \in {fall, drawdown.max}
  <2> HIDE DEF fall
  <2> QED
    BY <1>3, <1>6
<1>11. fall = peak - e
  OBVIOUS
<1> HIDE DEF peak, fall, deepest
<1>12. n \in 0 .. n + 1 /\ n + 1 \in 0 .. n + 1 /\ 0 .. n \subseteq 0 .. n + 1
  BY <1>1
<1>13. \A i \in 0 .. n + 1 : Value(i)' <= peak
  <2> SUFFICES ASSUME NEW i \in 0 .. n + 1 PROVE Value(i)' <= peak
    OBVIOUS
  <2>1. CASE i \in 0 .. n
    BY <1>3, <1>4, <1>6, <1>8, <2>1
  <2>2. CASE i = n + 1
    BY <1>5, <1>6, <2>2
  <2> QED
    BY <1>7, <2>1, <2>2
<1>14. \E i \in 0 .. n + 1 : Value(i)' = peak
  <2>1. CASE peak = e
    BY <1>5, <1>12, <2>1
  <2>2. CASE peak = drawdown.peak
    <3>1. PICK k \in 0 .. n : Value(k) = drawdown.peak
      BY <1>0 DEF CurveOK
    <3> QED
      BY <1>4, <1>12, <2>2, <3>1
  <2> QED
    BY <1>6, <2>1, <2>2
<1>15. \A i, j \in 0 .. n + 1 : i <= j => Value(i)' - Value(j)' <= deepest
  <2> SUFFICES ASSUME NEW i \in 0 .. n + 1, NEW j \in 0 .. n + 1, i <= j PROVE Value(i)' - Value(j)' <= deepest
    OBVIOUS
  <2>1. CASE j \in 0 .. n
    <3>1. i \in 0 .. n
      BY <1>1, <2>1
    <3>2. Value(i) - Value(j) <= drawdown.max
      BY <2>1, <3>1, <1>0 DEF CurveOK
    <3> QED
      BY <1>3, <1>4, <1>10, <2>1, <3>1, <3>2
  <2>2. CASE j = n + 1
    <3>1. Value(i)' <= peak /\ Value(i)' \in Int
      BY <1>4, <1>5, <1>7, <1>13
    <3> QED
      BY <1>5, <1>6, <1>10, <1>11, <2>2, <3>1
  <2> QED
    BY <1>7, <2>1, <2>2
<1>16. \E i, j \in 0 .. n + 1 : i <= j /\ Value(i)' - Value(j)' = deepest
  <2>1. CASE deepest = fall
    <3>1. PICK k \in 0 .. n + 1 : Value(k)' = peak
      BY <1>14
    <3>2. k <= n + 1
      BY <1>1
    <3> QED
      BY <1>5, <1>11, <1>12, <2>1, <3>1, <3>2
  <2>2. CASE deepest = drawdown.max
    <3>1. PICK k \in 0 .. n, m \in 0 .. n : k <= m /\ Value(k) - Value(m) = drawdown.max
      BY <1>0 DEF CurveOK
    <3> QED
      BY <1>4, <1>12, <2>2, <3>1
  <2> QED
    BY <1>10, <2>1, <2>2
<1> QED
  BY <1>2, <1>6, <1>9, <1>10, <1>13, <1>14, <1>15, <1>16, <1>0 DEF CurveOK

\* The least of a set of times, which exists.
LEMMA MinIs ==
    ASSUME NEW N \in SUBSET Nat, N # {}
    PROVE  Min(N) \in N /\ \A m \in N : Min(N) <= m
<1>1. PICK n \in N : \A m \in N : ~ (m < n)
  BY Least
<1>2. \A m \in N : n <= m
  BY <1>1
<1> QED
  BY <1>2 DEF Min

\* What comes of the answers of the agents.
LEMMA ConsensusSignals ==
    ASSUME BacktestAssumption, consensus \in Consensuses, data \in Histories, NEW s \in Loaded,
           NEW said \in [Agents -> Answers], NEW made \in ApplyConsensus(s, said)
    PROVE  /\ made \in Seq(Signal)
           /\ \A i \in DOMAIN made : made[i].symbol \in Loaded =>
                 /\ made[i].symbol = s /\ consensus \in {"first", "all"}
                 /\ made[i].side = "BUY" => \E a \in Agents : said[a] # None /\ said[a].side = "BUY"
<1> DEFINE heard == {a \in Agents : said[a] # None}
           sides == {said[a].side : a \in heard}
           Own(a) == [symbol |-> s, side |-> said[a].side]
           Vote(d) == [symbol |-> None, side |-> d]
<1>1. None \notin Loaded
  BY DataOK
<1>2. \A a \in heard : said[a].side \in {"BUY", "SELL", "HOLD"}
  <2>1. Answers \subseteq [side : {"BUY", "SELL", "HOLD"}, confidence : Nat] \cup {None}
    BY Zenon DEF BacktestAssumption
  <2> QED
    BY <2>1
<1>3. \A a \in heard : Own(a) \in Signal /\ Own(a).symbol = s /\ Own(a).side = said[a].side
  BY <1>2 DEF Signal
<1>4. \A d \in sides : Vote(d) \in Signal /\ Vote(d).symbol = None
  BY <1>2 DEF Signal
<1>5. consensus \in {"first", "all", "majority", "unanimous", "weighted"}
  <2>1. Consensuses \subseteq {"first", "all", "majority", "unanimous", "weighted"}
    BY Zenon DEF BacktestAssumption
  <2> QED
    BY <2>1
<1>6. \/ made = <<>>
      \/ consensus = "first" /\ \E a \in heard : made = <<Own(a)>>
      \/ consensus = "all" /\ \E o \in SetToSeqs(heard) : made = [i \in DOMAIN o |-> Own(o[i])]
      \/ \E d \in sides : made = <<Vote(d)>>
  BY <1>5 DEF ApplyConsensus
<1> HIDE DEF Own, Vote
<1>7. CASE made = <<>>
  BY <1>7
<1>8. CASE consensus = "first" /\ \E a \in heard : made = <<Own(a)>>
  <2>1. PICK a \in heard : made = <<Own(a)>>
    BY <1>8
  <2>2. made \in Seq(Signal) /\ DOMAIN made = {1} /\ made[1] = Own(a)
    BY <1>3, <2>1
  <2> QED
    BY <1>3, <1>8, <2>2
<1>9. CASE consensus = "all" /\ \E o \in SetToSeqs(heard) : made = [i \in DOMAIN o |-> Own(o[i])]
  <2>1. PICK o \in SetToSeqs(heard) : made = [i \in DOMAIN o |-> Own(o[i])]
    BY <1>9
  <2> DEFINE n == Cardinality(heard)
  <2>2. IsFiniteSet(heard)
    <3>1. IsFiniteSet(Agents) /\ heard \subseteq Agents
      BY Zenon DEF BacktestAssumption
    <3> QED
      BY <3>1, FS_Subset
  <2>3. n \in Nat
    BY <2>2, FS_CardinalityType
  <2>4. o \in [1 .. n -> heard]
    BY <2>1 DEF SetToSeqs
  <2> HIDE DEF n, heard
  <2>5. DOMAIN made = 1 .. n /\ \A i \in 1 .. n : made[i] = Own(o[i]) /\ o[i] \in heard
    BY <2>1, <2>4
  <2>6. made = [i \in 1 .. n |-> made[i]]
    BY <2>1, <2>4
  <2>7. \A i \in 1 .. n : made[i] \in Signal
    BY <1>3, <2>5
  <2>8. made \in Seq(Signal)
    <3>1. made \in [1 .. n -> Signal]
      BY <2>6, <2>7
    <3> QED
      BY <2>3, <3>1
  <2>9. \A i \in DOMAIN made : made[i].symbol = s /\ \E a \in heard : made[i].side = said[a].side
    BY <1>3, <2>5
  <2> QED
    BY <1>9, <2>8, <2>9 DEF heard
<1>10. CASE \E d \in sides : made = <<Vote(d)>>
  <2>1. PICK d \in sides : made = <<Vote(d)>>
    BY <1>10
  <2>2. made \in Seq(Signal) /\ DOMAIN made = {1} /\ made[1] = Vote(d)
    BY <1>4, <2>1
  <2> QED
    BY <1>1, <1>4, <2>2
<1> QED
  BY <1>6, <1>7, <1>8, <1>9, <1>10

\* Without candles there is nothing to sell at.
LEMMA NothingClosed ==
    ASSUME \A s \in DOMAIN books.open : ~ HasCandle(s)
    PROVE  CloseAllPositions(books) = books
<1> DEFINE E(f) == [S \in SUBSET {} |-> IF S = {} THEN books ELSE Sell(f[S \ {CHOOSE x \in S : TRUE}],
                       CHOOSE x \in S : TRUE, Candle(CHOOSE x \in S : TRUE))]
           it == CHOOSE f : f = E(f)
<1>1. {s \in DOMAIN books.open : HasCandle(s)} = {}
  OBVIOUS
<1>2. CloseAllPositions(books) = it[{}]
  BY <1>1 DEF CloseAllPositions, FoldSet, MapThenFoldSet
<1>3. [S \in SUBSET {} |-> books] = E([S \in SUBSET {} |-> books])
  OBVIOUS
<1>4. it = E(it)
  BY <1>3
<1> HIDE DEF it
<1>5. it[{}] = books
  BY <1>4
<1> QED
  BY <1>2, <1>5

\* What a step leaves as it was.
LEMMA CurveStays == ASSUME CurveOK, UNCHANGED <<curve, drawdown>> PROVE CurveOK'
<1>1. \A i : Value(i)' = Value(i)
  BY DEF Value
<1> QED
  BY <1>1 DEF CurveOK

LEMMA TimesStay == ASSUME TimesOK, UNCHANGED <<data, index, curve>> PROVE TimesOK'
BY DEF TimesOK, Aligned, Now, Loaded

LEMMA MarksStay ==
    ASSUME MarksAreOfTheTime, UNCHANGED <<data, curve, books>>, stage' = "signals" => stage = "signals"
    PROVE  MarksAreOfTheTime'
BY DEF MarksAreOfTheTime, Aligned, Now, Loaded, Open

LEMMA BooksStay ==
    ASSUME BacktestAssumption, data \in Histories, index \in [Loaded -> Nat \ {0}], BookOK(books),
           bought \subseteq bought', UNCHANGED <<data, index>>, NEW b, BookOK(b), books' = b
    PROVE  BookOK(books)'
<1>1. \A s \in Loaded : index[s] <= index'[s]
  OBVIOUS
<1>2. index' \in [Loaded -> Nat \ {0}]
  OBVIOUS
<1> QED
  BY <1>1, <1>2, BookOnward

\* Where nothing but the stage changes.
LEMMA StageKeeps ==
    ASSUME BacktestAssumption, BInv,
           UNCHANGED <<data, consensus, sizing, index, books, curve, drawdown, signals, bought>>,
           stage' \in {"step", "execute", "done", "cancelled"},
           stage' \in {"step", "done", "cancelled"} => signals = <<>>
    PROVE  BInv'
<1>1. MarketOK'
  BY DEF BInv, MarketOK, Loaded
<1>2. BookOK(books)'
  BY BooksStay DEF BInv, MarketOK
<1>3. CurveOK' /\ TimesOK'
  BY CurveStays, TimesStay DEF BInv
<1>4. MarksAreOfTheTime'
  BY MarksStay DEF BInv
<1>5. VotesNeverTrade'
  BY DEF BInv, VotesNeverTrade, Open
<1>6. SignalsOK'
  BY DEF BInv, SignalsOK, Signal, Said, Candle, Loaded
<1> QED
  BY <1>1, <1>2, <1>3, <1>4, <1>5, <1>6 DEF BInv

\* The steps of the engine and of the agents, one by one.
LEMMA ExecuteKeeps ==
    ASSUME BacktestAssumption, BInv, ExecuteSignal
    PROVE  BInv'
<1> DEFINE signal == Head(signals)
           s == signal.symbol
<1>0. MarketOK /\ BookOK(books) /\ SignalsOK
  BY DEF BInv
<1>1. /\ stage = "execute" /\ signals # <<>> /\ signals' = Tail(signals)
      /\ UNCHANGED <<data, consensus, sizing, stage, index, curve, drawdown, bought>>
  BY DEF ExecuteSignal
<1>2. books' = IF s \notin Loaded \/ signal.side = "HOLD" THEN books
               ELSE IF ~ HasCandle(s) THEN books
               ELSE IF signal.side = "BUY" THEN Buy(books, s, Candle(s)) ELSE Sell(books, s, Candle(s))
  BY DEF ExecuteSignal
<1>3. signals \in Seq(Signal) /\ signal = signals[1] /\ 1 \in DOMAIN signals
      /\ Tail(signals) \in Seq(Signal)
      /\ \A i \in DOMAIN Tail(signals) : i + 1 \in DOMAIN signals /\ Tail(signals)[i] = signals[i + 1]
  BY <1>0, <1>1 DEF SignalsOK
<1>4. s \in Loaded => consensus \in {"first", "all"} /\ (signal.side = "BUY" => Said(s, Candle(s).time))
  BY <1>0, <1>3 DEF SignalsOK
<1> HIDE DEF signal
<1>5. BookOK(books)'
  <2>1. CASE s \notin Loaded \/ signal.side = "HOLD" \/ ~ HasCandle(s)
    <3>1. books' = books
      BY <1>2, <2>1
    <3> QED
      BY <1>0, <1>1, <3>1, BooksStay DEF MarketOK
  <2>2. CASE s \in Loaded /\ signal.side # "HOLD" /\ HasCandle(s)
    <3>1. index[s] \in Nat /\ index[s] > 0
      BY <1>0, <2>2 DEF MarketOK
    <3>2. CASE signal.side = "BUY"
      <4>1. books' = Buy(books, s, Candle(s))
        BY <1>2, <2>2, <3>2
      <4>2. BookOK(Buy(books, s, Candle(s)))
        BY <1>0, <1>4, <2>2, <3>1, <3>2, BuyKeeps DEF MarketOK
      <4> QED
        BY <1>0, <1>1, <4>1, <4>2, BooksStay DEF MarketOK
    <3>3. CASE signal.side # "BUY"
      <4>1. books' = Sell(books, s, Candle(s))
        BY <1>2, <2>2, <3>3
      <4>2. BookOK(Sell(books, s, Candle(s)))
        BY <1>0, <2>2, <3>1, SellKeeps DEF MarketOK
      <4> QED
        BY <1>0, <1>1, <4>1, <4>2, BooksStay DEF MarketOK
    <3> QED
      BY <3>2, <3>3
  <2> QED
    BY <2>1, <2>2
<1>6. MarketOK'
  BY <1>0, <1>1 DEF MarketOK, Loaded
<1>7. CurveOK' /\ TimesOK'
  BY <1>1, CurveStays, TimesStay DEF BInv
<1>8. MarksAreOfTheTime'
  BY <1>1 DEF MarksAreOfTheTime
<1>9. VotesNeverTrade'
  <2>1. consensus \notin {"first", "all"} => books' = books
    BY <1>2, <1>4
  <2> QED
    BY <1>1, <2>1 DEF BInv, VotesNeverTrade, Open
<1>10. SignalsOK'
  <2>1. \A i \in DOMAIN Tail(signals) : Tail(signals)[i].symbol \in Loaded =>
          /\ consensus \in {"first", "all"}
          /\ Tail(signals)[i].side = "BUY" => Said(Tail(signals)[i].symbol, Candle(Tail(signals)[i].symbol).time)
    BY <1>0, <1>3 DEF SignalsOK
  <2>2. Signal' = Signal /\ Loaded' = Loaded /\ (\A t, time : Said(t, time)' = Said(t, time))
        /\ \A t : Candle(t)' = Candle(t)
    BY <1>1 DEF Signal, Loaded, Said, Candle
  <2> DEFINE rest == Tail(signals)
  <2>3. /\ rest \in Seq(Signal)
        /\ \A i \in DOMAIN rest : rest[i].symbol \in Loaded =>
              /\ consensus \in {"first", "all"}
              /\ rest[i].side = "BUY" => Said(rest[i].symbol, Candle(rest[i].symbol).time)
    BY <1>3, <2>1
  <2>4. signals' = rest
    BY <1>1
  <2> HIDE DEF rest
  <2> QED
    BY <1>1, <2>2, <2>3, <2>4 DEF SignalsOK
<1> QED
  BY <1>5, <1>6, <1>7, <1>8, <1>9, <1>10 DEF BInv

LEMMA AskKeeps ==
    ASSUME BacktestAssumption, BInv, NEW s \in Loaded, AskAgents(s)
    PROVE  BInv'
<1>0. MarketOK /\ BookOK(books) /\ SignalsOK
  BY DEF BInv
<1>1. /\ stage = "signals" /\ UNCHANGED <<data, consensus, sizing, stage, index, books, curve, drawdown>>
  BY DEF AskAgents
<1>2. \/ UNCHANGED <<signals, bought>>
      \/ /\ HasCandle(s)
         /\ \E said \in [Agents -> Answers] :
               /\ \E made \in ApplyConsensus(s, said) : signals' = signals \o made
               /\ bought' = bought \cup {<<a, s, Candle(s).time>> :
                                         a \in {b \in Agents : said[b] # None /\ said[b].side = "BUY"}}
  BY DEF AskAgents
<1>3. bought \subseteq bought'
  BY <1>2
<1>4. BookOK(books)'
  BY <1>0, <1>1, <1>3, BooksStay DEF MarketOK
<1>5. MarketOK'
  BY <1>0, <1>1 DEF MarketOK, Loaded
<1>6. CurveOK' /\ TimesOK'
  BY <1>1, CurveStays, TimesStay DEF BInv
<1>7. MarksAreOfTheTime'
  BY <1>1, MarksStay DEF BInv
<1>8. VotesNeverTrade'
  BY <1>1 DEF BInv, VotesNeverTrade, Open
<1>9. SignalsOK'
  <2>1. Signal' = Signal /\ Loaded' = Loaded
    BY <1>1 DEF Signal, Loaded
  <2>2. \A t : Said(t, Candle(t).time) => Said(t, Candle(t).time)'
    BY <1>1, <1>3 DEF Said, Candle
  <2>3. signals \in Seq(Signal) /\ \A i \in DOMAIN signals : signals[i].symbol \in Loaded =>
          /\ consensus \in {"first", "all"}
          /\ signals[i].side = "BUY" => Said(signals[i].symbol, Candle(signals[i].symbol).time)
    BY <1>0 DEF SignalsOK
  <2>4. CASE UNCHANGED <<signals, bought>>
    BY <1>0, <1>1, <2>1, <2>2, <2>4 DEF SignalsOK
  <2>5. ASSUME NEW said \in [Agents -> Answers], NEW made \in ApplyConsensus(s, said), signals' = signals \o made,
               bought' = bought \cup {<<a, s, Candle(s).time>> :
                                      a \in {b \in Agents : said[b] # None /\ said[b].side = "BUY"}}
        PROVE  SignalsOK'
    <3>1. /\ made \in Seq(Signal)
          /\ \A i \in DOMAIN made : made[i].symbol \in Loaded =>
                /\ made[i].symbol = s /\ consensus \in {"first", "all"}
                /\ made[i].side = "BUY" => \E a \in Agents : said[a] # None /\ said[a].side = "BUY"
      BY <1>0, <2>5, ConsensusSignals DEF MarketOK
    <3>2. ASSUME NEW a \in Agents, said[a] # None, said[a].side = "BUY" PROVE Said(s, Candle(s).time)'
      <4>1. <<a, s, Candle(s).time>> \in bought'
        BY <2>5, <3>2
      <4>2. Candle(s)' = Candle(s)
        BY <1>1 DEF Candle
      <4> QED
        BY <4>1, <4>2 DEF Said
    <3>3. /\ signals' \in Seq(Signal)
          /\ \A i \in DOMAIN signals' : \/ i \in DOMAIN signals /\ signals'[i] = signals[i]
                                       \/ \E j \in DOMAIN made : signals'[i] = made[j]
      BY <2>3, <2>5, <3>1
    <3>4. ASSUME NEW i \in DOMAIN signals', NEW t \in Loaded, signals'[i].symbol = t
          PROVE  /\ consensus \in {"first", "all"}
                 /\ signals'[i].side = "BUY" => Said(t, Candle(t).time)'
      <4>1. CASE i \in DOMAIN signals /\ signals'[i] = signals[i]
        BY <2>2, <2>3, <3>4, <4>1
      <4>2. ASSUME NEW j \in DOMAIN made, signals'[i] = made[j]
            PROVE  /\ consensus \in {"first", "all"}
                   /\ signals'[i].side = "BUY" => Said(t, Candle(t).time)'
        BY <3>1, <3>2, <3>4, <4>2
      <4> QED
        BY <3>3, <4>1, <4>2
    <3>5. \A i \in DOMAIN signals' : signals'[i].symbol \in Loaded' =>
             /\ consensus' \in {"first", "all"}
             /\ signals'[i].side = "BUY" => Said(signals[i].symbol, Candle(signals[i].symbol).time)'
      BY <1>1, <2>1, <3>4
    <3> QED
      BY <1>1, <2>1, <3>3, <3>5 DEF SignalsOK
  <2> QED
    BY <1>2, <2>4, <2>5
<1> QED
  BY <1>4, <1>5, <1>6, <1>7, <1>8, <1>9 DEF BInv

\* Where the symbols are aligned, they all have a candle of the time of the step.
LEMMA AllAtOnce ==
    ASSUME BacktestAssumption, MarketOK, TimesOK, Aligned, NEW now,
           \E s \in Loaded : HasCandle(s) /\ Candle(s).time = now,
           \A s \in Loaded : HasCandle(s) => now <= Candle(s).time,
           NEW t \in Loaded
    PROVE  HasCandle(t) /\ Candle(t).time = now
<1>1. PICK s \in Loaded : HasCandle(s) /\ Candle(s).time = now
  OBVIOUS
<1>2. index[s] \in Nat /\ index[s] > 0 /\ index[t] \in Nat /\ index[t] > 0 /\ data \in Histories
  BY DEF MarketOK
<1>3. index[s] \in DOMAIN data[s] /\ Candle(s) = data[s][index[s]] /\ now \in Nat
  BY <1>1, <1>2, CandleData, DataOK DEF HasCandle, Candle
<1>4. PICK j \in DOMAIN data[t] : data[t][j].time = now
  <2> DEFINE k == index[s]
  <2>1. k \in DOMAIN data[s] /\ data[s][k].time = now
    BY <1>1, <1>3
  <2> HIDE DEF k
  <2>2. \E j \in DOMAIN data[t] : data[t][j].time = data[s][k].time
    BY <2>1 DEF Aligned
  <2> QED
    BY <2>1, <2>2
<1>5. j \in Nat /\ j > 0 /\ j <= Len(data[t]) /\ Len(data[t]) \in Nat
  BY <1>2, DataOK
<1>6. ~ (j < index[t])
  <2>1. CASE curve = <<>>
    BY <1>5, <2>1 DEF TimesOK
  <2>2. CASE curve # <<>>
    <3>1. ~ (index[s] < index[s])
      BY <1>2
    <3>2. ~ (now <= Now)
      BY <1>1, <1>3, <2>2, <3>1 DEF TimesOK
    <3> QED
      BY <1>4, <2>2, <3>2 DEF TimesOK
  <2> QED
    BY <2>1, <2>2
<1>7. HasCandle(t)
  BY <1>2, <1>5, <1>6 DEF HasCandle
<1>8. index[t] \in DOMAIN data[t] /\ Candle(t) = data[t][index[t]] /\ index[t] <= j
  BY <1>2, <1>5, <1>6, <1>7, DataOK DEF HasCandle, Candle
<1>9. Candle(t).time <= now /\ Candle(t).time \in Nat
  BY <1>2, <1>4, <1>7, <1>8, CandleData, DataOK
<1> QED
  BY <1>3, <1>7, <1>9

LEMMA EngineKeeps ==
    ASSUME BacktestAssumption, BInv, EngineStep
    PROVE  BInv'
<1> DEFINE times == {Candle(s).time : s \in {t \in Loaded : HasCandle(t)}}
           next == Min(times)
           e == Equity(Marked)
<1>0. MarketOK /\ BookOK(books) /\ CurveOK /\ TimesOK /\ SignalsOK /\ VotesNeverTrade
  BY DEF BInv
<1>1. /\ data \in Histories /\ sizing \in Sizings /\ index \in [Loaded -> Nat \ {0}] /\ Capital \in Nat
      /\ IsFiniteSet(Loaded)
  BY <1>0, DataOK DEF MarketOK, BacktestAssumption
<1>2. \A s \in Loaded : index[s] \in Nat /\ index[s] > 0
  BY <1>1
<1>3. /\ stage = "step" /\ (\E s \in Loaded : HasCandle(s))
      /\ books' = Marked /\ drawdown' = Drawdown(e) /\ stage' = "signals"
      /\ UNCHANGED <<data, consensus, sizing, signals, bought>>
      /\ curve' = Append(curve, [time |-> next, equity |-> e])
      /\ index' = [s \in Loaded |-> IF s \in {t \in Loaded : HasCandle(t) /\ Candle(t).time <= next}
                                    THEN index[s] + 1 ELSE index[s]]
  BY DEF EngineStep
<1>4. times \in SUBSET Nat /\ times # {}
  BY <1>1, <1>2, <1>3, CandleData
<1>5. next \in times /\ next \in Nat /\ \A time \in times : next <= time
  <2> HIDE DEF times
  <2> QED
    BY <1>4, MinIs
<1>6. (\E s \in Loaded : HasCandle(s) /\ Candle(s).time = next)
      /\ \A s \in Loaded : HasCandle(s) => next <= Candle(s).time
  <2> HIDE DEF next
  <2> QED
    BY <1>5
<1> HIDE DEF times, next
<1>7. PICK now \in Nat : now = next
  BY <1>5
<1>8. BookOK(Marked) /\ DOMAIN Marked.open = Open /\ Marked.closed = books.closed
      /\ (\A s \in Open : Marked.open[s].at = books.open[s].at)
      /\ (\A s \in Open : HasCandle(s) => Marked.open[s].mark = Candle(s).close)
  BY <1>0, <1>1, MarkedKeeps
<1>9. e \in Int
  BY <1>1, <1>8, EquityInt
<1> HIDE DEF e
<1>10. CurveOK'
  BY <1>0, <1>1, <1>3, <1>5, <1>9, DrawdownKeeps
<1>11. /\ index' \in [Loaded -> Nat \ {0}]
       /\ \A s \in Loaded : index[s] <= index'[s]
  BY <1>1, <1>3
<1>12. BookOK(books)'
  BY <1>0, <1>1, <1>3, <1>8, <1>11, BookOnward
<1>13. MarketOK'
  BY <1>0, <1>3, <1>11 DEF MarketOK, Loaded
<1>14. Len(curve') \in Nat /\ Len(curve') > 0 /\ curve' # <<>> /\ Now' = now
  <2> DEFINE point == [time |-> next, equity |-> e]
             S == [time : Nat, equity : Int]
  <2>1. point \in S /\ curve \in Seq(S) /\ curve' = Append(curve, point) /\ point.time = now
    BY <1>0, <1>3, <1>5, <1>7, <1>9 DEF CurveOK
  <2> HIDE DEF point, S
  <2>2. Len(curve) \in Nat /\ Len(curve') = Len(curve) + 1 /\ curve'[Len(curve')] = point
    BY <2>1
  <2>3. curve' # <<>>
    BY <2>2
  <2> QED
    BY <2>1, <2>2, <2>3 DEF Now
<1>15. Aligned' = Aligned /\ Loaded' = Loaded
  BY <1>3 DEF Aligned, Loaded
<1>16. ASSUME Aligned PROVE \A s \in Loaded : HasCandle(s) /\ Candle(s).time = now /\ index'[s] = index[s] + 1
  <2>1. \A s \in Loaded : HasCandle(s) /\ Candle(s).time = now
    BY <1>0, <1>6, <1>7, <1>16, AllAtOnce
  <2> QED
    BY <1>3, <1>7, <2>1
<1>17. TimesOK'
  <2> SUFFICES ASSUME Aligned, NEW s \in Loaded, NEW i \in DOMAIN data[s]
               PROVE  (i < index'[s]) <=> (data[s][i].time <= now)
    BY <1>3, <1>14, <1>15 DEF TimesOK
  <2>1. HasCandle(s) /\ Candle(s).time = now /\ index'[s] = index[s] + 1
    BY <1>16
  <2>2. index[s] \in DOMAIN data[s] /\ data[s][index[s]].time = now /\ i \in Nat /\ index[s] \in Nat
        /\ data[s][i].time \in Nat
    <3>1. index[s] \in DOMAIN data[s] /\ data[s][index[s]].time = now /\ index[s] \in Nat
      BY <1>1, <1>2, <2>1, DataOK DEF HasCandle, Candle
    <3>2. i \in Nat
      BY <1>1, DataOK
    <3>3. data[s][i] \in CandleSet
      BY <1>1, DataOK
    <3> QED
      BY <3>1, <3>2, <3>3 DEF CandleSet
  <2>3. CASE i <= index[s]
    BY <1>1, <2>1, <2>2, <2>3, DataOK
  <2>4. CASE index[s] < i
    <3>1. now < data[s][i].time
      BY <2>2, <2>4 DEF Aligned
    <3> QED
      BY <1>7, <2>1, <2>2, <2>4, <3>1
  <2> QED
    BY <2>2, <2>3, <2>4
<1>18. MarksAreOfTheTime'
  <2>1. Open' = Open
    BY <1>3, <1>8, Zenon DEF Open
  <2> SUFFICES ASSUME Aligned, NEW s \in Open
               PROVE  \E i \in DOMAIN data[s] :
                         data[s][i] = [time |-> now, close |-> Marked.open[s].mark] /\ Marked.open[s].at <= now
    BY <1>3, <1>14, <1>15, <2>1 DEF MarksAreOfTheTime
  <2>2. s \in Loaded
    BY <1>1, <1>0, BookData DEF Open
  <2>3. HasCandle(s) /\ Candle(s).time = now
    BY <1>16, <2>2
  <2>4. /\ Candle(s) \in CandleSet /\ index[s] \in DOMAIN data[s] /\ Candle(s) = data[s][index[s]]
        /\ \A time : Passed(s, time) => time <= now
    BY <1>1, <1>2, <2>2, <2>3, CandleData, DataOK DEF HasCandle, Candle
  <2>5. Marked.open[s].mark = Candle(s).close /\ Marked.open[s].at = books.open[s].at
    BY <1>8, <2>3
  <2>6. Passed(s, books.open[s].at)
    BY <1>0 DEF BookOK, Open
  <2>7. Candle(s) = [time |-> now, close |-> Candle(s).close]
    BY <2>3, <2>4 DEF CandleSet
  <2> QED
    BY <2>4, <2>5, <2>6, <2>7
<1>19. VotesNeverTrade'
  BY <1>0, <1>3, <1>8 DEF VotesNeverTrade, Open
<1>20. SignalsOK'
  <2>1. signals = <<>> /\ signals' = <<>>
    BY <1>0, <1>3 DEF SignalsOK
  <2> QED
    BY <2>1 DEF SignalsOK
<1> QED
  BY <1>10, <1>12, <1>13, <1>17, <1>18, <1>19, <1>20 DEF BInv

LEMMA BacktestBegins == ASSUME BacktestAssumption, BacktestInit PROVE BInv
<1>1. /\ data \in Histories /\ consensus \in Consensuses /\ sizing \in Sizings /\ stage = "step"
      /\ index = [s \in Loaded |-> 1] /\ curve = <<>> /\ drawdown = [peak |-> Capital, max |-> 0, pct |-> 0]
      /\ signals = <<>> /\ books = [cash |-> Capital, open |-> <<>>, closed |-> <<>>, profit |-> 0, loss |-> 0]
  BY DEF BacktestInit
<1>2. Capital \in Nat
  BY Zenon DEF BacktestAssumption
<1>3. MarketOK
  BY <1>1 DEF MarketOK
<1>4. BookOK(books)
  <2>1. Cost(books.open) = 0
    <3>1. DOMAIN books.open = {}
      BY <1>1
    <3> DEFINE w == [s \in DOMAIN books.open |-> books.open[s].entry * books.open[s].qty + books.open[s].fee]
    <3>2. DOMAIN w = {}
      BY <3>1
    <3> HIDE DEF w
    <3>3. SumFunctionOnSet(w, {}) = 0
      BY SumEmpty
    <3> QED
      BY <3>2, <3>3 DEF Cost, SumFunction, w
  <2>2. books \in Book
    <3> DEFINE none == <<>>
    <3>1. none \in [{} -> Position] /\ none \in Seq(Trade)
      OBVIOUS
    <3>2. {} \in SUBSET Loaded /\ 0 \in Nat /\ 0 \in Int
      OBVIOUS
    <3>3. books = [cash |-> Capital, open |-> none, closed |-> none, profit |-> 0, loss |-> 0]
      BY <1>1
    <3> HIDE DEF none
    <3> QED
      BY <1>2, <3>1, <3>2, <3>3, BookMade
  <2> QED
    BY <1>1, <1>2, <2>1, <2>2 DEF BookOK
<1>5. CurveOK
  <2>1. Len(curve) = 0 /\ 0 .. 0 = {0} /\ Value(0) = Capital /\ curve \in Seq([time : Nat, equity : Int])
    BY <1>1 DEF Value
  <2> QED
    BY <1>1, <1>2, <2>1 DEF CurveOK
<1>6. TimesOK
  BY <1>1 DEF TimesOK
<1>7. SignalsOK
  BY <1>1 DEF SignalsOK
<1>8. VotesNeverTrade /\ MarksAreOfTheTime
  BY <1>1 DEF VotesNeverTrade, MarksAreOfTheTime, Open
<1> QED
  BY <1>3, <1>4, <1>5, <1>6, <1>7, <1>8 DEF BInv

LEMMA BacktestStep == ASSUME BacktestAssumption, BInv, BacktestNext PROVE BInv'
<1>1. CASE EngineStep
  BY <1>1, EngineKeeps
<1>2. CASE ExecuteSignal
  BY <1>2, ExecuteKeeps
<1>3. CASE StepEnds
  BY <1>3, StageKeeps DEF StepEnds
<1>4. CASE Finish
  <2>1. books' = books
    <3>1. \A s \in DOMAIN books.open : ~ HasCandle(s)
      BY <1>4, BookData, DataOK DEF Finish, BInv, MarketOK
    <3> QED
      BY <1>4, <3>1, NothingClosed DEF Finish
  <2>2. signals = <<>>
    BY <1>4 DEF Finish, BInv, SignalsOK
  <2> QED
    BY <1>4, <2>1, <2>2, StageKeeps DEF Finish
<1>5. CASE Cancel
  BY <1>5, StageKeeps DEF Cancel, BInv, SignalsOK
<1>6. CASE SignalsAreIn
  BY <1>6, StageKeeps DEF SignalsAreIn
<1>7. CASE \E s \in Loaded : AskAgents(s)
  BY <1>7, AskKeeps
<1> QED
  BY <1>1, <1>2, <1>3, <1>4, <1>5, <1>6, <1>7 DEF BacktestNext

LEMMA BacktestRests == ASSUME BInv, UNCHANGED engine PROVE BInv'
<1>1. UNCHANGED <<data, consensus, sizing, stage, index, books, curve, drawdown, signals, bought>>
  BY DEF engine
<1>2. MarketOK'
  BY <1>1 DEF BInv, MarketOK, Loaded
<1>3. BookOK(books)'
  BY <1>1 DEF BInv, BookOK, Book, Trade, Passed, Said, Loaded
<1>4. CurveOK' /\ TimesOK'
  BY <1>1, CurveStays, TimesStay DEF BInv
<1>5. MarksAreOfTheTime'
  BY <1>1, MarksStay DEF BInv
<1>6. VotesNeverTrade'
  BY <1>1 DEF BInv, VotesNeverTrade, Open
<1>7. SignalsOK'
  BY <1>1 DEF BInv, SignalsOK, Signal, Said, Candle, Loaded
<1> QED
  BY <1>2, <1>3, <1>4, <1>5, <1>6, <1>7 DEF BInv

LEMMA ValueInt == ASSUME BacktestAssumption, CurveOK PROVE \A k \in 0 .. Len(curve) : Value(k) \in Int
<1> SUFFICES ASSUME NEW k \in 0 .. Len(curve) PROVE Value(k) \in Int
  OBVIOUS
<1> DEFINE S == [time : Nat, equity : Int]
<1>1. curve \in Seq(S)
  BY DEF CurveOK
<1>2. CASE k = 0
  <2>1. Capital \in Nat
    BY Zenon DEF BacktestAssumption
  <2> QED
    BY <1>2, <2>1 DEF Value
<1>3. CASE k # 0
  <2> HIDE DEF S
  <2>1. Len(curve) \in Nat
    BY <1>1
  <2>2. k \in 1 .. Len(curve)
    BY <1>3, <2>1
  <2>3. curve[k] \in S
    BY <1>1, <2>2
  <2>4. curve[k].equity \in Int
    BY <2>3 DEF S
  <2> QED
    BY <1>3, <2>4 DEF Value
<1> QED
  BY <1>2, <1>3

\* What the invariant says of a backtest.
LEMMA BacktestShows ==
    ASSUME BacktestAssumption, BInv
    PROVE  /\ BacktestTypeOK /\ BooksBalance /\ DrawdownIsOfCurve /\ MarksAreOfTheTime
           /\ PositionsFollowEachOther /\ EntriesAreJudged
<1>0. MarketOK /\ BookOK(books) /\ CurveOK /\ MarksAreOfTheTime /\ VotesNeverTrade /\ IsFiniteSet(Loaded)
  BY DataOK DEF BInv, MarketOK
<1>1. BacktestTypeOK
  <2>1. /\ Open \subseteq Loaded /\ books.open \in [Open -> Position] /\ books.cash \in Nat /\ books.profit \in Nat
        /\ books.loss <= 0
    BY <1>0, BookData DEF Open
  <2>2. \A s \in Open : books.open[s].qty > 0
    BY <2>1, PositionCost
  <2> QED
    BY <1>0, <2>1, <2>2 DEF BacktestTypeOK, MarketOK
<1>2. BooksBalance
  BY <1>0 DEF BookOK, BooksBalance, Cost, Open
<1>3. DrawdownIsOfCurve
  <2> DEFINE n == Len(curve)
             falls == {Value(p[1]) - Value(p[2]) : p \in {q \in (0 .. n) \X (0 .. n) : q[1] <= q[2]}}
  <2>1. drawdown.max \in falls
    <3>1. PICK i \in 0 .. n, j \in 0 .. n : i <= j /\ Value(i) - Value(j) = drawdown.max
      BY <1>0 DEF CurveOK
    <3>2. <<i, j>> \in {q \in (0 .. n) \X (0 .. n) : q[1] <= q[2]} /\ <<i, j>>[1] = i /\ <<i, j>>[2] = j
      BY <3>1
    <3> QED
      BY <3>1, <3>2
  <2>2. \A x \in falls : x \in Int /\ drawdown.max >= x
    <3>1. ASSUME NEW i \in 0 .. n, NEW j \in 0 .. n, i <= j
          PROVE  Value(i) - Value(j) \in Int /\ drawdown.max >= Value(i) - Value(j)
      <4>1. \A k \in 0 .. n : Value(k) \in Int
        BY <1>0, ValueInt
      <4>2. Value(i) - Value(j) <= drawdown.max /\ drawdown.max \in Int
        BY <1>0, <3>1 DEF CurveOK
      <4> QED
        BY <4>1, <4>2
    <3> QED
      BY <3>1
  <2>3. falls = {Value(p[1]) - Value(p[2]) : p \in {q \in (0 .. n) \X (0 .. n) : q[1] <= q[2]}}
    OBVIOUS
  <2> HIDE DEF falls
  <2>4. Max(falls) = drawdown.max
    <3>1. \A x \in falls : (\A y \in falls : x >= y) => x = drawdown.max
      BY <1>0, <2>1, <2>2 DEF CurveOK
    <3> QED
      BY <2>1, <2>2, <3>1 DEF Max
  <2> QED
    BY <2>3, <2>4 DEF DrawdownIsOfCurve, Value
<1>4. PositionsFollowEachOther
  BY <1>0 DEF BookOK, PositionsFollowEachOther
<1>5. EntriesAreJudged
  <2>1. \A i \in DOMAIN books.closed : Said(books.closed[i].symbol, books.closed[i].at)
    BY <1>0 DEF BookOK
  <2>2. \A i \in DOMAIN books.closed : \E a \in Agents : i \in Judged(a)
    BY <2>1 DEF Judged, Said
  <2>3. \A a \in Agents : Judged(a) \subseteq DOMAIN books.closed
    BY DEF Judged
  <2> QED
    BY <2>2, <2>3 DEF EntriesAreJudged
<1> QED
  BY <1>0, <1>1, <1>2, <1>3, <1>4, <1>5
=============================================================================
