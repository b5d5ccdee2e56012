---------------------------- MODULE PlatformProofs ----------------------------
(***************************************************************************)
(* The safety of what surrounds the agents, for every instance of it:      *)
(* that nobody is lost (the clients of the hub, the questions of a         *)
(* conversation, the agent whose clones are tested: MCPlatform's           *)
(* NobodyIsLost) and that reports are true (backtests, searches, contracts *)
(* and jobs: ReportsAreTrue).                                              *)
(*                                                                         *)
(* A behaviour of MCSpec is one of one part, so that the invariant PInv is *)
(* a conjunction: HInv of the hub, TInv of the conversations, CInv, AInv   *)
(* (who trades) and SInv of the tests and their samples, and NInv, JInv,   *)
(* OInv and BInv of contract net, jobs, search and backtest                *)
(* (ReportProofs), each kept by its own steps and untouched by the others'.*)
(***************************************************************************)
EXTENDS ReportProofs

-----------------------------------------------------------------------------
(* The hub.  What a client has been written and what waits in its channel  *)
(* make up the broadcasts handed out; a channel is closed once, when the   *)
(* hub forgets the client; it is closed under a reader only for slowness.  *)

HubTyped ==
    /\ broadcast \in Seq(Nat) /\ delivered \in Nat /\ crashed \in BOOLEAN
    /\ registered \cup closed \cup slow \subseteq Clients
    /\ send \in [Clients -> Seq(Nat)] /\ got \in [Clients -> Nat] /\ pings \in [Clients -> Nat]
    /\ conn \in [Clients -> {"none", "connecting", "open", "gone", "closed"}]
    /\ reader \in [Clients -> {"off", "reading", "pong", "leaving", "done"}]
    /\ writer \in [Clients -> {"off", "on", "done"}]

InOrder ==
    /\ sent = delivered + Len(broadcast)
    /\ \A i \in DOMAIN broadcast : broadcast[i] = delivered + i

\* A client the hub has not taken yet.
New(c) == conn[c] \in {"none", "connecting"}

ClientOK(c) ==
    /\ New(c) => c \notin registered \cup closed /\ send[c] = <<>> /\ got[c] = 0 /\ reader[c] = "off"
    /\ c \in closed => c \in slow \/ reader[c] = "done"
    /\ reader[c] = "pong" => pings[c] > 0

HInv ==
    /\ HubTyped /\ InOrder /\ Hub!HubTypeOK /\ Hub!NoGaps /\ Hub!PanicOnlyAfterSlow
    /\ \A c \in Clients : ClientOK(c)

(* The conversations.  The messages of a conversation are in the order of  *)
(* their numbers; a question that is no longer among them was trimmed, and *)
(* everything that is there is newer.                                      *)

Message == [n : Nat, len : Lengths \cup {1}]
Memory == [system : Seq(Message), others : Seq(Message)]
Ascending(s) == \A i, j \in DOMAIN s : i < j => s[i].n < s[j].n

MemoryOK(v) ==
    /\ \A p \in {"system", "others"} : \A i \in DOMAIN messages[v][p] : messages[v][p][i].n \in 1 .. added
    /\ Ascending(messages[v].others)

\* Question q is in conversation v, or what came after it left it no room.
Asked(q, v) ==
    \/ q \in Talk!Numbers(messages[v].others)
    \/ /\ \A i \in DOMAIN messages[v].others : messages[v].others[i].n > q
       /\ Len(messages[v].others) + 1 > MaxMessages - Len(messages[v].system)

Call ==
    {Talk!Idle} \cup [op : {"create"}] \cup [op : {"ask"}, v : Talk!Convs]
    \cup [op : {"prompt"}, v : Talk!Convs, q : Nat, cleared : BOOLEAN]
    \cup [op : {"wait"}, v : Talk!Convs, q : Nat, cleared : BOOLEAN, prompt : Memory, since : Seq(Message)]

CallOK(c) ==
    /\ call[c].op = "prompt" => call[c].q \in 1 .. added /\ (call[c].cleared \/ Asked(call[c].q, call[c].v))
    /\ call[c].op = "wait" =>
         /\ \/ call[c].cleared \/ call[c].q \in Talk!Numbers(call[c].prompt.others)
            \/ IF call[c].q \in Talk!Numbers(call[c].since)
               THEN ~ (Talk!Tokens(call[c].since) <= MaxTokens - Talk!Tokens(call[c].prompt.system))
               ELSE Len(call[c].since) + 1 > MaxMessages - Len(call[c].prompt.system)
         /\ \/ call[c].prompt.others = <<>>
            \/ Talk!Tokens(call[c].prompt.others) <= MaxTokens - Talk!Tokens(call[c].prompt.system)

TInv ==
    /\ messages \in [Talk!Convs -> Memory] /\ \A v \in Talk!Convs : MemoryOK(v)
    /\ call \in [Callers -> Call] /\ \A c \in Callers : CallOK(c)
    /\ byName \in 0 .. created /\ byId \subseteq 1 .. created
    /\ created \in 0 .. MaxConvs /\ added \in 0 .. MaxAdded
    /\ Talk!NoneIsHidden

(* The tests of clones.  A name is registered from a test only while the   *)
(* test has that clone; the control is registered until a test was         *)
(* promoted, and then the winner is unless another test cloned, too.       *)

Tests == {t1, t2}
Experiment == [status : {"none", "refused", "failed", "looking", "cloning", "cloned", "setup", "running",
                         "completed", "swapping", "started", "verified", "promoted", "cancelled"},
               variants : 1 .. MaxVariants, made : Nat, auto : BOOLEAN,
               winner : 0 .. MaxVariants \cup {None}, watched : BOOLEAN]
Registration == [config : Nat, status : {"active", "paused"}, from : Tests \cup {None}]

Won(t) == test[t].winner \in 1 .. test[t].variants

TestOK(t) ==
    /\ test[t].status \in {"none", "refused"} => test[t].made = 0
    /\ test[t].status \in {"looking", "cloning", "failed"} => test[t].made < test[t].variants
    /\ test[t].status \notin {"none", "refused", "looking", "cloning", "failed"} => test[t].made = test[t].variants
    /\ test[t].status \in {"swapping", "started", "verified"} => coordinator = t
    /\ test[t].status \in {"swapping", "started", "verified", "promoted"} => Won(t)
    /\ coordinator = t => Won(t) /\ test[t].status \in {"completed", "swapping", "started", "verified"}

\* The only test that made clones.
Alone(t) == \A u \in Tests \ {t} : test[u].made = 0

WinnerOK(t) ==
    /\ test[t].status \in {"verified", "promoted"} /\ Alone(t) => test[t].winner \in DOMAIN names
    /\ test[t].status \in {"started", "verified", "promoted"} /\ test[t].winner \in DOMAIN names
         => names[test[t].winner].config = 0 \/ names[test[t].winner].from # t

CloneOK(n, t) ==
    names[n].from = t =>
        n \in 1 .. test[t].made /\ test[t].status \notin {"none", "refused", "failed", "cancelled"}

Busy == {t \in Tests : test[t].status \in {"looking", "cloning", "cloned", "setup", "running"}}

CInv ==
    /\ DOMAIN names \subseteq 0 .. MaxVariants /\ \A n \in DOMAIN names : names[n] \in Registration
    /\ test \in [Tests -> Experiment] /\ coordinator \in Tests \cup {None}
    /\ \A t \in Tests : TestOK(t) /\ WinnerOK(t)
    /\ \A n \in DOMAIN names : \A t \in Tests : CloneOK(n, t)
    /\ 0 \in DOMAIN names \/ \E t \in Tests : test[t].status = "promoted"
    /\ shared = {} => Cardinality(Busy) <= MaxActiveExperiments

\* A sample is counted once, and as failed at most once; the last is of the past.
Samples ==
    {m \in [requests : Nat, failed : Nat, latency : Nat, first : Nat, last : Nat] :
        m.failed <= m.requests /\ m.first <= m.last}

SInv ==
    /\ metrics \in [Tests -> [0 .. MaxVariants -> Samples]] /\ second \in Nat
    /\ \A t \in Tests : \A n \in 0 .. MaxVariants : metrics[t][n].last <= second

-----------------------------------------------------------------------------
(* The hub.                                                                *)

LEMMA FiniteBroadcasts ==
    ASSUME NEW s \in Seq(Nat)
    PROVE  /\ IsFiniteSet(Hub!Broadcasts(s)) /\ Cardinality(Hub!Broadcasts(s)) \in Nat
           /\ Hub!Broadcasts(s) \subseteq 1 .. Len(s)
<1>1. IsFiniteSet(1 .. Len(s))
  BY FS_Interval
<1>2. Hub!Broadcasts(s) \subseteq 1 .. Len(s)
  BY DEF Hub!Broadcasts
<1> QED
  BY <1>1, <1>2, FS_Subset, FS_CardinalityType

\* The i-th broadcast that waits in s is the i-th after g.
Gapless(s, g) ==
    \A i \in Hub!Broadcasts(s) : s[i] = g + Cardinality({j \in Hub!Broadcasts(s) : j <= i})

LEMMA Pong ==
    ASSUME NEW s \in Seq(Nat), NEW g
    PROVE  Hub!Broadcasts(Append(s, 0)) = Hub!Broadcasts(s) /\ (Gapless(s, g) => Gapless(Append(s, 0), g))
<1>1. DOMAIN Append(s, 0) = 1 .. Len(s) + 1 /\ DOMAIN s = 1 .. Len(s)
      /\ Append(s, 0)[Len(s) + 1] = 0 /\ \A i \in 1 .. Len(s) : Append(s, 0)[i] = s[i]
  OBVIOUS
<1>2. Hub!Broadcasts(Append(s, 0)) = Hub!Broadcasts(s)
  BY <1>1 DEF Hub!Broadcasts
<1>3. Hub!Broadcasts(s) \subseteq 1 .. Len(s)
  BY FiniteBroadcasts
<1> QED
  BY <1>1, <1>2, <1>3 DEF Gapless

LEMMA NextBroadcast ==
    ASSUME NEW s \in Seq(Nat), NEW g \in Nat, Gapless(s, g),
           NEW m, m = g + Cardinality(Hub!Broadcasts(s)) + 1
    PROVE  /\ Cardinality(Hub!Broadcasts(Append(s, m))) = Cardinality(Hub!Broadcasts(s)) + 1
           /\ Gapless(Append(s, m), g)
<1> DEFINE B == Hub!Broadcasts(s)
           k == Len(s) + 1
           t == Append(s, m)
<1>1. DOMAIN t = 1 .. k /\ DOMAIN s = 1 .. Len(s) /\ t[k] = m /\ \A i \in 1 .. Len(s) : t[i] = s[i]
  OBVIOUS
<1>2. IsFiniteSet(B) /\ Cardinality(B) \in Nat /\ B \subseteq 1 .. Len(s)
  BY FiniteBroadcasts
<1>3. m > 0
  BY <1>2
<1>4. Hub!Broadcasts(t) = B \cup {k} /\ k \notin B
  <2> HIDE DEF t
  <2>1. k \in 1 .. k /\ k \notin 1 .. Len(s) /\ 1 .. k = 1 .. Len(s) \cup {k}
    OBVIOUS
  <2>2. \A i \in 1 .. Len(s) : t[i] > 0 <=> s[i] > 0
    BY <1>1
  <2>3. t[k] > 0
    BY <1>1, <1>3
  <2> QED
    BY <1>1, <1>2, <2>1, <2>2, <2>3 DEF Hub!Broadcasts
<1>5. Cardinality(B \cup {k}) = Cardinality(B) + 1
  BY <1>2, <1>4, FS_AddElement
<1>6. ASSUME NEW i \in B \cup {k}
      PROVE  t[i] = g + Cardinality({j \in B \cup {k} : j <= i})
  <2>1. CASE i = k
    <3>1. {j \in B \cup {k} : j <= i} = B \cup {k}
      BY <1>2, <2>1
    <3>2. t[i] = m
      BY <1>1, <2>1
    <3>3. m = g + Cardinality(B \cup {k})
      BY <1>2, <1>5
    <3> QED
      BY <3>1, <3>2, <3>3
  <2>2. CASE i \in B
    <3>1. {j \in B \cup {k} : j <= i} = {j \in B : j <= i}
      BY <1>2, <2>2
    <3>2. t[i] = s[i]
      BY <1>1, <1>2, <2>2
    <3> QED
      BY <2>2, <3>1, <3>2 DEF Gapless
  <2> QED
    BY <1>6, <2>1, <2>2
<1> QED
  BY <1>4, <1>5, <1>6 DEF Gapless

\* The last broadcast that waits is as many after g as wait.
LEMMA LastBroadcast ==
    ASSUME NEW s \in Seq(Nat), NEW g \in Nat, Gapless(s, g), Hub!Broadcasts(s) # {},
           NEW m, m = s[CHOOSE i \in Hub!Broadcasts(s) : \A j \in Hub!Broadcasts(s) : j <= i]
    PROVE  m \in Nat /\ m = g + Cardinality(Hub!Broadcasts(s))
<1> DEFINE B == Hub!Broadcasts(s)
           far == {Len(s) - i : i \in B}
<1>1. IsFiniteSet(B) /\ Cardinality(B) \in Nat /\ B \subseteq 1 .. Len(s)
  BY FiniteBroadcasts
<1>2. far \in SUBSET Nat /\ far # {}
  <2>1. \A i \in 1 .. Len(s) : Len(s) - i \in Nat
    OBVIOUS
  <2> QED
    BY <1>1, <2>1
<1>3. \E n \in far : \A o \in far : ~ (o < n)
  <2> HIDE DEF far
  <2> QED
    BY <1>2, Least
<1>4. \E i \in B : \A j \in B : j <= i
  <2>1. PICK i \in B : \A j \in B : ~ (Len(s) - j < Len(s) - i)
    BY <1>3
  <2>2. Len(s) \in Nat /\ B \subseteq Nat
    <3>1. Len(s) \in Nat /\ 1 .. Len(s) \subseteq Nat
      OBVIOUS
    <3> QED
      BY <1>1, <3>1
  <2> HIDE DEF B
  <2>3. \A j \in B : j <= i
    BY <2>1, <2>2
  <2> QED
    BY <2>3
<1> DEFINE i == CHOOSE i \in B : \A j \in B : j <= i
<1>5. i \in B /\ \A j \in B : j <= i
  BY <1>4
<1> HIDE DEF i
<1>6. {j \in B : j <= i} = B
  BY <1>5
<1>7. s[i] = g + Cardinality(B)
  BY <1>5, <1>6 DEF Gapless
<1>8. m = s[i]
  BY DEF i
<1> QED
  BY <1>1, <1>7, <1>8

LEMMA EmptyChannel == Hub!Broadcasts(<<>>) = {} /\ Cardinality({}) = 0 /\ \A g : Gapless(<<>>, g)
<1>1. Hub!Broadcasts(<<>>) = {}
  BY DEF Hub!Broadcasts
<1> QED
  BY <1>1, FS_EmptySet DEF Gapless

\* NoGaps, client by client.
NoGap(c) ==
    writer[c] # "done" =>
        /\ Gapless(send[c], got[c])
        /\ c \in registered => got[c] + Cardinality(Hub!Broadcasts(send[c])) = delivered

LEMMA HubCardinality == \A S : Hub!Cardinality(S) = Cardinality(S)
BY DEF Hub!Cardinality, Cardinality

LEMMA NoGapsByClient == Hub!NoGaps <=> \A c \in Clients : NoGap(c)
BY HubCardinality DEF Hub!NoGaps, NoGap, Gapless

LEMMA NoGapsByClientNext == Hub!NoGaps' <=> \A c \in Clients : NoGap(c)'
BY HubCardinality DEF Hub!NoGaps, NoGap, Gapless

\* Nothing is sent, taken or closed.
LEMMA HubQuiet ==
    ASSUME HInv, UNCHANGED <<broadcast, sent, delivered, registered, send, closed, writer, got, slow>>,
           ~ crashed', HubTyped', \A c \in Clients : ClientOK(c)'
    PROVE  HInv'
<1>1. InOrder' /\ Hub!HubTypeOK' /\ Hub!PanicOnlyAfterSlow'
  BY DEF HInv, InOrder, Hub!HubTypeOK, Hub!PanicOnlyAfterSlow
<1>2. \A c \in Clients : NoGap(c)'
  BY NoGapsByClient DEF HInv, NoGap
<1> QED
  BY <1>1, <1>2, NoGapsByClientNext DEF HInv

LEMMA ConnectKeeps == ASSUME HInv, NEW c \in Clients, Hub!Connect(c) PROVE HInv'
<1>1. HubTyped'
  BY DEF Hub!Connect, HInv, HubTyped
<1>2. ASSUME NEW d \in Clients PROVE ClientOK(d)'
  BY DEF Hub!Connect, HInv, HubTyped, ClientOK, New
<1> QED
  BY <1>1, <1>2, HubQuiet DEF Hub!Connect

LEMMA PeerGoesKeeps == ASSUME HInv, NEW c \in Clients, Hub!PeerGoes(c) PROVE HInv'
<1>1. HubTyped'
  BY DEF Hub!PeerGoes, HInv, HubTyped
<1>2. ASSUME NEW d \in Clients PROVE ClientOK(d)'
  BY DEF Hub!PeerGoes, HInv, HubTyped, ClientOK, New
<1> QED
  BY <1>1, <1>2, HubQuiet DEF Hub!PeerGoes

LEMMA ReadPingKeeps == ASSUME HInv, NEW c \in Clients, Hub!ReadPing(c) PROVE HInv'
<1>1. HubTyped'
  BY DEF Hub!ReadPing, HInv, HubTyped
<1>2. ASSUME NEW d \in Clients PROVE ClientOK(d)'
  BY DEF Hub!ReadPing, HInv, HubTyped, ClientOK, New
<1> QED
  BY <1>1, <1>2, HubQuiet DEF Hub!ReadPing

LEMMA ReadFailsKeeps == ASSUME HInv, NEW c \in Clients, Hub!ReadFails(c) PROVE HInv'
<1>1. HubTyped'
  BY DEF Hub!ReadFails, HInv, HubTyped
<1>2. ASSUME NEW d \in Clients PROVE ClientOK(d)'
  BY DEF Hub!ReadFails, HInv, HubTyped, ClientOK, New
<1> QED
  BY <1>1, <1>2, HubQuiet DEF Hub!ReadFails

LEMMA WriterEndsKeeps == ASSUME HInv, NEW c \in Clients, Hub!WriterEnds(c) PROVE HInv'
<1>1. PICK taken \in 0 .. Len(send[c]) : send' = [send EXCEPT ![c] = SubSeq(@, taken + 1, Len(@))]
  BY DEF Hub!WriterEnds
<1>2. /\ (~ crashed /\ conn[c] \in {"gone", "closed"}) \/ c \in closed
      /\ writer' = [writer EXCEPT ![c] = "done"] /\ conn' = [conn EXCEPT ![c] = "closed"]
      /\ UNCHANGED <<broadcast, sent, delivered, registered, closed, reader, got, pings, slow, crashed>>
  BY DEF Hub!WriterEnds
<1>3. send[c] \in Seq(Nat) /\ Len(send[c]) \in Nat /\ Len(send[c]) <= SendCap
  BY DEF HInv, HubTyped, Hub!HubTypeOK
<1>4. SubSeq(send[c], taken + 1, Len(send[c])) \in Seq(Nat)
      /\ Len(SubSeq(send[c], taken + 1, Len(send[c]))) <= Len(send[c])
  <2> DEFINE s == send[c]
             k == Len(send[c])
  <2>1. s \in Seq(Nat) /\ k \in Nat /\ taken \in 0 .. k /\ k = Len(s)
    BY <1>3
  <2> HIDE DEF s, k
  <2>2. \A i \in 1 .. k + 1 : SubSeq(s, i, k) \in Seq(Nat) /\ Len(SubSeq(s, i, k)) <= k
    BY <2>1
  <2>3. taken + 1 \in 1 .. k + 1
    BY <2>1
  <2> QED
    BY <2>2, <2>3 DEF s, k
<1>5. /\ send' \in [Clients -> Seq(Nat)] /\ Len(send'[c]) <= Len(send[c]) /\ Len(send'[c]) \in Nat
      /\ \A d \in Clients \ {c} : send'[d] = send[d]
  BY <1>1, <1>4 DEF HInv, HubTyped
<1>6. HubTyped'
  BY <1>2, <1>5 DEF HInv, HubTyped
<1>7. Hub!HubTypeOK'
  <2>1. Len(send'[c]) <= SendCap
    <3>1. \A i, j \in Nat : i <= j /\ j <= SendCap => i <= SendCap
      BY PlatformAssumption DEF Hub!HubAssumption
    <3> QED
      BY <1>3, <1>5, <3>1
  <2> QED
    BY <1>2, <1>5, <2>1 DEF HInv, Hub!HubTypeOK
<1>8. InOrder' /\ Hub!PanicOnlyAfterSlow'
  BY <1>2 DEF HInv, InOrder, Hub!PanicOnlyAfterSlow
<1>9. ~ New(c)
  BY <1>2 DEF HInv, ClientOK, New
<1>10. ASSUME NEW d \in Clients PROVE ClientOK(d)'
  BY <1>2, <1>5, <1>9 DEF HInv, HubTyped, ClientOK, New
<1>11. ASSUME NEW d \in Clients PROVE NoGap(d)'
  <2>1. NoGap(d) /\ writer'[c] = "done" /\ (d # c => writer'[d] = writer[d])
    BY <1>2, NoGapsByClient DEF HInv, HubTyped
  <2> QED
    BY <1>2, <1>5, <2>1 DEF NoGap
<1> QED
  BY <1>6, <1>7, <1>8, <1>10, <1>11, NoGapsByClientNext DEF HInv

LEMMA BroadcastKeeps == ASSUME HInv, Hub!HubAssumption, Hub!Broadcast PROVE HInv'
<1>1. broadcast' = Append(broadcast, sent + 1) /\ sent' = sent + 1 /\ Len(broadcast) < BroadcastCap
  BY DEF Hub!Broadcast
<1>2. broadcast \in Seq(Nat) /\ delivered \in Nat /\ sent = delivered + Len(broadcast)
      /\ \A i \in DOMAIN broadcast : broadcast[i] = delivered + i
  BY DEF HInv, HubTyped, InOrder
<1>3. /\ broadcast' \in Seq(Nat) /\ Len(broadcast') = Len(broadcast) + 1
      /\ DOMAIN broadcast' = 1 .. Len(broadcast) + 1
      /\ broadcast'[Len(broadcast) + 1] = sent + 1
      /\ \A i \in 1 .. Len(broadcast) : broadcast'[i] = broadcast[i]
  BY <1>1, <1>2
<1>4. InOrder'
  <2>1. delivered' = delivered
    BY DEF Hub!Broadcast
  <2>2. sent' = delivered + Len(broadcast')
    BY <1>1, <1>2, <1>3
  <2>3. ASSUME NEW i \in DOMAIN broadcast' PROVE broadcast'[i] = delivered + i
    <3>1. Len(broadcast) \in Nat /\ DOMAIN broadcast = 1 .. Len(broadcast)
      BY <1>2
    <3>2. i = Len(broadcast) + 1 \/ i \in 1 .. Len(broadcast)
      BY <1>3, <2>3, <3>1
    <3>3. CASE i = Len(broadcast) + 1
      BY <1>2, <1>3, <3>1, <3>3
    <3>4. CASE i \in 1 .. Len(broadcast)
      BY <1>2, <1>3, <3>1, <3>4
    <3> QED
      BY <3>2, <3>3, <3>4
  <2> QED
    BY <2>1, <2>2, <2>3 DEF InOrder
<1>5. HubTyped' /\ Hub!HubTypeOK'
  <2>1. Len(broadcast') <= BroadcastCap
    BY <1>1, <1>2, <1>3 DEF Hub!HubAssumption
  <2> QED
    BY <1>3, <2>1 DEF Hub!Broadcast, HInv, HubTyped, Hub!HubTypeOK
<1>6. \A c \in Clients : NoGap(c)' /\ ClientOK(c)'
  BY NoGapsByClient DEF Hub!Broadcast, HInv, NoGap, ClientOK, New
<1>7. Hub!PanicOnlyAfterSlow'
  BY DEF Hub!Broadcast, Hub!PanicOnlyAfterSlow
<1> QED
  BY <1>4, <1>5, <1>6, <1>7, NoGapsByClientNext DEF HInv

LEMMA RegisterKeeps == ASSUME HInv, NEW c \in Clients, Hub!Register(c) PROVE HInv'
<1>1. HubTyped'
  BY DEF Hub!Register, HInv, HubTyped
<1>2. New(c) /\ c \notin closed /\ send[c] = <<>>
  BY DEF Hub!Register, HInv, ClientOK, New
<1>3. InOrder' /\ Hub!HubTypeOK' /\ Hub!PanicOnlyAfterSlow'
  BY <1>2 DEF Hub!Register, HInv, InOrder, Hub!HubTypeOK, Hub!PanicOnlyAfterSlow
<1>4. ASSUME NEW d \in Clients PROVE ClientOK(d)'
  BY <1>2 DEF Hub!Register, HInv, HubTyped, ClientOK, New
<1>5. ASSUME NEW d \in Clients PROVE NoGap(d)'
  <2>1. CASE d = c
    <3>1. got'[c] = delivered /\ delivered' = delivered /\ send'[c] = <<>> /\ delivered \in Nat
      BY <1>2 DEF Hub!Register, HInv, HubTyped
    <3>2. Gapless(<<>>, delivered) /\ Cardinality(Hub!Broadcasts(<<>>)) = 0
      BY EmptyChannel
    <3>3. delivered + Cardinality(Hub!Broadcasts(<<>>)) = delivered
      BY <3>1, <3>2
    <3> QED
      BY <2>1, <3>1, <3>2, <3>3 DEF NoGap
  <2>2. CASE d # c
    <3>1. /\ got'[d] = got[d] /\ send'[d] = send[d] /\ delivered' = delivered /\ writer'[d] = writer[d]
          /\ d \in registered' <=> d \in registered
      BY <2>2 DEF Hub!Register, HInv, HubTyped
    <3>2. NoGap(d)
      BY NoGapsByClient DEF HInv
    <3> QED
      BY <3>1, <3>2 DEF NoGap
  <2> QED
    BY <2>1, <2>2
<1> QED
  BY <1>1, <1>3, <1>4, <1>5, NoGapsByClientNext DEF HInv

LEMMA UnregisterKeeps == ASSUME HInv, NEW c \in Clients, Hub!Unregister(c) PROVE HInv'
<1>1. HubTyped'
  BY DEF Hub!Unregister, HInv, HubTyped
<1>2. InOrder' /\ Hub!HubTypeOK' /\ Hub!PanicOnlyAfterSlow'
  BY DEF Hub!Unregister, HInv, InOrder, Hub!HubTypeOK, Hub!PanicOnlyAfterSlow
<1>3. ASSUME NEW d \in Clients PROVE ClientOK(d)'
  BY DEF Hub!Unregister, HInv, HubTyped, ClientOK, New
<1>4. ASSUME NEW d \in Clients PROVE NoGap(d)'
  BY NoGapsByClient DEF Hub!Unregister, HInv, NoGap
<1> QED
  BY <1>1, <1>2, <1>3, <1>4, NoGapsByClientNext DEF HInv

LEMMA HandOutKeeps == ASSUME HInv, Hub!HubAssumption, Hub!HandOut PROVE HInv'
<1> DEFINE full == {c \in registered : Len(send[c]) = SendCap}
           m == Head(broadcast)
<1>1. /\ broadcast # <<>> /\ delivered' = m /\ broadcast' = Tail(broadcast) /\ ~ crashed
      /\ send' = [c \in Clients |-> IF c \in registered \ full THEN Append(send[c], m) ELSE send[c]]
      /\ registered' = registered \ full /\ closed' = closed \cup full /\ slow' = slow \cup full
      /\ UNCHANGED <<sent, conn, reader, writer, got, pings, crashed>>
  BY DEF Hub!HandOut
<1> HIDE DEF full, m
<1>2. broadcast \in Seq(Nat) /\ delivered \in Nat /\ sent = delivered + Len(broadcast)
      /\ \A i \in DOMAIN broadcast : broadcast[i] = delivered + i
  BY DEF HInv, HubTyped, InOrder
<1>3. /\ m = delivered + 1 /\ m \in Nat
      /\ Tail(broadcast) \in Seq(Nat) /\ Len(Tail(broadcast)) = Len(broadcast) - 1
      /\ \A i \in 1 .. Len(broadcast) - 1 : Tail(broadcast)[i] = broadcast[i + 1]
  BY <1>1, <1>2 DEF m
<1>4. InOrder'
  <2>1. sent = m + Len(Tail(broadcast))
    <3>1. Len(broadcast) \in Nat
      BY <1>2
    <3>2. \A d, l \in Nat : d + l = (d + 1) + (l - 1)
      OBVIOUS
    <3> QED
      BY <1>2, <1>3, <3>1, <3>2
  <2>2. ASSUME NEW i \in DOMAIN Tail(broadcast) PROVE Tail(broadcast)[i] = m + i
    <3>1. i \in 1 .. Len(broadcast) - 1 /\ i + 1 \in DOMAIN broadcast
      BY <1>2, <1>3
    <3> QED
      BY <1>2, <1>3, <3>1
  <2> QED
    BY <1>1, <2>1, <2>2 DEF InOrder
<1>5. full \subseteq registered /\ registered \subseteq Clients
  BY DEF full, HInv, HubTyped
<1>6. ASSUME NEW c \in Clients
      PROVE  send[c] \in Seq(Nat) /\ Len(send[c]) \in Nat /\ got[c] \in Nat /\ Len(send[c]) <= SendCap
  BY DEF HInv, HubTyped, Hub!HubTypeOK
<1>7. send' \in [Clients -> Seq(Nat)]
  BY <1>1, <1>3, <1>6
<1>8. HubTyped'
  BY <1>1, <1>3, <1>5, <1>7 DEF HInv, HubTyped
<1>9. Hub!HubTypeOK'
  <2>1. ASSUME NEW c \in Clients PROVE Len(send'[c]) <= SendCap
    <3>1. CASE c \in registered \ full
      <4>1. Len(send[c]) # SendCap
        BY <3>1 DEF full
      <4>2. send'[c] = Append(send[c], m) /\ Len(Append(send[c], m)) = Len(send[c]) + 1
        BY <1>1, <1>3, <1>6, <3>1
      <4> QED
        BY <1>6, <4>1, <4>2 DEF Hub!HubAssumption
    <3>2. CASE c \notin registered \ full
      BY <1>1, <1>6, <3>2
    <3> QED
      BY <3>1, <3>2
  <2>2. Len(broadcast') <= BroadcastCap
    BY <1>1, <1>2, <1>3 DEF HInv, Hub!HubTypeOK, Hub!HubAssumption
  <2>3. registered' \cap closed' = {}
    BY <1>1 DEF HInv, Hub!HubTypeOK
  <2> QED
    BY <2>1, <2>2, <2>3 DEF Hub!HubTypeOK
<1>10. ASSUME NEW c \in Clients PROVE ClientOK(c)'
  BY <1>1, <1>5 DEF HInv, ClientOK, New
<1>11. ASSUME NEW c \in Clients PROVE NoGap(c)'
  <2>1. NoGap(c) /\ writer'[c] = writer[c]
    BY <1>1, NoGapsByClient DEF HInv
  <2>2. CASE c \in registered \ full /\ writer[c] # "done"
    <3>1. Gapless(send[c], got[c]) /\ m = got[c] + Cardinality(Hub!Broadcasts(send[c])) + 1
      BY <1>3, <2>1, <2>2 DEF NoGap
    <3>2. /\ Cardinality(Hub!Broadcasts(Append(send[c], m))) = Cardinality(Hub!Broadcasts(send[c])) + 1
          /\ Gapless(Append(send[c], m), got[c])
      BY <1>6, <3>1, NextBroadcast
    <3>3. got[c] + Cardinality(Hub!Broadcasts(Append(send[c], m))) = m
      <4>1. PICK n \in Nat : n = Cardinality(Hub!Broadcasts(send[c]))
        BY <1>6, FiniteBroadcasts
      <4>2. PICK k : k = Cardinality(Hub!Broadcasts(Append(send[c], m)))
        OBVIOUS
      <4>3. PICK g \in Nat : g = got[c]
        BY <1>6
      <4>4. m = g + n + 1 /\ k = n + 1
        BY <3>1, <3>2, <4>1, <4>2, <4>3, Zenon
      <4>5. g + k = m
        BY <4>1, <4>3, <4>4
      <4> QED
        BY <4>2, <4>3, <4>5, Zenon
    <3>4. send'[c] = Append(send[c], m) /\ got'[c] = got[c] /\ delivered' = m
      BY <1>1, <2>2
    <3> QED
      BY <3>2, <3>3, <3>4 DEF NoGap
  <2>3. CASE c \notin registered \ full
    <3>1. send'[c] = send[c] /\ got'[c] = got[c] /\ c \notin registered'
      BY <1>1, <2>3
    <3> QED
      BY <2>1, <3>1 DEF NoGap
  <2>4. CASE writer[c] = "done"
    BY <2>1, <2>4 DEF NoGap
  <2> QED
    BY <2>2, <2>3, <2>4
<1>12. Hub!PanicOnlyAfterSlow'
  BY <1>1 DEF Hub!PanicOnlyAfterSlow
<1> QED
  BY <1>4, <1>8, <1>9, <1>10, <1>11, <1>12, NoGapsByClientNext DEF HInv

LEMMA SendPongKeeps == ASSUME HInv, Hub!HubAssumption, NEW c \in Clients, Hub!SendPong(c) PROVE HInv'
<1>1. /\ ~ crashed /\ reader[c] = "pong" /\ reader' = [reader EXCEPT ![c] = "reading"]
      /\ crashed' = (c \in closed)
      /\ send' = [send EXCEPT ![c] = send'[c]]
      /\ send'[c] = send[c] \/ (Len(send[c]) # SendCap /\ send'[c] = Append(send[c], 0) /\ c \notin closed)
      /\ UNCHANGED <<broadcast, sent, delivered, registered, closed, conn, writer, got, pings, slow>>
  BY DEF Hub!SendPong, HInv, HubTyped
<1>2. send[c] \in Seq(Nat) /\ Len(send[c]) \in Nat /\ Len(send[c]) <= SendCap
  BY DEF HInv, HubTyped, Hub!HubTypeOK
<1>3. /\ send'[c] \in Seq(Nat) /\ Len(send'[c]) <= SendCap
      /\ Hub!Broadcasts(send'[c]) = Hub!Broadcasts(send[c])
      /\ Gapless(send[c], got[c]) => Gapless(send'[c], got[c])
  <2>1. CASE send'[c] = send[c]
    BY <1>2, <2>1
  <2>2. CASE Len(send[c]) # SendCap /\ send'[c] = Append(send[c], 0)
    <3>1. Append(send[c], 0) \in Seq(Nat) /\ Len(Append(send[c], 0)) <= SendCap
      BY <1>2, <2>2 DEF Hub!HubAssumption
    <3>2. /\ Gapless(send[c], got[c]) => Gapless(Append(send[c], 0), got[c])
      BY <1>2, Pong
    <3>3. Hub!Broadcasts(Append(send[c], 0)) = Hub!Broadcasts(send[c])
      BY <1>2, Pong
    <3> QED
      BY <2>2, <3>1, <3>2, <3>3
  <2> QED
    BY <1>1, <2>1, <2>2
<1>4. \A d \in Clients \ {c} : send'[d] = send[d]
  BY <1>1 DEF HInv, HubTyped
<1>5. send' \in [Clients -> Seq(Nat)]
  BY <1>1, <1>3 DEF HInv, HubTyped
<1>6. crashed' \in BOOLEAN
  BY <1>1
<1>7. HubTyped'
  BY <1>1, <1>5, <1>6 DEF HInv, HubTyped
<1>8. InOrder' /\ Hub!HubTypeOK'
  BY <1>1, <1>3, <1>4 DEF HInv, InOrder, Hub!HubTypeOK
<1>9. ~ New(c)
  <2>1. HubTyped /\ ClientOK(c)
    BY DEF HInv
  <2> QED
    BY <1>1, <2>1 DEF ClientOK, New
<1>10. ASSUME NEW d \in Clients PROVE ClientOK(d)'
  BY <1>1, <1>4, <1>9 DEF HInv, HubTyped, ClientOK, New
<1>11. ASSUME NEW d \in Clients PROVE NoGap(d)'
  <2>1. NoGap(d)
    BY NoGapsByClient DEF HInv
  <2> QED
    BY <1>1, <1>3, <1>4, <2>1 DEF NoGap
<1>12. Hub!PanicOnlyAfterSlow'
  <2>1. c \in closed => c \in slow /\ pings[c] > 0
    BY <1>1 DEF HInv, ClientOK
  <2>2. reader'[c] = "reading"
    BY <1>1 DEF HInv, HubTyped
  <2> QED
    BY <1>1, <2>1, <2>2 DEF Hub!PanicOnlyAfterSlow
<1> QED
  BY <1>7, <1>8, <1>10, <1>11, <1>12, NoGapsByClientNext DEF HInv

LEMMA WriteKeeps == ASSUME HInv, Hub!HubAssumption, NEW c \in Clients, Hub!Write(c) PROVE HInv'
<1> DEFINE news == Hub!Broadcasts(send[c])
           last == send[c][CHOOSE i \in news : \A j \in news : j <= i]
           g == IF news = {} THEN got[c] ELSE last
<1>1. /\ ~ crashed /\ got' = [got EXCEPT ![c] = g] /\ send' = [send EXCEPT ![c] = <<>>]
      /\ conn[c] \in {"open", "gone"} /\ writer[c] = "on"
      /\ UNCHANGED <<broadcast, sent, delivered, registered, closed, conn, reader, writer, pings, slow, crashed>>
  BY DEF Hub!Write
<1>2. send[c] \in Seq(Nat) /\ got[c] \in Nat /\ NoGap(c)
  BY NoGapsByClient DEF HInv, HubTyped
<1>3. g \in Nat /\ g = got[c] + Cardinality(news)
  <2>1. CASE news = {}
    BY <1>1, <1>2, <2>1, EmptyChannel
  <2>2. CASE news # {}
    <3>1. last \in Nat /\ last = got[c] + Cardinality(news)
      BY <1>1, <1>2, <2>2, LastBroadcast DEF NoGap
    <3> QED
      BY <2>2, <3>1
  <2> QED
    BY <2>1, <2>2
<1> HIDE DEF g
<1>4. /\ got'[c] = g /\ send'[c] = <<>>
      /\ \A d \in Clients \ {c} : got'[d] = got[d] /\ send'[d] = send[d]
  BY <1>1 DEF HInv, HubTyped
<1>5. HubTyped'
  <2>1. <<>> \in Seq(Nat)
    OBVIOUS
  <2> QED
    BY <1>1, <1>3, <2>1 DEF HInv, HubTyped
<1>6. InOrder' /\ Hub!HubTypeOK' /\ Hub!PanicOnlyAfterSlow'
  <2>1. Len(<<>>) = 0 /\ \A n \in Nat : 0 <= n
    OBVIOUS
  <2>2. Len(send[c]) \in Nat /\ Len(send[c]) <= SendCap
    BY <1>2 DEF HInv, Hub!HubTypeOK
  <2>3. Len(send'[c]) <= SendCap
    BY <1>4, <2>1, <2>2 DEF Hub!HubAssumption
  <2> QED
    BY <1>1, <1>4, <2>3 DEF HInv, InOrder, Hub!HubTypeOK, Hub!PanicOnlyAfterSlow
<1>7. ASSUME NEW d \in Clients PROVE ClientOK(d)'
  BY <1>1, <1>4 DEF HInv, ClientOK, New
<1>8. ASSUME NEW d \in Clients PROVE NoGap(d)'
  <2>1. CASE d = c
    <3>1. Gapless(<<>>, g) /\ Cardinality(Hub!Broadcasts(<<>>)) = 0
      BY EmptyChannel
    <3>2. Gapless(<<>>, g) /\ g + Cardinality(Hub!Broadcasts(<<>>)) = g
      BY <1>3, <3>1
    <3>3. c \in registered => g = delivered
      BY <1>1, <1>2, <1>3 DEF NoGap
    <3> QED
      BY <1>1, <1>4, <2>1, <3>2, <3>3 DEF NoGap
  <2>2. CASE d # c
    <3>1. NoGap(d)
      BY NoGapsByClient DEF HInv
    <3> QED
      BY <1>1, <1>4, <2>2, <3>1 DEF NoGap
  <2> QED
    BY <2>1, <2>2
<1> QED
  BY <1>5, <1>6, <1>7, <1>8, NoGapsByClientNext DEF HInv

LEMMA HubBegins == ASSUME Hub!HubAssumption, Hub!HubInit PROVE HInv
<1>1. HubTyped
  <2>1. <<>> \in Seq(Nat) /\ 0 \in Nat
    OBVIOUS
  <2> QED
    BY <2>1 DEF Hub!HubInit, HubTyped
<1>2. InOrder /\ Hub!HubTypeOK /\ Hub!PanicOnlyAfterSlow
  BY DEF Hub!HubInit, InOrder, Hub!HubTypeOK, Hub!PanicOnlyAfterSlow, Hub!HubAssumption
<1>3. \A c \in Clients : NoGap(c) /\ ClientOK(c)
  BY EmptyChannel DEF Hub!HubInit, NoGap, ClientOK
<1> QED
  BY <1>1, <1>2, <1>3, NoGapsByClient DEF HInv

LEMMA HubStep == ASSUME HInv, Hub!HubAssumption, Hub!HubNext \/ UNCHANGED hubs PROVE HInv'
<1>1. CASE UNCHANGED hubs
  <2>1. HubTyped' /\ \A c \in Clients : ClientOK(c)'
    BY <1>1 DEF hubs, HInv, HubTyped, ClientOK, New
  <2>2. InOrder' /\ Hub!HubTypeOK' /\ Hub!PanicOnlyAfterSlow'
    BY <1>1 DEF hubs, HInv, InOrder, Hub!HubTypeOK, Hub!PanicOnlyAfterSlow
  <2>3. \A c \in Clients : NoGap(c)'
    BY <1>1, NoGapsByClient DEF hubs, HInv, NoGap
  <2> QED
    BY <2>1, <2>2, <2>3, NoGapsByClientNext DEF HInv
<1> QED
  BY <1>1, BroadcastKeeps, HandOutKeeps, RegisterKeeps, UnregisterKeeps, ConnectKeeps, PeerGoesKeeps, ReadPingKeeps,
     SendPongKeeps, ReadFailsKeeps, WriteKeeps, WriterEndsKeeps DEF Hub!HubNext, Hub!Run, Hub!Pump

-----------------------------------------------------------------------------
(* The conversations.                                                      *)

LEMMA NewestData ==
    ASSUME NEW s \in Seq(Message), NEW k \in Nat
    PROVE  /\ Talk!Newest(k, s) \in Seq(Message) /\ Len(Talk!Newest(k, s)) \in 0 .. Len(s)
           /\ Len(Talk!Newest(k, s)) = IF Len(s) <= k THEN Len(s) ELSE k
           /\ \A i \in 1 .. Len(Talk!Newest(k, s)) :
                 Talk!Newest(k, s)[i] = s[Len(s) - Len(Talk!Newest(k, s)) + i]
<1> DEFINE l == IF Len(s) <= k THEN Len(s) ELSE k
           lo == IF Len(s) <= k THEN 1 ELSE Len(s) - k + 1
<1>1. Len(s) \in Nat
  OBVIOUS
<1>2. /\ lo \in 1 .. Len(s) + 1 /\ l = Len(s) - lo + 1 /\ l \in 0 .. Len(s)
      /\ \A i \in 1 .. l : lo + i - 1 = Len(s) - l + i
  BY <1>1
<1>3. Talk!Newest(k, s) = SubSeq(s, lo, Len(s))
  BY DEF Talk!Newest
<1>4. l = IF Len(s) <= k THEN Len(s) ELSE k
  OBVIOUS
<1> HIDE DEF lo, l
<1>5. /\ SubSeq(s, lo, Len(s)) \in Seq(Message) /\ Len(SubSeq(s, lo, Len(s))) = l
      /\ \A i \in 1 .. l : SubSeq(s, lo, Len(s))[i] = s[lo + i - 1]
  BY <1>1, <1>2
<1> QED
  BY <1>4, <1>2, <1>3, <1>5

\* As Asked, of a memory m.
AskedOf(q, m) ==
    \/ q \in Talk!Numbers(m.others)
    \/ /\ \A i \in DOMAIN m.others : m.others[i].n > q
       /\ Len(m.others) + 1 > MaxMessages - Len(m.system)

Below(m, a) == \A p \in {"system", "others"} : \A i \in DOMAIN m[p] : m[p][i].n \in 1 .. a

LEMMA MemoryData ==
    ASSUME NEW m \in Memory
    PROVE  /\ m.system \in Seq(Message) /\ m.others \in Seq(Message) 
           /\ m["system"] = m.system /\ m["others"] = m.others
           /\ Len(m.system) \in Nat /\ Len(m.others) \in Nat
           /\ DOMAIN m.system = 1 .. Len(m.system) /\ DOMAIN m.others = 1 .. Len(m.others)
           /\ \A i \in DOMAIN m.others : m.others[i] \in Message /\ m.others[i].n \in Nat
<1>1. m.system \in Seq(Message) /\ m.others \in Seq(Message)
  BY DEF Memory
<1>2. \A i \in DOMAIN m.others : m.others[i] \in Message
  BY <1>1
<1>3. \A x \in Message : x.n \in Nat
  BY DEF Message
<1> QED
  BY <1>1, <1>2, <1>3

\* Cutting the oldest others keeps a question, or what is left leaves it no room.
LEMMA TrimKeeps ==
    ASSUME Talk!ConversationsAssumption, NEW m \in Memory, Ascending(m.others), NEW a \in Nat, Below(m, a)
    PROVE  /\ Talk!Trim(m) \in Memory /\ Ascending(Talk!Trim(m).others) /\ Below(Talk!Trim(m), a)
           /\ \A q \in Nat : AskedOf(q, m) => AskedOf(q, Talk!Trim(m))
           /\ Len(m.others) > 0 => m.others[Len(m.others)].n \in Talk!Numbers(Talk!Trim(m).others)
<1> DEFINE room == MaxMessages - Len(m.system)
           k == IF room < 1 THEN 1 ELSE room
           o == m.others
           L == Len(o)
           l == IF L <= k THEN L ELSE k
           s == Talk!Newest(k, o)
           r == Talk!Trim(m)
<1>1. /\ m.system \in Seq(Message) /\ o \in Seq(Message) /\ Len(m.system) \in Nat /\ L \in Nat
      /\ DOMAIN o = 1 .. L /\ \A i \in 1 .. L : o[i].n \in Nat
  BY MemoryData
<1>2. room \in Int /\ k \in Nat /\ k >= 1 /\ k >= room
  <2>1. room \in Int
    BY <1>1 DEF Talk!ConversationsAssumption
  <2> HIDE DEF room
  <2> QED
    BY <2>1
<1>3. r = [m EXCEPT !.others = s]
  BY DEF Talk!Trim
<1>4. r = Talk!Trim(m)
  OBVIOUS
<1> HIDE DEF room, k
<1>5. /\ s \in Seq(Message) /\ Len(s) = l /\ l \in 0 .. L
      /\ \A i \in 1 .. l : s[i] = o[L - l + i]
  <2>1. o \in Seq(Message) /\ k \in Nat
    BY <1>1, <1>2
  <2>2. l = IF Len(o) <= k THEN Len(o) ELSE k
    OBVIOUS
  <2>3. s = Talk!Newest(k, o)
    OBVIOUS
  <2>4. L = Len(o)
    OBVIOUS
  <2> HIDE DEF o, l, s, L
  <2>5. Len(Talk!Newest(k, o)) = l
    BY <2>1, <2>2, NewestData
  <2>6. /\ Talk!Newest(k, o) \in Seq(Message) /\ l \in 0 .. Len(o)
        /\ \A i \in 1 .. l : Talk!Newest(k, o)[i] = o[Len(o) - l + i]
    BY <2>1, <2>5, NewestData
  <2> QED
    BY <2>3, <2>4, <2>5, <2>6
<1>6. r.others = s /\ r.system = m.system /\ r["others"] = s /\ r["system"] = m.system
  BY <1>3 DEF Memory
<1>7. r \in Memory
  BY <1>5, <1>3 DEF Memory
<1> HIDE DEF r, s
<1>8. DOMAIN s = 1 .. l /\ l \in Nat /\ \A i \in 1 .. l : L - l + i \in 1 .. L
  <2>1. l \in Nat /\ l <= L /\ L \in Nat
    BY <1>1, <1>5
  <2>2. DOMAIN s = 1 .. Len(s) /\ Len(s) = l
    BY <1>5
  <2> HIDE DEF l, L
  <2>3. \A i \in 1 .. l : L - l + i \in 1 .. L
    BY <2>1
  <2> QED
    BY <2>1, <2>2, <2>3
<1>9. Ascending(s)
  <2>1. ASSUME NEW i \in 1 .. l, NEW j \in 1 .. l, i < j PROVE s[i].n < s[j].n
    <3>1. L - l + i \in 1 .. L /\ L - l + j \in 1 .. L /\ L - l + i < L - l + j
      BY <1>1, <1>8, <2>1
    <3>2. o[L - l + i].n < o[L - l + j].n
      BY <1>1, <3>1 DEF Ascending
    <3> QED
      BY <1>5, <3>2
  <2> QED
    BY <1>8, <2>1 DEF Ascending
<1>10. Below(r, a)
  <2>1. \A i \in DOMAIN s : s[i].n \in 1 .. a
    BY <1>1, <1>5, <1>8, MemoryData DEF Below
  <2>2. \A i \in DOMAIN m.system : m.system[i].n \in 1 .. a
    BY MemoryData DEF Below
  <2> QED
    BY <1>6, <2>1, <2>2 DEF Below
<1>11. ASSUME NEW q \in Nat, AskedOf(q, m) PROVE AskedOf(q, r)
  <2>1. CASE L <= k
    <3>1. \A i \in 1 .. L : s[i] = o[i]
      BY <1>1, <1>5, <2>1
    <3>2. l = L
      BY <2>1
    <3>3. s = o
      BY <1>1, <1>5, <3>1, <3>2
    <3> QED
      BY <1>6, <1>11, <3>3 DEF AskedOf
  <2>2. CASE ~ (L <= k)
    <3>1. /\ l = k /\ Len(s) + 1 > room
          /\ Len(r.others) + 1 > MaxMessages - Len(r.system)
      <4>1. l = k
        BY <2>2
      <4>2. Len(s) + 1 > room
        BY <1>2, <1>5, <4>1
      <4>3. Len(s) + 1 > MaxMessages - Len(m.system)
        BY <4>2 DEF room
      <4> QED
        BY <1>6, <4>1, <4>2, <4>3
    <3>2. CASE q \in Talk!Numbers(s)
      BY <1>6, <3>2 DEF AskedOf
    <3>3. CASE q \notin Talk!Numbers(s) /\ q \in Talk!Numbers(o)
      <4>1. PICK p \in 1 .. L : o[p].n = q
        BY <1>1, <3>3 DEF Talk!Numbers
      <4>2. p <= L - l
        <5>1. CASE p > L - l
          <6>1. p - (L - l) \in 1 .. l /\ L - l + (p - (L - l)) = p
            BY <1>1, <1>8, <5>1
          <6>2. s[p - (L - l)] = o[p]
            BY <1>5, <6>1
          <6> QED
            BY <1>8, <3>3, <4>1, <6>1, <6>2 DEF Talk!Numbers
        <5> QED
          BY <1>1, <1>8, <5>1
      <4>3. ASSUME NEW i \in DOMAIN s PROVE s[i].n > q
        <5>1. L - l + i \in 1 .. L /\ p < L - l + i
          BY <1>1, <1>8, <4>2
        <5>2. o[p].n < o[L - l + i].n
          BY <1>1, <5>1 DEF Ascending
        <5> QED
          BY <1>1, <1>5, <1>8, <4>1, <5>1, <5>2
      <4> QED
        BY <1>6, <3>1, <4>3 DEF AskedOf
    <3>4. CASE q \notin Talk!Numbers(o)
      <4>1. \A i \in 1 .. L : o[i].n > q
        BY <1>1, <1>11, <3>4 DEF AskedOf
      <4>2. \A i \in DOMAIN s : s[i].n > q
        BY <1>5, <1>8, <4>1
      <4> QED
        BY <1>6, <3>1, <4>2 DEF AskedOf
    <3> QED
      BY <3>2, <3>3, <3>4
  <2> QED
    BY <2>1, <2>2
<1>12. ASSUME L > 0 PROVE o[L].n \in Talk!Numbers(s)
  <2>1. l \in 1 .. l /\ L - l + l = L
    BY <1>1, <1>2, <1>8, <1>12
  <2>2. s[l] = o[L]
    BY <1>5, <2>1
  <2> QED
    BY <1>8, <2>1, <2>2 DEF Talk!Numbers
<1> QED
  BY <1>4, <1>6, <1>7, <1>9, <1>10, <1>11, <1>12

\* A message is added.
Grown(m, p, a, len) == [m EXCEPT ![p] = Append(m[p], [n |-> a + 1, len |-> len])]

LEMMA GrowKeeps ==
    ASSUME Talk!ConversationsAssumption, NEW m \in Memory, Ascending(m.others), NEW a \in Nat, Below(m, a),
           NEW len \in Lengths \cup {1}, NEW p \in {"system", "others"}
    PROVE  /\ Grown(m, p, a, len) \in Memory /\ Ascending(Grown(m, p, a, len).others)
           /\ Below(Grown(m, p, a, len), a + 1)
           /\ \A q \in 1 .. a : AskedOf(q, m) => AskedOf(q, Grown(m, p, a, len))
           /\ p = "others" => /\ Len(Grown(m, p, a, len).others) > 0
                              /\ Grown(m, p, a, len).others[Len(Grown(m, p, a, len).others)].n = a + 1
<1> DEFINE msg == [n |-> a + 1, len |-> len]
           r == Grown(m, p, a, len)
<1>1. r = [m EXCEPT ![p] = Append(m[p], [n |-> a + 1, len |-> len])]
  BY DEF Grown
<1>2. /\ m.system \in Seq(Message) /\ m.others \in Seq(Message) /\ Len(m.system) \in Nat /\ Len(m.others) \in Nat
      /\ DOMAIN m.system = 1 .. Len(m.system) /\ DOMAIN m.others = 1 .. Len(m.others)
      /\ m["system"] = m.system /\ m["others"] = m.others
      /\ \A i \in 1 .. Len(m.others) : m.others[i].n \in Nat
  BY MemoryData
<1>3. msg \in Message /\ msg.n = a + 1
  BY DEF Message
<1>4. /\ \A i \in 1 .. Len(m.system) : m.system[i].n \in 1 .. a
      /\ \A i \in 1 .. Len(m.others) : m.others[i].n \in 1 .. a
  BY <1>2 DEF Below
<1> HIDE DEF msg, r
<1>5. CASE p = "others"
  <2> DEFINE t == Append(m.others, msg)
             L == Len(m.others)
  <2>1. /\ t \in Seq(Message) /\ Len(t) = L + 1 /\ DOMAIN t = 1 .. L + 1 /\ t[L + 1] = msg
        /\ \A i \in 1 .. L : t[i] = m.others[i]
    BY <1>2, <1>3
  <2> HIDE DEF t
  <2>2. r = [m EXCEPT !.others = t]
    BY <1>1, <1>2, <1>5 DEF msg, t
  <2>3. r.others = t /\ r.system = m.system /\ r["others"] = t /\ r["system"] = m.system
    BY <2>2 DEF Memory
  <2>4. r \in Memory
    BY <2>1, <2>2 DEF Memory
  <2>5. \A i \in 1 .. L + 1 : i = L + 1 \/ i \in 1 .. L
    BY <1>2
  <2>6. ASSUME NEW i \in 1 .. L + 1 PROVE t[i].n \in 1 .. a + 1 /\ (i # L + 1 => t[i].n <= a)
    <3>1. CASE i = L + 1
      BY <1>3, <2>1, <3>1
    <3>2. CASE i \in 1 .. L
      <4>1. t[i].n \in 1 .. a
        BY <1>4, <2>1, <3>2
      <4> QED
        BY <4>1
    <3> QED
      BY <2>5, <3>1, <3>2
  <2>7. Ascending(t)
    <3>1. ASSUME NEW i \in 1 .. L + 1, NEW j \in 1 .. L + 1, i < j PROVE t[i].n < t[j].n
      <4>1. CASE j = L + 1
        BY <1>2, <1>3, <2>1, <2>6, <3>1, <4>1
      <4>2. CASE j # L + 1
        <5>1. i \in 1 .. L /\ j \in 1 .. L
          BY <1>2, <3>1, <4>2
        <5> QED
          BY <1>2, <2>1, <3>1, <5>1 DEF Ascending
      <4> QED
        BY <4>1, <4>2
    <3> QED
      BY <2>1, <3>1 DEF Ascending
  <2>8. Below(r, a + 1)
    <3>1. \A i \in DOMAIN m.system : m.system[i].n \in 1 .. a + 1
      BY <1>2, <1>4
    <3> QED
      BY <2>1, <2>3, <2>6, <3>1 DEF Below
  <2>9. ASSUME NEW q \in 1 .. a, AskedOf(q, m) PROVE AskedOf(q, r)
    <3>1. CASE q \in Talk!Numbers(m.others)
      <4>1. PICK i \in 1 .. L : m.others[i].n = q
        BY <1>2, <3>1 DEF Talk!Numbers
      <4>2. i \in DOMAIN t /\ t[i].n = q
        BY <1>2, <2>1, <4>1
      <4> QED
        BY <2>3, <4>2 DEF AskedOf, Talk!Numbers
    <3>2. CASE q \notin Talk!Numbers(m.others)
      <4>1. /\ \A i \in 1 .. L : m.others[i].n > q
            /\ L + 1 > MaxMessages - Len(m.system)
        BY <1>2, <2>9, <3>2 DEF AskedOf
      <4>2. ASSUME NEW i \in DOMAIN t PROVE t[i].n > q
        <5>1. CASE i = L + 1
          <6>1. t[i].n = a + 1
            BY <1>3, <2>1, <5>1
          <6> QED
            BY <6>1
        <5>2. CASE i \in 1 .. L
          BY <2>1, <4>1, <5>2
        <5> QED
          BY <2>1, <2>5, <5>1, <5>2
      <4>3. Len(t) + 1 > MaxMessages - Len(m.system)
        BY <1>2, <2>1, <4>1 DEF Talk!ConversationsAssumption
      <4> QED
        BY <2>3, <4>2, <4>3 DEF AskedOf
    <3> QED
      BY <3>1, <3>2
  <2>10. Len(r.others) > 0 /\ r.others[Len(r.others)].n = a + 1
    BY <1>2, <1>3, <2>1, <2>3
  <2> QED
    BY <2>3, <2>4, <2>7, <2>8, <2>9, <2>10 DEF r
<1>6. CASE p = "system"
  <2> DEFINE t == Append(m.system, msg)
             L == Len(m.system)
  <2>1. /\ t \in Seq(Message) /\ Len(t) = L + 1 /\ DOMAIN t = 1 .. L + 1 /\ t[L + 1] = msg
        /\ \A i \in 1 .. L : t[i] = m.system[i]
    BY <1>2, <1>3
  <2> HIDE DEF t
  <2>2. r = [m EXCEPT !.system = t]
    BY <1>1, <1>2, <1>6 DEF msg, t
  <2>3. r.others = m.others /\ r.system = t /\ r["others"] = m.others /\ r["system"] = t
    BY <2>2 DEF Memory
  <2>4. r \in Memory
    BY <2>1, <2>2 DEF Memory
  <2>5. \A i \in 1 .. L + 1 : i = L + 1 \/ i \in 1 .. L
    BY <1>2
  <2>6. ASSUME NEW i \in 1 .. L + 1 PROVE t[i].n \in 1 .. a + 1
    <3>1. CASE i = L + 1
      BY <1>3, <2>1, <3>1
    <3>2. CASE i \in 1 .. L
      BY <1>4, <2>1, <3>2
    <3> QED
      BY <2>5, <3>1, <3>2
  <2>7. Below(r, a + 1)
    <3>1. \A i \in DOMAIN m.others : m.others[i].n \in 1 .. a + 1
      BY <1>2, <1>4
    <3> QED
      BY <2>1, <2>3, <2>6, <3>1 DEF Below
  <2>8. ASSUME NEW q \in 1 .. a, AskedOf(q, m) PROVE AskedOf(q, r)
    <3>1. Len(m.others) + 1 > MaxMessages - L => Len(m.others) + 1 > MaxMessages - Len(t)
      BY <1>2, <2>1 DEF Talk!ConversationsAssumption
    <3> QED
      BY <2>3, <2>8, <3>1 DEF AskedOf
  <2> QED
    BY <1>6, <2>3, <2>4, <2>7, <2>8 DEF r
<1> QED
  BY <1>5, <1>6
-----------------------------------------------------------------------------
(* The conversations' steps.                                               *)

\* The cardinality of the instance is that of the library.
LEMMA TalkCardinality == \A S : Talk!Cardinality(S) = Cardinality(S)
BY DEF Talk!Cardinality, Cardinality

LEMMA CallData ==
    ASSUME NEW k \in Call
    PROVE  /\ k.op \in {"idle", "create", "ask", "prompt", "wait"}
           /\ k.op = "ask" => k.v \in Talk!Convs
           /\ k.op = "prompt" => k.v \in Talk!Convs /\ k.q \in Nat /\ k.cleared \in BOOLEAN
           /\ k.op = "wait" => /\ k.v \in Talk!Convs /\ k.q \in Nat /\ k.cleared \in BOOLEAN
                               /\ k.prompt \in Memory /\ k.since \in Seq(Message)
<1> DEFINE asks == [op : {"ask"}, v : Talk!Convs]
           prompts == [op : {"prompt"}, v : Talk!Convs, q : Nat, cleared : BOOLEAN]
           waits == [op : {"wait"}, v : Talk!Convs, q : Nat, cleared : BOOLEAN, prompt : Memory, since : Seq(Message)]
<1>1. k = [op |-> "idle"] \/ k \in [op : {"create"}] \/ k \in asks \/ k \in prompts \/ k \in waits
  BY DEF Call, Talk!Idle
<1>2. CASE k = [op |-> "idle"]
  BY <1>2
<1>3. CASE k \in [op : {"create"}]
  BY <1>3
<1>4. CASE k \in asks
  BY <1>4
<1>5. CASE k \in prompts
  BY <1>5
<1>6. CASE k \in waits
  BY <1>6
<1> QED
  BY <1>1, <1>2, <1>3, <1>4, <1>5, <1>6

\* What a caller does stays right as long as its question is asked for.
LEMMA CallKept ==
    ASSUME TInv, NEW c \in Callers, call'[c] = call[c], added' \in Nat, added' >= added,
           \A u \in Talk!Convs : \A q \in 1 .. added : Asked(q, u) => Asked(q, u)'
    PROVE  CallOK(c)'
<1>1. CallOK(c) /\ call[c] \in Call /\ added \in Nat
  BY DEF TInv
<1>2. CASE call[c].op = "prompt"
  <2>1. call[c].v \in Talk!Convs /\ call[c].q \in 1 .. added /\ (call[c].cleared \/ Asked(call[c].q, call[c].v))
    BY <1>1, <1>2, CallData DEF CallOK
  <2>2. Asked(call[c].q, call[c].v) => Asked(call[c].q, call[c].v)'
    BY <2>1
  <2>3. call[c].q \in 1 .. added'
    BY <1>1, <2>1
  <2> QED
    BY <1>2, <2>1, <2>2, <2>3 DEF CallOK
<1>3. CASE call[c].op # "prompt"
  BY <1>1, <1>3 DEF CallOK
<1> QED
  BY <1>2, <1>3

LEMMA MemoryByParts ==
    \A v : MemoryOK(v) <=> Below(messages[v], added) /\ Ascending(messages[v].others)
BY DEF MemoryOK, Below

LEMMA AskedByMemory == \A q, v : Asked(q, v) <=> AskedOf(q, messages[v])
BY DEF Asked, AskedOf

LEMMA MemoryByPartsNext ==
    \A v : MemoryOK(v)' <=> Below(messages'[v], added') /\ Ascending(messages'[v].others)
BY DEF MemoryOK, Below

LEMMA AskedByMemoryNext == \A q, v : Asked(q, v)' <=> AskedOf(q, messages'[v])
BY DEF Asked, AskedOf

\* AddMessage.
LEMMA AddToKeeps ==
    ASSUME TInv, Talk!ConversationsAssumption, NEW v \in Talk!Convs, NEW p \in {"system", "others"},
           NEW len \in Lengths \cup {1}, Talk!AddTo(v, p, len)
    PROVE  /\ added \in Nat /\ added' = added + 1 /\ added' \in 0 .. MaxAdded
           /\ messages' \in [Talk!Convs -> Memory] /\ \A u \in Talk!Convs : MemoryOK(u)'
           /\ \A u \in Talk!Convs : \A q \in 1 .. added : Asked(q, u) => Asked(q, u)'
           /\ p = "others" => \A q : q = added + 1 => Asked(q, v)'
<1> DEFINE m == messages[v]
           g == Grown(m, p, added, len)
           r == IF Len(g.system) + Len(g.others) > MaxMessages THEN Talk!Trim(g) ELSE g
<1>1. /\ added \in Nat /\ added' = added + 1 /\ added < MaxAdded /\ MaxAdded \in Nat
      /\ messages \in [Talk!Convs -> Memory] /\ messages' = [messages EXCEPT ![v] = r]
  BY DEF Grown, TInv, Talk!AddTo, Talk!ConversationsAssumption
<1>2. m \in Memory /\ Below(m, added) /\ Ascending(m.others)
  BY <1>1, MemoryByParts DEF TInv
<1>3. g = Grown(m, p, added, len)
  OBVIOUS
<1>4. r = IF Len(g.system) + Len(g.others) > MaxMessages THEN Talk!Trim(g) ELSE g
  OBVIOUS
<1>5. m = messages[v]
  OBVIOUS
<1> HIDE DEF m, g, r
<1>6. /\ g \in Memory /\ Ascending(g.others) /\ Below(g, added + 1)
      /\ \A q \in 1 .. added : AskedOf(q, m) => AskedOf(q, g)
      /\ p = "others" => Len(g.others) > 0 /\ g.others[Len(g.others)].n = added + 1
  BY <1>1, <1>2, <1>3, GrowKeeps
<1>7. added + 1 \in Nat
  BY <1>1
<1>8. /\ Talk!Trim(g) \in Memory /\ Ascending(Talk!Trim(g).others) /\ Below(Talk!Trim(g), added + 1)
      /\ \A q \in Nat : AskedOf(q, g) => AskedOf(q, Talk!Trim(g))
  BY <1>6, <1>7, TrimKeeps
<1>9. r \in Memory /\ Ascending(r.others) /\ Below(r, added + 1)
  BY <1>4, <1>6, <1>8
<1>10. ASSUME NEW q \in 1 .. added, AskedOf(q, m) PROVE AskedOf(q, r)
  <2>1. q \in Nat /\ AskedOf(q, g)
    BY <1>1, <1>6, <1>10
  <2> QED
    BY <1>4, <1>8, <2>1
<1>11. p = "others" => AskedOf(added + 1, r)
  <2>1. ASSUME p = "others" PROVE AskedOf(added + 1, g)
    <3>1. Len(g.others) \in DOMAIN g.others
      BY <1>6, <2>1, MemoryData
    <3> QED
      BY <1>6, <2>1, <3>1 DEF AskedOf, Talk!Numbers
  <2> QED
    BY <1>4, <1>7, <1>8, <2>1
<1>12. messages' \in [Talk!Convs -> Memory] /\ messages'[v] = r
      /\ \A u \in Talk!Convs : u # v => messages'[u] = messages[u]
  BY <1>1, <1>9
<1>13. ASSUME NEW u \in Talk!Convs PROVE MemoryOK(u)'
  <2>1. CASE u = v
    BY <1>1, <1>9, <1>12, <2>1, MemoryByPartsNext
  <2>2. CASE u # v
    <3>1. Below(messages[u], added) /\ Ascending(messages[u].others)
      BY MemoryByParts DEF TInv
    <3>2. Below(messages[u], added + 1)
      BY <1>1, <3>1 DEF Below
    <3> QED
      BY <1>1, <1>12, <2>2, <3>1, <3>2, MemoryByPartsNext
  <2> QED
    BY <2>1, <2>2
<1>14. ASSUME NEW u \in Talk!Convs, NEW q \in 1 .. added, Asked(q, u) PROVE Asked(q, u)'
  <2>1. CASE u = v
    BY <1>5, <1>10, <1>12, <1>14, <2>1, AskedByMemory, AskedByMemoryNext
  <2>2. CASE u # v
    BY <1>12, <1>14, <2>2, AskedByMemory, AskedByMemoryNext
  <2> QED
    BY <2>1, <2>2
<1>15. p = "others" => \A q : q = added + 1 => Asked(q, v)'
  BY <1>11, <1>12, AskedByMemoryNext
<1>16. added' \in 0 .. MaxAdded
  BY <1>1
<1> QED
  BY <1>1, <1>12, <1>13, <1>14, <1>15, <1>16
\* A prompt has the longest run of newest others that fits.
LEMMA PromptData ==
    ASSUME NEW m \in Memory
    PROVE  /\ Talk!ForPrompt(m) \in Memory /\ Talk!ForPrompt(m).system = m.system
           /\ \/ Talk!ForPrompt(m).others = <<>>
              \/ Talk!Tokens(Talk!ForPrompt(m).others) <= MaxTokens - Talk!Tokens(m.system)
           /\ \A k \in 0 .. Len(m.others) :
                 Talk!Tokens(Talk!Newest(k, m.others)) <= MaxTokens - Talk!Tokens(m.system) =>
                    \E j \in 0 .. Len(m.others) : k <= j /\ Talk!ForPrompt(m).others = Talk!Newest(j, m.others)
<1> DEFINE o == m.others
           fit == {k \in 0 .. Len(m.others) :
                     Talk!Tokens(Talk!Newest(k, m.others)) <= MaxTokens - Talk!Tokens(m.system)}
           most == CHOOSE k \in fit : \A j \in fit : j <= k
           s == IF fit = {} THEN <<>> ELSE Talk!Newest(most, o)
           r == Talk!ForPrompt(m)
<1>1. m.system \in Seq(Message) /\ o \in Seq(Message) /\ Len(o) \in Nat
  BY MemoryData
<1>2. r = [m EXCEPT !.others = s]
  BY DEF Talk!ForPrompt
<1>3. fit # {} => most \in fit /\ \A j \in fit : j <= most
  <2>1. ASSUME fit # {} PROVE \E k \in fit : \A j \in fit : j <= k
    <3> DEFINE rest == {Len(o) - k : k \in fit}
    <3>1. \A k \in fit : k \in Int /\ Len(o) - k \in Nat
      BY <1>1
    <3> HIDE DEF fit, o
    <3>2. rest \in SUBSET Nat /\ rest # {}
      BY <2>1, <3>1
    <3> HIDE DEF rest
    <3>3. PICK n \in rest : \A x \in rest : ~ (x < n)
      BY <3>2, Least
    <3>4. PICK k \in fit : n = Len(o) - k
      BY <3>3 DEF rest
    <3>5. ASSUME NEW j \in fit PROVE j <= k
      <4>1. Len(o) - j \in rest
        BY DEF rest
      <4>2. j \in Int /\ k \in Int
        BY <3>1
      <4> QED
        BY <1>1, <3>3, <3>4, <4>1, <4>2
    <3> QED
      BY <3>5
  <2> HIDE DEF fit
  <2> QED
    BY <2>1
<1>4. s \in Seq(Message)
  <2>1. fit # {} => most \in Nat
    BY <1>1, <1>3
  <2> HIDE DEF fit, most
  <2> QED
    BY <1>1, <2>1, NewestData
<1>5. \A k \in fit : k \in 0 .. Len(o) /\ Talk!Tokens(Talk!Newest(k, o)) <= MaxTokens - Talk!Tokens(m.system)
  OBVIOUS
<1>6. \A k \in 0 .. Len(o) : Talk!Tokens(Talk!Newest(k, o)) <= MaxTokens - Talk!Tokens(m.system) => k \in fit
  OBVIOUS
<1>7. r = Talk!ForPrompt(m) /\ s = IF fit = {} THEN <<>> ELSE Talk!Newest(most, o)
  OBVIOUS
<1>8. o = m.others
  OBVIOUS
<1> HIDE DEF fit, most, r, s, o
<1>9. r.others = s /\ r.system = m.system /\ r \in Memory
  BY <1>2, <1>4 DEF Memory
<1>10. s = <<>> \/ Talk!Tokens(s) <= MaxTokens - Talk!Tokens(m.system)
  BY <1>3, <1>5, <1>7
<1>11. ASSUME NEW k \in 0 .. Len(o), Talk!Tokens(Talk!Newest(k, o)) <= MaxTokens - Talk!Tokens(m.system)
       PROVE  \E j \in 0 .. Len(o) : k <= j /\ s = Talk!Newest(j, o)
  <2>1. k \in fit
    BY <1>6, <1>11
  <2>2. most \in 0 .. Len(o) /\ k <= most /\ s = Talk!Newest(most, o)
    BY <1>3, <1>5, <1>7, <2>1
  <2> QED
    BY <2>2
<1> QED
  BY <1>8, <1>7, <1>9, <1>10, <1>11

\* A question and what was added after it.
Since(q, m) == Talk!Newest(Talk!Cardinality({i \in DOMAIN m.others : m.others[i].n >= q}), m.others)

\* As the end of CallOK's "wait", of a prompt p and what came since.
Explained(q, p, since) ==
    \/ q \in Talk!Numbers(p.others)
    \/ IF q \in Talk!Numbers(since)
       THEN ~ (Talk!Tokens(since) <= MaxTokens - Talk!Tokens(p.system))
       ELSE Len(since) + 1 > MaxMessages - Len(p.system)

LEMMA QuestionData ==
    ASSUME NEW m \in Memory, Ascending(m.others), NEW q \in Nat
    PROVE  Since(q, m) \in Seq(Message) /\ (AskedOf(q, m) => Explained(q, Talk!ForPrompt(m), Since(q, m)))
<1> DEFINE o == m.others
           L == Len(o)
           S == {i \in DOMAIN m.others : m.others[i].n >= q}
           s == Since(q, m)
           r == Talk!ForPrompt(m)
<1>1. /\ o \in Seq(Message) /\ L \in Nat /\ DOMAIN o = 1 .. L
      /\ \A i \in 1 .. L : o[i].n \in Nat
  BY MemoryData
<1>2. s = Talk!Newest(Cardinality(S), o)
  <2>1. s = Talk!Newest(Talk!Cardinality(S), o)
    BY DEF Since
  <2> HIDE DEF S, s, o
  <2>2. Talk!Cardinality(S) = Cardinality(S)
    BY TalkCardinality
  <2> QED
    BY <2>1, <2>2
<1>3. S \subseteq 1 .. L /\ IsFiniteSet(1 .. L) /\ Cardinality(1 .. L) = L
  <2>1. S \subseteq 1 .. L
    BY <1>1
  <2>2. 1 \in Int /\ L \in Int
    BY <1>1
  <2> HIDE DEF S, L
  <2>3. Cardinality(1 .. L) = (IF 1 > L THEN 0 ELSE L - 1 + 1) /\ IsFiniteSet(1 .. L)
    BY <2>2, FS_Interval
  <2> QED
    BY <1>1, <2>1, <2>3
<1>4. Cardinality(S) \in Nat
  BY <1>3, FS_Subset, FS_CardinalityType
<1>5. s \in Seq(Message)
  BY <1>1, <1>2, <1>4, NewestData
<1>6. /\ r \in Memory /\ r.system = m.system
      /\ \A k \in 0 .. L :
           Talk!Tokens(Talk!Newest(k, o)) <= MaxTokens - Talk!Tokens(m.system) =>
              \E j \in 0 .. L : k <= j /\ r.others = Talk!Newest(j, o)
  BY PromptData
<1>7. \A i \in 1 .. L : i \in S <=> o[i].n >= q
  BY <1>1
<1>8. s = Since(q, m) /\ r = Talk!ForPrompt(m) /\ o = m.others
  OBVIOUS
<1>9. \A i, j \in 1 .. L : i < j => o[i].n < o[j].n
  BY <1>1 DEF Ascending
<1>10. CASE q \in Talk!Numbers(o)
  <2>1. PICK p \in 1 .. L : o[p].n = q
    BY <1>1, <1>10 DEF Talk!Numbers
  <2>2. S = p .. L
    <3>1. ASSUME NEW i \in S PROVE i \in p .. L
      BY <1>1, <1>3, <1>7, <1>9, <2>1
    <3>2. ASSUME NEW i \in p .. L PROVE i \in S
      <4>1. i \in 1 .. L /\ (i = p \/ p < i)
        BY <1>1, <2>1
      <4>2. o[i].n >= o[p].n
        <5>1. o[i].n \in Nat /\ o[p].n \in Nat
          BY <1>1, <2>1, <4>1
        <5>2. CASE p < i
          BY <1>9, <2>1, <4>1, <5>1, <5>2
        <5> QED
          BY <4>1, <5>1, <5>2
      <4> QED
        BY <1>7, <2>1, <4>1, <4>2
    <3> HIDE DEF S
    <3> QED
      BY <3>1, <3>2
  <2> DEFINE k == L - p + 1
  <2>3. k \in 1 .. L /\ Cardinality(S) = k /\ L - k + 1 = p
    <3>1. Cardinality(p .. L) = IF p > L THEN 0 ELSE L - p + 1
      BY <1>1, FS_Interval
    <3> HIDE DEF S
    <3> QED
      BY <1>1, <2>2, <3>1
  <2> HIDE DEF S, k, s, r, o, L
  <2>4. \A j \in k .. L : q \in Talk!Numbers(Talk!Newest(j, o))
    <3>1. ASSUME NEW j \in k .. L PROVE q \in Talk!Numbers(Talk!Newest(j, o))
      <4> DEFINE w == Talk!Newest(j, o)
      <4>1. j \in Nat /\ j <= L
        BY <1>1, <2>3, <3>1
      <4>2. L = Len(o)
        BY DEF L
      <4>3. w \in Seq(Message) /\ Len(w) = j /\ \A i \in 1 .. Len(w) : w[i] = o[L - Len(w) + i]
        BY <1>1, <4>1, <4>2, NewestData
      <4> HIDE DEF w
      <4>4. p - (L - j) \in 1 .. j /\ L - j + (p - (L - j)) = p
        BY <1>1, <2>3, <3>1
      <4>5. p - (L - j) \in DOMAIN w /\ w[p - (L - j)].n = q
        BY <2>1, <4>3, <4>4
      <4> QED
        BY <4>5 DEF Talk!Numbers, w
    <3> QED
      BY <3>1
  <2>5. q \in Talk!Numbers(s)
    <3>1. k \in k .. L
      BY <1>1, <2>3
    <3> QED
      BY <1>2, <2>3, <2>4, <3>1
  <2>6. CASE Talk!Tokens(s) <= MaxTokens - Talk!Tokens(m.system)
    <3>1. PICK j \in 0 .. L : k <= j /\ r.others = Talk!Newest(j, o)
      <4>1. k \in 0 .. L
        BY <2>3
      <4> QED
        BY <1>2, <1>6, <2>3, <2>6, <4>1
    <3>2. j \in k .. L
      BY <1>1, <2>3, <3>1
    <3> QED
      BY <1>5, <1>8, <2>4, <3>1, <3>2 DEF Explained
  <2>7. CASE ~ (Talk!Tokens(s) <= MaxTokens - Talk!Tokens(m.system))
    BY <1>5, <1>6, <1>8, <2>5, <2>7 DEF Explained
  <2> QED
    BY <2>6, <2>7
<1>11. CASE q \notin Talk!Numbers(o)
  <2>1. ASSUME AskedOf(q, m) PROVE Explained(q, r, s)
    <3>1. (\A i \in 1 .. L : o[i].n > q) /\ L + 1 > MaxMessages - Len(m.system)
      BY <1>1, <1>11, <2>1 DEF AskedOf
    <3>2. S = 1 .. L
      BY <1>1, <1>3, <1>7, <3>1
    <3>3. Cardinality(S) = L
      BY <1>3, <3>2
    <3> HIDE DEF S, s, r, o, L
    <3>4. L = Len(o)
      BY DEF L
    <3>5. Len(s) = L /\ \A i \in 1 .. L : s[i] = o[i]
      BY <1>1, <1>2, <3>3, <3>4, NewestData
    <3>6. DOMAIN s = 1 .. L
      BY <1>5, <3>5
    <3>7. q \notin Talk!Numbers(s)
      BY <1>1, <1>11, <3>5, <3>6 DEF Talk!Numbers
    <3>8. Len(s) + 1 > MaxMessages - Len(r.system)
      BY <1>6, <3>1, <3>5
    <3> QED
      BY <3>7, <3>8 DEF Explained
  <2> QED
    BY <1>5, <1>8, <2>1
<1> QED
  BY <1>10, <1>11
LEMMA TalkBegins == ASSUME Talk!ConversationsAssumption, Talk!Init PROVE TInv
<1>1. /\ Talk!Empty \in Memory /\ DOMAIN Talk!Empty["system"] = {} /\ DOMAIN Talk!Empty["others"] = {}
      /\ DOMAIN Talk!Empty.others = {}
  BY DEF Talk!Empty, Memory
<1>2. \A v \in Talk!Convs : messages[v] = Talk!Empty
  BY DEF Talk!Init
<1>3. ASSUME NEW v \in Talk!Convs PROVE MemoryOK(v)
  BY <1>1, <1>2 DEF MemoryOK, Ascending
<1>4. messages \in [Talk!Convs -> Memory]
  BY <1>1 DEF Talk!Init
<1>5. ASSUME NEW c \in Callers PROVE call[c] \in Call /\ CallOK(c)
  BY DEF Talk!Init, CallOK, Call, Talk!Idle
<1>6. call \in [Callers -> Call]
  BY <1>5 DEF Talk!Init
<1> QED
  BY <1>3, <1>4, <1>5, <1>6 DEF TInv, Talk!Init, Talk!NoneIsHidden, Talk!ConversationsAssumption

\* The manager's names, when only a memory or a caller changes.
LEMMA NamesKept ==
    ASSUME TInv, UNCHANGED <<byName, byId, created, raced>>
    PROVE  /\ (byName \in 0 .. created /\ byId \subseteq 1 .. created /\ created \in 0 .. MaxConvs)'
           /\ Talk!NoneIsHidden'
BY DEF TInv, Talk!NoneIsHidden

LEMMA AddSystemMessageKeeps ==
    ASSUME TInv, Talk!ConversationsAssumption, NEW v \in Talk!Convs, Talk!AddSystemMessage(v) PROVE TInv'
<1>1. Talk!AddTo(v, "system", 1) /\ UNCHANGED <<byName, byId, created, call, raced>>
  BY DEF Talk!AddSystemMessage
<1>2. /\ added \in Nat /\ added' = added + 1 /\ added' \in 0 .. MaxAdded
      /\ messages' \in [Talk!Convs -> Memory] /\ \A u \in Talk!Convs : MemoryOK(u)'
      /\ \A u \in Talk!Convs : \A q \in 1 .. added : Asked(q, u) => Asked(q, u)'
  BY <1>1, AddToKeeps
<1>3. added' \in Nat /\ added' >= added
  BY <1>2
<1>4. \A c \in Callers : CallOK(c)'
  BY <1>1, <1>2, <1>3, CallKept
<1> QED
  BY <1>1, <1>2, <1>4, NamesKept DEF TInv

LEMMA ClearKeeps == ASSUME TInv, NEW v \in Talk!Convs, Talk!Clear(v) PROVE TInv'
<1> DEFINE hit(c) == call[c].op \in {"prompt", "wait"} /\ call[c].v = v
<1>1. /\ messages' = [messages EXCEPT ![v] = Talk!Empty]
      /\ call' = [c \in Callers |-> IF hit(c) THEN [call[c] EXCEPT !.cleared = TRUE] ELSE call[c]]
      /\ UNCHANGED <<byName, byId, created, added, raced>>
  BY DEF Talk!Clear
<1>2. /\ Talk!Empty \in Memory /\ DOMAIN Talk!Empty["system"] = {} /\ DOMAIN Talk!Empty["others"] = {}
      /\ DOMAIN Talk!Empty.others = {}
  BY DEF Talk!Empty, Memory
<1>3. messages' \in [Talk!Convs -> Memory] /\ messages'[v] = Talk!Empty
      /\ \A u \in Talk!Convs : u # v => messages'[u] = messages[u]
  BY <1>1, <1>2 DEF TInv
<1>4. ASSUME NEW u \in Talk!Convs PROVE MemoryOK(u)'
  <2>1. CASE u = v
    BY <1>2, <1>3, <2>1 DEF MemoryOK, Ascending
  <2>2. CASE u # v
    BY <1>1, <1>3, <2>2 DEF TInv, MemoryOK
  <2> QED
    BY <2>1, <2>2
<1>5. ASSUME NEW c \in Callers PROVE call'[c] \in Call /\ CallOK(c)'
  <2>1. call[c] \in Call /\ CallOK(c) /\ call'[c] = IF hit(c) THEN [call[c] EXCEPT !.cleared = TRUE] ELSE call[c]
    BY <1>1 DEF TInv
  <2>2. CASE hit(c)
    <3>1. call'[c] = [call[c] EXCEPT !.cleared = TRUE]
      BY <2>1, <2>2
    <3>2. CASE call[c].op = "prompt"
      <4>1. call[c] \in [op : {"prompt"}, v : Talk!Convs, q : Nat, cleared : BOOLEAN]
        BY <2>1, <3>2 DEF Call, Talk!Idle
      <4>2. call'[c] \in [op : {"prompt"}, v : Talk!Convs, q : Nat, cleared : BOOLEAN]
        BY <3>1, <4>1
      <4>3. call'[c].op = "prompt" /\ call'[c].cleared /\ call'[c].q = call[c].q
        BY <3>1, <3>2, <4>1
      <4>4. call[c].q \in 1 .. added
        BY <2>1, <3>2 DEF CallOK
      <4> QED
        BY <1>1, <4>2, <4>3, <4>4 DEF CallOK, Call
    <3>3. CASE call[c].op = "wait"
      <4> DEFINE waits == [op : {"wait"}, v : Talk!Convs, q : Nat, cleared : BOOLEAN,
                              prompt : Memory, since : Seq(Message)]
      <4>1. call[c] \in waits
        BY <2>1, <3>3 DEF Call, Talk!Idle
      <4>2. call'[c] \in waits
        BY <3>1, <4>1
      <4>3. call'[c].op = "wait" /\ call'[c].cleared /\ call'[c].prompt = call[c].prompt
        BY <3>1, <3>3, <4>1
      <4>4. \/ call[c].prompt.others = <<>>
            \/ Talk!Tokens(call[c].prompt.others) <= MaxTokens - Talk!Tokens(call[c].prompt.system)
        BY <2>1, <3>3 DEF CallOK
      <4> QED
        BY <1>1, <4>2, <4>3, <4>4 DEF CallOK, Call
    <3> QED
      BY <2>2, <3>2, <3>3
  <2>3. CASE ~ hit(c)
    <3>1. call'[c] = call[c]
      BY <2>1, <2>3
    <3>2. CASE call[c].op = "prompt"
      <4>1. call[c].v \in Talk!Convs /\ call[c].v # v /\ call[c].q \in 1 .. added
            /\ (call[c].cleared \/ Asked(call[c].q, call[c].v))
        BY <2>1, <2>3, <3>2, CallData DEF CallOK
      <4>2. \A q, u : u \in Talk!Convs /\ u # v /\ Asked(q, u) => Asked(q, u)'
        BY <1>3, AskedByMemory, AskedByMemoryNext
      <4> QED
        BY <1>1, <2>1, <3>1, <3>2, <4>1, <4>2 DEF CallOK
    <3>3. CASE call[c].op # "prompt"
      BY <2>1, <3>1, <3>3 DEF CallOK
    <3> QED
      BY <3>2, <3>3
  <2> QED
    BY <2>2, <2>3
<1>6. call' \in [Callers -> Call]
  BY <1>1, <1>5
<1> QED
  BY <1>1, <1>3, <1>4, <1>5, <1>6, NamesKept DEF TInv

\* Only what callers do changes.
LEMMA CallerStep ==
    ASSUME TInv, UNCHANGED <<messages, added>>, NEW c \in Callers, NEW k \in Call,
           call' = [call EXCEPT ![c] = k], CallOK(c)'
    PROVE  /\ messages' \in [Talk!Convs -> Memory] /\ \A v \in Talk!Convs : MemoryOK(v)' /\ added' \in 0 .. MaxAdded
           /\ call' \in [Callers -> Call] /\ \A d \in Callers : CallOK(d)'
<1>1. messages' \in [Talk!Convs -> Memory] /\ \A v \in Talk!Convs : MemoryOK(v)'
  BY DEF TInv, MemoryOK
<1>2. call' \in [Callers -> Call]
  BY DEF TInv
<1>3. added \in Nat /\ added' = added /\ added' >= added
  BY DEF TInv
<1>4. \A u \in Talk!Convs : \A q \in 1 .. added : Asked(q, u) => Asked(q, u)'
  BY AskedByMemory, AskedByMemoryNext
<1>5. ASSUME NEW d \in Callers PROVE CallOK(d)'
  <2>1. CASE d = c
    BY <2>1
  <2>2. CASE d # c
    <3>1. call'[d] = call[d]
      BY <2>2 DEF TInv
    <3> QED
      BY <1>3, <1>4, <3>1, CallKept
  <2> QED
    BY <2>1, <2>2
<1> QED
  BY <1>1, <1>2, <1>3, <1>5 DEF TInv

LEMMA GetConversationKeeps ==
    ASSUME TInv, Talk!ConversationsAssumption, NEW c \in Callers, Talk!GetConversation(c)
    PROVE  TInv'
<1> DEFINE k == IF byName = 0 THEN [op |-> "create"] ELSE [op |-> "ask", v |-> byName]
<1>1. call' = [call EXCEPT ![c] = k] /\ UNCHANGED <<messages, byName, byId, created, added, raced>>
  BY DEF Talk!GetConversation
<1>2. k \in Call /\ k.op \in {"create", "ask"}
  <2>1. byName # 0 => byName \in Talk!Convs
    BY DEF TInv, Talk!Convs, Talk!ConversationsAssumption
  <2> QED
    BY <2>1 DEF Call
<1> HIDE DEF k
<1>3. CallOK(c)'
  <2>1. call'[c] = k
    BY <1>1 DEF TInv
  <2> QED
    BY <1>2, <2>1 DEF CallOK
<1> QED
  BY <1>1, <1>2, <1>3, CallerStep, NamesKept DEF TInv

LEMMA CreateConversationKeeps ==
    ASSUME TInv, Talk!ConversationsAssumption, NEW c \in Callers, Talk!CreateConversation(c) PROVE TInv'
<1> DEFINE k == [op |-> "ask", v |-> created + 1]
<1>1. /\ call' = [call EXCEPT ![c] = k] /\ UNCHANGED <<messages, added>> /\ created' = created + 1
      /\ created < MaxConvs /\ byName' = created + 1 /\ byId' = byId \cup {created + 1}
      /\ raced' = IF byName = 0 THEN raced ELSE raced \cup {byName}
  BY DEF Talk!CreateConversation
<1>2. created \in Nat /\ MaxConvs \in Nat /\ byName \in 0 .. created /\ byId \subseteq 1 .. created
  BY DEF TInv, Talk!ConversationsAssumption
<1>3. k \in Call /\ k.op = "ask"
  BY <1>1, <1>2 DEF Call, Talk!Convs
<1>4. CallOK(c)'
  <2>1. call'[c] = k
    BY <1>1 DEF TInv
  <2> QED
    BY <1>3, <2>1 DEF CallOK
<1> HIDE DEF k
<1>5. (byName \in 0 .. created /\ byId \subseteq 1 .. created /\ created \in 0 .. MaxConvs)'
  BY <1>1, <1>2
<1>6. Talk!NoneIsHidden'
  <2>1. byId \ {byName} \subseteq raced /\ 0 \notin byId
    BY <1>2 DEF TInv, Talk!NoneIsHidden
  <2> QED
    BY <1>1, <2>1 DEF Talk!NoneIsHidden
<1> QED
  BY <1>1, <1>3, <1>4, <1>5, <1>6, CallerStep DEF TInv

LEMMA RemoveConversationKeeps ==
    ASSUME TInv, Talk!ConversationsAssumption, NEW v \in Talk!Convs, Talk!RemoveConversation(v)
    PROVE  TInv'
<1>1. /\ byId' = byId \ {v} /\ byName' = 0 /\ UNCHANGED <<messages, created, call, added>>
      /\ raced' = (raced \ {v}) \cup (IF byName \in {0, v} THEN {} ELSE {byName})
  BY DEF Talk!RemoveConversation
<1>2. (byName \in 0 .. created /\ byId \subseteq 1 .. created /\ created \in 0 .. MaxConvs)'
  <2>1. created \in Nat /\ created \in 0 .. MaxConvs /\ byId \subseteq 1 .. created
    BY DEF TInv, Talk!ConversationsAssumption
  <2>2. byId' = byId \ {v} /\ byName' = 0 /\ created' = created
    BY <1>1
  <2>3. 0 \in 0 .. created
    BY <2>1
  <2>4. byName' \in 0 .. created'
    BY <2>2, <2>3
  <2> QED
    BY <2>1, <2>2, <2>4
<1>3. Talk!NoneIsHidden'
  <2>1. byId \ {byName} \subseteq raced /\ 0 \notin byId
    BY DEF TInv, Talk!NoneIsHidden
  <2> QED
    BY <1>1, <2>1 DEF Talk!NoneIsHidden
<1>4. added \in Nat /\ added' = added /\ added' >= added
  BY <1>1 DEF TInv
<1>5. \A u \in Talk!Convs : \A q \in 1 .. added : Asked(q, u) => Asked(q, u)'
  BY <1>1, AskedByMemory, AskedByMemoryNext
<1>6. \A c \in Callers : CallOK(c)'
  BY <1>1, <1>4, <1>5, CallKept
<1>7. messages' \in [Talk!Convs -> Memory] /\ \A u \in Talk!Convs : MemoryOK(u)'
  BY <1>1 DEF TInv, MemoryOK
<1> QED
  BY <1>1, <1>2, <1>3, <1>6, <1>7 DEF TInv

\* A message of a caller is added and the caller goes on.
LEMMA SpeakerStep ==
    ASSUME TInv, Talk!ConversationsAssumption, NEW c \in Callers, NEW v \in Talk!Convs, NEW len \in Lengths,
           Talk!AddTo(v, "others", len), NEW k \in Call, call' = [call EXCEPT ![c] = k], CallOK(c)',
           UNCHANGED <<byName, byId, created, raced>>
    PROVE  TInv'
<1>1. /\ added \in Nat /\ added' = added + 1 /\ added' \in 0 .. MaxAdded
      /\ messages' \in [Talk!Convs -> Memory] /\ \A u \in Talk!Convs : MemoryOK(u)'
      /\ \A u \in Talk!Convs : \A q \in 1 .. added : Asked(q, u) => Asked(q, u)'
  BY AddToKeeps
<1>2. added' \in Nat /\ added' >= added
  BY <1>1
<1>3. call' \in [Callers -> Call]
  BY DEF TInv
<1>4. ASSUME NEW d \in Callers PROVE CallOK(d)'
  <2>1. CASE d = c
    BY <2>1
  <2>2. CASE d # c
    <3>1. call'[d] = call[d]
      BY <2>2 DEF TInv
    <3> QED
      BY <1>1, <1>2, <3>1, CallKept
  <2> QED
    BY <2>1, <2>2
<1> QED
  BY <1>1, <1>3, <1>4, NamesKept DEF TInv

LEMMA AddUserMessageKeeps ==
    ASSUME TInv, Talk!ConversationsAssumption, NEW c \in Callers, Talk!AddUserMessage(c) PROVE TInv'
<1> DEFINE k == [op |-> "prompt", v |-> call[c].v, q |-> added + 1, cleared |-> FALSE]
<1>1. PICK len \in Lengths : Talk!AddTo(call[c].v, "others", len) /\ call' = [call EXCEPT ![c] = k]
  BY DEF Talk!AddUserMessage
<1>2. call[c].op = "ask" /\ UNCHANGED <<byName, byId, created, raced>>
  BY DEF Talk!AddUserMessage
<1>3. call[c] \in Call
  BY DEF TInv
<1>4. call[c].v \in Talk!Convs
  BY <1>2, <1>3, CallData
<1>5. /\ added \in Nat /\ added' = added + 1 /\ \A q : q = added + 1 => Asked(q, call[c].v)'
  <2>1. ASSUME NEW v \in Talk!Convs, Talk!AddTo(v, "others", len)
        PROVE  added \in Nat /\ added' = added + 1 /\ \A q : q = added + 1 => Asked(q, v)'
    BY <2>1, AddToKeeps
  <2> QED
    BY <1>1, <1>4, <2>1
<1>6. k \in Call /\ k.op = "prompt" /\ k.v = call[c].v /\ k.q = added + 1
  BY <1>4, <1>5 DEF Call
<1> HIDE DEF k
<1>7. CallOK(c)'
  BY <1>1, <1>5, <1>6 DEF CallOK, TInv
<1> QED
  BY <1>1, <1>2, <1>4, <1>6, <1>7, SpeakerStep

LEMMA SendPromptKeeps == ASSUME TInv, NEW c \in Callers, Talk!SendPrompt(c) PROVE TInv'
<1> DEFINE m == messages[call[c].v]
           p == Talk!ForPrompt(m)
           s == Since(call[c].q, m)
           k == [op |-> "wait", v |-> call[c].v, q |-> call[c].q, cleared |-> call[c].cleared,
                 prompt |-> p, since |-> s]
<1>1. /\ call[c].op = "prompt" /\ call' = [call EXCEPT ![c] = k]
      /\ UNCHANGED <<messages, byName, byId, created, added, raced>>
  BY DEF Talk!SendPrompt, Since
<1>2. call[c] \in Call /\ CallOK(c)
  BY DEF TInv
<1>3. /\ call[c].v \in Talk!Convs /\ call[c].q \in Nat /\ call[c].cleared \in BOOLEAN
      /\ call[c].cleared \/ Asked(call[c].q, call[c].v)
  BY <1>1, <1>2, CallData DEF CallOK
<1>4. m \in Memory /\ Ascending(m.others)
  BY <1>3 DEF TInv, MemoryOK
<1>5. Asked(call[c].q, call[c].v) => AskedOf(call[c].q, m)
  BY AskedByMemory
<1> HIDE DEF m
<1>6. /\ p \in Memory /\ p.system = m.system
      /\ p.others = <<>> \/ Talk!Tokens(p.others) <= MaxTokens - Talk!Tokens(p.system)
  BY <1>4, PromptData
<1>7. s \in Seq(Message) /\ (AskedOf(call[c].q, m) => Explained(call[c].q, p, s))
  BY <1>3, <1>4, QuestionData
<1> HIDE DEF p, s
<1>8. /\ k \in Call /\ k.op = "wait" /\ k.v = call[c].v /\ k.q = call[c].q /\ k.cleared = call[c].cleared
      /\ k.prompt = p /\ k.since = s
  BY <1>3, <1>6, <1>7 DEF Call
<1> HIDE DEF k
<1>9. CallOK(c)'
  <2>1. call'[c] = k
    BY <1>1 DEF TInv
  <2>2. k.cleared \/ Explained(k.q, k.prompt, k.since)
    BY <1>3, <1>5, <1>7, <1>8
  <2> QED
    BY <1>6, <1>8, <2>1, <2>2 DEF CallOK, Explained
<1>10. UNCHANGED <<messages, added>>
  BY <1>1
<1> QED
  BY <1>1, <1>8, <1>9, <1>10, CallerStep, NamesKept DEF TInv

LEMMA AddAssistantMessageKeeps ==
    ASSUME TInv, Talk!ConversationsAssumption, NEW c \in Callers, Talk!AddAssistantMessage(c) PROVE TInv'
<1>1. call[c].op = "wait" /\ call' = [call EXCEPT ![c] = Talk!Idle] /\ UNCHANGED <<byName, byId, created, raced>>
  BY DEF Talk!AddAssistantMessage
<1>2. Talk!Idle \in Call /\ Talk!Idle.op = "idle" /\ call[c] \in Call
  BY DEF Call, Talk!Idle, TInv
<1>3. call[c].v \in Talk!Convs
  BY <1>1, <1>2, CallData
<1>4. CallOK(c)'
  <2>1. call'[c] = Talk!Idle
    BY <1>1 DEF TInv
  <2> QED
    BY <1>2, <2>1 DEF CallOK
<1>5. CASE UNCHANGED <<messages, added>>
  BY <1>1, <1>2, <1>4, <1>5, CallerStep, NamesKept DEF TInv
<1>6. CASE \E len \in Lengths : Talk!AddTo(call[c].v, "others", len)
  BY <1>1, <1>2, <1>3, <1>4, <1>6, SpeakerStep
<1> QED
  BY <1>5, <1>6 DEF Talk!AddAssistantMessage

LEMMA TalkStep == ASSUME TInv, Talk!ConversationsAssumption, Talk!Next PROVE TInv'
<1>1. CASE \E c \in Callers :
              \/ Talk!GetConversation(c) \/ Talk!CreateConversation(c)
              \/ Talk!AddUserMessage(c) \/ Talk!SendPrompt(c) \/ Talk!AddAssistantMessage(c)
  BY <1>1, GetConversationKeeps, CreateConversationKeeps, AddUserMessageKeeps,
     SendPromptKeeps, AddAssistantMessageKeeps
<1>2. CASE \E v \in Talk!Convs : Talk!AddSystemMessage(v) \/ Talk!Clear(v) \/ Talk!RemoveConversation(v)
  BY <1>2, AddSystemMessageKeeps, ClearKeeps, RemoveConversationKeeps
<1> QED
  BY <1>1, <1>2 DEF Talk!Next

LEMMA TalkShows ==
    ASSUME TInv
    PROVE  Talk!TypeOK /\ Talk!QuestionInPrompt /\ Talk!PromptFits /\ Talk!NoneIsHidden
<1>1. ASSUME NEW v \in Talk!Convs, NEW p \in {"system", "others"}, NEW i \in DOMAIN messages[v][p]
      PROVE  messages[v][p][i].n \in 1 .. added /\ messages[v][p][i].len \in Lengths \cup {1}
  <2>1. messages[v] \in Memory /\ MemoryOK(v)
    BY DEF TInv
  <2>2. messages[v][p] \in Seq(Message)
    BY <2>1, MemoryData
  <2>3. messages[v][p][i] \in Message
    BY <2>2
  <2> QED
    BY <2>1, <2>3 DEF MemoryOK, Message
<1>2. Talk!TypeOK
  BY <1>1 DEF TInv, Talk!TypeOK
<1>3. Talk!QuestionInPrompt /\ Talk!PromptFits
  BY DEF TInv, CallOK, Talk!QuestionInPrompt, Talk!PromptFits
<1> QED
  BY <1>2, <1>3 DEF TInv
-----------------------------------------------------------------------------
(* The tests of clones.                                                    *)

Statuses == {"none", "refused", "failed", "looking", "cloning", "cloned", "setup", "running",
             "completed", "swapping", "started", "verified", "promoted", "cancelled"}

LEMMA ExperimentData ==
    ASSUME NEW x \in Experiment
    PROVE  /\ x.status \in Statuses /\ x.variants \in 1 .. MaxVariants /\ x.made \in Nat
           /\ x.auto \in BOOLEAN /\ x.winner \in 0 .. MaxVariants \cup {None} /\ x.watched \in BOOLEAN
BY DEF Experiment, Statuses

LEMMA ExperimentMade ==
    ASSUME NEW s \in Statuses, NEW v \in 1 .. MaxVariants, NEW n \in Nat, NEW a \in BOOLEAN,
           NEW w \in 0 .. MaxVariants \cup {None}, NEW x \in BOOLEAN
    PROVE  [status |-> s, variants |-> v, made |-> n, auto |-> a, winner |-> w, watched |-> x] \in Experiment
BY DEF Experiment, Statuses

LEMMA StatusData ==
    ASSUME NEW x \in Experiment, NEW s \in Statuses
    PROVE  /\ [x EXCEPT !.status = s] \in Experiment /\ [x EXCEPT !.status = s].status = s
           /\ [x EXCEPT !.status = s].variants = x.variants /\ [x EXCEPT !.status = s].made = x.made
           /\ [x EXCEPT !.status = s].winner = x.winner /\ [x EXCEPT !.status = s].auto = x.auto
BY DEF Experiment, Statuses

LEMMA WatchedData ==
    ASSUME NEW x \in Experiment, NEW b \in BOOLEAN
    PROVE  /\ [x EXCEPT !.watched = b] \in Experiment /\ [x EXCEPT !.watched = b].status = x.status
           /\ [x EXCEPT !.watched = b].variants = x.variants /\ [x EXCEPT !.watched = b].made = x.made
           /\ [x EXCEPT !.watched = b].winner = x.winner /\ [x EXCEPT !.watched = b].auto = x.auto
BY DEF Experiment

LEMMA MadeData ==
    ASSUME NEW x \in Experiment, NEW n \in Nat
    PROVE  /\ [x EXCEPT !.made = n] \in Experiment /\ [x EXCEPT !.made = n].status = x.status
           /\ [x EXCEPT !.made = n].variants = x.variants /\ [x EXCEPT !.made = n].made = n
           /\ [x EXCEPT !.made = n].winner = x.winner
BY DEF Experiment

LEMMA WinnerData ==
    ASSUME NEW x \in Experiment, NEW w \in 0 .. MaxVariants \cup {None}
    PROVE  /\ [x EXCEPT !.winner = w] \in Experiment /\ [x EXCEPT !.winner = w].status = x.status
           /\ [x EXCEPT !.winner = w].variants = x.variants /\ [x EXCEPT !.winner = w].made = x.made
           /\ [x EXCEPT !.winner = w].winner = w
BY DEF Experiment

\* What a step does to the experiment of one test.
LEMMA TestSet ==
    ASSUME CInv, NEW t \in Tests, NEW e \in Experiment, test' = [test EXCEPT ![t] = e]
    PROVE  /\ test' \in [Tests -> Experiment] /\ test'[t] = e
           /\ \A u \in Tests : u # t => test'[u] = test[u]
BY DEF CInv

LEMMA BusyFinite == IsFiniteSet(Busy)
<1>1. Tests = {t1} \cup {t2}
  BY DEF Tests
<1>2. IsFiniteSet(Tests)
  BY <1>1, FS_Singleton, FS_AddElement
<1> QED
  BY <1>2, FS_Subset DEF Busy

\* No step but the first of a test makes it busy.
LEMMA BusyShrinks ==
    ASSUME CInv, Cloning!CloningAssumption, Busy' \subseteq Busy, shared' = shared
    PROVE  shared' = {} => Cardinality(Busy)' <= MaxActiveExperiments
<1>1. IsFiniteSet(Busy) /\ Busy' \subseteq Busy
  BY BusyFinite
<1>2. Cardinality(Busy') <= Cardinality(Busy) /\ Cardinality(Busy') \in Nat /\ Cardinality(Busy) \in Nat
  BY <1>1, FS_Subset, FS_CardinalityType
<1> QED
  BY <1>2 DEF CInv, Cloning!CloningAssumption

\* The facts about test t.
LEMMA TestFacts ==
    ASSUME CInv, Cloning!CloningAssumption, NEW t \in Tests
    PROVE  /\ test[t] \in Experiment /\ test[t].status \in Statuses /\ test[t].variants \in 1 .. MaxVariants
           /\ test[t].variants > 0 /\ test[t].variants <= MaxVariants /\ MaxVariants \in Nat
           /\ test[t].made \in Nat /\ test[t].made <= test[t].variants /\ t # None /\ TestOK(t) /\ WinnerOK(t)
<1>1. test[t] \in Experiment /\ TestOK(t) /\ WinnerOK(t)
  BY DEF CInv
<1>2. test[t].status \in Statuses /\ test[t].variants \in 1 .. MaxVariants /\ test[t].made \in Nat
  BY <1>1, ExperimentData
<1>3. t # None /\ MaxVariants \in Nat
  BY DEF Cloning!CloningAssumption, Tests
<1>4. test[t].made <= test[t].variants
  BY <1>1, <1>2, <1>3 DEF TestOK, Statuses
<1> QED
  BY <1>1, <1>2, <1>3, <1>4

\* While one test has clones, no other is alone.
LEMMA NotAlone ==
    ASSUME NEW t \in Tests, NEW u \in Tests, u # t, test[t].made # 0
    PROVE  ~ Alone(u)
BY DEF Alone

\* A step that changes one test and takes names away.
LEMMA NamesLess ==
    ASSUME CInv, Cloning!CloningAssumption, NEW t \in Tests, NEW e \in Experiment, test' = [test EXCEPT ![t] = e],
           NEW S, DOMAIN names' = DOMAIN names \ S,
           \A n \in DOMAIN names' : /\ names'[n] \in Registration /\ names'[n].config = names[n].config
                                    /\ names'[n].from = names[n].from,
           coordinator' \in Tests \cup {None}, \A u \in Tests : u # t => (coordinator' = u <=> coordinator = u),
           e.made = test[t].made, e.variants = test[t].variants, TestOK(t)', WinnerOK(t)',
           test[t].made # 0 \/ S = {},
           e.status \in {"none", "refused", "failed", "cancelled"} =>
              test[t].status \in {"none", "refused", "failed", "cancelled"} \/ 1 .. test[t].made \subseteq S,
           e.status = "promoted" \/ (0 \notin S /\ test[t].status # "promoted"),
           shared' = {} => Cardinality(Busy)' <= MaxActiveExperiments
    PROVE  CInv'
<1>1. /\ test' \in [Tests -> Experiment] /\ test'[t] = e
      /\ \A u \in Tests : u # t => test'[u] = test[u]
  BY TestSet
<1>2. \A u \in Tests : test'[u].made = test[u].made /\ test'[u].variants = test[u].variants
  BY <1>1
<1>3. ASSUME NEW u \in Tests PROVE TestOK(u)' /\ WinnerOK(u)'
  <2>1. CASE u = t
    BY <2>1
  <2>2. CASE u # t
    <3>1. TestOK(u) /\ WinnerOK(u) /\ test'[u] = test[u] /\ (coordinator' = u <=> coordinator = u)
      BY <1>1, <2>2 DEF CInv
    <3>2. TestOK(u)'
      BY <3>1 DEF TestOK, Won
    <3>3. Alone(u)' => Alone(u) /\ S = {}
      BY <1>2, <2>2 DEF Alone
    <3>4. WinnerOK(u)'
      BY <3>1, <3>3 DEF WinnerOK
    <3> QED
      BY <3>2, <3>4
  <2> QED
    BY <2>1, <2>2
<1>4. ASSUME NEW n \in DOMAIN names', NEW u \in Tests PROVE CloneOK(n, u)'
  <2>1. CloneOK(n, u) /\ n \notin S /\ names'[n].from = names[n].from
    BY DEF CInv
  <2>2. CASE u = t
    <3>1. names[n].from = t =>
             n \in 1 .. test[t].made /\ test[t].status \notin {"none", "refused", "failed", "cancelled"}
      BY <2>1, <2>2 DEF CloneOK
    <3>2. names[n].from = t => e.status \notin {"none", "refused", "failed", "cancelled"}
      BY <2>1, <3>1
    <3> QED
      BY <1>1, <2>1, <2>2, <3>1, <3>2 DEF CloneOK
  <2>3. CASE u # t
    BY <1>1, <2>1, <2>3 DEF CloneOK
  <2> QED
    BY <2>2, <2>3
<1>5. 0 \in DOMAIN names' \/ \E u \in Tests : test'[u].status = "promoted"
  <2>1. CASE e.status = "promoted"
    BY <1>1, <2>1
  <2>2. CASE 0 \in DOMAIN names /\ 0 \notin S
    BY <2>2
  <2>3. CASE (\E u \in Tests : test[u].status = "promoted") /\ test[t].status # "promoted"
    BY <1>1, <2>3
  <2> QED
    BY <2>1, <2>2, <2>3 DEF CInv
<1>6. DOMAIN names' \subseteq 0 .. MaxVariants /\ \A n \in DOMAIN names' : names'[n] \in Registration
  BY DEF CInv
<1> QED
  BY <1>1, <1>3, <1>4, <1>5, <1>6 DEF CInv

\* A step that changes one test and no name.
LEMMA NamesStay ==
    ASSUME CInv, Cloning!CloningAssumption, NEW t \in Tests, NEW e \in Experiment, test' = [test EXCEPT ![t] = e],
           names' = names, coordinator' \in Tests \cup {None},
           \A u \in Tests : u # t => (coordinator' = u <=> coordinator = u),
           e.made = test[t].made, e.variants = test[t].variants, TestOK(t)', WinnerOK(t)',
           e.status \in {"none", "refused", "failed", "cancelled"} =>
              test[t].status \in {"none", "refused", "failed", "cancelled"},
           test[t].status = "promoted" => e.status = "promoted",
           shared' = {} => Cardinality(Busy)' <= MaxActiveExperiments
    PROVE  CInv'
<1>1. DOMAIN names' = DOMAIN names \ {}
  OBVIOUS
<1>2. \A n \in DOMAIN names' : /\ names'[n] \in Registration /\ names'[n].config = names[n].config
                                /\ names'[n].from = names[n].from
  BY DEF CInv
<1>3. e.status = "promoted" \/ (0 \notin {} /\ test[t].status # "promoted")
  OBVIOUS
<1> QED
  BY <1>1, <1>2, <1>3, NamesLess

\* Names without some.
LEMMA WithoutData ==
    ASSUME CInv, NEW S, names' = Cloning!Without(S)
    PROVE  /\ DOMAIN names' = DOMAIN names \ S
           /\ \A n \in DOMAIN names' : /\ names'[n] \in Registration /\ names'[n].config = names[n].config
                                       /\ names'[n].from = names[n].from
BY DEF CInv, Cloning!Without

\* Names with the control in another status.
LEMMA ControlData ==
    ASSUME CInv, NEW s \in {"active", "paused"}, names' = Cloning!ControlIs(s)
    PROVE  /\ DOMAIN names' = DOMAIN names \ {}
           /\ \A n \in DOMAIN names' : /\ names'[n] \in Registration /\ names'[n].config = names[n].config
                                       /\ names'[n].from = names[n].from
<1>1. CASE 0 \in DOMAIN names
  <2>1. names' = [names EXCEPT ![0] = [names[0] EXCEPT !.status = s]]
    BY <1>1 DEF Cloning!ControlIs, Cloning!Control
  <2>2. names[0] \in Registration
    BY <1>1 DEF CInv
  <2>3. [names[0] EXCEPT !.status = s] \in Registration /\ [names[0] EXCEPT !.status = s].config = names[0].config
        /\ [names[0] EXCEPT !.status = s].from = names[0].from
    BY <2>2 DEF Registration
  <2> QED
    BY <2>1, <2>3 DEF CInv
<1>2. CASE 0 \notin DOMAIN names
  <2>1. names' = names
    BY <1>2 DEF Cloning!ControlIs, Cloning!Control
  <2> QED
    BY <2>1 DEF CInv
<1> QED
  BY <1>1, <1>2

\* A step that changes one test, which was busy if it is.
LEMMA BusyStays ==
    ASSUME CInv, Cloning!CloningAssumption, NEW t \in Tests, NEW e \in Experiment, test' = [test EXCEPT ![t] = e],
           shared' = shared,
           e.status \in {"looking", "cloning", "cloned", "setup", "running"} =>
              test[t].status \in {"looking", "cloning", "cloned", "setup", "running"}
    PROVE  shared' = {} => Cardinality(Busy)' <= MaxActiveExperiments
<1>1. test'[t] = e /\ \A u \in Tests : u # t => test'[u] = test[u]
  BY TestSet
<1>2. Busy' \subseteq Busy
  BY <1>1 DEF Busy
<1> QED
  BY <1>2, BusyShrinks

LEMMA CloningBegins == ASSUME Cloning!CloningAssumption, Cloning!CloningInit PROVE CInv
<1>1. /\ names = [n \in {0} |-> [config |-> 0, status |-> "active", from |-> None]] /\ coordinator = None
      /\ test \in [Tests -> [status : {"none"}, variants : 1 .. MaxVariants, made : {0}, auto : BOOLEAN,
                             winner : {None}, watched : {FALSE}]]
  BY DEF Cloning!CloningInit, Cloning!Control, Tests
<1>2. MaxVariants \in Nat /\ MaxActiveExperiments \in Nat /\ None \notin Tests
  BY DEF Cloning!CloningAssumption, Tests
<1>3. DOMAIN names = {0} /\ names[0] \in Registration /\ names[0].from = None
  BY <1>1 DEF Registration
<1>4. ASSUME NEW t \in Tests
      PROVE  /\ test[t] \in Experiment /\ test[t].status = "none" /\ test[t].made = 0
  <2>1. test[t] \in [status : {"none"}, variants : 1 .. MaxVariants, made : {0}, auto : BOOLEAN,
                     winner : {None}, watched : {FALSE}]
    BY <1>1
  <2>2. /\ test[t].status = "none" /\ test[t].variants \in 1 .. MaxVariants /\ test[t].made = 0
        /\ test[t].auto \in BOOLEAN
        /\ test[t].winner = None /\ test[t].watched = FALSE
        /\ test[t] = [status |-> test[t].status, variants |-> test[t].variants, made |-> test[t].made,
                       auto |-> test[t].auto, winner |-> test[t].winner, watched |-> test[t].watched]
    BY <2>1
  <2>3. test[t].status \in Statuses
    BY <2>2 DEF Statuses
  <2>4. test[t].made \in Nat /\ test[t].winner \in 0 .. MaxVariants \cup {None}
    BY <2>2
  <2>5. test[t].watched \in BOOLEAN
    BY <2>2
  <2>6. [status |-> test[t].status, variants |-> test[t].variants, made |-> test[t].made, auto |-> test[t].auto,
         winner |-> test[t].winner, watched |-> test[t].watched] \in Experiment
    BY <2>2, <2>3, <2>4, <2>5, ExperimentMade, Zenon
  <2> QED
    BY <2>2, <2>6, Zenon
<1>5. test \in [Tests -> Experiment]
  BY <1>1, <1>4
<1>6. \A t \in Tests : TestOK(t) /\ WinnerOK(t)
  BY <1>1, <1>2, <1>4 DEF TestOK, WinnerOK
<1>7. \A n \in DOMAIN names : \A t \in Tests : CloneOK(n, t)
  BY <1>2, <1>3 DEF CloneOK
<1>8. Cardinality(Busy) <= MaxActiveExperiments
  <2>1. Busy = {}
    BY <1>4 DEF Busy
  <2> QED
    BY <1>2, <2>1, FS_EmptySet
<1>9. DOMAIN names \subseteq 0 .. MaxVariants /\ \A n \in DOMAIN names : names[n] \in Registration
  BY <1>2, <1>3
<1> QED
  BY <1>1, <1>3, <1>5, <1>6, <1>7, <1>8, <1>9 DEF CInv

LEMMA CloningCardinality == \A S : Cloning!Cardinality(S) = Cardinality(S)
BY DEF Cloning!Cardinality, Cardinality

LEMMA StartABTestKeeps ==
    ASSUME CInv, Cloning!CloningAssumption, NEW t \in Tests, Cloning!StartABTest(t)
    PROVE  CInv'
<1> DEFINE full == Cloning!Cardinality(Cloning!Active) >= MaxActiveExperiments
                   \/ test[t].variants > MaxVariantsPerTest \/ 0 \notin DOMAIN names
           s == IF full THEN "refused" ELSE "looking"
           e == [test[t] EXCEPT !.status = s]
<1>1. /\ test[t].status = "none" /\ coordinator = None /\ UNCHANGED <<names, metrics, coordinator, second>>
      /\ shared' = IF Cloning!Starting = {} THEN shared ELSE shared \cup Cloning!Starting \cup {t}
  BY DEF Cloning!StartABTest
<1>2. test' = [test EXCEPT ![t] = e]
  BY DEF Cloning!StartABTest, Cloning!Control
<1>3. /\ test[t] \in Experiment /\ test[t].variants > 0 /\ TestOK(t) /\ WinnerOK(t) /\ t # None
      /\ test[t].variants \in Nat
  BY TestFacts
<1>4. s \in {"refused", "looking"} /\ (s = "looking" => ~ full)
  OBVIOUS
<1>5. e = [test[t] EXCEPT !.status = s]
  OBVIOUS
<1> HIDE DEF full, s
<1>6. e \in Experiment /\ e.status = s /\ e.made = test[t].made /\ e.variants = test[t].variants
  <2>1. s \in Statuses
    BY <1>4 DEF Statuses
  <2> QED
    BY <1>3, <2>1, StatusData
<1> HIDE DEF e
<1>7. test'[t] = e /\ \A u \in Tests : u # t => test'[u] = test[u]
  BY <1>2, <1>6, TestSet
<1>8. test[t].made = 0
  BY <1>1, <1>3 DEF TestOK
<1>9. TestOK(t)'
  BY <1>4, <1>1, <1>3, <1>6, <1>7, <1>8 DEF TestOK
<1>10. WinnerOK(t)'
  BY <1>4, <1>6, <1>7 DEF WinnerOK
<1>11. shared' = {} => Cardinality(Busy)' <= MaxActiveExperiments
  <2>1. CASE s = "refused"
    <3>1. Busy' \subseteq Busy
      BY <1>6, <1>7, <2>1 DEF Busy
    <3>2. /\ IsFiniteSet(Busy) /\ Cardinality(Busy') <= Cardinality(Busy) /\ Cardinality(Busy') \in Nat
          /\ Cardinality(Busy) \in Nat
      BY <3>1, BusyFinite, FS_Subset, FS_CardinalityType
    <3>3. shared' = {} => shared = {}
      BY <1>1
    <3> QED
      BY <3>2, <3>3 DEF CInv, Cloning!CloningAssumption
  <2>2. CASE s = "looking"
    <3>1. ASSUME shared' = {} PROVE Cardinality(Busy)' <= MaxActiveExperiments
      <4>1. Cloning!Starting = {}
        BY <1>1, <3>1
      <4>2. Busy = Cloning!Active
        BY <4>1 DEF Busy, Cloning!Starting, Cloning!Active, Tests
      <4>3. ~ (Cardinality(Busy) >= MaxActiveExperiments)
        BY <1>4, <2>2, <4>2, CloningCardinality DEF full
      <4>4. Busy' = Busy \cup {t} /\ t \notin Busy
        BY <1>1, <1>6, <1>7, <2>2 DEF Busy
      <4>5. IsFiniteSet(Busy) /\ Cardinality(Busy) \in Nat
        BY BusyFinite, FS_CardinalityType
      <4>6. Cardinality(Busy') = Cardinality(Busy) + 1
        BY <4>4, <4>5, FS_AddElement
      <4> QED
        BY <4>3, <4>5, <4>6 DEF Cloning!CloningAssumption
    <3> QED
      BY <3>1
  <2> QED
    BY <1>4, <2>1, <2>2
<1>12. coordinator' \in Tests \cup {None} /\ \A u \in Tests : u # t => (coordinator' = u <=> coordinator = u)
  BY <1>1 DEF CInv
<1> QED
  BY <1>4, <1>1, <1>2, <1>6, <1>9, <1>10, <1>11, <1>12, NamesStay

LEMMA SaveKeeps == ASSUME CInv, Cloning!CloningAssumption, NEW t \in Tests, Cloning!Save(t) PROVE CInv'
<1> DEFINE e == [test[t] EXCEPT !.status = "setup"]
<1>1. /\ test[t].status = "cloned" /\ coordinator = None /\ test' = [test EXCEPT ![t] = e]
      /\ UNCHANGED <<names, metrics, coordinator, second, shared>>
  BY DEF Cloning!Save
<1>2. test[t] \in Experiment /\ TestOK(t) /\ WinnerOK(t)
  BY TestFacts
<1>3. e \in Experiment /\ e.status = "setup" /\ e.made = test[t].made /\ e.variants = test[t].variants
  BY <1>2, StatusData, ZenonT(60) DEF Statuses
<1> HIDE DEF e
<1>4. test'[t] = e
  BY <1>1, <1>3, TestSet
<1>5. TestOK(t)' /\ WinnerOK(t)'
  BY <1>1, <1>2, <1>3, <1>4, TestFacts DEF TestOK, WinnerOK
<1>6. shared' = {} => Cardinality(Busy)' <= MaxActiveExperiments
  BY <1>1, <1>3, BusyStays
<1>7. coordinator' \in Tests \cup {None} /\ \A u \in Tests : u # t => (coordinator' = u <=> coordinator = u)
  BY <1>1 DEF CInv
<1> QED
  BY <1>1, <1>3, <1>5, <1>6, <1>7, NamesStay

LEMMA RunKeeps == ASSUME CInv, Cloning!CloningAssumption, NEW t \in Tests, Cloning!Run(t) PROVE CInv'
<1> DEFINE x == [test[t] EXCEPT !.status = "running"]
           e == [x EXCEPT !.watched = TRUE]
<1>1. test[t].status = "setup" /\ UNCHANGED <<names, metrics, coordinator, second, shared>>
  BY DEF Cloning!Run
<1>2. test[t] \in Experiment /\ TestOK(t) /\ WinnerOK(t)
  BY TestFacts
<1>3. test' = [test EXCEPT ![t] = e]
  BY DEF Cloning!Run, CInv
<1>4. x \in Experiment /\ x.status = "running" /\ x.made = test[t].made /\ x.variants = test[t].variants
  BY <1>2, StatusData, ZenonT(60) DEF Statuses
<1> HIDE DEF x
<1>5. e \in Experiment /\ e.status = "running" /\ e.made = test[t].made /\ e.variants = test[t].variants
  BY <1>4, WatchedData
<1> HIDE DEF e
<1>6. test'[t] = e
  BY <1>3, <1>5, TestSet
<1>7. TestOK(t)' /\ WinnerOK(t)'
  BY <1>1, <1>2, <1>5, <1>6, TestFacts DEF TestOK, WinnerOK
<1>8. shared' = {} => Cardinality(Busy)' <= MaxActiveExperiments
  BY <1>1, <1>3, <1>5, BusyStays
<1>9. coordinator' \in Tests \cup {None} /\ \A u \in Tests : u # t => (coordinator' = u <=> coordinator = u)
  BY <1>1 DEF CInv
<1> QED
  BY <1>1, <1>3, <1>5, <1>7, <1>8, <1>9, NamesStay

LEMMA FindSourceKeeps ==
    ASSUME CInv, Cloning!CloningAssumption, NEW t \in Tests, Cloning!FindSource(t)
    PROVE  CInv'
<1>1. test[t].status = "looking" /\ UNCHANGED <<metrics, coordinator, second, shared>>
  BY DEF Cloning!FindSource
<1>2. test[t] \in Experiment /\ TestOK(t) /\ WinnerOK(t)
  BY TestFacts
<1>3. coordinator' \in Tests \cup {None} /\ \A u \in Tests : u # t => (coordinator' = u <=> coordinator = u)
  BY <1>1 DEF CInv
<1>4. coordinator' # t
  BY <1>1, <1>2 DEF TestOK
<1>5. CASE 0 \in DOMAIN names
  <2> DEFINE e == [test[t] EXCEPT !.status = "cloning"]
  <2>1. test' = [test EXCEPT ![t] = e] /\ names' = names
    BY <1>5 DEF Cloning!FindSource, Cloning!Control
  <2>2. e \in Experiment /\ e.status = "cloning" /\ e.made = test[t].made /\ e.variants = test[t].variants
    BY <1>2, StatusData, ZenonT(60) DEF Statuses
  <2> HIDE DEF e
  <2>3. test'[t] = e
    BY <2>1, <2>2, TestSet
  <2>4. TestOK(t)' /\ WinnerOK(t)'
    BY <1>1, <1>2, <1>4, <2>2, <2>3 DEF TestOK, WinnerOK
  <2>5. shared' = {} => Cardinality(Busy)' <= MaxActiveExperiments
    BY <1>1, <2>1, <2>2, BusyStays
  <2> QED
    BY <1>1, <1>3, <2>1, <2>2, <2>4, <2>5, NamesStay
<1>6. CASE 0 \notin DOMAIN names
  <2> DEFINE e == [test[t] EXCEPT !.status = "failed"]
             S == 1 .. test[t].made
  <2>1. test' = [test EXCEPT ![t] = e] /\ names' = Cloning!Without(S)
    BY <1>6 DEF Cloning!FindSource, Cloning!Control
  <2>2. e \in Experiment /\ e.status = "failed" /\ e.made = test[t].made /\ e.variants = test[t].variants
    BY <1>2, StatusData, ZenonT(60) DEF Statuses
  <2> HIDE DEF e
  <2>3. test'[t] = e
    BY <2>1, <2>2, TestSet
  <2>4. TestOK(t)' /\ WinnerOK(t)'
    BY <1>1, <1>2, <1>4, <2>2, <2>3 DEF TestOK, WinnerOK
  <2>5. shared' = {} => Cardinality(Busy)' <= MaxActiveExperiments
    BY <1>1, <2>1, <2>2, BusyStays
  <2>6. (test[t].made # 0 \/ S = {}) /\ 0 \notin S /\ 1 .. test[t].made \subseteq S
    BY TestFacts
  <2> HIDE DEF S
  <2>7. /\ DOMAIN names' = DOMAIN names \ S
        /\ \A n \in DOMAIN names' : /\ names'[n] \in Registration /\ names'[n].config = names[n].config
                                    /\ names'[n].from = names[n].from
    BY <2>1, WithoutData
  <2>8. e.status = "promoted" \/ (0 \notin S /\ test[t].status # "promoted")
    BY <1>1, <2>6
  <2> QED
    BY <1>3, <2>1, <2>2, <2>4, <2>5, <2>6, <2>7, <2>8, NamesLess
<1> QED
  BY <1>5, <1>6

\* Names with one more.
LEMMA WithData ==
    ASSUME CInv, NEW n \in 0 .. MaxVariants, n \in Nat, NEW config \in Nat, NEW from \in Tests \cup {None},
           names' = Cloning!With(n, config, from)
    PROVE  /\ DOMAIN names' = DOMAIN names \cup {n} /\ DOMAIN names' \subseteq 0 .. MaxVariants
           /\ names'[n].config = config /\ names'[n].from = from
           /\ \A m \in DOMAIN names' : names'[m] \in Registration
           /\ \A m \in DOMAIN names' : m # n => m \in DOMAIN names /\ names'[m] = names[m]
<1>1. names' = [m \in DOMAIN names \cup {n} |->
                   IF m = n THEN [config |-> config, status |-> "active", from |-> from] ELSE names[m]]
  BY DEF Cloning!With
<1>2. [config |-> config, status |-> "active", from |-> from] \in Registration
  BY DEF Registration
<1>3. DOMAIN names \subseteq 0 .. MaxVariants /\ \A m \in DOMAIN names : names[m] \in Registration
  BY DEF CInv
<1> QED
  BY <1>1, <1>2, <1>3

\* A step that registers a name from one test.
LEMMA NamesMore ==
    ASSUME CInv, Cloning!CloningAssumption, NEW t \in Tests, NEW e \in Experiment, test' = [test EXCEPT ![t] = e],
           NEW n \in 0 .. MaxVariants, n \in Nat, NEW config \in Nat, names' = Cloning!With(n, config, t),
           coordinator' = coordinator, e.variants = test[t].variants, e.made >= test[t].made, n \in 1 .. e.made,
           e.status \notin {"none", "refused", "failed", "cancelled", "promoted"}, test[t].status # "promoted",
           TestOK(t)', WinnerOK(t)',
           shared' = {} => Cardinality(Busy)' <= MaxActiveExperiments
    PROVE  CInv'
<1>1. /\ test' \in [Tests -> Experiment] /\ test'[t] = e
      /\ \A u \in Tests : u # t => test'[u] = test[u]
  BY TestSet
<1>0. t \in Tests \cup {None}
  OBVIOUS
<1>2. /\ DOMAIN names' = DOMAIN names \cup {n} /\ DOMAIN names' \subseteq 0 .. MaxVariants
      /\ names'[n].from = t
      /\ \A m \in DOMAIN names' : names'[m] \in Registration
      /\ \A m \in DOMAIN names' : m # n => m \in DOMAIN names /\ names'[m] = names[m]
  BY <1>0, WithData, ZenonT(60)
<1>3. test[t].made \in Nat /\ e.made \in Nat /\ e.made # 0
  BY TestFacts, ExperimentData
<1>4. ASSUME NEW u \in Tests PROVE TestOK(u)' /\ WinnerOK(u)'
  <2>1. CASE u = t
    BY <2>1
  <2>2. CASE u # t
    <3>1. TestOK(u) /\ WinnerOK(u) /\ test'[u] = test[u]
      BY <1>1, <2>2 DEF CInv
    <3>2. TestOK(u)'
      BY <3>1 DEF TestOK, Won
    <3>3. ~ Alone(u)'
      BY <1>1, <1>3, <2>2 DEF Alone
    <3>4. test[u].winner \in DOMAIN names' => names'[test[u].winner].from # u \/
             (test[u].winner \in DOMAIN names /\ names'[test[u].winner] = names[test[u].winner])
      BY <1>2, <2>2
    <3>5. WinnerOK(u)'
      BY <3>1, <3>3, <3>4 DEF WinnerOK
    <3> QED
      BY <3>2, <3>5
  <2> QED
    BY <2>1, <2>2
<1>5. ASSUME NEW m \in DOMAIN names', NEW u \in Tests PROVE CloneOK(m, u)'
  <2>1. CASE u = t
    <3>1. CASE m = n
      BY <1>1, <1>2, <2>1, <3>1 DEF CloneOK
    <3>2. CASE m # n
      <4>1. m \in DOMAIN names /\ names'[m] = names[m] /\ CloneOK(m, u)
        BY <1>2, <3>2 DEF CInv
      <4>2. names[m].from = t => m \in 1 .. test[t].made
        BY <2>1, <4>1 DEF CloneOK
      <4>3. 1 .. test[t].made \subseteq 1 .. e.made
        BY <1>3
      <4> QED
        BY <1>1, <2>1, <4>1, <4>2, <4>3 DEF CloneOK
    <3> QED
      BY <3>1, <3>2
  <2>2. CASE u # t
    <3>1. CASE m = n
      BY <1>2, <2>2, <3>1 DEF CloneOK
    <3>2. CASE m # n
      <4>1. m \in DOMAIN names /\ names'[m] = names[m] /\ CloneOK(m, u)
        BY <1>2, <3>2 DEF CInv
      <4> QED
        BY <1>1, <2>2, <4>1 DEF CloneOK
    <3> QED
      BY <3>1, <3>2
  <2> QED
    BY <2>1, <2>2
<1>6. 0 \in DOMAIN names' \/ \E u \in Tests : test'[u].status = "promoted"
  BY <1>1, <1>2 DEF CInv
<1>7. coordinator' \in Tests \cup {None}
  BY DEF CInv
<1> QED
  BY <1>1, <1>2, <1>4, <1>5, <1>6, <1>7 DEF CInv

LEMMA RegisterCloneKeeps ==
    ASSUME CInv, Cloning!CloningAssumption, NEW t \in Tests, Cloning!RegisterClone(t)
    PROVE  CInv'
<1> DEFINE n == test[t].made + 1
           s == IF n = test[t].variants THEN "cloned" ELSE "looking"
           x == [test[t] EXCEPT !.made = n]
           e == [x EXCEPT !.status = s]
<1>1. /\ test[t].status = "cloning" /\ names' = Cloning!With(n, n, t)
      /\ UNCHANGED <<metrics, coordinator, second, shared>>
  BY DEF Cloning!RegisterClone
<1>2. test' = [test EXCEPT ![t] = e]
  BY DEF Cloning!RegisterClone, CInv
<1>3. /\ test[t] \in Experiment /\ TestOK(t) /\ WinnerOK(t) /\ test[t].made \in Nat /\ test[t].variants \in Nat
      /\ test[t].variants <= MaxVariants /\ MaxVariants \in Nat
  BY TestFacts
<1>4. test[t].made < test[t].variants
  BY <1>1, <1>3 DEF TestOK
<1>5. n \in Nat /\ n >= 1 /\ n <= test[t].variants /\ n >= test[t].made /\ n \in 0 .. MaxVariants /\ n \in 1 .. n
  BY <1>3, <1>4
<1>6. s \in {"cloned", "looking"} /\ (s = "cloned" => n = test[t].variants) /\ (s = "looking" => n # test[t].variants)
  OBVIOUS
<1> HIDE DEF n, s
<1>7. x \in Experiment /\ x.made = n /\ x.variants = test[t].variants
  BY <1>3, <1>5, MadeData
<1> HIDE DEF x
<1>8. e \in Experiment /\ e.status = s /\ e.made = n /\ e.variants = test[t].variants
  <2>1. s \in Statuses
    BY <1>6 DEF Statuses
  <2> QED
    BY <1>7, <2>1, StatusData
<1> HIDE DEF e
<1>9. test'[t] = e
  BY <1>2, <1>8, TestSet
<1>10. coordinator' # t
  BY <1>1, <1>3 DEF TestOK
<1>11. TestOK(t)'
  <2>1. s = "looking" => n < test[t].variants
    BY <1>3, <1>5, <1>6
  <2> QED
    BY <1>6, <1>8, <1>9, <1>10, <2>1 DEF TestOK
<1>12. WinnerOK(t)'
  BY <1>6, <1>8, <1>9 DEF WinnerOK
<1>13. shared' = {} => Cardinality(Busy)' <= MaxActiveExperiments
  BY <1>1, <1>2, <1>6, <1>8, BusyStays
<1> QED
  BY <1>1, <1>2, <1>5, <1>6, <1>8, <1>11, <1>12, <1>13, NamesMore

LEMMA ContextDoneKeeps ==
    ASSUME CInv, Cloning!CloningAssumption, NEW t \in Tests, Cloning!ContextDone(t)
    PROVE  CInv'
<1> DEFINE e == [test[t] EXCEPT !.watched = FALSE]
<1>1. test' = [test EXCEPT ![t] = e] /\ UNCHANGED <<names, metrics, coordinator, second, shared>>
  BY DEF Cloning!ContextDone
<1>2. test[t] \in Experiment /\ TestOK(t) /\ WinnerOK(t)
  BY TestFacts
<1>3. /\ e \in Experiment /\ e.status = test[t].status /\ e.made = test[t].made /\ e.variants = test[t].variants
      /\ e.winner = test[t].winner
  BY <1>2, WatchedData
<1> HIDE DEF e
<1>4. test'[t] = e /\ \A u \in Tests : u # t => test'[u] = test[u]
  BY <1>1, <1>3, TestSet
<1>5. TestOK(t)'
  BY <1>1, <1>2, <1>3, <1>4 DEF TestOK, Won
<1>6. WinnerOK(t)'
  <2>1. Alone(t)' => Alone(t)
    BY <1>4 DEF Alone
  <2> QED
    BY <1>1, <1>2, <1>3, <1>4, <2>1 DEF WinnerOK
<1>7. shared' = {} => Cardinality(Busy)' <= MaxActiveExperiments
  BY <1>1, <1>3, BusyStays
<1>8. coordinator' \in Tests \cup {None} /\ \A u \in Tests : u # t => (coordinator' = u <=> coordinator = u)
  BY <1>1 DEF CInv
<1> QED
  BY <1>1, <1>3, <1>5, <1>6, <1>7, <1>8, NamesStay

LEMMA CompleteExperimentKeeps ==
    ASSUME CInv, Cloning!CloningAssumption, NEW t \in Tests, Cloning!CompleteExperiment(t) PROVE CInv'
<1>1. coordinator = None /\ UNCHANGED <<names, metrics, second, shared>>
  BY Zenon DEF Cloning!CompleteExperiment
<1>2. /\ test[t] \in Experiment /\ TestOK(t) /\ WinnerOK(t) /\ t # None /\ test[t].variants \in Nat
      /\ test[t].variants <= MaxVariants /\ MaxVariants \in Nat
  BY TestFacts
<1>3. CASE test[t].status # "running"
  <2>1. Cloning!ContextDone(t)
    BY <1>1, <1>3 DEF Cloning!CompleteExperiment, Cloning!ContextDone
  <2> QED
    BY <2>1, ContextDoneKeeps
<1>4. CASE test[t].status = "running"
  <2>1. PICK w \in Cloning!Winners(t) :
           /\ test' = [test EXCEPT ![t].status = "completed", ![t].winner = w, ![t].watched = FALSE]
           /\ coordinator' = IF test[t].auto /\ Cloning!Significant(t, w) THEN t ELSE None
    BY <1>4, Zenon DEF Cloning!CompleteExperiment
  <2>2. w \in {0} \cup (1 .. test[t].variants)
    BY <2>1 DEF Cloning!Winners, Cloning!VariantsOf, Cloning!Control
  <2>3. w \in 0 .. MaxVariants \cup {None}
    BY <1>2, <2>2
  <2> DEFINE x == [test[t] EXCEPT !.status = "completed"]
             y == [x EXCEPT !.winner = w]
             e == [y EXCEPT !.watched = FALSE]
  <2>4. test' = [test EXCEPT ![t] = e]
    BY <2>1 DEF CInv
  <2>5. x \in Experiment /\ x.status = "completed" /\ x.made = test[t].made /\ x.variants = test[t].variants
    BY <1>2, StatusData DEF Statuses
  <2> HIDE DEF x
  <2>6. /\ y \in Experiment /\ y.status = "completed" /\ y.made = test[t].made /\ y.variants = test[t].variants
        /\ y.winner = w
    BY <2>3, <2>5, WinnerData
  <2> HIDE DEF y
  <2>7. /\ e \in Experiment /\ e.status = "completed" /\ e.made = test[t].made /\ e.variants = test[t].variants
        /\ e.winner = w
    BY <2>6, WatchedData
  <2> HIDE DEF e
  <2>8. test'[t] = e
    BY <2>4, <2>7, TestSet
  <2>9. coordinator' = t => w \in 1 .. test[t].variants
    BY <1>2, <2>1, <2>2 DEF Cloning!Significant, Cloning!Control
  <2>10. TestOK(t)'
    BY <1>2, <1>4, <2>7, <2>8, <2>9 DEF TestOK, Won
  <2>11. WinnerOK(t)'
    BY <2>7, <2>8 DEF WinnerOK
  <2>12. shared' = {} => Cardinality(Busy)' <= MaxActiveExperiments
    BY <1>1, <2>4, <2>7, BusyStays
  <2>13. coordinator' \in Tests \cup {None} /\ \A u \in Tests : u # t => (coordinator' = u <=> coordinator = u)
    <3>1. \A u \in Tests : u # None
      BY DEF Cloning!CloningAssumption, Tests
    <3> QED
      BY <1>1, <2>1, <3>1
  <2> QED
    BY <1>1, <1>4, <2>4, <2>7, <2>10, <2>11, <2>12, <2>13, NamesStay
<1> QED
  BY <1>3, <1>4

LEMMA CancelExperimentKeeps ==
    ASSUME CInv, Cloning!CloningAssumption, NEW t \in Tests, Cloning!CancelExperiment(t) PROVE CInv'
<1> DEFINE e == [test[t] EXCEPT !.status = "cancelled"]
           S == 1 .. test[t].variants
<1>1. /\ test[t].status = "running" /\ coordinator = None /\ test' = [test EXCEPT ![t] = e]
      /\ names' = Cloning!Without(S) /\ UNCHANGED <<metrics, coordinator, second, shared>>
  BY DEF Cloning!CancelExperiment, Cloning!VariantsOf
<1>2. /\ test[t] \in Experiment /\ TestOK(t) /\ WinnerOK(t) /\ t # None /\ test[t].variants \in Nat
      /\ test[t].variants > 0
  BY TestFacts
<1>3. e \in Experiment /\ e.status = "cancelled" /\ e.made = test[t].made /\ e.variants = test[t].variants
  BY <1>2, StatusData DEF Statuses
<1> HIDE DEF e
<1>4. test'[t] = e
  BY <1>1, <1>3, TestSet
<1>5. test[t].made = test[t].variants
  BY <1>1, <1>2 DEF TestOK
<1>6. TestOK(t)' /\ WinnerOK(t)'
  BY <1>1, <1>2, <1>3, <1>4, <1>5 DEF TestOK, WinnerOK
<1>7. test[t].made # 0 /\ 1 .. test[t].made \subseteq S /\ 0 \notin S
  BY <1>2, <1>5
<1> HIDE DEF S
<1>8. /\ DOMAIN names' = DOMAIN names \ S
      /\ \A n \in DOMAIN names' : /\ names'[n] \in Registration /\ names'[n].config = names[n].config
                                  /\ names'[n].from = names[n].from
  BY <1>1, WithoutData
<1>9. shared' = {} => Cardinality(Busy)' <= MaxActiveExperiments
  BY <1>1, <1>3, BusyStays
<1>10. coordinator' \in Tests \cup {None} /\ \A u \in Tests : u # t => (coordinator' = u <=> coordinator = u)
  BY <1>1 DEF CInv
<1>11. test[t].status # "promoted"
  BY <1>1
<1> QED
  BY <1>1, <1>3, <1>6, <1>7, <1>8, <1>9, <1>10, <1>11, NamesLess

\* A step of the test that is promoted, which holds the mutex or lets it go.
LEMMA Promotes ==
    ASSUME CInv, Cloning!CloningAssumption, NEW t \in Tests, coordinator = t, coordinator' \in {t, None}
    PROVE  /\ coordinator' \in Tests \cup {None} /\ \A u \in Tests : u # t => (coordinator' = u <=> coordinator = u)
           /\ test[t].made = test[t].variants /\ test[t].made # 0 /\ Won(t)
<1>1. /\ test[t].variants > 0 /\ TestOK(t) /\ test[t].variants \in Nat
  BY TestFacts
<1>2. \A u \in Tests : u # None
  BY DEF Cloning!CloningAssumption, Tests
<1>3. Won(t) /\ test[t].made = test[t].variants
  BY <1>1 DEF TestOK
<1> QED
  BY <1>1, <1>2, <1>3

LEMMA PauseControlKeeps ==
    ASSUME CInv, Cloning!CloningAssumption, NEW t \in Tests, Cloning!PauseControl(t)
    PROVE  CInv'
<1>1. /\ coordinator = t /\ test[t].status = "completed" /\ names' = Cloning!ControlIs("paused")
      /\ UNCHANGED <<metrics, second, shared>>
  BY DEF Cloning!PauseControl, Cloning!Promoting
<1>2. /\ test[t] \in Experiment /\ TestOK(t) /\ t # None
  BY TestFacts
<1>3. /\ DOMAIN names' = DOMAIN names \ {}
      /\ \A n \in DOMAIN names' : /\ names'[n] \in Registration /\ names'[n].config = names[n].config
                                  /\ names'[n].from = names[n].from
  BY <1>1, ControlData
<1>4. \E s \in {"completed", "swapping"} :
         /\ test' = [test EXCEPT ![t] = [test[t] EXCEPT !.status = s]]
         /\ coordinator' = IF s = "completed" THEN None ELSE t
  <2>1. CASE Cloning!SwapFails(t)
    BY <2>1 DEF Cloning!SwapFails
  <2>2. CASE test' = [test EXCEPT ![t].status = "swapping"] /\ coordinator' = coordinator
    BY <1>1, <2>2
  <2> QED
    BY <2>1, <2>2 DEF Cloning!PauseControl
<1>5. PICK s \in {"completed", "swapping"} :
         /\ test' = [test EXCEPT ![t] = [test[t] EXCEPT !.status = s]]
         /\ coordinator' = IF s = "completed" THEN None ELSE t
  BY <1>4
<1> DEFINE e == [test[t] EXCEPT !.status = s]
<1>6. /\ e \in Experiment /\ e.status = s /\ e.made = test[t].made /\ e.variants = test[t].variants
      /\ e.winner = test[t].winner
  <2>1. s \in Statuses
    BY DEF Statuses
  <2> QED
    BY <1>2, <2>1, StatusData
<1>7. test' = [test EXCEPT ![t] = e]
  BY <1>5
<1> HIDE DEF e
<1>8. test'[t] = e
  BY <1>6, <1>7, TestSet
<1>9. /\ coordinator' \in Tests \cup {None} /\ \A u \in Tests : u # t => (coordinator' = u <=> coordinator = u)
      /\ test[t].made = test[t].variants /\ test[t].made # 0 /\ Won(t)
  BY <1>1, <1>5, Promotes
<1>10. TestOK(t)'
  BY <1>2, <1>5, <1>6, <1>8, <1>9 DEF TestOK, Won
<1>11. WinnerOK(t)'
  BY <1>6, <1>8 DEF WinnerOK
<1>12. shared' = {} => Cardinality(Busy)' <= MaxActiveExperiments
  BY <1>1, <1>6, <1>7, BusyStays
<1>13. /\ e.status \notin {"none", "refused", "failed", "cancelled"} /\ 0 \notin {} /\ test[t].status # "promoted"
  BY <1>1, <1>6
<1> QED
  BY <1>3, <1>6, <1>7, <1>9, <1>10, <1>11, <1>12, <1>13, NamesLess

LEMMA TransferStateKeeps ==
    ASSUME CInv, Cloning!CloningAssumption, NEW t \in Tests, Cloning!TransferState(t)
    PROVE  CInv'
<1> DEFINE e == [test[t] EXCEPT !.status = "started"]
           w == test[t].winner
<1>1. /\ coordinator = t /\ test[t].status = "swapping" /\ names' = Cloning!With(w, 0, t)
      /\ test' = [test EXCEPT ![t] = e] /\ UNCHANGED <<metrics, coordinator, second, shared>>
  BY DEF Cloning!TransferState, Cloning!Promoting, Cloning!Control
<1>2. /\ test[t] \in Experiment /\ TestOK(t) /\ test[t].variants \in Nat /\ test[t].variants <= MaxVariants
      /\ MaxVariants \in Nat
      /\ test[t].made \in Nat
  BY TestFacts
<1>3. /\ e \in Experiment /\ e.status = "started" /\ e.made = test[t].made /\ e.variants = test[t].variants
      /\ e.winner = w
  BY <1>2, StatusData DEF Statuses
<1>4. w = test[t].winner
  OBVIOUS
<1> HIDE DEF e, w
<1>5. test'[t] = e
  BY <1>1, <1>3, TestSet
<1>6. test[t].made = test[t].variants /\ Won(t)
  BY <1>1, <1>2 DEF TestOK
<1>7. w \in 0 .. MaxVariants /\ w \in Nat /\ w \in 1 .. e.made /\ e.made >= test[t].made /\ w \in 1 .. e.variants
  BY <1>4, <1>2, <1>3, <1>6 DEF Won
<1>8. TestOK(t)'
  BY <1>1, <1>3, <1>5, <1>6, <1>7 DEF TestOK, Won
<1>9. WinnerOK(t)'
  <2>1. names'[w].config = 0
    BY <1>1, <1>7, WithData
  <2> QED
    BY <1>3, <1>5, <2>1 DEF WinnerOK
<1>10. shared' = {} => Cardinality(Busy)' <= MaxActiveExperiments
  BY <1>1, <1>3, BusyStays
<1>11. /\ e.status \notin {"none", "refused", "failed", "cancelled", "promoted"} /\ test[t].status # "promoted"
       /\ 0 \in Nat
  BY <1>1, <1>3
<1> QED
  BY <1>1, <1>3, <1>7, <1>8, <1>9, <1>10, <1>11, NamesMore

LEMMA VerifyAgentKeeps ==
    ASSUME CInv, Cloning!CloningAssumption, NEW t \in Tests, Cloning!VerifyAgent(t)
    PROVE  CInv'
<1>1. /\ coordinator = t /\ test[t].status = "started" /\ UNCHANGED <<metrics, second, shared>>
  BY DEF Cloning!VerifyAgent, Cloning!Promoting
<1>2. /\ test[t] \in Experiment /\ TestOK(t) /\ WinnerOK(t) /\ t # None
  BY TestFacts
<1>3. CASE Cloning!SwapFails(t) /\ names' = Cloning!ControlIs("active")
  <2> DEFINE e == [test[t] EXCEPT !.status = "completed"]
  <2>1. test' = [test EXCEPT ![t] = e] /\ coordinator' = None
    BY <1>3 DEF Cloning!SwapFails
  <2>2. e \in Experiment /\ e.status = "completed" /\ e.made = test[t].made /\ e.variants = test[t].variants
    BY <1>2, StatusData DEF Statuses
  <2> HIDE DEF e
  <2>3. test'[t] = e
    BY <2>1, <2>2, TestSet
  <2>4. /\ coordinator' \in Tests \cup {None} /\ \A u \in Tests : u # t => (coordinator' = u <=> coordinator = u)
        /\ test[t].made = test[t].variants /\ test[t].made # 0 /\ Won(t)
    BY <1>1, <2>1, Promotes
  <2>5. TestOK(t)' /\ WinnerOK(t)'
    BY <1>2, <2>1, <2>2, <2>3, <2>4 DEF TestOK, WinnerOK
  <2>6. shared' = {} => Cardinality(Busy)' <= MaxActiveExperiments
    BY <1>1, <2>1, <2>2, BusyStays
  <2>7. /\ e.status \notin {"none", "refused", "failed", "cancelled"} /\ 0 \notin {} /\ test[t].status # "promoted"
    BY <1>1, <2>2
  <2>8. /\ DOMAIN names' = DOMAIN names \ {}
        /\ \A n \in DOMAIN names' : /\ names'[n] \in Registration /\ names'[n].config = names[n].config
                                    /\ names'[n].from = names[n].from
    BY <1>3, ControlData
  <2> QED
    BY <2>1, <2>2, <2>4, <2>5, <2>6, <2>7, <2>8, NamesLess
<1>4. CASE /\ test[t].winner \in DOMAIN names /\ test' = [test EXCEPT ![t].status = "verified"]
           /\ UNCHANGED <<names, coordinator>>
  <2> DEFINE e == [test[t] EXCEPT !.status = "verified"]
  <2>1. test' = [test EXCEPT ![t] = e] /\ coordinator' = t /\ names' = names /\ test[t].winner \in DOMAIN names
    BY <1>1, <1>4
  <2>2. /\ e \in Experiment /\ e.status = "verified" /\ e.made = test[t].made /\ e.variants = test[t].variants
        /\ e.winner = test[t].winner
    BY <1>2, StatusData DEF Statuses
  <2> HIDE DEF e
  <2>3. test'[t] = e
    BY <2>1, <2>2, TestSet
  <2>4. /\ coordinator' \in Tests \cup {None} /\ \A u \in Tests : u # t => (coordinator' = u <=> coordinator = u)
        /\ test[t].made = test[t].variants /\ test[t].made # 0 /\ Won(t)
    BY <1>1, <2>1, Promotes
  <2>5. TestOK(t)'
    BY <1>2, <2>1, <2>2, <2>3, <2>4 DEF TestOK, Won
  <2>6. WinnerOK(t)'
    BY <1>1, <1>2, <2>1, <2>2, <2>3 DEF WinnerOK
  <2>7. shared' = {} => Cardinality(Busy)' <= MaxActiveExperiments
    BY <1>1, <2>1, <2>2, BusyStays
  <2> QED
    BY <1>1, <2>1, <2>2, <2>4, <2>5, <2>6, <2>7, NamesStay
<1> QED
  BY <1>3, <1>4 DEF Cloning!VerifyAgent

LEMMA CleanUpKeeps == ASSUME CInv, Cloning!CloningAssumption, NEW t \in Tests, Cloning!CleanUp(t) PROVE CInv'
<1> DEFINE e == [test[t] EXCEPT !.status = "promoted"]
           S == ({0} \cup (1 .. test[t].variants)) \ {test[t].winner}
<1>1. /\ coordinator = t /\ test[t].status = "verified" /\ names' = Cloning!Without(S)
      /\ test' = [test EXCEPT ![t] = e] /\ coordinator' = None /\ UNCHANGED <<metrics, second, shared>>
  BY DEF Cloning!CleanUp, Cloning!Promoting, Cloning!Control, Cloning!VariantsOf
<1>2. /\ test[t] \in Experiment /\ TestOK(t) /\ WinnerOK(t) /\ t # None
  BY TestFacts
<1>3. /\ e \in Experiment /\ e.status = "promoted" /\ e.made = test[t].made /\ e.variants = test[t].variants
      /\ e.winner = test[t].winner
  BY <1>2, StatusData DEF Statuses
<1> HIDE DEF e
<1>4. test'[t] = e /\ \A u \in Tests : u # t => test'[u] = test[u]
  BY <1>1, <1>3, TestSet
<1>5. /\ coordinator' \in Tests \cup {None} /\ \A u \in Tests : u # t => (coordinator' = u <=> coordinator = u)
      /\ test[t].made = test[t].variants /\ test[t].made # 0 /\ Won(t)
  BY <1>1, Promotes
<1>6. test[t].winner \notin S
  OBVIOUS
<1> HIDE DEF S
<1>7. /\ DOMAIN names' = DOMAIN names \ S
      /\ \A n \in DOMAIN names' : /\ names'[n] \in Registration /\ names'[n].config = names[n].config
                                  /\ names'[n].from = names[n].from
  BY <1>1, WithoutData
<1>8. TestOK(t)'
  BY <1>1, <1>2, <1>3, <1>4, <1>5 DEF TestOK, Won
<1>9. WinnerOK(t)'
  <2>1. Alone(t)' => Alone(t)
    BY <1>4 DEF Alone
  <2> QED
    BY <1>1, <1>2, <1>3, <1>4, <1>6, <1>7, <2>1 DEF WinnerOK
<1>10. shared' = {} => Cardinality(Busy)' <= MaxActiveExperiments
  BY <1>1, <1>3, BusyStays
<1>11. e.status \notin {"none", "refused", "failed", "cancelled"} /\ e.status = "promoted"
  BY <1>3
<1> QED
  BY <1>1, <1>3, <1>5, <1>7, <1>8, <1>9, <1>10, <1>11, NamesLess

LEMMA CloningStep == ASSUME CInv, Cloning!CloningAssumption, Cloning!CloningNext PROVE CInv'
<1>1. CASE \E t \in Tests :
              \/ Cloning!StartABTest(t) \/ Cloning!FindSource(t) \/ Cloning!RegisterClone(t) \/ Cloning!Save(t)
              \/ Cloning!Run(t) \/ Cloning!CompleteExperiment(t) \/ Cloning!ContextDone(t)
              \/ Cloning!CancelExperiment(t) \/ Cloning!PauseControl(t) \/ Cloning!TransferState(t)
              \/ Cloning!VerifyAgent(t) \/ Cloning!CleanUp(t)
  BY <1>1, StartABTestKeeps, FindSourceKeeps, RegisterCloneKeeps, SaveKeeps, RunKeeps, CompleteExperimentKeeps,
     ContextDoneKeeps, CancelExperimentKeeps, PauseControlKeeps, TransferStateKeeps, VerifyAgentKeeps, CleanUpKeeps
<1>2. CASE UNCHANGED <<names, test, coordinator, shared>>
  BY <1>2 DEF CInv, TestOK, Won, WinnerOK, Alone, CloneOK, Busy
<1>3. CASE \E t \in Tests : \E n \in Cloning!Names, latency \in Latencies, ok \in BOOLEAN :
              Cloning!RecordMetric(t, n, latency, ok)
  BY <1>2, <1>3 DEF Cloning!RecordMetric
<1>4. CASE Cloning!Tick
  BY <1>2, <1>4 DEF Cloning!Tick
<1> QED
  BY <1>1, <1>3, <1>4 DEF Cloning!CloningNext, Tests

LEMMA CloningShows ==
    ASSUME CInv, Cloning!CloningAssumption
    PROVE  /\ Cloning!CloningTypeOK /\ Cloning!LimitHoldsUnlessShared
           /\ Cloning!PromotedAsControl /\ Cloning!CancelLeavesNothing
<1>1. Cloning!CloningTypeOK
  <2>1. \A t \in Tests : test[t].winner \in 0 .. MaxVariants \cup {None} /\ test[t].made <= test[t].variants
    BY TestFacts, ExperimentData
  <2> QED
    BY <2>1 DEF CInv, Cloning!CloningTypeOK, Cloning!Names, Tests
<1>2. Cloning!LimitHoldsUnlessShared
  <2>1. Cloning!Active \subseteq Busy
    BY DEF Cloning!Active, Busy, Tests
  <2>2. /\ Cardinality(Cloning!Active) <= Cardinality(Busy) /\ Cardinality(Cloning!Active) \in Nat
        /\ Cardinality(Busy) \in Nat
    BY <2>1, BusyFinite, FS_Subset, FS_CardinalityType
  <2>3. shared = {} => ~ (Cardinality(Cloning!Active) > MaxActiveExperiments)
    BY <2>2 DEF CInv, Cloning!CloningAssumption
  <2> QED
    BY <2>3, CloningCardinality DEF Cloning!LimitHoldsUnlessShared
<1>3. Cloning!PromotedAsControl
  BY DEF CInv, WinnerOK, Cloning!PromotedAsControl, Cloning!Control, Tests
<1>4. Cloning!CancelLeavesNothing
  BY DEF CInv, CloneOK, Cloning!CancelLeavesNothing, Tests
<1> QED
  BY <1>1, <1>2, <1>3, <1>4

-----------------------------------------------------------------------------
(* Who trades while clones are tested.  The control is active unless a swap *)
(* is at work or could not tell it to pause; the winner of a swap trades    *)
(* unless another test took its name.                                      *)

Taken(t) == \E u \in Tests \ {t} : test[u].made >= test[t].winner

Placed(t) == test[t].status \in {"started", "verified", "promoted"} => Taken(t) \/ Cloning!Trades(test[t].winner)

ControlOK ==
    0 \in DOMAIN names =>
        /\ names[0].config = 0
        /\ \/ names[0].status = "active" \/ untold
           \/ coordinator # None /\ test[coordinator].status \in {"swapping", "started", "verified"}

AInv == ControlOK /\ \A t \in Tests : Placed(t)

\* A step that gives a test another status.
LEMMA StatusBecomes ==
    ASSUME CInv, NEW t \in Tests, NEW s, test' = [test EXCEPT ![t].status = s]
    PROVE  /\ \A u \in Tests \ {t} : test'[u] = test[u]
           /\ test'[t].status = s /\ test'[t].made = test[t].made /\ test'[t].winner = test[t].winner
BY DEF CInv, Experiment

\* Names that trade go on unless the test that steps has a clone of that name.
LEMMA PlacedStays ==
    ASSUME CInv, CInv', AInv, Cloning!CloningAssumption, NEW t \in Tests, \A u \in Tests \ {t} : test'[u] = test[u],
           test'[t].made >= test[t].made, Placed(t)',
           \A n \in DOMAIN names : n # 0 /\ Cloning!Trades(n) => Cloning!Trades(n)' \/ n \in 1 .. test'[t].made
    PROVE  \A u \in Tests : Placed(u)'
<1> SUFFICES ASSUME NEW u \in Tests, u # t, test[u].status \in {"started", "verified", "promoted"}
             PROVE  Taken(u)' \/ Cloning!Trades(test[u].winner)'
  BY DEF Placed
<1>1. test'[u] = test[u]
  OBVIOUS
<1>2. test[u].winner \in Nat /\ test[u].winner # 0 /\ test[u].winner \in 0 .. MaxVariants
  BY TestFacts DEF TestOK, Won
<1>3. test[t].made \in Nat /\ test'[t].made \in Nat
  BY ExperimentData DEF CInv
<1>4. CASE Taken(u)
  <2>1. PICK v \in Tests \ {u} : test[v].made >= test[u].winner
    BY <1>4 DEF Taken
  <2>2. test'[v].made >= test[u].winner
    BY <1>2, <1>3, <2>1
  <2> QED
    BY <1>1, <2>1, <2>2 DEF Taken
<1>5. CASE Cloning!Trades(test[u].winner)
  <2>1. test[u].winner \in DOMAIN names
    BY <1>5 DEF Cloning!Trades
  <2>2. Cloning!Trades(test[u].winner)' \/ test[u].winner \in 1 .. test'[t].made
    BY <1>1, <1>2, <1>5, <2>1
  <2>3. ASSUME test[u].winner \in 1 .. test'[t].made PROVE Taken(u)'
    BY <1>1, <2>3, <1>2, <1>3 DEF Taken
  <2> QED
    BY <1>1, <2>2, <2>3
<1> QED
  BY <1>4, <1>5 DEF AInv, Placed

\* A step that changes no name and no test at work in a swap.
LEMMA NamesQuiet ==
    ASSUME CInv, CInv', AInv, Cloning!CloningAssumption, NEW t \in Tests, \A u \in Tests \ {t} : test'[u] = test[u],
           test'[t].made = test[t].made, UNCHANGED <<names, untold>>,
           test'[t].status \in {"started", "verified", "promoted"} =>
              test'[t].status = test[t].status /\ test'[t].winner = test[t].winner,
           coordinator = None \/ (coordinator' = coordinator /\ (coordinator = t => test'[t].status = test[t].status))
    PROVE  AInv'
<1>1. test[t].made \in Nat
  BY TestFacts
<1>2. \A n : Cloning!Trades(n) => Cloning!Trades(n)'
  BY DEF Cloning!Trades
<1>3. Placed(t)'
  BY <1>2 DEF AInv, Placed, Taken
<1>4. \A u \in Tests : Placed(u)'
  BY <1>1, <1>2, <1>3, PlacedStays
<1>5. coordinator \in Tests \cup {None}
  BY DEF CInv
<1>6. ControlOK'
  BY <1>5 DEF AInv, ControlOK
<1> QED
  BY <1>4, <1>6 DEF AInv

LEMMA ActingBegins == ASSUME Cloning!CloningAssumption, Cloning!CloningInit PROVE AInv
<1>1. names = [n \in {0} |-> [config |-> 0, status |-> "active", from |-> None]]
  BY DEF Cloning!CloningInit, Cloning!Control
<1>2. \A t \in Tests : test[t].status = "none"
  BY DEF Cloning!CloningInit, Tests
<1> QED
  BY <1>1, <1>2 DEF AInv, ControlOK, Placed

\* Steps of a test that leave the names alone.
LEMMA QuietKeeps ==
    ASSUME CInv, CInv', AInv, Cloning!CloningAssumption, NEW t \in Tests,
           \/ Cloning!StartABTest(t) \/ Cloning!Save(t) \/ Cloning!Run(t)
           \/ Cloning!CompleteExperiment(t) \/ Cloning!ContextDone(t)
    PROVE  AInv'
<1>1. TestOK(t) /\ t # None
  BY TestFacts
<1>2. CASE Cloning!StartABTest(t)
  <2>1. PICK s \in {"refused", "looking"} : test' = [test EXCEPT ![t].status = s]
    BY <1>2 DEF Cloning!StartABTest
  <2>2. coordinator = None /\ UNCHANGED <<names, untold>>
    BY <1>2 DEF Cloning!StartABTest
  <2> QED
    BY <2>1, <2>2, StatusBecomes, NamesQuiet
<1>3. CASE Cloning!Save(t)
  <2>1. test' = [test EXCEPT ![t].status = "setup"] /\ coordinator = None /\ UNCHANGED <<names, untold>>
    BY <1>3 DEF Cloning!Save
  <2> QED
    BY <2>1, StatusBecomes, NamesQuiet
<1>4. CASE Cloning!Run(t)
  <2>1. /\ \A u \in Tests \ {t} : test'[u] = test[u]
        /\ test'[t].status = "running" /\ test'[t].made = test[t].made /\ test[t].status = "setup"
    BY <1>4 DEF Cloning!Run, CInv, Experiment
  <2>2. coordinator # t /\ UNCHANGED <<names, untold, coordinator>>
    BY <1>1, <1>4, <2>1 DEF Cloning!Run, TestOK
  <2> QED
    BY <2>1, <2>2, NamesQuiet
<1>5. CASE Cloning!ContextDone(t)
  <2>1. /\ \A u \in Tests \ {t} : test'[u] = test[u]
        /\ test'[t].status = test[t].status /\ test'[t].made = test[t].made /\ test'[t].winner = test[t].winner
    BY <1>5 DEF Cloning!ContextDone, CInv, Experiment
  <2>2. UNCHANGED <<names, untold, coordinator>>
    BY <1>5 DEF Cloning!ContextDone
  <2> QED
    BY <2>1, <2>2, NamesQuiet
<1>6. CASE Cloning!CompleteExperiment(t)
  <2>1. coordinator = None /\ UNCHANGED <<names, untold>>
    BY <1>6, Zenon DEF Cloning!CompleteExperiment
  <2>2. CASE test[t].status # "running"
    <3>1. test' = [test EXCEPT ![t].watched = FALSE]
      BY <1>6, <2>2, Zenon DEF Cloning!CompleteExperiment
    <3>2. /\ \A u \in Tests \ {t} : test'[u] = test[u]
          /\ test'[t].status = test[t].status /\ test'[t].made = test[t].made /\ test'[t].winner = test[t].winner
      BY <3>1 DEF CInv, Experiment
    <3> QED
      BY <2>1, <3>2, NamesQuiet
  <2>3. CASE test[t].status = "running"
    <3>1. PICK w : test' = [test EXCEPT ![t].status = "completed", ![t].winner = w, ![t].watched = FALSE]
      BY <1>6, <2>3, Zenon DEF Cloning!CompleteExperiment
    <3>2. /\ \A u \in Tests \ {t} : test'[u] = test[u]
          /\ test'[t].status = "completed" /\ test'[t].made = test[t].made
      BY <3>1 DEF CInv, Experiment
    <3> QED
      BY <2>1, <3>2, NamesQuiet
  <2> QED
    BY <2>2, <2>3
<1> QED
  BY <1>2, <1>3, <1>4, <1>5, <1>6

\* What the loss of the names of a test, or of the control, leaves.
LEMMA WithoutTrades ==
    ASSUME CInv, NEW S, names' = Cloning!Without(S), NEW n \in DOMAIN names, n \notin S
    PROVE  /\ n \in DOMAIN names' /\ names'[n] = names[n]
           /\ Cloning!Trades(n) => Cloning!Trades(n)'
BY DEF Cloning!Without, Cloning!Trades

LEMMA ControlTrades ==
    ASSUME CInv, NEW s, names' = Cloning!ControlIs(s)
    PROVE  /\ DOMAIN names' = DOMAIN names
           /\ 0 \in DOMAIN names => names'[0].config = names[0].config /\ names'[0].status = s
           /\ \A n \in DOMAIN names : n # 0 => names'[n] = names[n] /\ (Cloning!Trades(n) => Cloning!Trades(n)')
BY DEF Cloning!ControlIs, Cloning!Control, Cloning!Trades, CInv, Registration

LEMMA WithTrades ==
    ASSUME CInv, NEW n, NEW config, NEW from, names' = Cloning!With(n, config, from)
    PROVE  /\ n \in DOMAIN names' /\ names'[n].config = config /\ names'[n].status = "active"
           /\ \A m \in DOMAIN names : m # n => m \in DOMAIN names' /\ names'[m] = names[m]
           /\ \A m \in DOMAIN names' : m # n => m \in DOMAIN names
BY DEF Cloning!With

\* A test that could not go on, or is cancelled, takes its clones away.
LEMMA TakenAwayKeeps ==
    ASSUME CInv, CInv', AInv, Cloning!CloningAssumption, NEW t \in Tests,
           Cloning!FindSource(t) \/ Cloning!CancelExperiment(t)
    PROVE  AInv'
<1>1. /\ TestOK(t) /\ t # None /\ test[t].made \in Nat /\ test[t].variants \in Nat
      /\ \A u \in Tests : coordinator = u => test[u].status \in {"completed", "swapping", "started", "verified"}
  BY TestFacts DEF TestOK
<1>2. PICK s \in {"cloning", "failed", "cancelled"} : test' = [test EXCEPT ![t].status = s]
  BY DEF Cloning!FindSource, Cloning!CancelExperiment
<1>3. /\ \A u \in Tests \ {t} : test'[u] = test[u]
      /\ test'[t].status = s /\ test'[t].made = test[t].made /\ test'[t].winner = test[t].winner
  BY <1>2, StatusBecomes
<1>4. /\ test[t].status \in {"looking", "running"} /\ UNCHANGED <<untold, coordinator>> /\ coordinator # t
      /\ test[t].status = "running" => test[t].made = test[t].variants
  BY <1>1 DEF Cloning!FindSource, Cloning!CancelExperiment, TestOK
<1>5. CASE names' = names
  BY <1>3, <1>4, <1>5, NamesQuiet
<1>6. CASE names' = Cloning!Without(1 .. test[t].made)
  <2>1. ASSUME NEW n \in DOMAIN names, n # 0, Cloning!Trades(n)
        PROVE  Cloning!Trades(n)' \/ n \in 1 .. test'[t].made
    BY <1>3, <1>6, <2>1, WithoutTrades
  <2>2. Placed(t)'
    BY <1>3 DEF Placed
  <2>3. \A u \in Tests : Placed(u)'
    BY <1>1, <1>3, <2>1, <2>2, PlacedStays
  <2>4. 0 \in DOMAIN names' => 0 \in DOMAIN names /\ names'[0] = names[0]
    BY <1>6 DEF Cloning!Without
  <2>5. coordinator \in Tests \cup {None}
    BY DEF CInv
  <2>6. ControlOK'
    BY <1>3, <1>4, <2>4, <2>5 DEF AInv, ControlOK
  <2> QED
    BY <2>3, <2>6 DEF AInv
<1> QED
  BY <1>4, <1>5, <1>6 DEF Cloning!FindSource, Cloning!CancelExperiment, Cloning!VariantsOf

\* A clone is registered under the name of the next variant.
LEMMA ClonedKeeps ==
    ASSUME CInv, CInv', AInv, Cloning!CloningAssumption, NEW t \in Tests, Cloning!RegisterClone(t)
    PROVE  AInv'
<1> DEFINE n == test[t].made + 1
<1>1. /\ TestOK(t) /\ t # None /\ test[t].made \in Nat
  BY TestFacts
<1>2. /\ \A u \in Tests \ {t} : test'[u] = test[u]
      /\ test'[t].status \in {"cloned", "looking"} /\ test'[t].made = n
  BY DEF Cloning!RegisterClone, CInv, Experiment
<1>3. names' = Cloning!With(n, n, t) /\ UNCHANGED <<untold, coordinator>> /\ coordinator # t
  BY <1>1 DEF Cloning!RegisterClone, TestOK
<1>4. n \in Nat /\ n # 0 /\ n \in 1 .. n /\ n >= test[t].made
  BY <1>1
<1> HIDE DEF n
<1>5. ASSUME NEW m \in DOMAIN names, m # 0, Cloning!Trades(m)
      PROVE  Cloning!Trades(m)' \/ m \in 1 .. test'[t].made
  <2>1. CASE m = n
    BY <1>2, <1>4, <2>1
  <2>2. CASE m # n
    BY <1>3, <1>5, <2>2, WithTrades DEF Cloning!Trades
  <2> QED
    BY <2>1, <2>2
<1>6. Placed(t)'
  BY <1>2 DEF Placed
<1>7. \A u \in Tests : Placed(u)'
  BY <1>2, <1>4, <1>5, <1>6, PlacedStays
<1>8. 0 \in DOMAIN names' => 0 \in DOMAIN names /\ names'[0] = names[0]
  BY <1>3, <1>4, WithTrades
<1>9. coordinator \in Tests \cup {None}
  BY DEF CInv
<1>10. ControlOK'
  BY <1>2, <1>3, <1>8, <1>9 DEF AInv, ControlOK
<1> QED
  BY <1>7, <1>10 DEF AInv

\* The steps of a swap.
LEMMA PausedKeeps ==
    ASSUME CInv, CInv', AInv, Cloning!CloningAssumption, NEW t \in Tests, Cloning!PauseControl(t)
    PROVE  AInv'
<1>1. PICK s \in {"completed", "swapping"} : test' = [test EXCEPT ![t].status = s]
  BY DEF Cloning!PauseControl, Cloning!SwapFails
<1>2. /\ \A u \in Tests \ {t} : test'[u] = test[u]
      /\ test'[t].status = s /\ test'[t].made = test[t].made /\ test'[t].winner = test[t].winner
  BY <1>1, StatusBecomes
<1>3. names' = Cloning!ControlIs("paused") /\ coordinator = t /\ t # None /\ test[t].made \in Nat
  BY TestFacts DEF Cloning!PauseControl, Cloning!Promoting
<1>4. \/ untold' = (untold \/ 0 \in DOMAIN names)
      \/ coordinator' = t /\ test'[t].status = "swapping"
  BY <1>2, <1>3, StatusBecomes DEF Cloning!PauseControl, Cloning!SwapFails, Cloning!Control
<1>5. \A n \in DOMAIN names : n # 0 /\ Cloning!Trades(n) => Cloning!Trades(n)' \/ n \in 1 .. test'[t].made
  BY <1>3, ControlTrades
<1>6. \A u \in Tests : Placed(u)'
  <2>1. Placed(t)'
    BY <1>2 DEF Placed
  <2> QED
    BY <1>2, <1>3, <1>5, <2>1, PlacedStays
<1>7. ControlOK'
  <2>1. /\ DOMAIN names' = DOMAIN names
        /\ 0 \in DOMAIN names => names'[0].config = 0
    BY <1>3, ControlTrades DEF AInv, ControlOK
  <2>2. CASE untold' = (untold \/ 0 \in DOMAIN names)
    <3>1. 0 \in DOMAIN names => untold'
      BY <2>2, Zenon
    <3> QED
      BY <2>1, <3>1 DEF ControlOK
  <2>3. CASE coordinator' = t /\ test'[t].status = "swapping"
    <3>1. coordinator' # None /\ test'[coordinator'].status = "swapping"
      BY <1>3, <2>3
    <3> QED
      BY <2>1, <3>1 DEF ControlOK
  <2> QED
    BY <1>4, <2>2, <2>3
<1> QED
  BY <1>6, <1>7 DEF AInv

LEMMA TransferredKeeps ==
    ASSUME CInv, CInv', AInv, Cloning!CloningAssumption, NEW t \in Tests, Cloning!TransferState(t)
    PROVE  AInv'
<1>0. PICK w, control : w = test[t].winner /\ control = 0
  OBVIOUS
<1>1. /\ \A u \in Tests \ {t} : test'[u] = test[u]
      /\ test'[t].status = "started" /\ test'[t].made = test[t].made /\ test'[t].winner = w
  BY <1>0, StatusBecomes DEF Cloning!TransferState
<1>2. names' = Cloning!With(w, control, t) /\ coordinator = t /\ UNCHANGED <<coordinator, untold>>
  BY <1>0 DEF Cloning!TransferState, Cloning!Promoting, Cloning!Control
<1>3. /\ t # None /\ test[t].made \in Nat /\ test[t].made = test[t].variants /\ w \in 1 .. test[t].variants
      /\ test[t].variants \in Nat
  BY <1>0, <1>2, TestFacts, Promotes DEF Won
<1>4. w # 0 /\ w \in 1 .. test'[t].made
  BY <1>1, <1>3
<1>5. Cloning!Trades(w)'
  <2>1. w \in DOMAIN names' /\ names'[w].config = control /\ names'[w].status = "active"
    BY <1>2, WithTrades
  <2> QED
    BY <1>0, <2>1 DEF Cloning!Trades, Cloning!Control
<1>6. ASSUME NEW m \in DOMAIN names, m # 0, Cloning!Trades(m)
      PROVE  Cloning!Trades(m)' \/ m \in 1 .. test'[t].made
  <2>1. CASE m = w
    BY <1>4, <2>1
  <2>2. CASE m # w
    BY <1>2, <1>6, <2>2, WithTrades DEF Cloning!Trades
  <2> QED
    BY <2>1, <2>2
<1>7. Placed(t)'
  <2>1. Cloning!Trades(test[t].winner)'
    BY <1>1, <1>5
  <2> QED
    BY <2>1 DEF Placed
<1>8. \A u \in Tests : Placed(u)'
  BY <1>1, <1>3, <1>6, <1>7, PlacedStays
<1>9. 0 \in DOMAIN names' => 0 \in DOMAIN names /\ names'[0] = names[0]
  BY <1>2, <1>4, WithTrades
<1>10. ControlOK'
  BY <1>1, <1>2, <1>3, <1>9 DEF AInv, ControlOK
<1> QED
  BY <1>8, <1>10 DEF AInv

LEMMA VerifiedKeeps ==
    ASSUME CInv, CInv', AInv, Cloning!CloningAssumption, NEW t \in Tests, Cloning!VerifyAgent(t)
    PROVE  AInv'
<1>1. coordinator = t /\ test[t].status = "started" /\ t # None /\ test[t].made \in Nat
  BY TestFacts DEF Cloning!VerifyAgent, Cloning!Promoting
<1>2. CASE Cloning!SwapFails(t) /\ names' = Cloning!ControlIs("active")
  <2>1. /\ \A u \in Tests \ {t} : test'[u] = test[u]
        /\ test'[t].status = "completed" /\ test'[t].made = test[t].made
    BY <1>2, StatusBecomes DEF Cloning!SwapFails
  <2>2. \A n \in DOMAIN names : n # 0 /\ Cloning!Trades(n) => Cloning!Trades(n)' \/ n \in 1 .. test'[t].made
    BY <1>2, ControlTrades
  <2>3. Placed(t)'
    BY <2>1 DEF Placed
  <2>4. \A u \in Tests : Placed(u)'
    BY <1>1, <2>1, <2>2, <2>3, PlacedStays
  <2>5. ControlOK'
    BY <1>2, ControlTrades DEF AInv, ControlOK
  <2> QED
    BY <2>4, <2>5 DEF AInv
<1>3. CASE test' = [test EXCEPT ![t].status = "verified"] /\ UNCHANGED <<names, coordinator, untold>>
  <2>1. /\ \A u \in Tests \ {t} : test'[u] = test[u]
        /\ test'[t].status = "verified" /\ test'[t].made = test[t].made /\ test'[t].winner = test[t].winner
    BY <1>3, StatusBecomes
  <2>2. \A n : Cloning!Trades(n) => Cloning!Trades(n)'
    BY <1>3 DEF Cloning!Trades
  <2>3. Placed(t)'
    BY <1>1, <2>1, <2>2 DEF AInv, Placed, Taken
  <2>4. \A u \in Tests : Placed(u)'
    BY <1>1, <2>1, <2>2, <2>3, PlacedStays
  <2>5. ControlOK'
    BY <1>1, <1>3, <2>1 DEF AInv, ControlOK
  <2> QED
    BY <2>4, <2>5 DEF AInv
<1> QED
  BY <1>2, <1>3 DEF Cloning!VerifyAgent

LEMMA CleanedKeeps ==
    ASSUME CInv, CInv', AInv, Cloning!CloningAssumption, NEW t \in Tests, Cloning!CleanUp(t)
    PROVE  AInv'
<1> DEFINE S == ({0} \cup (1 .. test[t].variants)) \ {test[t].winner}
<1>1. /\ coordinator = t /\ test[t].status = "verified" /\ names' = Cloning!Without(S) /\ coordinator' = None
      /\ untold' = untold
  BY DEF Cloning!CleanUp, Cloning!Promoting, Cloning!Control, Cloning!VariantsOf
<1>2. /\ t # None /\ test[t].made \in Nat /\ test[t].made = test[t].variants
      /\ test[t].winner \in 1 .. test[t].variants /\ test[t].variants \in Nat
  BY TestFacts, <1>1, Promotes DEF Won
<1>3. /\ \A u \in Tests \ {t} : test'[u] = test[u]
      /\ test'[t].status = "promoted" /\ test'[t].made = test[t].made /\ test'[t].winner = test[t].winner
  BY StatusBecomes DEF Cloning!CleanUp
<1>4. 0 \in S /\ test[t].winner \notin S
  BY <1>2
<1>5. \A n : n \in S => n = 0 \/ n \in 1 .. test'[t].made
  BY <1>2, <1>3
<1> HIDE DEF S
<1>6. \A n \in DOMAIN names : n \notin S /\ Cloning!Trades(n) => Cloning!Trades(n)'
  BY <1>1, WithoutTrades
<1>7. Placed(t)'
  <2>1. Cloning!Trades(test[t].winner) => Cloning!Trades(test[t].winner)'
    <3>1. PICK w : w = test[t].winner
      OBVIOUS
    <3>2. Cloning!Trades(w) => w \in DOMAIN names /\ w \notin S
      BY <1>4, <3>1 DEF Cloning!Trades
    <3>3. Cloning!Trades(w) => Cloning!Trades(w)'
      BY <1>6, <3>2
    <3> QED
      BY <1>3, <3>1, <3>3
  <2>2. Taken(t) => Taken(t)'
    BY <1>3 DEF Taken
  <2> QED
    BY <1>1, <1>3, <2>1, <2>2 DEF AInv, Placed
<1>8. \A u \in Tests : Placed(u)'
  BY <1>2, <1>3, <1>5, <1>6, <1>7, PlacedStays
<1>9. ControlOK'
  BY <1>1, <1>4 DEF ControlOK, Cloning!Without
<1> QED
  BY <1>8, <1>9 DEF AInv

LEMMA ActingStep == ASSUME CInv, CInv', AInv, Cloning!CloningAssumption, Cloning!CloningNext PROVE AInv'
<1>1. CASE \E t \in Tests :
              \/ Cloning!StartABTest(t) \/ Cloning!FindSource(t) \/ Cloning!RegisterClone(t) \/ Cloning!Save(t)
              \/ Cloning!Run(t) \/ Cloning!CompleteExperiment(t) \/ Cloning!ContextDone(t)
              \/ Cloning!CancelExperiment(t) \/ Cloning!PauseControl(t) \/ Cloning!TransferState(t)
              \/ Cloning!VerifyAgent(t) \/ Cloning!CleanUp(t)
  BY <1>1, QuietKeeps, TakenAwayKeeps, ClonedKeeps, PausedKeeps, TransferredKeeps, VerifiedKeeps, CleanedKeeps
<1>2. CASE UNCHANGED <<names, test, coordinator, untold>>
  BY <1>2 DEF AInv, ControlOK, Placed, Taken, Cloning!Trades
<1>3. CASE \E t \in Tests : \E n \in Cloning!Names, latency \in Latencies, ok \in BOOLEAN :
              Cloning!RecordMetric(t, n, latency, ok)
  BY <1>2, <1>3 DEF Cloning!RecordMetric
<1>4. CASE Cloning!Tick
  BY <1>2, <1>4 DEF Cloning!Tick
<1> QED
  BY <1>1, <1>3, <1>4 DEF Cloning!CloningNext, Tests

\* What is registered and active while clones are tested.
LEMMA ActingShows == ASSUME CInv, AInv, Cloning!CloningAssumption PROVE Cloning!SomeoneTrades
<1>1. ASSUME NEW t \in Tests, test[t].status \in {"verified", "promoted"} PROVE Cloning!SomeoneTrades
  <2>1. Taken(t) \/ Cloning!Trades(test[t].winner)
    BY <1>1 DEF AInv, Placed
  <2>2. CASE Cloning!Trades(test[t].winner)
    BY <1>1, <2>2 DEF Cloning!SomeoneTrades, Tests
  <2>3. CASE Taken(t)
    <3>1. PICK u \in Tests \ {t} : test[u].made >= test[t].winner
      BY <2>3 DEF Taken
    <3>2. \E v, u2 \in Tests : v # u2 /\ test[v].status \in {"verified", "promoted"} /\ test[u2].made >= test[v].winner
      BY <1>1, <3>1
    <3> QED
      BY <3>2 DEF Cloning!SomeoneTrades, Tests
  <2> QED
    BY <2>1, <2>2, <2>3
<1>2. CASE 0 \in DOMAIN names
  <2>1. CASE names[0].status = "active"
    BY <1>2, <2>1 DEF AInv, ControlOK, Cloning!SomeoneTrades, Cloning!Trades, Cloning!Control
  <2>2. CASE untold
    BY <2>2 DEF Cloning!SomeoneTrades
  <2>3. CASE coordinator # None /\ test[coordinator].status \in {"swapping", "started"}
    BY <2>3 DEF Cloning!SomeoneTrades
  <2>4. CASE coordinator # None /\ test[coordinator].status = "verified"
    BY <1>1, <2>4 DEF CInv
  <2> QED
    BY <1>2, <2>1, <2>2, <2>3, <2>4 DEF AInv, ControlOK
<1>3. CASE 0 \notin DOMAIN names
  BY <1>1, <1>3 DEF CInv
<1> QED
  BY <1>2, <1>3

\* Before the first request nothing was sampled.
LEMMA SamplesBegin == ASSUME Cloning!CloningInit PROVE SInv
<1>1. metrics = [t \in Tests |-> [n \in 0 .. MaxVariants |-> Cloning!Unmeasured]] /\ second = 0
  BY DEF Cloning!CloningInit, Cloning!Names, Tests
<1>2. Cloning!Unmeasured \in Samples /\ Cloning!Unmeasured.last <= 0
  BY DEF Cloning!Unmeasured, Samples
<1> HIDE DEF Samples
<1> QED
  BY <1>1, <1>2 DEF SInv

LEMMA SampledIs ==
    ASSUME NEW m \in Samples, m.last <= second, second \in Nat, NEW latency \in Nat, NEW ok \in BOOLEAN
    PROVE  Cloning!Sampled(m, latency, ok) \in Samples /\ Cloning!Sampled(m, latency, ok).last <= second
BY SMTT(60) DEF Samples, Cloning!Sampled

LEMMA SamplesStep ==
    ASSUME SInv, Cloning!CloningAssumption, Cloning!CloningNext \/ UNCHANGED clones
    PROVE  SInv'
<1>1. CASE UNCHANGED <<metrics, second>>
  BY <1>1 DEF SInv
<1>2. CASE Cloning!Tick
  <2>1. metrics' = metrics /\ second' = second + 1 /\ second' \in Nat
    BY <1>2 DEF Cloning!Tick, SInv
  <2>2. ASSUME NEW t \in Tests, NEW n \in 0 .. MaxVariants PROVE metrics[t][n].last <= second + 1
    <3>1. metrics[t][n] \in Samples /\ metrics[t][n].last <= second
      BY DEF SInv
    <3>2. metrics[t][n].last \in Nat
      BY <3>1 DEF Samples
    <3> QED
      BY <2>1, <3>1, <3>2 DEF SInv
  <2> QED
    BY <2>1, <2>2 DEF SInv
<1>3. CASE \E t \in Tests : \E n \in Cloning!Names, latency \in Latencies, ok \in BOOLEAN :
              Cloning!RecordMetric(t, n, latency, ok)
  <2>1. PICK t \in Tests, n \in 0 .. MaxVariants, latency \in Nat, ok \in BOOLEAN : Cloning!RecordMetric(t, n, latency, ok)
    BY <1>3 DEF Cloning!CloningAssumption, Cloning!Names
  <2>2. metrics' = [metrics EXCEPT ![t][n] = Cloning!Sampled(@, latency, ok)] /\ second' = second
    BY <2>1 DEF Cloning!RecordMetric
  <2>3. PICK m \in Samples : m = metrics[t][n] /\ m.last <= second
    BY DEF SInv
  <2>4. PICK s \in Samples : s = Cloning!Sampled(m, latency, ok) /\ s.last <= second
    BY <2>3, SampledIs DEF SInv
  <2>5. metrics' = [metrics EXCEPT ![t] = [metrics[t] EXCEPT ![n] = s]]
    BY <2>2, <2>3, <2>4, Zenon
  <2>6. metrics' \in [Tests -> [0 .. MaxVariants -> Samples]]
    <3> HIDE DEF Samples
    <3> QED
      BY <2>5 DEF SInv
  <2>7. \A u \in Tests : \A k \in 0 .. MaxVariants : metrics'[u][k] = s \/ metrics'[u][k] = metrics[u][k]
    BY <2>5 DEF SInv
  <2> QED
    BY <2>2, <2>4, <2>6, <2>7 DEF SInv
<1> QED
  BY <1>1, <1>2, <1>3
  DEF clones, Cloning!CloningNext, Tests, Cloning!StartABTest, Cloning!FindSource, Cloning!RegisterClone, Cloning!Save,
      Cloning!Run, Cloning!CompleteExperiment, Cloning!ContextDone, Cloning!CancelExperiment, Cloning!PauseControl,
      Cloning!TransferState, Cloning!VerifyAgent, Cloning!CleanUp

\* What a change in percent is, and that of a loss of all of it or more.
LEMMA ImprovementIs ==
    ASSUME NEW a \in Nat, NEW b \in Nat
    PROVE  /\ Cloning!Improvement(a, b) \in Int /\ Cloning!Improvement(a, b) <= 100
           /\ Cloning!Improvement(a, b) <= -100 => b >= 2 * a
<1>1. CASE a = 0
  BY <1>1 DEF Cloning!Improvement
<1>2. CASE a > 0 /\ b <= a
  <2>1. PICK d \in Nat : d = 100 * (a - b) /\ d <= 100 * a
    BY <1>2
  <2>2. PICK q \in Int : q = d \div a /\ d = q * a + (d % a) /\ d % a \in 0 .. a - 1
    BY <1>2, <2>1
  <2>3. ~ (q >= 101)
    <3> SUFFICES ASSUME q >= 101 PROVE FALSE
      OBVIOUS
    <3>1. 101 * a <= q * a
      BY <1>2, <2>2
    <3> QED
      BY <1>2, <2>1, <2>2, <3>1
  <2>4. q >= 0
    BY <1>2, <2>1, <2>2
  <2>5. Cloning!Improvement(a, b) = q
    BY <1>2, <2>1, <2>2 DEF Cloning!Improvement
  <2> QED
    BY <2>2, <2>3, <2>4, <2>5
<1>3. CASE a > 0 /\ ~ (b <= a)
  <2>1. PICK d \in Nat : d = 100 * (b - a)
    BY <1>3
  <2>2. PICK q \in Int : q = d \div a /\ d = q * a + (d % a) /\ d % a \in 0 .. a - 1
    BY <1>3, <2>1
  <2>3. q >= 0
    BY <1>3, <2>1, <2>2
  <2>4. q >= 100 => b >= 2 * a
    <3> SUFFICES ASSUME q >= 100 PROVE b >= 2 * a
      OBVIOUS
    <3>1. 100 * a <= q * a
      BY <1>3, <2>2
    <3> QED
      BY <1>3, <2>1, <2>2, <3>1
  <2>5. Cloning!Improvement(a, b) = -q
    BY <1>3, <2>1, <2>2 DEF Cloning!Improvement
  <2> QED
    BY <2>2, <2>3, <2>4, <2>5
<1> QED
  BY <1>1, <1>2, <1>3

LEMMA PercentIs == ASSUME NEW a \in Nat, NEW b \in Nat, a > 0, b <= 100 * a PROVE b \div a \in 0 .. 100
<1>1. PICK q \in Int : q = b \div a /\ b = q * a + (b % a) /\ b % a \in 0 .. a - 1
  OBVIOUS
<1>2. ~ (q >= 101)
  <2> SUFFICES ASSUME q >= 101 PROVE FALSE
    OBVIOUS
  <2>1. 101 * a <= q * a
    BY <1>1
  <2> QED
    BY <1>1, <2>1
<1>3. q >= 0
  BY <1>1
<1> QED
  BY <1>1, <1>2, <1>3

LEMMA SampleData ==
    ASSUME NEW m \in Samples
    PROVE  /\ Cloning!AverageLatency(m) \in Nat /\ Cloning!Throughput(m) \in Nat
           /\ Cloning!ErrorRate(m) \in 0 .. 100
<1>1. /\ m.requests \in Nat /\ m.failed \in Nat /\ m.latency \in Nat /\ m.first \in Nat /\ m.last \in Nat
      /\ m.failed <= m.requests
  BY DEF Samples
<1>2. Cloning!AverageLatency(m) \in Nat
  BY <1>1 DEF Cloning!AverageLatency
<1>3. Cloning!Throughput(m) \in Nat
  <2>1. PICK d \in Int : d = m.last - m.first
    BY <1>1
  <2>2. PICK r \in Nat : r = 100 * m.requests
    BY <1>1
  <2>3. m.last > m.first => d > 0
    BY <1>1, <2>1
  <2>4. d > 0 => r \div d \in Nat
    BY <2>1, <2>2
  <2> QED
    BY <2>1, <2>2, <2>3, <2>4 DEF Cloning!Throughput
<1>4. Cloning!ErrorRate(m) \in 0 .. 100
  <2>1. CASE m.requests = 0
    BY <2>1 DEF Cloning!ErrorRate
  <2>2. CASE m.requests # 0
    <3>1. PICK a \in Nat, b \in Nat : a = m.requests /\ b = 100 * m.failed /\ a > 0 /\ b <= 100 * a
      BY <1>1, <2>2
    <3>2. b \div a \in 0 .. 100
      BY <3>1, PercentIs
    <3> QED
      BY <2>2, <3>1, <3>2, Zenon DEF Cloning!ErrorRate
  <2> QED
    BY <2>1, <2>2
<1> QED
  BY <1>2, <1>3, <1>4

\* No errors and no throughput bring a score to nothing: only twice the latency does.
LEMMA NothingForTheSlow ==
    ASSUME NEW c \in Samples, NEW v \in Samples, Cloning!Compare(c, v) = 0
    PROVE  Cloning!AverageLatency(v) >= 2 * Cloning!AverageLatency(c)
<1>1. PICK a \in Nat, b \in Nat : a = Cloning!AverageLatency(c) /\ b = Cloning!AverageLatency(v)
  BY SampleData
<1>2. PICK i \in Int, j \in Int :
         /\ i = Cloning!Improvement(a, b) /\ (i <= -100 => b >= 2 * a)
         /\ j = Cloning!Improvement(Cloning!Throughput(c), Cloning!Throughput(v)) /\ j <= 100
  BY SampleData, ImprovementIs
<1>3. PICK e \in 0 .. 100, f \in 0 .. 100 : e = Cloning!ErrorRate(c) /\ f = Cloning!ErrorRate(v)
  BY SampleData
<1>4. PICK score \in Int : score = 1000 + 5 * i - 3 * (f - e) - 2 * j
  <2>1. 1000 + 5 * i - 3 * (f - e) - 2 * j \in Int
    OBVIOUS
  <2> QED
    BY <2>1
<1>5. Cloning!Compare(c, v) = IF score < 0 THEN 0 ELSE IF score > 1000 THEN 1000 ELSE score
  <2>1. score = 1000 + 5 * Cloning!Improvement(Cloning!AverageLatency(c), Cloning!AverageLatency(v))
                     - 3 * (Cloning!ErrorRate(v) - Cloning!ErrorRate(c))
                     - 2 * Cloning!Improvement(Cloning!Throughput(c), Cloning!Throughput(v))
    BY <1>1, <1>2, <1>3, <1>4
  <2> QED
    BY <2>1 DEF Cloning!Compare
<1>6. score <= 0
  BY <1>4, <1>5
<1>7. i <= -100
  BY <1>2, <1>3, <1>4, <1>6
<1> QED
  BY <1>1, <1>2, <1>7

\* A step that keeps the control completes its test, in which every variant is that slow.
LEMMA KeptForItsSpeed ==
    ASSUME CInv, SInv, Cloning!CloningAssumption, Cloning!CloningNext, NEW t \in Tests,
           test[t].winner = None, test'[t].winner = Cloning!Control, NEW n \in Cloning!VariantsOf(t)
    PROVE  Cloning!AverageLatency(metrics[t][n]) >= 2 * Cloning!AverageLatency(metrics[t][Cloning!Control])
<1>1. None # Cloning!Control
  BY DEF Cloning!CloningAssumption, Cloning!Control
<1>2. test'[t].winner # test[t].winner
  BY <1>1
<1>3. test \in [Tests -> Experiment]
  BY DEF CInv
<1>4. PICK u \in Tests : Cloning!CompleteExperiment(u) /\ test[u].status = "running"
  <2>1. test' # test
    BY <1>2
  <2>2. ASSUME NEW u \in Tests, NEW e, test' = [test EXCEPT ![u] = e], e.winner = test[u].winner PROVE FALSE
    BY <1>2, <1>3, <2>2
  <2>3. ASSUME NEW u \in Tests, NEW s PROVE [test[u] EXCEPT !.status = s].winner = test[u].winner
    BY <1>3 DEF Experiment
  <2>4. ASSUME NEW u \in Tests, NEW s PROVE test' # [test EXCEPT ![u].status = s]
    <3>1. [test EXCEPT ![u].status = s] = [test EXCEPT ![u] = [test[u] EXCEPT !.status = s]]
      BY Zenon
    <3> QED
      BY <2>2, <2>3, <3>1, Zenon
  <2>5. ASSUME NEW u \in Tests, NEW w PROVE test' # [test EXCEPT ![u].watched = w]
    <3>1. [test EXCEPT ![u].watched = w] = [test EXCEPT ![u] = [test[u] EXCEPT !.watched = w]]
      BY Zenon
    <3>2. [test[u] EXCEPT !.watched = w].winner = test[u].winner
      BY <1>3 DEF Experiment
    <3> QED
      BY <2>2, <3>1, <3>2, Zenon
  <2>6. ASSUME NEW u \in Tests, Cloning!RegisterClone(u) PROVE FALSE
    <3>1. PICK m, s : test' = [test EXCEPT ![u].made = m, ![u].status = s]
      BY <2>6, Zenon DEF Cloning!RegisterClone
    <3>2. test' = [test EXCEPT ![u] = [test[u] EXCEPT !.made = m, !.status = s]]
      BY <1>3, <3>1
    <3>3. [test[u] EXCEPT !.made = m, !.status = s].winner = test[u].winner
      BY <1>3 DEF Experiment
    <3> QED
      BY <2>2, <3>2, <3>3, Zenon
  <2>7. ASSUME NEW u \in Tests, Cloning!Run(u) PROVE FALSE
    <3>1. test' = [test EXCEPT ![u] = [test[u] EXCEPT !.status = "running", !.watched = TRUE]]
      BY <1>3, <2>7 DEF Cloning!Run
    <3>2. [test[u] EXCEPT !.status = "running", !.watched = TRUE].winner = test[u].winner
      BY <1>3 DEF Experiment
    <3> QED
      BY <2>2, <3>1, <3>2, Zenon
  <2>8. ASSUME NEW u \in Tests, Cloning!CompleteExperiment(u) PROVE test[u].status = "running"
    BY <2>5, <2>8, Zenon DEF Cloning!CompleteExperiment
  <2> QED
    BY <2>1, <2>4, <2>5, <2>6, <2>7, <2>8, Zenon
    DEF Cloning!CloningNext, Tests, Cloning!StartABTest, Cloning!FindSource, Cloning!Save,
        Cloning!ContextDone, Cloning!CancelExperiment, Cloning!PauseControl, Cloning!SwapFails,
        Cloning!TransferState, Cloning!VerifyAgent, Cloning!CleanUp, Cloning!RecordMetric, Cloning!Tick
<1>5. PICK w \in Cloning!Winners(u) :
        test' = [test EXCEPT ![u].status = "completed", ![u].winner = w, ![u].watched = FALSE]
  BY <1>4, Zenon DEF Cloning!CompleteExperiment
<1>6. test' = [test EXCEPT ![u] = [test[u] EXCEPT !.status = "completed", !.winner = w, !.watched = FALSE]]
  BY <1>3, <1>5
<1>7. u = t
  BY <1>2, <1>3, <1>6
<1>8. w = 0
  <2>1. [test[u] EXCEPT !.status = "completed", !.winner = w, !.watched = FALSE].winner = w
    BY <1>3 DEF Experiment
  <2> QED
    BY <1>3, <1>6, <1>7, <2>1 DEF Cloning!Control
<1>9. Cloning!ScoreOf(t, n) = 0
  <2>1. w \notin Cloning!VariantsOf(t)
    BY <1>3, <1>8 DEF Cloning!VariantsOf
  <2> QED
    BY <1>5, <1>7, <2>1, Zenon DEF Cloning!Winners
<1>10. metrics[t][n] \in Samples /\ metrics[t][Cloning!Control] \in Samples
  <2>1. n \in 0 .. MaxVariants /\ Cloning!Control \in 0 .. MaxVariants
    BY TestFacts DEF Cloning!VariantsOf, Cloning!Control
  <2> QED
    BY <2>1, Zenon DEF SInv
<1> QED
  BY <1>9, <1>10, NothingForTheSlow, Zenon DEF Cloning!ScoreOf

LEMMA SamplesRest == ASSUME SInv, UNCHANGED clones PROVE SInv'
BY DEF clones, SInv

-----------------------------------------------------------------------------
(* The parts of the platform.                                              *)

LEMMA HubStays == ASSUME HInv, UNCHANGED hubs PROVE HInv'
BY PlatformAssumption, HubStep

LEMMA TalkStays == ASSUME TInv, UNCHANGED talks PROVE TInv'
BY DEF talks, TInv, MemoryOK, Asked, CallOK, Talk!NoneIsHidden

LEMMA CloningStays == ASSUME CInv, UNCHANGED clones PROVE CInv'
BY DEF clones, CInv, TestOK, Won, WinnerOK, Alone, CloneOK, Busy

LEMMA ActingStays == ASSUME AInv, UNCHANGED clones PROVE AInv'
BY DEF clones, AInv, ControlOK, Placed, Taken, Cloning!Trades

PInv == HInv /\ TInv /\ CInv /\ AInv /\ SInv /\ NInv /\ JInv /\ OInv /\ BInv

\* The invariants hold at the start, where nothing was broadcast, asked, tested,
\* announced, created, run or traded (BacktestInit and the Init of each part).
LEMMA PlatformBegins == ASSUME MCInit PROVE PInv
<1> USE PlatformAssumption
<1>1. HInv /\ TInv /\ CInv /\ AInv /\ SInv
  BY HubBegins, TalkBegins, CloningBegins, ActingBegins, SamplesBegin DEF MCInit
<1>2. NInv /\ JInv
  BY NetBegins, JobsBegin DEF MCInit
<1>3. OInv /\ BInv
  BY SearchBegins, BacktestBegins DEF MCInit
<1> QED
  BY <1>1, <1>2, <1>3 DEF PInv

\* A part that rests stays as it is, and the others take a step at a time.
THEOREM PlatformInvariant == MCSpec => []PInv
<1> USE PlatformAssumption
<1>1. ASSUME PInv, [MCNext]_all PROVE PInv'
  <2>1. CASE OfHub(Hub!HubNext)
    BY <1>1, <2>1, HubStep, TalkStays, CloningStays, ActingStays, SamplesRest, NetStays, JobsRest, SearchRests, BacktestRests DEF OfHub, PInv
  <2>2. CASE OfTalk(Talk!Next)
    BY <1>1, <2>2, TalkStep, HubStays, CloningStays, ActingStays, SamplesRest, NetStays, JobsRest, SearchRests, BacktestRests DEF OfTalk, PInv
  <2>3. CASE OfCloning(Cloning!CloningNext)
    <3>1. CInv /\ AInv /\ Cloning!CloningNext
      BY <1>1, <2>3 DEF OfCloning, PInv
    <3>2. CInv'
      BY <3>1, CloningStep
    <3>3. AInv'
      BY <3>1, <3>2, ActingStep
    <3> QED
      BY <1>1, <2>3, <3>2, <3>3, SamplesStep, HubStays, TalkStays, NetStays, JobsRest, SearchRests, BacktestRests
      DEF OfCloning, PInv
  <2>4. CASE OfNet(Net!ContractNext)
    BY <1>1, <2>4, NetStep, HubStays, TalkStays, CloningStays, ActingStays, SamplesRest, JobsRest, SearchRests, BacktestRests DEF OfNet, PInv
  <2>5. CASE OfJobs(Job!JobsNext)
    BY <1>1, <2>5, JobsStep, HubStays, TalkStays, CloningStays, ActingStays, SamplesRest, NetStays, SearchRests, BacktestRests DEF OfJobs, PInv
  <2>6. CASE OfOptimizer(Optimizer!OptimizerNext)
    BY <1>1, <2>6, SearchStep, HubStays, TalkStays, CloningStays, ActingStays, SamplesRest, NetStays, JobsRest, BacktestRests
    DEF OfOptimizer, PInv
  <2>7. CASE OfBacktest(BacktestNext)
    BY <1>1, <2>7, BacktestStep, HubStays, TalkStays, CloningStays, ActingStays, SamplesRest, NetStays, JobsRest, SearchRests
    DEF OfBacktest, PInv
  <2>8. CASE UNCHANGED all
    <3>1. UNCHANGED <<engine, searches, hubs, nets, talks, clones, jobs>>
      BY <2>8 DEF all
    <3> QED
      BY <1>1, <3>1, HubStays, TalkStays, CloningStays, ActingStays, SamplesRest, NetStays, JobsRest, SearchRests, BacktestRests DEF PInv
  <2> QED
    BY <1>1, <2>1, <2>2, <2>3, <2>4, <2>5, <2>6, <2>7, <2>8 DEF MCNext
<1> QED
  BY <1>1, PlatformBegins, PTL DEF MCSpec

\* The hub of the API server: no registered client misses a broadcast or gets one
\* twice, and it panics only over a client that was too slow (Hub.Run,
\* writePump).  The conversations: no question is asked without itself
\* (CompleteWithConversation).  The tests of clones: the agent that is tested
\* trades, or the verified winner of a test does in its place, except while a
\* swap is under way, after a failed swap that could not tell it to pause
\* (hotswap.go:301-303), and where another test took the successor's name; and no
\* variant outlives its cancelled test (promoteWinner, CancelExperiment).
THEOREM NobodyLost == MCSpec => []NobodyIsLost
<1>1. PInv => NobodyIsLost
  BY PlatformAssumption, TalkShows, CloningShows, ActingShows DEF PInv, HInv, NobodyIsLost
<1> QED
  BY <1>1, PlatformInvariant, PTL

\* The backtest: its books balance, its drawdown is the deepest fall of the equity
\* curve, marks are of the time of the step, and every trade follows a signal of an
\* agent (Engine.Step, executeBuy, executeSell, recordEquityPoint, applyConsensus).
\* The search: what is reported is the best that was tried (Optimize).  The
\* contract net: the best of the bids in time is awarded (selectBestBid).  The
\* jobs: a page has only ones of its user that a worker began (ListJobs).
THEOREM ReportsTrue == MCSpec => []ReportsAreTrue
<1>1. PInv => ReportsAreTrue
  <2> SUFFICES ASSUME PInv PROVE ReportsAreTrue
    OBVIOUS
  <2>1. NInv /\ JInv /\ OInv /\ BInv
    BY DEF PInv
  <2>2. /\ BacktestTypeOK /\ BooksBalance /\ DrawdownIsOfCurve /\ MarksAreOfTheTime
        /\ PositionsFollowEachOther /\ EntriesAreJudged
    BY <2>1, PlatformAssumption, BacktestShows
  <2>3. /\ Optimizer!OptimizerTypeOK /\ Optimizer!GridFindsTheBest
        /\ Optimizer!EliteSurvives
    BY <2>1, PlatformAssumption, SearchShows
  <2>4. Net!ContractTypeOK /\ Net!BestBidWins /\ Net!OnlyLateBidsPanic
    BY <2>1 DEF NInv
  <2>5. Job!JobsTypeOK /\ Job!PagesAreStarted
    BY <2>1, JobsShow DEF JInv
  <2> QED
    BY <2>2, <2>3, <2>4, <2>5 DEF ReportsAreTrue
<1> QED
  BY <1>1, PlatformInvariant, PTL

-----------------------------------------------------------------------------
(* What a step may not do.                                                 *)

\* What a step may never do to a job.
LEMMA JobStays ==
    ASSUME JInv, Job!JobsAssumption, Job!JobsNext, NEW j \in DOMAIN table
    PROVE  /\ j \in DOMAIN table' /\ table'[j].user = table[j].user
           /\ table'[j] # table[j] => answer' = answer
<1>1. ASSUME UNCHANGED table PROVE /\ j \in DOMAIN table' /\ table'[j].user = table[j].user
                                   /\ table'[j] # table[j] => answer' = answer
  BY <1>1
<1>2. ASSUME NEW u \in Users, Job!RunBacktest(u)
      PROVE  j \in DOMAIN table' /\ table'[j] = table[j]
  <2>1. CASE UNCHANGED table
    BY <2>1
  <2>2. CASE jobCount' = jobCount + 1 /\ table' = Job!CreateJob(u, jobCount')
    <3>1. jobCount \in Nat /\ DOMAIN table = 1 .. jobCount
      BY DEF JInv, Job!JobsAssumption
    <3>2. j \in 1 .. jobCount' /\ j # jobCount'
      BY <2>2, <3>1
    <3> QED
      BY <2>2, <3>1, <3>2 DEF Job!CreateJob
  <2> QED
    BY <1>2, <2>1, <2>2 DEF Job!RunBacktest
<1>3. ASSUME NEW i \in 1 .. jobCount, Job!ExecuteBacktestJob(i) \/ Job!SaveResults(i)
      PROVE  j \in DOMAIN table' /\ table'[j].user = table[j].user /\ answer' = answer
  <2>1. table[j] \in Row
    BY DEF JInv
  <2>2. CASE Job!ExecuteBacktestJob(i)
    BY <2>1, <2>2, Zenon DEF Job!ExecuteBacktestJob, Job!UpdateJobStatus, Row
  <2>3. CASE Job!SaveResults(i)
    BY <2>1, <2>3, Zenon DEF Job!SaveResults, Row
  <2> QED
    BY <1>3, <2>2, <2>3
<1>4. ASSUME NEW u \in Users, NEW i \in Job!Ids,
             Job!GetBacktest(u, i) \/ Job!DeleteBacktest(u, i) \/ Job!CancelBacktest(u, i)
      PROVE  UNCHANGED table
  BY <1>4, ByIdKeeps
<1>5. ASSUME NEW u \in Users, NEW limit \in Limits, NEW offset \in 0 .. MaxJobs, Job!ListBacktests(u, limit, offset)
      PROVE  UNCHANGED table
  BY <1>5 DEF Job!ListBacktests
<1> QED
  BY <1>1, <1>2, <1>3, <1>4, <1>5 DEF Job!JobsNext

\* What is trimmed is older than what is kept.
LEMMA TrimsTheOldest ==
    ASSUME NEW s \in Seq(Message), Ascending(s), NEW k \in Nat, NEW i \in DOMAIN s, NEW j \in DOMAIN s, i < j,
           s[i].n \in Talk!Numbers(Talk!Newest(k, s))
    PROVE  s[j].n \in Talk!Numbers(Talk!Newest(k, s))
<1> DEFINE w == Talk!Newest(k, s)
           L == Len(s)
           l == Len(w)
<1>1. L \in Nat /\ DOMAIN s = 1 .. L /\ l \in 0 .. L /\ w \in Seq(Message) /\ \A x \in 1 .. l : w[x] = s[L - l + x]
  BY NewestData
<1>2. DOMAIN w = 1 .. l /\ l \in Nat
  BY <1>1
<1> HIDE DEF w, L
<1>3. PICK x \in 1 .. l : w[x].n = s[i].n
  BY <1>2 DEF Talk!Numbers, w
<1> HIDE DEF l
<1>4. L - l + x \in 1 .. L /\ s[L - l + x].n = s[i].n
  BY <1>1, <1>2, <1>3
<1>5. \A y \in DOMAIN s : s[y].n \in Nat
  <2>1. \A y \in DOMAIN s : s[y] \in Message
    OBVIOUS
  <2> QED
    BY <2>1 DEF Message
<1>6. L - l + x = i
  <2>1. PICK y \in 1 .. L : y = L - l + x /\ s[y].n = s[i].n
    BY <1>4
  <2>2. ~ (y < i) /\ ~ (i < y)
    <3>1. /\ y < i => s[y].n < s[i].n
          /\ i < y => s[i].n < s[y].n
      BY <1>1, Zenon DEF Ascending
    <3>2. s[i].n \in Nat
      BY <1>5
    <3>3. PICK v \in Nat : v = s[i].n
      BY <3>2
    <3>4. ~ (v < v)
      OBVIOUS
    <3> QED
      BY <2>1, <3>1, <3>3, <3>4, Zenon
  <2>3. y \in Int /\ i \in Int
    BY <1>1
  <2>4. y = i
    BY <2>2, <2>3
  <2> QED
    BY <2>1, <2>4
<1>7. j - (L - l) \in 1 .. l /\ L - l + (j - (L - l)) = j
  BY <1>1, <1>2, <1>6
<1>8. w[j - (L - l)] = s[j]
  BY <1>1, <1>7
<1> QED
  BY <1>2, <1>7, <1>8 DEF Talk!Numbers, w

\* From memory m to n: no system message goes, and of the others the oldest go.
Forward(m, n) ==
    /\ Talk!Numbers(m.system) \subseteq Talk!Numbers(n.system)
    /\ \A i, j \in DOMAIN m.others :
          (i < j /\ m.others[i].n \in Talk!Numbers(n.others)) => m.others[j].n \in Talk!Numbers(n.others)

LEMMA ForwardItself == \A m : Forward(m, m)
<1>1. \A s : \A j \in DOMAIN s : s[j].n \in Talk!Numbers(s)
  BY DEF Talk!Numbers
<1> QED
  BY <1>1 DEF Forward

LEMMA AddsForward ==
    ASSUME TInv, Talk!ConversationsAssumption, NEW v \in Talk!Convs, NEW p \in {"system", "others"},
           NEW len \in Lengths \cup {1}, Talk!AddTo(v, p, len), NEW u \in Talk!Convs
    PROVE  Forward(messages[u], messages'[u])
<1> DEFINE m == messages[v]
           g == Grown(m, p, added, len)
           r == IF Len(g.system) + Len(g.others) > MaxMessages THEN Talk!Trim(g) ELSE g
<1>1. /\ added \in Nat /\ messages \in [Talk!Convs -> Memory] /\ messages' = [messages EXCEPT ![v] = r]
  BY DEF Grown, TInv, Talk!AddTo, Talk!ConversationsAssumption
<1>2. m \in Memory /\ Below(m, added) /\ Ascending(m.others)
  BY <1>1, MemoryByParts DEF TInv
<1>3. g \in Memory /\ Ascending(g.others)
  <2> HIDE DEF m
  <2> QED
    BY <1>1, <1>2, GrowKeeps
<1>4. /\ m.system \in Seq(Message) /\ m.others \in Seq(Message) /\ g.system \in Seq(Message)
      /\ g.others \in Seq(Message)
      /\ \A i \in DOMAIN m.system : i \in DOMAIN g.system /\ g.system[i] = m.system[i]
      /\ \A i \in DOMAIN m.others : i \in DOMAIN g.others /\ g.others[i] = m.others[i]
  <2> DEFINE new == [n |-> added + 1, len |-> len]
  <2>1. new \in Message /\ g = [m EXCEPT ![p] = Append(m[p], new)]
    BY <1>1 DEF Message, Grown
  <2>2. g \in Memory /\ m \in Memory
    BY <1>2, <1>3
  <2> HIDE DEF new, m, g
  <2>3. m.system \in Seq(Message) /\ m.others \in Seq(Message) /\ g.system \in Seq(Message)
        /\ g.others \in Seq(Message)
    BY <2>2 DEF Memory
  <2>4. CASE p = "system"
    <3>1. g.system = Append(m.system, new) /\ g.others = m.others
      BY <2>1, <2>2, <2>4 DEF Memory
    <3> QED
      BY <2>1, <2>3, <3>1
  <2>5. CASE p = "others"
    <3>1. g.others = Append(m.others, new) /\ g.system = m.system
      BY <2>1, <2>2, <2>5 DEF Memory
    <3> QED
      BY <2>1, <2>3, <3>1
  <2> QED
    BY <2>4, <2>5
<1> DEFINE room == MaxMessages - Len(g.system)
           k == IF room < 1 THEN 1 ELSE room
<1>5. Talk!Trim(g).system = g.system /\ Talk!Trim(g).others = Talk!Newest(k, g.others) /\ k \in Nat
  <2>1. Talk!Trim(g) = [g EXCEPT !.others = Talk!Newest(k, g.others)]
    BY DEF Talk!Trim
  <2>2. room \in Int
    BY <1>4 DEF Talk!ConversationsAssumption
  <2> HIDE DEF g, room
  <2>3. k \in Nat
    BY <2>2
  <2> QED
    BY <1>3, <2>1, <2>3 DEF Memory
<1> HIDE DEF g, k, room
<1>6. Forward(m, g)
  <2> HIDE DEF m
  <2>1. \A i \in DOMAIN m.others : m.others[i].n \in Talk!Numbers(g.others)
    BY <1>4 DEF Talk!Numbers
  <2>2. Talk!Numbers(m.system) \subseteq Talk!Numbers(g.system)
    BY <1>4 DEF Talk!Numbers
  <2> QED
    BY <2>1, <2>2 DEF Forward
<1>7. Forward(m, Talk!Trim(g))
  <2> HIDE DEF m
  <2>1. Talk!Numbers(m.system) \subseteq Talk!Numbers(g.system)
    BY <1>4 DEF Talk!Numbers
  <2>2. ASSUME NEW i \in DOMAIN m.others, NEW j \in DOMAIN m.others, i < j,
               m.others[i].n \in Talk!Numbers(Talk!Newest(k, g.others))
        PROVE  m.others[j].n \in Talk!Numbers(Talk!Newest(k, g.others))
    <3>1. i \in DOMAIN g.others /\ j \in DOMAIN g.others /\ g.others[i] = m.others[i] /\ g.others[j] = m.others[j]
      BY <1>4
    <3> QED
      BY <1>3, <1>4, <1>5, <2>2, <3>1, TrimsTheOldest
  <2> QED
    BY <1>5, <2>1, <2>2 DEF Forward
<1>8. Forward(m, r)
  BY <1>6, <1>7
<1>9. Forward(messages[u], messages[u])
  BY ForwardItself DEF TInv
<1> HIDE DEF r
<1> QED
  BY <1>1, <1>8, <1>9

\* Every step takes a conversation forward or empties it.
LEMMA TalkForward ==
    ASSUME TInv, Talk!ConversationsAssumption, Talk!Next, NEW v \in Talk!Convs, messages'[v] # Talk!Empty
    PROVE  Forward(messages[v], messages'[v])
<1>1. CASE UNCHANGED messages
  BY <1>1, ForwardItself
<1>2. ASSUME NEW u \in Talk!Convs, Talk!AddSystemMessage(u) PROVE Forward(messages[v], messages'[v])
  BY <1>2, AddsForward DEF Talk!AddSystemMessage
<1>3. ASSUME NEW u \in Talk!Convs, Talk!Clear(u) PROVE Forward(messages[v], messages'[v])
  <2>1. messages' = [messages EXCEPT ![u] = Talk!Empty]
    BY <1>3 DEF Talk!Clear
  <2>2. messages'[v] = messages[v]
    BY <2>1 DEF TInv
  <2> QED
    BY <2>2, ForwardItself
<1>4. ASSUME NEW c \in Callers, NEW len \in Lengths, call[c].op \in {"ask", "wait"},
             Talk!AddTo(call[c].v, "others", len)
      PROVE  Forward(messages[v], messages'[v])
  <2>1. call[c] \in Call
    BY DEF TInv
  <2>2. call[c].v \in Talk!Convs
    BY <1>4, <2>1, CallData
  <2> QED
    BY <1>4, <2>2, AddsForward
<1> QED
  BY <1>1, <1>2, <1>3, <1>4
  DEF Talk!Next, Talk!GetConversation, Talk!CreateConversation, Talk!AddUserMessage, Talk!SendPrompt,
      Talk!AddAssistantMessage, Talk!RemoveConversation

\* What may never happen in a step: that a message goes before an older one of its
\* conversation or a system message before the conversation is cleared
\* (trimMessages), that a request changes hands of a job, deletes one of another
\* user or changes one that has ended (DeleteBacktest, CancelBacktest), and that a
\* control is kept while a variant took less than twice its time (analyzeResults).
THEOREM StepsGoForward ==
    MCSpec => Talk!TrimsOldestFirst /\ Job!RequestsRespectJobs /\ Cloning!KeptOnlyIfTwiceAsSlow
<1> USE PlatformAssumption
<1>1. ASSUME PInv, [MCNext]_all
      PROVE  [\A v \in Talk!Convs :
                 messages'[v] # Talk!Empty =>
                    /\ Talk!Numbers(messages[v].system) \subseteq Talk!Numbers(messages'[v].system)
                    /\ \A i, j \in DOMAIN messages[v].others :
                          (i < j /\ messages[v].others[i].n \in Talk!Numbers(messages'[v].others)) =>
                                messages[v].others[j].n \in Talk!Numbers(messages'[v].others)]_Talk!vars
  <2>1. CASE UNCHANGED talks
    BY <2>1 DEF talks, Talk!vars
  <2>2. CASE Talk!Next
    <3>1. \A v \in Talk!Convs : messages'[v] # Talk!Empty => Forward(messages[v], messages'[v])
      BY <1>1, <2>2, TalkForward DEF PInv
    <3> QED
      BY <3>1 DEF Forward
  <2> QED
    BY <1>1, <2>1, <2>2 DEF MCNext, OfBacktest, OfOptimizer, OfHub, OfNet, OfTalk, OfCloning, OfJobs, all
<1>2. ASSUME PInv, [MCNext]_all
      PROVE  [\A j \in DOMAIN table :
                 IF j \in DOMAIN table'
                 THEN /\ table'[j].user = table[j].user
                      /\ table'[j] # table[j] /\ answer' # answer => table[j].status \in {"pending", "running"}
                 ELSE answer'.request = "delete" /\ answer'.user = table[j].user]_Job!jobs
  <2>1. CASE UNCHANGED jobs
    BY <2>1 DEF jobs, Job!jobs
  <2>2. CASE Job!JobsNext
    BY <1>2, <2>2, JobStays DEF PInv
  <2> QED
    BY <1>2, <2>1, <2>2 DEF MCNext, OfBacktest, OfOptimizer, OfHub, OfNet, OfTalk, OfCloning, OfJobs, all
<1>3. ASSUME PInv, [MCNext]_all
      PROVE  [\A t \in {t1, t2} : test[t].winner = None /\ test'[t].winner = Cloning!Control =>
                 \A n \in Cloning!VariantsOf(t) :
                    Cloning!AverageLatency(metrics[t][n]) >= 2 * Cloning!AverageLatency(metrics[t][Cloning!Control])]_Cloning!cloning
  <2>1. CASE UNCHANGED clones
    BY <2>1 DEF clones, Cloning!cloning
  <2>2. CASE Cloning!CloningNext
    <3>1. CInv /\ SInv
      BY <1>3 DEF PInv
    <3> QED
      BY <2>2, <3>1, KeptForItsSpeed, Zenon DEF Tests
  <2> QED
    BY <1>3, <2>1, <2>2 DEF MCNext, OfBacktest, OfOptimizer, OfHub, OfNet, OfTalk, OfCloning, OfJobs, all
<1> QED
  BY <1>1, <1>2, <1>3, PlatformInvariant, PTL
  DEF MCSpec, Talk!TrimsOldestFirst, Job!RequestsRespectJobs, Cloning!KeptOnlyIfTwiceAsSlow
=============================================================================
