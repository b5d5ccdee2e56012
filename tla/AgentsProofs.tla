------------------------------ MODULE AgentsProofs ------------------------------
(***************************************************************************)
(* Proofs about the process of an agent and the steps of the seven agents, *)
(* for any values of their indicators, prices, books, headlines and        *)
(* limits.                                                                 *)
(***************************************************************************)
EXTENDS MCAgents, TLAPS, FiniteSets, SequenceTheorems, FiniteSetTheorems, WellFoundedInduction, Functions

-----------------------------------------------------------------------------
(* Sums over sets.  The fold of the community modules takes a set in an    *)
(* order of its own; the sums do not depend on it.                         *)

\* A set of natural numbers has a least element.
LEMMA Least ==
    ASSUME NEW N \in SUBSET Nat, N # {}
    PROVE  \E n \in N : \A m \in N : ~ (m < n)
<1>1. \E n \in N : \A m \in N : ~ (<<m, n>> \in OpToRel(<, Nat))
  BY NatLessThanWellFounded, WFMin
<1>2. \A m, n \in Nat : <<m, n>> \in OpToRel(<, Nat) <=> m < n
  BY DEF OpToRel
<1> QED
  BY <1>1, <1>2

Total(w, S) == SumFunctionOnSet(w, S)

\* g adds up w over the subsets of S, in any order.
Additive(g, w, S) ==
    /\ g \in [SUBSET S -> Int]
    /\ g[{}] = 0
    /\ \A T \in SUBSET S : \A x \in S \ T : g[T \cup {x}] = w[x] + g[T]

\* The sum over the set without one element, and that element: the set's.
LEMMA AdditiveGrows ==
    ASSUME NEW T, NEW a \in T, NEW w, \A x \in T : w[x] \in Int, NEW g0, Additive(g0, w, T \ {a})
    PROVE  \E g : Additive(g, w, T)
<1> DEFINE g == [s \in SUBSET T |-> IF a \in s THEN w[a] + g0[s \ {a}] ELSE g0[s]]
<1>1. \A s \in SUBSET (T \ {a}) : g0[s] \in Int
  BY DEF Additive
<1>2. \A s \in SUBSET T : s \ {a} \in SUBSET (T \ {a}) /\ (a \notin s => s \in SUBSET (T \ {a}))
  OBVIOUS
<1>3. g \in [SUBSET T -> Int]
  BY <1>1, <1>2
<1>4. g[{}] = 0
  BY DEF Additive
<1>5. ASSUME NEW s \in SUBSET T, NEW x \in T \ s
      PROVE  g[s \cup {x}] = w[x] + g[s]
  <2>1. s \cup {x} \in SUBSET T
    OBVIOUS
  <2>2. CASE x = a
    <3>1. (s \cup {a}) \ {a} = s
      BY <1>5, <2>2
    <3> QED
      BY <1>5, <2>1, <2>2, <3>1
  <2>3. CASE x # a /\ a \in s
    <3>1. (s \cup {x}) \ {a} = (s \ {a}) \cup {x}
      BY <2>3
    <3>2. g0[(s \ {a}) \cup {x}] = w[x] + g0[s \ {a}] /\ s \ {a} \in SUBSET (T \ {a})
      BY <1>2, <1>5, <2>3 DEF Additive
    <3>3. w[x] \in Int /\ w[a] \in Int /\ g0[s \ {a}] \in Int
      BY <1>1, <1>2
    <3>4. g[s \cup {x}] = w[a] + g0[(s \cup {x}) \ {a}] /\ g[s] = w[a] + g0[s \ {a}]
      BY <2>1, <2>3
    <3>5. w[x] + (w[a] + g0[s \ {a}]) = w[a] + (w[x] + g0[s \ {a}])
      <4>1. \A i, j, k \in Int : i + (j + k) = j + (i + k)
        OBVIOUS
      <4> QED
        BY <3>3, <4>1
    <3> HIDE DEF g
    <3> QED
      BY <3>1, <3>2, <3>4, <3>5
  <2>4. CASE x # a /\ a \notin s
    <3>1. g0[s \cup {x}] = w[x] + g0[s]
      BY <1>2, <1>5, <2>4 DEF Additive
    <3> QED
      BY <2>1, <2>4, <3>1
  <2> QED
    BY <2>2, <2>3, <2>4
<1> QED
  BY <1>3, <1>4, <1>5 DEF Additive

\* A sum over a finite set exists, by induction over its size ...
LEMMA AdditiveExists ==
    ASSUME NEW S, IsFiniteSet(S), NEW w, \A x \in S : w[x] \in Int
    PROVE  \E g : Additive(g, w, S)
<1> DEFINE Bad == {n \in Nat : \E T \in SUBSET S : Cardinality(T) = n /\ ~ \E g : Additive(g, w, T)}
<1> SUFFICES ASSUME ~ \E g : Additive(g, w, S) PROVE FALSE
  OBVIOUS
<1>1. Bad \in SUBSET Nat /\ Bad # {}
  <2>1. Cardinality(S) \in Bad
    BY FS_CardinalityType
  <2> QED
    BY <2>1
<1>2. PICK n \in Bad : \A m \in Bad : ~ (m < n)
  <2> HIDE DEF Bad
  <2> QED
    BY <1>1, Least
<1>3. PICK T \in SUBSET S : Cardinality(T) = n /\ ~ \E g : Additive(g, w, T)
  BY <1>2
<1>4. IsFiniteSet(T)
  BY FS_Subset
<1>5. CASE T = {}
  <2>1. Additive([s \in SUBSET {} |-> 0], w, {})
    BY DEF Additive
  <2> QED
    BY <1>3, <1>5, <2>1
<1>6. CASE T # {}
  <2>1. PICK a : a \in T
    BY <1>6
  <2>2. Cardinality(T \ {a}) = n - 1 /\ n - 1 \in Nat /\ n - 1 < n
    <3>1. Cardinality(T \ {a}) = Cardinality(T) - 1 /\ IsFiniteSet(T \ {a})
      BY <1>4, <2>1, FS_RemoveElement
    <3> QED
      BY <1>3, <3>1, FS_CardinalityType
  <2>3. PICK g0 : Additive(g0, w, T \ {a})
    BY <2>2, <1>2
  <2>4. \A x \in T : w[x] \in Int
    OBVIOUS
  <2> QED
    BY <1>3, <2>1, <2>3, <2>4, AdditiveGrows
<1> QED
  BY <1>5, <1>6

\* The fold of the community modules is that sum.
LEMMA SumIsAdditive ==
    ASSUME NEW S, IsFiniteSet(S), NEW w, NEW g, Additive(g, w, S)
    PROVE  Total(w, S) = g[S]
<1> DEFINE c(s) == CHOOSE x \in s : TRUE
           E(f) == [s \in SUBSET S |-> IF s = {} THEN 0 ELSE w[c(s)] + f[s \ {c(s)}]]
           it == CHOOSE f : f = E(f)
<1>1. Total(w, S) = it[S]
  BY DEF Total, SumFunctionOnSet, FoldFunctionOnSet, MapThenFoldSet
<1>2. \A s \in SUBSET S : s # {} => c(s) \in s /\ (s \ {c(s)}) \cup {c(s)} = s /\ s \ {c(s)} \in SUBSET S
  OBVIOUS
<1>3. g = E(g)
  <2>1. ASSUME NEW s \in SUBSET S, s # {} PROVE g[s] = w[c(s)] + g[s \ {c(s)}]
    <3>1. c(s) \in s /\ (s \ {c(s)}) \cup {c(s)} = s /\ s \ {c(s)} \in SUBSET S /\ c(s) \in S \ (s \ {c(s)})
      BY <1>2, <2>1
    <3> HIDE DEF c
    <3> QED
      BY <3>1 DEF Additive
  <2>2. g = [s \in SUBSET S |-> g[s]] /\ g[{}] = 0
    BY DEF Additive
  <2> HIDE DEF c
  <2> QED
    BY <2>1, <2>2
<1>4. it = E(it)
  BY <1>3
<1> HIDE DEF it, c
<1>5. \A s \in SUBSET S : it[s] = IF s = {} THEN 0 ELSE w[c(s)] + it[s \ {c(s)}]
  BY <1>4
<1>6. \A s \in SUBSET S : g[s] = IF s = {} THEN 0 ELSE w[c(s)] + g[s \ {c(s)}]
  BY <1>3
<1> HIDE DEF E
<1>7. SUFFICES ASSUME it[S] # g[S] PROVE FALSE
  BY <1>1
<1> DEFINE Bad == {n \in Nat : \E s \in SUBSET S : Cardinality(s) = n /\ it[s] # g[s]}
<1>8. Cardinality(S) \in Bad
  BY <1>7, FS_CardinalityType
<1>9. PICK n \in Bad : \A m \in Bad : ~ (m < n)
  <2>1. Bad \in SUBSET Nat /\ Bad # {}
    BY <1>8
  <2> HIDE DEF Bad
  <2> QED
    BY <2>1, Least
<1>10. PICK s \in SUBSET S : Cardinality(s) = n /\ it[s] # g[s]
  BY <1>9
<1>11. s # {}
  BY <1>5, <1>6, <1>10
<1>12. Cardinality(s \ {c(s)}) = n - 1 /\ n - 1 \in Nat /\ n - 1 < n
  <2>1. c(s) \in s /\ IsFiniteSet(s)
    BY <1>2, <1>11, FS_Subset
  <2>2. Cardinality(s \ {c(s)}) = Cardinality(s) - 1 /\ IsFiniteSet(s \ {c(s)})
    BY <2>1, FS_RemoveElement
  <2> QED
    BY <1>10, <2>1, <2>2, FS_CardinalityType
<1>13. it[s \ {c(s)}] = g[s \ {c(s)}]
  BY <1>2, <1>9, <1>11, <1>12
<1> QED
  BY <1>5, <1>6, <1>10, <1>11, <1>13

Outgrows(h, w, S) ==
    /\ h \in [SUBSET S -> Int]
    /\ h[{}] >= 0
    /\ \A T \in SUBSET S : \A x \in S \ T : w[x] + h[T] <= h[T \cup {x}]

\* What grows at least as fast as a sum is never below it.
LEMMA SumBound ==
    ASSUME NEW S, IsFiniteSet(S), NEW w, \A x \in S : w[x] \in Int, NEW h, Outgrows(h, w, S)
    PROVE  Total(w, S) \in Int /\ Total(w, S) <= h[S]
<1>1. PICK g : Additive(g, w, S)
  BY AdditiveExists
<1>2. Total(w, S) = g[S] /\ g[S] \in Int /\ h[S] \in Int
  <2>1. Total(w, S) = g[S]
    BY <1>1, SumIsAdditive
  <2>2. g[S] \in Int /\ h[S] \in Int
    BY <1>1 DEF Additive, Outgrows
  <2> QED
    BY <2>1, <2>2
<1>3. SUFFICES ASSUME ~ (g[S] <= h[S]) PROVE FALSE
  BY <1>2
<1> DEFINE Bad == {n \in Nat : \E s \in SUBSET S : Cardinality(s) = n /\ ~ (g[s] <= h[s])}
<1>4. Cardinality(S) \in Bad
  BY <1>3, FS_CardinalityType
<1>5. PICK n \in Bad : \A m \in Bad : ~ (m < n)
  <2>1. Bad \in SUBSET Nat /\ Bad # {}
    BY <1>4
  <2> HIDE DEF Bad
  <2> QED
    BY <2>1, Least
<1>6. PICK s \in SUBSET S : Cardinality(s) = n /\ ~ (g[s] <= h[s])
  BY <1>5
<1>7. s # {}
  BY <1>1, <1>6 DEF Additive, Outgrows
<1>8. PICK a : a \in s
  BY <1>7
<1> DEFINE r == s \ {a}
<1>9. r \in SUBSET S /\ a \in S \ r /\ r \cup {a} = s
  BY <1>8
<1>10. Cardinality(r) = n - 1 /\ n - 1 \in Nat /\ n - 1 < n
  <2>1. Cardinality(r) = Cardinality(s) - 1 /\ IsFiniteSet(r)
    BY <1>8, FS_RemoveElement, FS_Subset
  <2> QED
    BY <1>6, <2>1, FS_CardinalityType
<1> HIDE DEF r
<1>11. g[r] <= h[r]
  BY <1>5, <1>9, <1>10
<1>12. g[s] = w[a] + g[r] /\ w[a] + h[r] <= h[s]
  BY <1>1, <1>9 DEF Additive, Outgrows
<1>13. g[r] \in Int /\ h[r] \in Int /\ w[a] \in Int /\ h[s] \in Int
  BY <1>1, <1>9 DEF Additive, Outgrows
<1> QED
  BY <1>6, <1>11, <1>12, <1>13

\* A sum of numbers is a number, and that of larger ones is larger.
LEMMA SumAtMost ==
    ASSUME NEW S, IsFiniteSet(S), NEW w, NEW v, \A x \in S : w[x] \in Int /\ v[x] \in Int /\ w[x] <= v[x]
    PROVE  Total(w, S) \in Int /\ Total(v, S) \in Int /\ Total(w, S) <= Total(v, S)
<1>1. PICK h : Additive(h, v, S)
  BY AdditiveExists
<1>2. Total(v, S) = h[S]
  BY <1>1, SumIsAdditive
<1>5. h[S] \in Int
  BY <1>1 DEF Additive
<1>3. h \in [SUBSET S -> Int] /\ h[{}] >= 0
  BY <1>1 DEF Additive
<1>4. ASSUME NEW T \in SUBSET S, NEW x \in S \ T
      PROVE  w[x] + h[T] <= h[T \cup {x}]
  <2>1. h[T \cup {x}] = v[x] + h[T] /\ h[T] \in Int
    BY <1>1 DEF Additive
  <2>2. w[x] \in Int /\ v[x] \in Int /\ w[x] <= v[x]
    OBVIOUS
  <2> QED
    BY <2>1, <2>2
<1>6. Outgrows(h, w, S)
  BY <1>3, <1>4 DEF Outgrows
<1> QED
  BY <1>2, <1>5, <1>6, SumBound

\* Equal summands add up to the same.
LEMMA SumAgree ==
    ASSUME NEW S, IsFiniteSet(S), NEW w, NEW v, \A x \in S : w[x] \in Int /\ v[x] = w[x]
    PROVE  Total(w, S) \in Int /\ Total(v, S) = Total(w, S)
<1>1. PICK g : Additive(g, w, S)
  BY AdditiveExists
<1>2. Additive(g, v, S)
  BY <1>1 DEF Additive
<1>3. Total(w, S) = g[S] /\ Total(v, S) = g[S]
  BY <1>1, <1>2, SumIsAdditive
<1>4. g[S] \in Int
  BY <1>1 DEF Additive
<1> QED
  BY <1>3, <1>4

LEMMA SumOfNothing ==
    ASSUME NEW S, IsFiniteSet(S), NEW w, \A x \in S : w[x] = 0
    PROVE  Total(w, S) = 0
<1> DEFINE g == [T \in SUBSET S |-> 0]
<1>1. Additive(g, w, S) /\ g[S] = 0
  BY DEF Additive
<1> QED
  BY <1>1, SumIsAdditive

LEMMA SumNat ==
    ASSUME NEW S, IsFiniteSet(S), NEW w, \A x \in S : w[x] \in Nat
    PROVE  Total(w, S) \in Nat
<1> DEFINE v == [x \in S |-> 0]
<1>1. \A x \in S : v[x] = 0
  OBVIOUS
<1>2. Total(v, S) = 0
  BY <1>1, SumOfNothing
<1> HIDE DEF v
<1>3. \A x \in S : v[x] \in Int /\ w[x] \in Int /\ v[x] <= w[x]
  BY <1>1
<1> QED
  BY <1>2, <1>3, SumAtMost

LEMMA SumScale ==
    ASSUME NEW S, IsFiniteSet(S), NEW w, NEW v, NEW k \in Int, \A x \in S : w[x] \in Int /\ v[x] = w[x] * k
    PROVE  Total(w, S) \in Int /\ Total(v, S) = Total(w, S) * k
<1>1. PICK g : Additive(g, w, S)
  BY AdditiveExists
<1> DEFINE h == [T \in SUBSET S |-> g[T] * k]
<1>2. \A T \in SUBSET S : g[T] \in Int
  BY <1>1 DEF Additive
<1>3. h \in [SUBSET S -> Int]
  <2>1. \A i \in Int : i * k \in Int
    OBVIOUS
  <2> QED
    BY <1>2, <2>1
<1>4. h[{}] = 0
  <2>1. g[{}] = 0 /\ 0 * k = 0
    BY <1>1 DEF Additive
  <2> QED
    BY <2>1
<1>5. ASSUME NEW T \in SUBSET S, NEW x \in S \ T
      PROVE  h[T \cup {x}] = v[x] + h[T]
  <2>1. g[T \cup {x}] = w[x] + g[T] /\ T \cup {x} \in SUBSET S
    BY <1>1 DEF Additive
  <2>2. PICK i \in Int, j \in Int : i = w[x] /\ j = g[T]
    BY <1>2
  <2>3. (i + j) * k = i * k + j * k
    OBVIOUS
  <2> QED
    BY <2>1, <2>2, <2>3
<1> HIDE DEF h
<1>6. Additive(h, v, S)
  BY <1>3, <1>4, <1>5 DEF Additive
<1> QED
  BY <1>1, <1>2, <1>6, SumIsAdditive DEF h

\* As many summands of at most k.
LEMMA SumOfAtMost ==
    ASSUME NEW S, IsFiniteSet(S), NEW w, NEW k \in Int, \A x \in S : w[x] \in Int /\ w[x] <= k
    PROVE  Total(w, S) \in Int /\ Total(w, S) <= Cardinality(S) * k
<1> DEFINE h == [T \in SUBSET S |-> Cardinality(T) * k]
<1>1. \A T \in SUBSET S : IsFiniteSet(T) /\ Cardinality(T) \in Nat
  BY FS_Subset, FS_CardinalityType
<1>2. h \in [SUBSET S -> Int]
  <2>1. \A i \in Nat : i * k \in Int
    OBVIOUS
  <2> QED
    BY <1>1, <2>1
<1>3. h[{}] >= 0
  <2>1. Cardinality({}) = 0 /\ 0 * k = 0
    BY FS_EmptySet
  <2> QED
    BY <2>1
<1>4. ASSUME NEW T \in SUBSET S, NEW x \in S \ T
      PROVE  w[x] + h[T] <= h[T \cup {x}]
  <2>1. Cardinality(T \cup {x}) = Cardinality(T) + 1 /\ T \cup {x} \in SUBSET S
    BY <1>1, FS_AddElement
  <2>2. PICK n \in Nat : n = Cardinality(T)
    BY <1>1
  <2>3. (n + 1) * k = n * k + k /\ n * k \in Int
    OBVIOUS
  <2>4. w[x] \in Int /\ w[x] <= k
    OBVIOUS
  <2> QED
    BY <2>1, <2>2, <2>3, <2>4
<1>5. h[S] = Cardinality(S) * k
  OBVIOUS
<1> HIDE DEF h
<1>6. Outgrows(h, w, S)
  BY <1>2, <1>3, <1>4 DEF Outgrows
<1> QED
  BY <1>5, <1>6, SumBound

\* What is left out takes away.
LEMMA SumOfPart ==
    ASSUME NEW S, IsFiniteSet(S), NEW P \in SUBSET S, NEW w, \A x \in S : w[x] \in Int,
           \A x \in S \ P : w[x] <= 0
    PROVE  Total(w, S) \in Int /\ Total(w, P) \in Int /\ Total(w, S) <= Total(w, P)
<1>0. IsFiniteSet(P) /\ \A x \in P : w[x] \in Int
  BY FS_Subset
<1>1. PICK g : Additive(g, w, P)
  BY <1>0, AdditiveExists
<1>2. Total(w, P) = g[P] /\ g[P] \in Int
  <2>1. Total(w, P) = g[P]
    BY <1>0, <1>1, SumIsAdditive
  <2>2. g[P] \in Int
    BY <1>1 DEF Additive
  <2> QED
    BY <2>1, <2>2
<1> DEFINE h == [T \in SUBSET S |-> g[T \cap P]]
<1>3. h \in [SUBSET S -> Int]
  BY <1>1 DEF Additive
<1>4. h[{}] >= 0
  <2>1. {} \cap P = {}
    OBVIOUS
  <2> QED
    BY <1>1, <2>1 DEF Additive
<1>5. ASSUME NEW T \in SUBSET S, NEW x \in S \ T
      PROVE  w[x] + h[T] <= h[T \cup {x}]
  <2>0. T \cup {x} \in SUBSET S /\ w[x] \in Int /\ T \cap P \in SUBSET P
    OBVIOUS
  <2>3. g[T \cap P] \in Int
    BY <1>1, <2>0 DEF Additive
  <2>4. h[T] = g[T \cap P] /\ h[T \cup {x}] = g[(T \cup {x}) \cap P]
    BY <2>0
  <2> HIDE DEF h
  <2>1. CASE x \in P
    <3>1. (T \cup {x}) \cap P = (T \cap P) \cup {x} /\ x \in P \ (T \cap P)
      BY <1>5, <2>1
    <3>3. h[T \cup {x}] = g[(T \cap P) \cup {x}]
      BY <2>4, <3>1
    <3>4. w[x] \in Int /\ g[T \cap P] \in Int
      BY <2>0, <2>3
    <3>2. g[(T \cap P) \cup {x}] = w[x] + g[T \cap P]
      BY <1>1, <2>0, <3>1 DEF Additive
    <3> QED
      BY <2>4, <3>2, <3>3, <3>4
  <2>2. CASE x \notin P
    <3>1. (T \cup {x}) \cap P = T \cap P /\ w[x] <= 0
      BY <2>2
    <3>2. h[T \cup {x}] = h[T]
      BY <2>4, <3>1
    <3> QED
      BY <2>0, <2>3, <2>4, <3>1, <3>2
  <2> QED
    BY <2>1, <2>2
<1>6. h[S] = g[P]
  <2>1. S \cap P = P
    OBVIOUS
  <2> QED
    BY <2>1
<1> HIDE DEF h
<1>7. Outgrows(h, w, S)
  BY <1>3, <1>4, <1>5 DEF Outgrows
<1> QED
  BY <1>2, <1>6, <1>7, SumBound

-----------------------------------------------------------------------------
(* The process of an agent.                                                *)

Events == {"trading_paused", "trading_resumed"}

\* A subscribed agent has the last event still on its way, or follows it; before
\* it subscribes there is none.
Following ==
    /\ proc \in {"new", "initialized"} => ~ subscribed /\ ~ paused /\ last = "none"
    /\ ~ subscribed => bus = <<>>
    /\ subscribed /\ bus # <<>> => last = bus[Len(bus)]

\* Only the arbitrage agent takes steps, and its main goes on once Run is over.  A
\* step that began after the signal has no answers; when a signal was published
\* after it, every later step is of that kind.
Finishing ==
    /\ loop = "stepping" => kind = "own"
    /\ kind = "own" /\ proc \in {"quiet", "down"} => loop = "ended"
    /\ loop = "stepping" /\ doomed => calls = "failed"
    /\ late # 0 => cancelled /\ (loop = "stepping" => doomed)

PInv == AgentTypeOK /\ FollowsControl /\ LastStepIsWhole /\ Following /\ Finishing

LEMMA ProcessBegins == ASSUME BaseAgentAssumption, AgentInit PROVE PInv
<1>1. <<>> \in Seq({"trading_paused", "trading_resumed"})
  OBVIOUS
<1>2. AgentTypeOK
  <2>1. subscribed \in BOOLEAN /\ paused \in BOOLEAN /\ cancelled \in BOOLEAN
    BY DEF AgentInit
  <2>2. bus \in Seq({"trading_paused", "trading_resumed"}) /\ sessions \subseteq 1 .. Servers
    BY <1>1 DEF AgentInit
  <2>3. /\ control \in 0 .. MaxControl /\ ticks \in 0 .. MaxTicks /\ late \in Nat
        /\ open \in 0 .. Fetches
    BY DEF AgentInit, BaseAgentAssumption
  <2>4. /\ proc = "new" /\ loop = "off" /\ beat = "off" /\ stopChan = "open" /\ calls = "failed"
        /\ doomed \in BOOLEAN
        /\ kind \in {"trend", "own"} /\ last = "none" /\ sent = "nothing"
    BY DEF AgentInit
  <2> QED
    BY <2>1, <2>2, <2>3, <2>4 DEF AgentTypeOK
<1>3. FollowsControl /\ LastStepIsWhole /\ Following /\ Finishing
  BY DEF AgentInit, FollowsControl, LastStepIsWhole, Following, Finishing
<1> QED
  BY <1>2, <1>3 DEF PInv

LEMMA GoingUpKeeps ==
    ASSUME BaseAgentAssumption, PInv, Initialize \/ SetupControlSubscription \/ Main
    PROVE  PInv'
<1> USE DEF PInv, AgentTypeOK, FollowsControl, LastStepIsWhole, Following, Finishing, BaseAgentAssumption
<1>1. CASE Initialize
  <2>1. sessions' \subseteq 1 .. Servers
    <3>1. ASSUME NEW n \in 0 .. IF kind = "own" THEN Servers ELSE Servers - 1 PROVE 1 .. n \subseteq 1 .. Servers
      OBVIOUS
    <3> QED
      BY <1>1, <3>1 DEF Initialize, ConnectMCPServers
  <2>2. proc' \in {"initialized", "exited"} /\ proc = "new"
    BY <1>1 DEF Initialize, ConnectMCPServers
  <2> QED
    BY <1>1, <2>1, <2>2 DEF Initialize, step
<1>2. CASE SetupControlSubscription
  <2>1. subscribed' \in BOOLEAN
    BY <1>2 DEF SetupControlSubscription, step
  <2>2. ~ subscribed /\ ~ paused /\ last = "none" /\ bus = <<>>
    BY <1>2 DEF SetupControlSubscription, step
  <2>3. AgentTypeOK'
    BY <1>2, <2>1 DEF SetupControlSubscription, step
  <2>4. FollowsControl' /\ Following'
    BY <1>2, <2>2 DEF SetupControlSubscription, step
  <2>5. Finishing' /\ LastStepIsWhole'
    BY <1>2 DEF SetupControlSubscription, step
  <2> QED
    BY <2>3, <2>4, <2>5
<1>3. CASE Main
  BY <1>3 DEF Main, step
<1> QED
  BY <1>1, <1>2, <1>3

LEMMA PublishKeeps == ASSUME BaseAgentAssumption, PInv, PublishControl PROVE PInv'
<1>1. PICK e \in Events : IF subscribed THEN bus' = Append(bus, e) /\ last' = e ELSE UNCHANGED <<bus, last>>
  BY DEF PublishControl, Events
<1>2. control' \in 0 .. MaxControl
  BY DEF PublishControl, PInv, AgentTypeOK, BaseAgentAssumption
<1>3. bus \in Seq(Events) /\ AgentTypeOK /\ last \in {"none"} \cup Events
  BY DEF PInv, AgentTypeOK, Events
<1>4. bus' \in Seq(Events) /\ last' \in {"none"} \cup Events
  <2>1. Append(bus, e) \in Seq(Events)
    BY <1>3
  <2> QED
    BY <1>1, <1>3, <2>1
<1>5. AgentTypeOK'
  BY <1>2, <1>3, <1>4 DEF PublishControl, step, AgentTypeOK, Events
<1>6. ~ subscribed => bus' = <<>> /\ last' = last
  BY <1>1 DEF PInv, Following
<1>7. subscribed => bus' # <<>> /\ last' = bus'[Len(bus')]
  BY <1>1, <1>3
<1>8. Following'
  BY <1>6, <1>7 DEF PublishControl, step, PInv, Following
<1>9. FollowsControl' /\ Finishing' /\ LastStepIsWhole'
  BY <1>6, <1>7 DEF PublishControl, step, PInv, FollowsControl, Finishing, LastStepIsWhole
<1> QED
  BY <1>5, <1>8, <1>9 DEF PInv

LEMMA HandleControlKeeps == ASSUME BaseAgentAssumption, PInv, HandleControlEvent PROVE PInv'
<1>1. bus \in Seq(Events) /\ bus # <<>> /\ bus' = Tail(bus) /\ AgentTypeOK
  BY DEF HandleControlEvent, PInv, AgentTypeOK, Events
<1>2. bus' \in Seq(Events) /\ Head(bus) = bus[1] /\ Len(bus) \in Nat \ {0} /\ Len(bus') = Len(bus) - 1
  <2>1. Head(bus) = bus[1] /\ Len(bus) \in Nat \ {0}
    BY <1>1
  <2>2. Tail(bus) \in Seq(Events) /\ Len(Tail(bus)) = Len(bus) - 1
    BY <1>1, HeadTailProperties
  <2> QED
    BY <1>1, <2>1, <2>2
<1>3. bus' # <<>> => bus'[Len(bus')] = bus[Len(bus)]
  <2>1. \A i \in 1 .. Len(Tail(bus)) : Tail(bus)[i] = bus[i + 1]
    BY <1>1
  <2>2. Len(Tail(bus)) = 0 => Tail(bus) = <<>>
    BY <1>1, EmptySeq, HeadTailProperties
  <2>3. Len(Tail(bus)) = Len(bus) - 1 /\ Len(bus) \in Nat
    BY <1>1, <1>2
  <2>4. Tail(bus) # <<>> => Tail(bus)[Len(bus) - 1] = bus[(Len(bus) - 1) + 1]
    <3>1. Tail(bus) # <<>> => Len(bus) - 1 \in 1 .. Len(Tail(bus))
      BY <2>2, <2>3
    <3> QED
      BY <2>1, <3>1
  <2>5. (Len(bus) - 1) + 1 = Len(bus)
    BY <2>3
  <2>6. Tail(bus) # <<>> => Tail(bus)[Len(Tail(bus))] = bus[Len(bus)]
    BY <2>3, <2>4, <2>5
  <2> DEFINE rest == Tail(bus)
  <2>7. rest # <<>> => rest[Len(rest)] = bus[Len(bus)]
    BY <2>6
  <2>8. bus' = rest
    BY <1>1
  <2> HIDE DEF rest
  <2> QED
    BY <2>7, <2>8
<1>4. bus' = <<>> => Head(bus) = bus[Len(bus)]
  <2>1. Len(<<>>) = 0
    OBVIOUS
  <2>2. bus' = <<>> => Len(bus') = 0
    BY <2>1, Zenon
  <2>3. bus' = <<>> => Len(bus) = 1
    BY <1>2, <2>2
  <2> QED
    BY <1>2, <2>3
<1>5. subscribed /\ last = bus[Len(bus)]
  BY <1>1 DEF PInv, Following
<1>6. paused' = (bus[1] = "trading_paused")
  BY <1>2 DEF HandleControlEvent
<1>7. AgentTypeOK'
  BY <1>1, <1>2, <1>6 DEF HandleControlEvent, step, AgentTypeOK, Events
<1>8. Following'
  BY <1>3, <1>5 DEF HandleControlEvent, step, PInv, Following
<1>9. FollowsControl' /\ Finishing' /\ LastStepIsWhole'
  BY <1>2, <1>4, <1>5, <1>6 DEF HandleControlEvent, step, PInv, FollowsControl, Finishing, LastStepIsWhole
<1> QED
  BY <1>7, <1>8, <1>9 DEF PInv

LEMMA RunKeeps ==
    ASSUME BaseAgentAssumption, PInv,
           StepOfBaseAgent \/ StepOfTheAgent \/ CallMCPTool \/ StepEnds \/ RunEnds
    PROVE  PInv'
<1> USE DEF PInv, AgentTypeOK, FollowsControl, LastStepIsWhole, Following, Finishing, BaseAgentAssumption
<1>1. CASE StepOfBaseAgent
  BY <1>1 DEF StepOfBaseAgent, process, step
<1>2. CASE StepOfTheAgent
  BY <1>2 DEF StepOfTheAgent, process
<1>3. CASE CallMCPTool
  <2>1. calls' \in {"failed", "answered"} /\ (doomed => calls' = "failed")
    BY <1>3 DEF CallMCPTool
  <2>2. open' \in 0 .. Fetches
    BY <1>3 DEF CallMCPTool
  <2> QED
    BY <1>3, <2>1, <2>2 DEF CallMCPTool, process
<1>4. CASE StepEnds
  <2>1. kind = "own" /\ proc \notin {"quiet", "down"} /\ loop' = "waiting"
    BY <1>4 DEF StepEnds
  <2>2. sent' \in {"nothing", "published"} /\ (sent' = "published" => ~ doomed)
    BY <1>4, <2>1 DEF StepEnds
  <2>3. late' \in Nat /\ late' <= 1 /\ (late' # 0 => cancelled)
    <3>1. sent' = "published" => late = 0
      BY <1>4, <2>2 DEF StepEnds
    <3> QED
      BY <1>4, <3>1 DEF StepEnds
  <2> QED
    BY <1>4, <2>1, <2>2, <2>3 DEF StepEnds, process
<1>5. CASE RunEnds
  BY <1>5 DEF RunEnds, process, step
<1> QED
  BY <1>1, <1>2, <1>3, <1>4, <1>5

LEMMA GoingDownKeeps ==
    ASSUME BaseAgentAssumption, PInv, Signal \/ HeartbeatStop \/ BeatEnds \/ Shutdown
    PROVE  PInv'
<1> USE DEF PInv, AgentTypeOK, FollowsControl, LastStepIsWhole, Following, Finishing, BaseAgentAssumption
<1>1. CASE Signal
  <2>1. proc' = proc \/ proc' = "signalled"
    BY <1>1 DEF Signal
  <2>2. cancelled' \in BOOLEAN /\ (cancelled => cancelled')
    BY <1>1 DEF Signal
  <2>3. proc' \in {"new", "initialized"} => proc \in {"new", "initialized"}
    BY <2>1
  <2>4. proc' \in {"quiet", "down"} => proc \in {"quiet", "down"}
    BY <2>1
  <2>5. AgentTypeOK'
    BY <1>1, <2>1, <2>2 DEF Signal, step
  <2>6. FollowsControl' /\ Following' /\ LastStepIsWhole'
    BY <1>1, <2>3 DEF Signal, step
  <2>7. Finishing'
    BY <1>1, <2>2, <2>4 DEF Signal, step
  <2> QED
    BY <2>5, <2>6, <2>7
<1>2. CASE HeartbeatStop
  BY <1>2 DEF HeartbeatStop, step
<1>3. CASE BeatEnds
  BY <1>3 DEF BeatEnds, step
<1>4. CASE Shutdown
  <2>1. <<>> \in Seq({"trading_paused", "trading_resumed"})
    OBVIOUS
  <2>2. AgentTypeOK'
    <3>1. bus' \in Seq({"trading_paused", "trading_resumed"}) /\ sessions' \subseteq 1 .. Servers
      BY <1>4, <2>1 DEF Shutdown, step
    <3>2. proc' = "down" /\ subscribed' \in BOOLEAN /\ paused' \in BOOLEAN /\ cancelled' \in BOOLEAN
      BY <1>4 DEF Shutdown, step
    <3>3. control' \in 0 .. MaxControl /\ ticks' \in 0 .. MaxTicks /\ late' \in Nat /\ open' \in 0 .. Fetches
      BY <1>4 DEF Shutdown, step
    <3>4. /\ loop' \in {"off", "waiting", "stepping", "ended"}
          /\ beat' \in {"off", "on", "ended"} /\ stopChan' \in {"open", "closed"}
          /\ calls' \in {"failed", "answered"} /\ sent' \in {"nothing", "published", "lost"}
          /\ doomed' \in BOOLEAN
          /\ kind' \in {"trend", "own"} /\ last' \in {"none", "trading_paused", "trading_resumed"}
      BY <1>4 DEF Shutdown, step
    <3> QED
      BY <3>1, <3>2, <3>3, <3>4, Zenon
  <2>3. FollowsControl' /\ Following'
    BY <1>4 DEF Shutdown, step
  <2>4. Finishing' /\ LastStepIsWhole'
    BY <1>4 DEF Shutdown, step
  <2> QED
    BY <2>2, <2>3, <2>4
<1> QED
  BY <1>1, <1>2, <1>3, <1>4

LEMMA ProcessStep == ASSUME BaseAgentAssumption, PInv, AgentNext \/ UNCHANGED agent PROVE PInv'
<1>1. CASE UNCHANGED agent
  BY <1>1 DEF agent, PInv, AgentTypeOK, FollowsControl, LastStepIsWhole, Following, Finishing
<1> QED
  BY <1>1, GoingUpKeeps, PublishKeeps, HandleControlKeeps, RunKeeps, GoingDownKeeps DEF AgentNext

-----------------------------------------------------------------------------
(* The trend agent.                                                        *)

\* The signal made last is the last signal, and on its side one extreme is the
\* best of the prices it was made at since.
TrendRun ==
    /\ lastSignal = "none" => trendSignal.side = "HOLD"
    /\ lastSignal # "none" => trendSignal.side = lastSignal
    /\ lastSignal = "BUY" =>
          /\ highestPrice \in runPrices /\ \A p \in runPrices : p <= highestPrice
          /\ trendSignal.trail = highestPrice * (100 - TrailingStopPct)
    /\ lastSignal = "SELL" =>
          /\ lowestPrice \in runPrices /\ \A p \in runPrices : p >= lowestPrice
          /\ trendSignal.trail = lowestPrice * (100 + TrailingStopPct)

\* A step looks at a price of the symbol, and it began while not paused.
TrendSteps ==
    /\ trendStep # Trend!Idle => trendStep.price \in Prices /\ trendStep.ind \in Trend!Indicators
    /\ pausedAt = FALSE

TrendInv ==
    /\ Trend!TrendTypeOK /\ TrendRun /\ TrendSteps
    /\ Trend!NeverTradesBelowRatio

LEMMA TrendBegins == ASSUME Trend!TrendAssumption, Trend!TrendInit PROVE TrendInv
<1> USE DEF Trend!TrendInit, Trend!Idle, Trend!Sides, Trend!NoSignal
<1>1. Trend!TrendTypeOK
  <2>1. trendPaused \in BOOLEAN
    BY Zenon
  <2>2. trendSteps \in 0 .. MaxTrendSteps /\ runPrices \subseteq Prices
    BY DEF Trend!TrendAssumption
  <2> QED
    BY <2>1, <2>2 DEF Trend!TrendTypeOK
<1>2. TrendRun /\ Trend!NeverTradesBelowRatio
  BY DEF TrendRun, Trend!NeverTradesBelowRatio
<1>3. TrendSteps
  BY DEF TrendSteps
<1> QED
  BY <1>1, <1>2, <1>3 DEF TrendInv

LEMMA ExtremeIsUnique ==
    ASSUME NEW S, S \subseteq Nat, NEW x \in S
    PROVE  /\ (\A p \in S : p <= x) => Trend!Maximum(S) = x
           /\ (\A p \in S : p >= x) => Trend!Minimum(S) = x
<1>1. ASSUME \A p \in S : p <= x
      PROVE  Trend!Maximum(S) = x
  <2>1. Trend!Maximum(S) \in S /\ \A y \in S : y <= Trend!Maximum(S)
    BY <1>1 DEF Trend!Maximum
  <2>2. Trend!Maximum(S) <= x /\ x <= Trend!Maximum(S) /\ x \in Nat /\ Trend!Maximum(S) \in Nat
    BY <1>1, <2>1
  <2> QED
    BY <2>2
<1>2. ASSUME \A p \in S : p >= x
      PROVE  Trend!Minimum(S) = x
  <2>1. Trend!Minimum(S) \in S /\ \A y \in S : y >= Trend!Minimum(S)
    BY <1>2 DEF Trend!Minimum
  <2>2. Trend!Minimum(S) >= x /\ x >= Trend!Minimum(S) /\ x \in Nat /\ Trend!Minimum(S) \in Nat
    BY <1>2, <2>1
  <2> QED
    BY <2>2
<1> QED
  BY <1>1, <1>2

LEMMA TrendShows ==
    ASSUME Trend!TrendAssumption, TrendInv
    PROVE  Trend!TrailsTheBestPrice /\ Trend!PausedIsSilent
<1>1. runPrices \subseteq Nat
  BY DEF TrendInv, Trend!TrendTypeOK, Trend!TrendAssumption
<1>2. ASSUME trendSignal.side = "BUY"
      PROVE  trendSignal.trail = Trend!Maximum(runPrices) * (100 - TrailingStopPct)
  <2>1. lastSignal = "BUY"
    BY <1>2 DEF TrendInv, TrendRun
  <2>2. Trend!Maximum(runPrices) = highestPrice
    BY <1>1, <2>1, ExtremeIsUnique DEF TrendInv, TrendRun
  <2> QED
    BY <2>1, <2>2 DEF TrendInv, TrendRun
<1>3. ASSUME trendSignal.side = "SELL"
      PROVE  trendSignal.trail = Trend!Minimum(runPrices) * (100 + TrailingStopPct)
  <2>1. lastSignal = "SELL"
    BY <1>3 DEF TrendInv, TrendRun
  <2>2. Trend!Minimum(runPrices) = lowestPrice
    BY <1>1, <2>1, ExtremeIsUnique DEF TrendInv, TrendRun
  <2> QED
    BY <2>1, <2>2 DEF TrendInv, TrendRun
<1>4. Trend!PausedIsSilent
  BY DEF Trend!PausedIsSilent, TrendInv, TrendSteps
<1> QED
  BY <1>2, <1>3, <1>4 DEF Trend!TrailsTheBestPrice

\* What a side risks and promises is its percentages of the price.
LEMMA RatioOfPercentages ==
    ASSUME Trend!TrendAssumption, takeProfitPct \in Nat, NEW p \in Nat \ {0}, NEW side,
           takeProfitPct * 10 < StopLossPct * RiskRewardTimes10
    PROVE  \A passes \in Trend!RiskRewardPasses(p, side) : ~ passes
<1> DEFINE risk == Trend!Abs(p * 100 - Trend!CalculateStopLoss(p, side))
           reward == Trend!Abs(Trend!CalculateTakeProfit(p, side) - p * 100)
<1>1. risk = p * StopLossPct
  BY DEF Trend!Abs, Trend!CalculateStopLoss, Trend!TrendAssumption
<1>2. reward = p * takeProfitPct
  BY DEF Trend!Abs, Trend!CalculateTakeProfit, Trend!TrendAssumption
<1>3. p * (takeProfitPct * 10) < p * (StopLossPct * RiskRewardTimes10)
  BY DEF Trend!TrendAssumption
<1>4. reward * 10 = p * (takeProfitPct * 10) /\ risk * RiskRewardTimes10 = p * (StopLossPct * RiskRewardTimes10)
  BY <1>1, <1>2 DEF Trend!TrendAssumption
<1>5. StopLossPct # 0
  BY DEF Trend!TrendAssumption
<1>6. risk # 0
  BY <1>1, <1>5 DEF Trend!TrendAssumption
<1>7. /\ p * (takeProfitPct * 10) \in Int /\ p * (StopLossPct * RiskRewardTimes10) \in Int
  BY DEF Trend!TrendAssumption
<1> HIDE DEF risk, reward
<1>8. /\ reward * 10 # risk * RiskRewardTimes10 /\ ~ (reward * 10 > risk * RiskRewardTimes10)
  BY <1>3, <1>4, <1>7
<1>9. Trend!RiskRewardPasses(p, side)
        = IF risk = 0 THEN {RiskRewardTimes10 <= 0}
          ELSE IF reward * 10 = risk * RiskRewardTimes10 THEN BOOLEAN
          ELSE {reward * 10 > risk * RiskRewardTimes10}
  BY Zenon DEF Trend!RiskRewardPasses, risk, reward
<1>10. Trend!RiskRewardPasses(p, side) = {reward * 10 > risk * RiskRewardTimes10}
  BY <1>6, <1>8, <1>9, Zenon
<1> QED
  BY <1>8, <1>10, Zenon

LEMMA TrendSignals == ASSUME Trend!TrendAssumption, TrendInv, Trend!StepSignals PROVE TrendInv'
<1> DEFINE price == trendStep.price
<1>1. PICK reply \in Trend!Sides \cup {"unanswered"} :
        \E passes \in Trend!RiskRewardPasses(price, Trend!ByModel(trendStep.ind, reply)) :
           LET side == Trend!Guarded(Trend!ByModel(trendStep.ind, reply), passes)
               stops == Trend!UpdateTrailingStop(price, side)
           IN  /\ highestPrice' = stops.high /\ lowestPrice' = stops.low
               /\ trendSignal' = [side |-> side, price |-> price, trail |-> stops.trail, while |-> trendPaused]
               /\ lastSignal' = side
               /\ runPrices' = IF side = lastSignal THEN runPrices \cup {price} ELSE {price}
  BY Zenon DEF Trend!StepSignals
<1> DEFINE wanted == Trend!ByModel(trendStep.ind, reply)
<1>2. PICK passes \in Trend!RiskRewardPasses(price, wanted) :
           LET side == Trend!Guarded(wanted, passes)
               stops == Trend!UpdateTrailingStop(price, side)
           IN  /\ highestPrice' = stops.high /\ lowestPrice' = stops.low
               /\ trendSignal' = [side |-> side, price |-> price, trail |-> stops.trail, while |-> trendPaused]
               /\ lastSignal' = side
               /\ runPrices' = IF side = lastSignal THEN runPrices \cup {price} ELSE {price}
  BY <1>1, Zenon
<1>3. PICK p \in Prices : p = price
  BY DEF TrendInv, TrendSteps, Trend!StepSignals
<1>4. p \in Nat \ {0} /\ takeProfitPct \in Nat
  BY DEF TrendInv, Trend!TrendTypeOK, Trend!TrendAssumption
<1>5. wanted \in Trend!Sides
  BY DEF Trend!ByModel, Trend!ByRules, Trend!Sides
<1>6. PICK side \in Trend!Sides : side = Trend!Guarded(wanted, passes)
  BY <1>5 DEF Trend!Guarded, Trend!Sides
<1>7. takeProfitPct * 10 < StopLossPct * RiskRewardTimes10 => side = "HOLD"
  <2>1. ASSUME takeProfitPct * 10 < StopLossPct * RiskRewardTimes10
        PROVE  ~ passes
    BY <1>2, <1>3, <1>4, <2>1, RatioOfPercentages
  <2> QED
    BY <1>6, <2>1 DEF Trend!Guarded
<1> DEFINE stops == Trend!UpdateTrailingStop(p, side)
<1>8. /\ highestPrice' = stops.high /\ lowestPrice' = stops.low
      /\ trendSignal' = [side |-> side, price |-> p, trail |-> stops.trail, while |-> trendPaused]
      /\ lastSignal' = side
      /\ runPrices' = IF side = lastSignal THEN runPrices \cup {p} ELSE {p}
  BY <1>2, <1>3, <1>6, Zenon
<1>9. trendSignal'.side = side /\ trendSignal'.trail = stops.trail
  BY <1>8
<1>10. /\ highestPrice \in Prices \cup {0} /\ lowestPrice \in Prices \cup {0}
       /\ runPrices \subseteq Prices /\ Prices \subseteq Nat \ {0}
  BY DEF TrendInv, Trend!TrendTypeOK, Trend!TrendAssumption
<1>11. side = "BUY" => /\ stops.high = IF side = lastSignal /\ ~ p > highestPrice THEN highestPrice ELSE p
                       /\ stops.trail = stops.high * (100 - TrailingStopPct)
                       /\ stops.low \in Prices \cup {0}
  BY <1>4, <1>10 DEF Trend!UpdateTrailingStop
<1>12. side = "SELL" => /\ stops.low = IF side = lastSignal /\ lowestPrice # 0 /\ ~ p < lowestPrice THEN lowestPrice ELSE p
                        /\ stops.trail = stops.low * (100 + TrailingStopPct)
                        /\ stops.high \in Prices \cup {0}
  BY <1>4, <1>10 DEF Trend!UpdateTrailingStop
<1>13. side = "HOLD" => stops.high = highestPrice /\ stops.low = lowestPrice
  BY DEF Trend!UpdateTrailingStop
<1> HIDE DEF price, wanted, stops
<1>14. TrendRun'
  <2>1. lastSignal' = side /\ side # "none" /\ trendSignal'.side = side
    BY <1>6, <1>8, <1>9 DEF Trend!Sides
  <2>2. CASE side = "BUY"
    <3>1. /\ highestPrice' \in runPrices' /\ \A q \in runPrices' : q <= highestPrice'
          /\ trendSignal'.trail = highestPrice' * (100 - TrailingStopPct)
      BY <1>3, <1>8, <1>9, <1>10, <1>11, <2>2 DEF TrendInv, TrendRun
    <3> QED
      BY <2>1, <2>2, <3>1 DEF TrendRun
  <2>3. CASE side = "SELL"
    <3>1. /\ lowestPrice' \in runPrices' /\ \A q \in runPrices' : q >= lowestPrice'
          /\ trendSignal'.trail = lowestPrice' * (100 + TrailingStopPct)
      BY <1>3, <1>8, <1>9, <1>10, <1>12, <2>3 DEF TrendInv, TrendRun
    <3> QED
      BY <2>1, <2>3, <3>1 DEF TrendRun
  <2>4. CASE side = "HOLD"
    BY <2>1, <2>4 DEF TrendRun
  <2> QED
    BY <2>2, <2>3, <2>4 DEF Trend!Sides
<1>15. Trend!TrendTypeOK'
  <2>1. /\ takeProfitPct' = takeProfitPct /\ trendPaused' = trendPaused /\ trendSteps' = trendSteps
        /\ trendStep' = Trend!Idle /\ position' = Trend!UpdateBeliefs
    BY DEF Trend!StepSignals
  <2>2. /\ takeProfitPct' \in TakeProfits /\ trendPaused' \in BOOLEAN /\ trendSteps' \in 0 .. MaxTrendSteps
        /\ trendStep'.at \in {"idle", "analysing"}
    BY <2>1 DEF TrendInv, Trend!TrendTypeOK, Trend!Idle
  <2>3. position' \in {"unknown", "none", "long", "short"}
    BY <2>1 DEF Trend!UpdateBeliefs
  <2>4. highestPrice' \in Prices \cup {0} /\ lowestPrice' \in Prices \cup {0}
    BY <1>3, <1>8, <1>10, <1>11, <1>12, <1>13 DEF Trend!Sides
  <2>5. runPrices' \subseteq Prices /\ lastSignal' \in Trend!Sides \cup {"none"}
    BY <1>3, <1>8, <1>10
  <2> QED
    BY <2>2, <2>3, <2>4, <2>5 DEF Trend!TrendTypeOK
<1>16. TrendSteps'
  BY DEF Trend!StepSignals, TrendInv, TrendSteps
<1>17. Trend!NeverTradesBelowRatio'
  BY <1>7, <1>9 DEF Trend!NeverTradesBelowRatio, Trend!StepSignals
<1> QED
  BY <1>14, <1>15, <1>16, <1>17 DEF TrendInv

LEMMA TrendStep ==
    ASSUME Trend!TrendAssumption, TrendInv, Trend!TrendNext \/ UNCHANGED trends
    PROVE  TrendInv'
<1> USE DEF TrendInv, TrendRun, TrendSteps, Trend!TrendTypeOK, Trend!NeverTradesBelowRatio, Trend!TrendAssumption
<1>1. CASE UNCHANGED trends
  BY <1>1 DEF trends
<1>2. CASE Trend!HandleControlEvent
  BY <1>2 DEF Trend!HandleControlEvent
<1>3. CASE Trend!StepBegins
  BY <1>3 DEF Trend!StepBegins, Trend!Idle
<1>4. CASE Trend!StepFails
  BY <1>4 DEF Trend!StepFails, Trend!Idle
<1>5. CASE Trend!StepSignals
  BY <1>5, TrendSignals
<1> QED
  BY <1>1, <1>2, <1>3, <1>4, <1>5 DEF Trend!TrendNext

-----------------------------------------------------------------------------
(* The mean reversion agent.                                               *)

RevSignals == [side : Reversion!Sides, conf : 0 .. 1000]
RevInv ==
    /\ Reversion!ReversionTypeOK /\ Reversion!FiltersHold
    /\ revBeliefs.known \in BOOLEAN
    /\ revBeliefs.known => revBeliefs.of \in Reversion!Analyses

LEMMA ReversionBegins == ASSUME Reversion!ReversionAssumption, Reversion!ReversionInit PROVE RevInv
<1> USE DEF Reversion!ReversionInit, Reversion!NoBeliefs, Reversion!Nothing, Reversion!Sides
<1>1. revFailed \in BOOLEAN /\ revBeliefs.known \in BOOLEAN /\ ~ revBeliefs.known
  BY Zenon
<1>2. reversions \in 0 .. MaxReversions
  BY DEF Reversion!ReversionAssumption
<1>3. Reversion!ReversionTypeOK
  BY <1>1, <1>2 DEF Reversion!ReversionTypeOK
<1>4. Reversion!FiltersHold
  BY <1>1 DEF Reversion!FiltersHold
<1> QED
  BY <1>1, <1>3, <1>4 DEF RevInv

\* What the bands and the index say is one of a few things.
BandSays == [side : {"BUY", "SELL"}, conf : {700, 800, 900}] \cup {[side |-> "HOLD", conf |-> 500]}
IndexSays == [side : {"BUY", "SELL"}, conf : {700, 900}] \cup {[side |-> "HOLD", conf |-> 500]}
BandPositions == {"at_upper", "above_upper", "at_lower", "below_lower", "between"}

LEMMA BandsSay ==
    ASSUME NEW at \in BandPositions, NEW narrow
    PROVE  Reversion!DetectBandTouch(at, narrow) \in BandSays
<1>1. (IF at \in {"below_lower", "above_upper"} THEN 800 ELSE 700) + (IF narrow THEN 100 ELSE 0) \in {700, 800, 900}
  BY Z3
<1> QED
  BY <1>1 DEF Reversion!DetectBandTouch, BandPositions, BandSays

LEMMA IndexSaysSo == ASSUME NEW rsi \in Int PROVE Reversion!DetectRSIExtreme(rsi) \in IndexSays
BY DEF Reversion!DetectRSIExtreme, IndexSays

LEMMA PositionOfABand == ASSUME NEW x PROVE Reversion!DetectBandPosition(x) \in BandPositions
BY SMTT(30) DEF Reversion!DetectBandPosition, BandPositions

LEMMA CombinedSay ==
    ASSUME NEW bb \in BandSays, NEW rsi \in IndexSays
    PROVE  Reversion!CombineSignalsRuleBased(bb, rsi) \in RevSignals
BY DEF Reversion!CombineSignalsRuleBased, Reversion!AtMost, Reversion!Sides, BandSays, IndexSays, RevSignals

LEMMA ReversionSignals ==
    ASSUME Reversion!ReversionAssumption, NEW x \in Reversion!Analyses
    PROVE  Reversion!GenerateMeanReversionSignal(x) \in RevSignals
<1>1. x.rsi \in Int
  <2>1. x \in [price : Levels, upper : Levels, lower : Levels, rsi : ReversionRSIs, adx : ADXs, reply : ModelSays]
    BY Zenon DEF Reversion!Analyses
  <2>2. x.rsi \in ReversionRSIs
    BY <2>1, Zenon
  <2>3. \A r \in ReversionRSIs : r \in Int
    BY DEF Reversion!ReversionAssumption
  <2> QED
    BY <2>2, <2>3, Zenon
<1>2. Reversion!ByRules(x) \in RevSignals
  BY <1>1, PositionOfABand, BandsSay, IndexSaysSo, CombinedSay DEF Reversion!ByRules
<1>3. x.reply \in Reversion!Sides => [side |-> x.reply, conf |-> 600] \in RevSignals
  BY DEF RevSignals
<1> QED
  BY <1>2, <1>3 DEF Reversion!GenerateMeanReversionSignal

LEMMA FilterKeeps ==
    ASSUME NEW s \in RevSignals, NEW adx
    PROVE  /\ Reversion!FilterSignalByRegime(s, adx) \in RevSignals
           /\ Reversion!FilterSignalByRegime(s, adx).side # "HOLD" =>
                 Reversion!FilterSignalByRegime(s, adx) = s /\ Reversion!DetectMarketRegime(adx) = "ranging"
<1>1. [side |-> "HOLD", conf |-> 200] \in RevSignals
  BY DEF RevSignals, Reversion!Sides
<1>2. CASE s.side # "HOLD" /\ Reversion!DetectMarketRegime(adx) # "ranging"
  BY <1>1, <1>2 DEF Reversion!FilterSignalByRegime
<1>3. CASE ~ (s.side # "HOLD" /\ Reversion!DetectMarketRegime(adx) # "ranging")
  BY <1>3 DEF Reversion!FilterSignalByRegime
<1> QED
  BY <1>2, <1>3

LEMMA ExitLevelsSurround ==
    ASSUME Reversion!ReversionAssumption, NEW price \in Nat \ {0}, NEW side \in {"BUY", "SELL"},
           NEW favourable \in Reversion!CalculateExitLevels(side, price).favourable, favourable
    PROVE  LET exit == Reversion!CalculateExitLevels(side, price)
           IN  IF side = "BUY" THEN exit.stop < price * 100 /\ price * 100 < exit.target
               ELSE exit.target < price * 100 /\ price * 100 < exit.stop
<1> DEFINE exit == Reversion!CalculateExitLevels(side, price)
           fair == IF StopLossPct = 0 THEN {RatioTimes10 <= 0}
                   ELSE IF TakeProfitPct * 10 = StopLossPct * RatioTimes10 THEN BOOLEAN
                   ELSE {TakeProfitPct * 10 > StopLossPct * RatioTimes10}
<1>1. exit = [stop |-> price * (IF side = "BUY" THEN 100 - StopLossPct ELSE 100 + StopLossPct),
              target |-> price * (IF side = "BUY" THEN 100 + TakeProfitPct ELSE 100 - TakeProfitPct),
              favourable |-> fair]
  BY DEF Reversion!CalculateExitLevels
<1>2. favourable \in fair
  <2> HIDE DEF fair
  <2>1. exit.favourable = fair
    BY <1>1
  <2> QED
    BY <2>1, Zenon
<1>3. StopLossPct # 0
  <2>1. ASSUME StopLossPct = 0
        PROVE  RatioTimes10 <= 0
    <3>1. favourable \in {RatioTimes10 <= 0}
      BY <1>2, <2>1
    <3> QED
      BY <3>1, Zenon
  <2> QED
    BY <2>1 DEF Reversion!ReversionAssumption
<1>4. TakeProfitPct * 10 = StopLossPct * RatioTimes10 \/ TakeProfitPct * 10 > StopLossPct * RatioTimes10
  BY <1>2, <1>3, Zenon
<1> HIDE DEF fair
<1>5. StopLossPct \in Nat \ {0} /\ TakeProfitPct \in Nat \ {0}
  <2>1. StopLossPct * RatioTimes10 > 0
    BY <1>3 DEF Reversion!ReversionAssumption
  <2> QED
    BY <1>3, <1>4, <2>1 DEF Reversion!ReversionAssumption
<1>6. price * (100 - StopLossPct) < price * 100 /\ price * 100 < price * (100 + StopLossPct)
  BY <1>5
<1>7. price * (100 - TakeProfitPct) < price * 100 /\ price * 100 < price * (100 + TakeProfitPct)
  BY <1>5
<1> QED
  BY <1>1, <1>6, <1>7

LEMMA ReversionSteps == ASSUME Reversion!ReversionAssumption, RevInv, Reversion!Step PROVE RevInv'
<1>1. PICK x \in Reversion!Analyses :
       LET combined == Reversion!GenerateMeanReversionSignal(x)
           filtered == Reversion!FilterSignalByRegime(combined, x.adx)
           exit == Reversion!CalculateExitLevels(filtered.side, x.price)
       IN  \E favourable \in exit.favourable :
           LET final == IF filtered.side # "HOLD" /\ ~ favourable THEN [side |-> "HOLD", conf |-> 300] ELSE filtered
           IN  /\ revBeliefs' = [known |-> TRUE, of |-> x, combined |-> combined, final |-> final, exit |-> exit]
               /\ revLast' = final.side
               /\ \/ revPublished' = final /\ revFailed' = FALSE
                  \/ revPublished' = revPublished /\ revFailed' = TRUE
  BY Zenon DEF Reversion!Step
<1>2. PICK combined \in RevSignals : combined = Reversion!GenerateMeanReversionSignal(x)
  BY ReversionSignals
<1>3. PICK filtered \in RevSignals :
        /\ filtered = Reversion!FilterSignalByRegime(combined, x.adx)
        /\ filtered.side # "HOLD" => filtered = combined /\ Reversion!DetectMarketRegime(x.adx) = "ranging"
  BY FilterKeeps
<1> DEFINE exit == Reversion!CalculateExitLevels(filtered.side, x.price)
<1>4. PICK favourable \in exit.favourable :
        LET final == IF filtered.side # "HOLD" /\ ~ favourable THEN [side |-> "HOLD", conf |-> 300] ELSE filtered
        IN  /\ revBeliefs' = [known |-> TRUE, of |-> x, combined |-> combined, final |-> final, exit |-> exit]
            /\ revLast' = final.side
            /\ \/ revPublished' = final /\ revFailed' = FALSE
               \/ revPublished' = revPublished /\ revFailed' = TRUE
  BY <1>1, <1>2, <1>3, Zenon
<1>5. [side |-> "HOLD", conf |-> 300] \in RevSignals
  BY DEF RevSignals, Reversion!Sides
<1>6. PICK final \in RevSignals :
        final = IF filtered.side # "HOLD" /\ ~ favourable THEN [side |-> "HOLD", conf |-> 300] ELSE filtered
  BY <1>3, <1>5, Zenon
<1>7. /\ revBeliefs' = [known |-> TRUE, of |-> x, combined |-> combined, final |-> final, exit |-> exit]
      /\ revLast' = final.side
      /\ \/ revPublished' = final /\ revFailed' = FALSE
         \/ revPublished' = revPublished /\ revFailed' = TRUE
  BY <1>4, <1>6, Zenon
<1>8. final.side # "HOLD" => final = filtered /\ filtered.side # "HOLD" /\ favourable
  <2>1. [side |-> "HOLD", conf |-> 300].side = "HOLD"
    OBVIOUS
  <2> QED
    BY <1>6, <2>1, Zenon
<1>9. x \in [price : Levels, upper : Levels, lower : Levels, rsi : ReversionRSIs, adx : ADXs, reply : ModelSays]
  BY Zenon DEF Reversion!Analyses
<1>10. PICK price \in Nat \ {0} : price = x.price
  <2>1. x.price \in Levels
    BY <1>9, Zenon
  <2>2. \A l \in Levels : l \in Nat \ {0}
    BY DEF Reversion!ReversionAssumption
  <2> QED
    BY <2>1, <2>2
<1>11. final.side # "HOLD" =>
         /\ favourable /\ final.side \in {"BUY", "SELL"}
         /\ IF final.side = "BUY" THEN exit.stop < price * 100 /\ price * 100 < exit.target
            ELSE exit.target < price * 100 /\ price * 100 < exit.stop
  <2>1. ASSUME final.side # "HOLD"
        PROVE  favourable /\ final.side \in {"BUY", "SELL"} /\ final = filtered
    BY <1>8, <2>1 DEF RevSignals, Reversion!Sides
  <2>2. PICK side : side = final.side
    OBVIOUS
  <2>3. final.side # "HOLD" => exit = Reversion!CalculateExitLevels(side, price)
    BY <1>10, <2>1, <2>2, Zenon
  <2>4. ASSUME final.side # "HOLD"
        PROVE  IF side = "BUY" THEN exit.stop < price * 100 /\ price * 100 < exit.target
               ELSE exit.target < price * 100 /\ price * 100 < exit.stop
    <3>1. side \in {"BUY", "SELL"} /\ favourable /\ favourable \in Reversion!CalculateExitLevels(side, price).favourable
      BY <2>1, <2>2, <2>3, <2>4, Zenon
    <3> HIDE DEF exit
    <3> QED
      BY <2>3, <2>4, <3>1, ExitLevelsSurround, Zenon
  <2> QED
    BY <2>1, <2>2, <2>4, Zenon
<1> HIDE DEF exit
<1>12. /\ revBeliefs'.known = TRUE /\ revBeliefs'.of = x /\ revBeliefs'.combined = combined
       /\ revBeliefs'.final = final /\ revBeliefs'.exit = exit
  BY <1>7
<1>13. Reversion!FiltersHold'
  <2>1. final.side # "HOLD" => TRUE \in exit.favourable
    BY <1>8, <1>11, Zenon DEF exit
  <2>2. final.side # "HOLD" => Reversion!DetectMarketRegime(x.adx) = "ranging" /\ final = combined
    BY <1>3, <1>8, Zenon
  <2>3. ~ revFailed' => revPublished' = final /\ revLast' = final.side
    BY <1>7, Zenon
  <2> QED
    BY <1>10, <1>11, <1>12, <2>1, <2>2, <2>3, Zenon DEF Reversion!FiltersHold
<1>14. Reversion!ReversionTypeOK'
  <2>1. revLast' \in Reversion!Sides /\ final.side \in Reversion!Sides /\ combined.conf \in 0 .. 1000
    BY <1>7 DEF RevSignals
  <2>2. revPublished'.side \in Reversion!Sides /\ revPublished'.conf \in 0 .. 1000
    BY <1>7 DEF RevSignals, RevInv, Reversion!ReversionTypeOK
  <2>3. revFailed' \in BOOLEAN
    BY <1>7, Zenon
  <2>4. reversions' \in 0 .. MaxReversions
    BY DEF Reversion!Step, RevInv, Reversion!ReversionTypeOK, Reversion!ReversionAssumption
  <2> QED
    BY <1>12, <2>1, <2>2, <2>3, <2>4, Zenon DEF Reversion!ReversionTypeOK
<1>15. revBeliefs'.known \in BOOLEAN /\ revBeliefs'.of \in Reversion!Analyses
  BY <1>12, Zenon
<1> QED
  BY <1>13, <1>14, <1>15 DEF RevInv

LEMMA ReversionStep ==
    ASSUME Reversion!ReversionAssumption, RevInv, Reversion!ReversionNext \/ UNCHANGED reversals
    PROVE  RevInv'
<1>1. CASE Reversion!Step
  BY <1>1, ReversionSteps
<1>2. ASSUME UNCHANGED <<revBeliefs, revLast, revPublished, revFailed>>, reversions' \in 0 .. MaxReversions
      PROVE  RevInv'
  BY <1>2, ZenonT(40) DEF RevInv, Reversion!ReversionTypeOK, Reversion!FiltersHold
<1>3. CASE Reversion!StepFails
  <2>1. reversions' \in 0 .. MaxReversions
    BY <1>3 DEF Reversion!StepFails, RevInv, Reversion!ReversionTypeOK, Reversion!ReversionAssumption
  <2> QED
    BY <1>2, <1>3, <2>1 DEF Reversion!StepFails
<1>4. CASE UNCHANGED reversals
  BY <1>2, <1>4 DEF reversals, RevInv, Reversion!ReversionTypeOK
<1> QED
  BY <1>1, <1>3, <1>4 DEF Reversion!ReversionNext

\* A market upside down.
Turned(s) == [side |-> Reversion!Upside(s.side), conf |-> s.conf]

LEMMA BandsTurned ==
    ASSUME NEW at \in BandPositions, NEW narrow
    PROVE  /\ Reversion!Opposite(at) \in BandPositions
           /\ Reversion!DetectBandTouch(Reversion!Opposite(at), narrow) = Turned(Reversion!DetectBandTouch(at, narrow))
<1> DEFINE conf(p) == (IF p \in {"below_lower", "above_upper"} THEN 800 ELSE 700) + (IF narrow THEN 100 ELSE 0)
<1>1. /\ at \in {"at_lower", "below_lower"} => Reversion!Opposite(at) \in {"at_upper", "above_upper"}
      /\ at \in {"at_upper", "above_upper"} => Reversion!Opposite(at) \in {"at_lower", "below_lower"}
      /\ at = "between" => Reversion!Opposite(at) = "between"
      /\ at \in {"below_lower", "above_upper"} <=> Reversion!Opposite(at) \in {"below_lower", "above_upper"}
  BY DEF Reversion!Opposite, BandPositions
<1>2. conf(Reversion!Opposite(at)) = conf(at)
  BY <1>1
<1> HIDE DEF conf
<1>3. \A p \in BandPositions :
        Reversion!DetectBandTouch(p, narrow) =
          CASE p \in {"at_lower", "below_lower"} -> [side |-> "BUY", conf |-> conf(p)]
            [] p \in {"at_upper", "above_upper"} -> [side |-> "SELL", conf |-> conf(p)]
            [] OTHER -> [side |-> "HOLD", conf |-> 500]
  BY DEF Reversion!DetectBandTouch, conf
<1>4. CASE at \in {"at_lower", "below_lower"}
  <2>1. Reversion!DetectBandTouch(at, narrow) = [side |-> "BUY", conf |-> conf(at)]
    BY <1>3, <1>4
  <2>2. Reversion!DetectBandTouch(Reversion!Opposite(at), narrow) = [side |-> "SELL", conf |-> conf(at)]
    BY <1>1, <1>2, <1>3, <1>4 DEF BandPositions
  <2> QED
    BY <1>1, <1>4, <2>1, <2>2 DEF Turned, Reversion!Upside, BandPositions
<1>5. CASE at \in {"at_upper", "above_upper"}
  <2>1. Reversion!DetectBandTouch(at, narrow) = [side |-> "SELL", conf |-> conf(at)]
    BY <1>3, <1>5
  <2>2. Reversion!DetectBandTouch(Reversion!Opposite(at), narrow) = [side |-> "BUY", conf |-> conf(at)]
    BY <1>1, <1>2, <1>3, <1>5 DEF BandPositions
  <2> QED
    BY <1>1, <1>5, <2>1, <2>2 DEF Turned, Reversion!Upside, BandPositions
<1>6. CASE at = "between"
  <2>1. Reversion!DetectBandTouch(at, narrow) = [side |-> "HOLD", conf |-> 500]
    BY <1>3, <1>6
  <2> QED
    BY <1>1, <1>6, <2>1 DEF Turned, Reversion!Upside, BandPositions
<1> QED
  BY <1>4, <1>5, <1>6 DEF BandPositions

LEMMA IndexTurned ==
    ASSUME NEW rsi \in Int
    PROVE  Reversion!DetectRSIExtreme(100 - rsi) = Turned(Reversion!DetectRSIExtreme(rsi))
<1>1. CASE rsi < 30
  BY <1>1 DEF Reversion!DetectRSIExtreme, Turned, Reversion!Upside
<1>2. CASE rsi > 70
  BY <1>2 DEF Reversion!DetectRSIExtreme, Turned, Reversion!Upside
<1>3. CASE ~ rsi < 30 /\ ~ rsi > 70
  BY <1>3 DEF Reversion!DetectRSIExtreme, Turned, Reversion!Upside
<1> QED
  BY <1>1, <1>2, <1>3

LEMMA CombinedTurned ==
    ASSUME NEW bb \in BandSays, NEW rsi \in IndexSays
    PROVE  Reversion!CombineSignalsRuleBased(Turned(bb), Turned(rsi))
             = Turned(Reversion!CombineSignalsRuleBased(bb, rsi))
<1>1. PICK b \in Reversion!Sides, c \in Nat : bb = [side |-> b, conf |-> c]
  BY DEF BandSays, Reversion!Sides
<1>2. PICK r \in Reversion!Sides, d \in Nat : rsi = [side |-> r, conf |-> d]
  BY DEF IndexSays, Reversion!Sides
<1>3. Turned(bb) = [side |-> Reversion!Upside(b), conf |-> c] /\ Turned(rsi) = [side |-> Reversion!Upside(r), conf |-> d]
  BY <1>1, <1>2 DEF Turned
<1>4. CASE b = r
  BY <1>1, <1>2, <1>3, <1>4 DEF Reversion!CombineSignalsRuleBased, Turned, Reversion!Upside, Reversion!Sides
<1>5. CASE b # r /\ b # "HOLD" /\ r # "HOLD"
  BY <1>1, <1>2, <1>3, <1>5 DEF Reversion!CombineSignalsRuleBased, Turned, Reversion!Upside, Reversion!Sides
<1>6. CASE b = "HOLD" /\ r # "HOLD"
  BY <1>1, <1>2, <1>3, <1>6 DEF Reversion!CombineSignalsRuleBased, Turned, Reversion!Upside, Reversion!Sides
<1>7. CASE b # "HOLD" /\ r = "HOLD"
  BY <1>1, <1>2, <1>3, <1>7 DEF Reversion!CombineSignalsRuleBased, Turned, Reversion!Upside, Reversion!Sides
<1> QED
  BY <1>4, <1>5, <1>6, <1>7

LEMMA RevMirror == ASSUME Reversion!ReversionAssumption, RevInv PROVE Reversion!MirrorImage
<1> SUFFICES ASSUME revBeliefs.known
             PROVE  Reversion!MirrorImage
  BY ZenonT(40) DEF Reversion!MirrorImage
<1> DEFINE x == revBeliefs.of
<1>1. x \in Reversion!Analyses
  BY DEF RevInv
<1>2. x \in [price : Levels, upper : Levels, lower : Levels, rsi : ReversionRSIs, adx : ADXs, reply : ModelSays]
  BY <1>1, Zenon DEF Reversion!Analyses
<1>3. x.lower <= x.upper
  BY <1>1, Zenon DEF Reversion!Analyses
<1>4. PICK rsi \in Int : rsi = x.rsi
  <2>1. x.rsi \in ReversionRSIs
    BY <1>2, Zenon
  <2>2. \A r \in ReversionRSIs : r \in Int
    BY DEF Reversion!ReversionAssumption
  <2> QED
    BY <2>1, <2>2
<1>5. PICK price \in Nat \ {0}, upper \in Nat \ {0}, lower \in Nat \ {0} :
        price = x.price /\ upper = x.upper /\ lower = x.lower
  <2>1. x.price \in Levels /\ x.upper \in Levels /\ x.lower \in Levels
    BY <1>2, Zenon
  <2>2. \A l \in Levels : l \in Nat \ {0}
    BY DEF Reversion!ReversionAssumption
  <2> QED
    BY <2>1, <2>2
<1> DEFINE at == Reversion!DetectBandPosition(x)
           narrow == Reversion!Narrow(x)
           rules(p, index) ==
             Reversion!CombineSignalsRuleBased(Reversion!DetectBandTouch(p, narrow), Reversion!DetectRSIExtreme(index))
<1>6. at \in BandPositions
  BY PositionOfABand
<1>7. rules(Reversion!Opposite(at), 100 - rsi) = Turned(rules(at, rsi))
  BY <1>4, <1>6, BandsTurned, BandsSay, IndexTurned, IndexSaysSo, CombinedTurned
<1>8. rules(at, rsi) \in RevSignals
  BY <1>4, <1>6, BandsSay, IndexSaysSo, CombinedSay
<1>9. Turned(rules(at, rsi)) = [rules(at, rsi) EXCEPT !.side = Reversion!Upside(@)]
  <2> HIDE DEF rules
  <2> QED
    BY <1>8 DEF Turned, RevSignals
<1>10. \A p \in BandPositions :
          /\ p \in {"at_upper", "above_upper"} => Reversion!DetectBandTouch(p, narrow).side = "SELL"
          /\ p \in {"at_lower", "below_lower"} => Reversion!DetectBandTouch(p, narrow).side = "BUY"
  <2> HIDE DEF narrow
  <2> QED
    BY DEF Reversion!DetectBandTouch
<1>11. Reversion!TouchesBoth(x) => at = "at_upper"
  BY <1>5 DEF Reversion!TouchesBoth, Reversion!DetectBandPosition
<1>12. x.price > x.upper /\ x.price * 1000 <= x.lower * 1005 => at = "at_lower"
  BY <1>3, <1>5 DEF Reversion!DetectBandPosition
<1>13. x.price < x.lower /\ x.price * 1000 >= x.upper * 995 => at = "at_upper"
  BY <1>3, <1>5 DEF Reversion!DetectBandPosition
<1>14. /\ rules(Reversion!Opposite(at), 100 - x.rsi) = [rules(at, x.rsi) EXCEPT !.side = Reversion!Upside(@)]
       /\ Reversion!TouchesBoth(x) => Reversion!DetectBandTouch(at, narrow).side = "SELL"
       /\ x.price > x.upper /\ x.price * 1000 <= x.lower * 1005 => Reversion!DetectBandTouch(at, narrow).side = "BUY"
       /\ x.price < x.lower /\ x.price * 1000 >= x.upper * 995 => Reversion!DetectBandTouch(at, narrow).side = "SELL"
  <2> HIDE DEF at, narrow, rules
  <2>1. rules(Reversion!Opposite(at), 100 - x.rsi) = [rules(at, x.rsi) EXCEPT !.side = Reversion!Upside(@)]
    BY <1>4, <1>7, <1>9
  <2>2. /\ at = "at_upper" => Reversion!DetectBandTouch(at, narrow).side = "SELL"
        /\ at = "at_lower" => Reversion!DetectBandTouch(at, narrow).side = "BUY"
    BY <1>10 DEF BandPositions
  <2>3. Reversion!TouchesBoth(x) => Reversion!DetectBandTouch(at, narrow).side = "SELL"
    BY <1>11, <2>2, Zenon
  <2>4. x.price > x.upper /\ x.price * 1000 <= x.lower * 1005 => Reversion!DetectBandTouch(at, narrow).side = "BUY"
    BY <1>12, <2>2, ZenonT(40)
  <2>5. x.price < x.lower /\ x.price * 1000 >= x.upper * 995 => Reversion!DetectBandTouch(at, narrow).side = "SELL"
    BY <1>13, <2>2, ZenonT(40)
  <2> QED
    BY <2>1, <2>3, <2>4, <2>5, Zenon
<1> QED
  BY <1>14, Zenon DEF Reversion!MirrorImage

LEMMA RevConfirms == ASSUME Reversion!ReversionAssumption PROVE Reversion!ConfirmationHelps
<1> DEFINE bb == Reversion!DetectBandTouch(Reversion!DetectBandPosition(revBeliefs.of), Reversion!Narrow(revBeliefs.of))
           alone == Reversion!CombineSignalsRuleBased(bb, [side |-> "HOLD", conf |-> 500])
<1>1. bb \in BandSays
  BY PositionOfABand, BandsSay
<1>2. ASSUME NEW rsi \in ReversionRSIs, bb.side # "HOLD"
      PROVE  LET with == Reversion!CombineSignalsRuleBased(bb, Reversion!DetectRSIExtreme(rsi))
             IN  /\ Reversion!DetectRSIExtreme(rsi).side = bb.side => with.side = bb.side /\ with.conf > alone.conf
                 /\ Reversion!DetectRSIExtreme(rsi).side = Reversion!Upside(bb.side) => with.side = "HOLD"
  <2>1. PICK i \in IndexSays : i = Reversion!DetectRSIExtreme(rsi)
    BY IndexSaysSo DEF Reversion!ReversionAssumption
  <2>2. PICK b \in {"BUY", "SELL"}, c \in {700, 800, 900} : bb = [side |-> b, conf |-> c]
    <3> HIDE DEF bb
    <3> QED
      BY <1>1, <1>2 DEF BandSays
  <2> HIDE DEF bb
  <2>3. alone = [side |-> b, conf |-> (c * 8) \div 10]
    BY <2>2 DEF Reversion!CombineSignalsRuleBased
  <2>4. i.side = b => Reversion!CombineSignalsRuleBased(bb, i) = [side |-> b, conf |-> Reversion!AtMost((c + i.conf) \div 2 + 100, 1000)]
    BY <2>2 DEF Reversion!CombineSignalsRuleBased
  <2>5. i.side = b => i.conf \in {700, 900}
    BY DEF IndexSays
  <2>6. i.side = Reversion!Upside(b) => Reversion!CombineSignalsRuleBased(bb, i) = [side |-> "HOLD", conf |-> 300]
    BY <2>2 DEF Reversion!CombineSignalsRuleBased, Reversion!Upside
  <2> HIDE DEF alone
  <2>7. \A d \in {700, 900} : Reversion!AtMost((c + d) \div 2 + 100, 1000) > (c * 8) \div 10
    BY DEF Reversion!AtMost
  <2>8. i.side = bb.side => /\ Reversion!CombineSignalsRuleBased(bb, i).side = bb.side
                            /\ Reversion!CombineSignalsRuleBased(bb, i).conf > alone.conf
    BY <2>2, <2>3, <2>4, <2>5, <2>7
  <2>9. i.side = Reversion!Upside(bb.side) => Reversion!CombineSignalsRuleBased(bb, i).side = "HOLD"
    BY <2>2, <2>6
  <2> QED
    BY <2>1, <2>8, <2>9, ZenonT(40)
<1> QED
  BY <1>2, Zenon DEF Reversion!ConfirmationHelps

-----------------------------------------------------------------------------
(* The arbitrage agent.                                                    *)

Cached == [price : Nat, of : 0 .. MaxMoves, at : 0 .. MaxClock, slow : BOOLEAN, volume : Volumes]

ArbTyped ==
    /\ threshold \in Thresholds /\ clock \in 0 .. MaxClock
    /\ base \in [price : BasePrices, version : 0 .. MaxMoves]
    /\ priceCache \in [Exchanges -> {None} \cup Cached]
    /\ reliable \in [Exchanges -> {"unknown", "yes", "no"}]

\* Each exchange fails once in a step at most.
ArbCounts ==
    /\ failures \in Nat /\ failures <= Cardinality(Exchanges)
    /\ waiting = None \/ (waiting \subseteq Exchanges /\ failures + Cardinality(waiting) <= Cardinality(Exchanges))

\* Whatever is remembered is a variation of what the coin cost at some time.
Variant(h, c, e) == \E n \in Noise : c.price = (h[c.of] * (Arbitrage!Whole + Arbitrage!Variation(e) + n)) \div 100
ArbPrices ==
    \E h \in [0 .. MaxMoves -> BasePrices] :
        /\ h[base.version] = base.price
        /\ \A e \in Exchanges : priceCache[e] # None =>
              /\ priceCache[e] \in Cached
              /\ priceCache[e].of <= base.version /\ priceCache[e].at <= clock
              /\ Variant(h, priceCache[e], e)

ArbDecided ==
    /\ decision.signal \in {"HOLD", "ARBITRAGE"} /\ decision.confidence \in 0 .. 100
    /\ Arbitrage!SpreadsAreMovesOfThePrice /\ Arbitrage!HoldsAtItsThreshold /\ Arbitrage!PricesOfAMinute

ArbInv == ArbTyped /\ ArbCounts /\ ArbPrices /\ ArbDecided

LEMMA ArbCardinality == \A S : Arbitrage!Cardinality(S) = Cardinality(S)
BY DEF Arbitrage!Cardinality, Cardinality

LEMMA ArbFinite == \A S : Arbitrage!IsFiniteSet(S) <=> IsFiniteSet(S)
BY DEF Arbitrage!IsFiniteSet, IsFiniteSet

LEMMA ExchangesAreFinite == ASSUME Arbitrage!ArbitrageAssumption PROVE IsFiniteSet(Exchanges) /\ Cardinality(Exchanges) \in Nat
<1>1. IsFiniteSet(Exchanges)
  BY ArbFinite, Zenon DEF Arbitrage!ArbitrageAssumption
<1> QED
  BY <1>1, FS_CardinalityType

LEMMA ArbShows == ASSUME Arbitrage!ArbitrageAssumption, ArbInv PROVE Arbitrage!ArbitrageTypeOK
<1>1. failures \in 0 .. Arbitrage!Cardinality(Exchanges)
  BY ExchangesAreFinite, ArbCardinality DEF ArbInv, ArbCounts
<1>2. \A e \in Exchanges : priceCache[e] = None \/ priceCache[e].at \in 0 .. clock
  BY DEF ArbInv, ArbPrices, ArbTyped, Cached
<1>3. waiting = None \/ waiting \subseteq Exchanges
  BY Zenon DEF ArbInv, ArbCounts
<1>4. threshold \in Thresholds /\ clock \in 0 .. MaxClock /\ base.price \in BasePrices /\ base.version \in 0 .. MaxMoves
  BY DEF ArbInv, ArbTyped
<1>5. \A e \in Exchanges : reliable[e] \in {"unknown", "yes", "no"}
  BY DEF ArbInv, ArbTyped
<1> QED
  BY <1>1, <1>2, <1>3, <1>4, <1>5, Zenon DEF ArbInv, ArbDecided, Arbitrage!ArbitrageTypeOK

LEMMA ArbitrageBegins == ASSUME Arbitrage!ArbitrageAssumption, Arbitrage!ArbitrageInit PROVE ArbInv
<1> USE DEF Arbitrage!ArbitrageInit
<1>1. ArbTyped
  BY DEF ArbTyped, Arbitrage!ArbitrageAssumption
<1>2. ArbCounts
  BY ExchangesAreFinite DEF ArbCounts
<1>3. ArbPrices
  <2>1. base.price \in BasePrices /\ base.version = 0
    OBVIOUS
  <2> DEFINE h == [v \in 0 .. MaxMoves |-> base.price]
  <2>2. h \in [0 .. MaxMoves -> BasePrices] /\ h[base.version] = base.price
    BY <2>1 DEF Arbitrage!ArbitrageAssumption
  <2>3. \A e \in Exchanges : priceCache[e] = None
    OBVIOUS
  <2> QED
    BY <2>2, <2>3 DEF ArbPrices
<1>4. ArbDecided
  BY DEF ArbDecided, Arbitrage!Hold, Arbitrage!SpreadsAreMovesOfThePrice, Arbitrage!HoldsAtItsThreshold,
         Arbitrage!PricesOfAMinute
<1> QED
  BY <1>1, <1>2, <1>3, <1>4 DEF ArbInv

\* Between two steps the cache is untouched: what changes is what it is compared to.
LEMMA ArbQuiet ==
    ASSUME Arbitrage!ArbitrageAssumption, ArbInv, ArbTyped', ArbCounts',
           UNCHANGED <<threshold, base, priceCache, decision>>, clock' >= clock
    PROVE  ArbInv'
<1>1. ArbPrices'
  <2>1. PICK h \in [0 .. MaxMoves -> BasePrices] :
          /\ h[base.version] = base.price
          /\ \A e \in Exchanges : priceCache[e] # None =>
                /\ priceCache[e] \in Cached
                /\ priceCache[e].of <= base.version /\ priceCache[e].at <= clock
                /\ Variant(h, priceCache[e], e)
    BY DEF ArbInv, ArbPrices
  <2>2. ASSUME NEW e \in Exchanges, priceCache[e] # None
        PROVE  priceCache[e].at <= clock'
    <3>1. priceCache[e].at \in Int /\ clock \in Int /\ clock' \in Int
      BY <2>1, <2>2 DEF ArbInv, ArbTyped, Cached
    <3>2. priceCache[e].at <= clock
      BY <2>1, <2>2
    <3> QED
      BY <3>1, <3>2
  <2>3. \A e \in Exchanges : priceCache'[e] # None =>
                /\ priceCache'[e] \in Cached
                /\ priceCache'[e].of <= base'.version /\ priceCache'[e].at <= clock'
                /\ Variant(h, priceCache'[e], e)
    BY <2>1, <2>2
  <2>4. h[base'.version] = base'.price
    BY <2>1
  <2> QED
    BY <2>3, <2>4 DEF ArbPrices
<1>2. ArbDecided'
  BY DEF ArbInv, ArbDecided, Arbitrage!SpreadsAreMovesOfThePrice, Arbitrage!HoldsAtItsThreshold,
         Arbitrage!PricesOfAMinute
<1> QED
  BY <1>1, <1>2 DEF ArbInv

\* A goroutine ends: one fewer to wait for, and at most one more that failed.
LEMMA ArbGoroutineEnds ==
    ASSUME Arbitrage!ArbitrageAssumption, ArbInv, waiting # None, NEW e \in waiting,
           waiting' = waiting \ {e}, failures' \in {failures, failures + 1}
    PROVE  ArbCounts'
<1>1. waiting \subseteq Exchanges /\ failures \in Nat /\ failures + Cardinality(waiting) <= Cardinality(Exchanges)
  BY DEF ArbInv, ArbCounts
<1>2. IsFiniteSet(waiting) /\ Cardinality(waiting) \in Nat
  BY <1>1, ExchangesAreFinite, FS_Subset, FS_CardinalityType
<1>3. IsFiniteSet(waiting \ {e}) /\ Cardinality(waiting \ {e}) = Cardinality(waiting) - 1
  BY <1>2, FS_RemoveElement
<1>4. Cardinality(waiting \ {e}) \in Nat
  BY <1>3, FS_CardinalityType
<1>5. waiting' \subseteq Exchanges /\ Cardinality(waiting') = Cardinality(waiting) - 1 /\ Cardinality(waiting') \in Nat
  BY <1>1, <1>3, <1>4
<1> QED
  BY <1>1, <1>2, <1>5, ExchangesAreFinite DEF ArbCounts

LEMMA ArbFetches ==
    ASSUME Arbitrage!ArbitrageAssumption, ArbInv, NEW e \in Exchanges, Arbitrage!FetchPriceFromExchange(e)
    PROVE  ArbInv'
<1>1. PICK noise \in Noise, slow \in BOOLEAN, volume \in Volumes :
          /\ priceCache' = [priceCache EXCEPT ![e] =
                [price |-> (base.price * (Arbitrage!Whole + Arbitrage!Variation(e) + noise)) \div 100, of |-> base.version,
                 at |-> clock, slow |-> slow, volume |-> volume]]
          /\ reliable' = [reliable EXCEPT ![e] = IF slow THEN "no" ELSE "yes"]
  BY Zenon DEF Arbitrage!FetchPriceFromExchange
<1> DEFINE new == [price |-> (base.price * (Arbitrage!Whole + Arbitrage!Variation(e) + noise)) \div 100, of |-> base.version,
                   at |-> clock, slow |-> slow, volume |-> volume]
<1>2. /\ threshold \in Thresholds /\ clock \in 0 .. MaxClock /\ base.price \in Nat /\ base.version \in 0 .. MaxMoves
      /\ priceCache \in [Exchanges -> {None} \cup Cached] /\ noise \in -5 .. 5
  BY DEF ArbInv, ArbTyped, Arbitrage!ArbitrageAssumption
<1>3. Arbitrage!Variation(e) \in {-5, 10, 3, 0}
  BY DEF Arbitrage!Variation
<1>4. (base.price * (Arbitrage!Whole + Arbitrage!Variation(e) + noise)) \div 100 \in Nat
  <2>1. PICK k \in Nat : k = Arbitrage!Whole + Arbitrage!Variation(e) + noise
    BY <1>2, <1>3 DEF Arbitrage!Whole
  <2>2. base.price * k \in Nat
    BY <1>2
  <2> QED
    BY <2>1, <2>2
<1>5. new \in Cached
  BY <1>2, <1>4 DEF Cached
<1>6. ArbTyped'
  <2>1. priceCache' \in [Exchanges -> {None} \cup Cached]
    <3>1. priceCache' = [priceCache EXCEPT ![e] = new]
      BY <1>1
    <3> HIDE DEF new
    <3> QED
      BY <1>2, <1>5, <3>1
  <2>2. reliable' \in [Exchanges -> {"unknown", "yes", "no"}]
    BY <1>1 DEF ArbInv, ArbTyped
  <2>3. UNCHANGED <<threshold, clock, base>>
    BY DEF Arbitrage!FetchPriceFromExchange
  <2> QED
    BY <2>1, <2>2, <2>3 DEF ArbInv, ArbTyped, Cached
<1>7. ArbCounts'
  BY ArbGoroutineEnds DEF Arbitrage!FetchPriceFromExchange
<1>8. ArbPrices'
  <2>1. PICK h \in [0 .. MaxMoves -> BasePrices] :
          /\ h[base.version] = base.price
          /\ \A d \in Exchanges : priceCache[d] # None =>
                /\ priceCache[d] \in Cached
                /\ priceCache[d].of <= base.version /\ priceCache[d].at <= clock
                /\ Variant(h, priceCache[d], d)
    BY DEF ArbInv, ArbPrices
  <2>2. new.of <= base.version /\ new.at <= clock /\ Variant(h, new, e)
    <3>1. new.price = (h[new.of] * (Arbitrage!Whole + Arbitrage!Variation(e) + noise)) \div 100
      BY <2>1
    <3> QED
      BY <1>2, <3>1 DEF Variant
  <2> HIDE DEF new
  <2>3. \A d \in Exchanges : priceCache'[d] = IF d = e THEN new ELSE priceCache[d]
    BY <1>1, <1>2 DEF new
  <2>4. base' = base /\ clock' = clock
    BY DEF Arbitrage!FetchPriceFromExchange
  <2>5. \A d \in Exchanges : priceCache'[d] # None =>
                /\ priceCache'[d] \in Cached
                /\ priceCache'[d].of <= base'.version /\ priceCache'[d].at <= clock'
                /\ Variant(h, priceCache'[d], d)
    BY <1>5, <2>1, <2>2, <2>3, <2>4
  <2> QED
    BY <2>1, <2>4, <2>5 DEF ArbPrices
<1>9. ArbDecided'
  BY DEF ArbInv, ArbDecided, Arbitrage!FetchPriceFromExchange, Arbitrage!SpreadsAreMovesOfThePrice,
         Arbitrage!HoldsAtItsThreshold, Arbitrage!PricesOfAMinute
<1> QED
  BY <1>6, <1>7, <1>8, <1>9 DEF ArbInv

LEMMA ArbMoves == ASSUME Arbitrage!ArbitrageAssumption, ArbInv, Arbitrage!PriceMoves PROVE ArbInv'
<1>1. PICK p \in BasePrices : base' = [price |-> p, version |-> base.version + 1]
  BY DEF Arbitrage!PriceMoves
<1>2. base.version \in 0 .. MaxMoves /\ base.version + 1 \in 0 .. MaxMoves
  BY DEF ArbInv, ArbTyped, Arbitrage!PriceMoves, Arbitrage!ArbitrageAssumption
<1>3. ArbTyped'
  BY <1>1, <1>2 DEF ArbInv, ArbTyped, Arbitrage!PriceMoves, Cached
<1>4. ArbCounts' /\ ArbDecided'
  BY DEF ArbInv, ArbCounts, ArbDecided, Arbitrage!PriceMoves, Arbitrage!SpreadsAreMovesOfThePrice,
         Arbitrage!HoldsAtItsThreshold, Arbitrage!PricesOfAMinute
<1>5. ArbPrices'
  <2>1. PICK h \in [0 .. MaxMoves -> BasePrices] :
          /\ h[base.version] = base.price
          /\ \A d \in Exchanges : priceCache[d] # None =>
                /\ priceCache[d] \in Cached
                /\ priceCache[d].of <= base.version /\ priceCache[d].at <= clock
                /\ Variant(h, priceCache[d], d)
    BY DEF ArbInv, ArbPrices
  <2> DEFINE g == [h EXCEPT ![base.version + 1] = p]
  <2>2. g \in [0 .. MaxMoves -> BasePrices] /\ g[base.version + 1] = p
    BY <1>2
  <2>3. \A v \in 0 .. MaxMoves : v <= base.version => g[v] = h[v]
    BY <1>2
  <2> HIDE DEF g
  <2>4. ASSUME NEW d \in Exchanges, priceCache[d] # None
        PROVE  /\ priceCache[d].of <= base.version + 1
               /\ Variant(g, priceCache[d], d)
    <3>1. priceCache[d].of \in 0 .. MaxMoves /\ priceCache[d].of <= base.version
      BY <2>1, <2>4 DEF Cached
    <3>2. g[priceCache[d].of] = h[priceCache[d].of]
      BY <2>3, <3>1
    <3>3. Variant(h, priceCache[d], d)
      BY <2>1, <2>4
    <3>4. Variant(g, priceCache[d], d)
      BY <3>2, <3>3 DEF Variant
    <3> QED
      <4>1. priceCache[d].of <= base.version + 1
        BY <1>2, <3>1
      <4> QED
        BY <3>4, <4>1
  <2>5. base'.version = base.version + 1 /\ base'.price = p /\ UNCHANGED <<priceCache, clock>>
    BY <1>1 DEF Arbitrage!PriceMoves
  <2>6. \A d \in Exchanges : priceCache'[d] # None =>
                /\ priceCache'[d] \in Cached
                /\ priceCache'[d].of <= base'.version /\ priceCache'[d].at <= clock'
                /\ Variant(g, priceCache'[d], d)
    BY <2>1, <2>4, <2>5
  <2> QED
    BY <2>2, <2>5, <2>6 DEF ArbPrices
<1> QED
  BY <1>3, <1>4, <1>5 DEF ArbInv

\* What is taken off a score leaves no more than it was.
LEMMA ArbOff ==
    ASSUME NEW n \in 0 .. 74, NEW condition, NEW kept \in 0 .. 100
    PROVE  (IF condition THEN (n * kept) \div 100 ELSE n) \in 0 .. 74
<1>1. n * kept \in Nat /\ n * kept <= 74 * 100
  BY Z3
<1>2. (n * kept) \div 100 \in 0 .. 74
  BY <1>1
<1> QED
  BY <1>2

LEMMA ArbQuotient == ASSUME NEW n \in Nat, NEW d \in Nat \ {0}, n < 75 * d PROVE n \div d \in 0 .. 74
<1>1. n \div d \in Nat /\ d * (n \div d) <= n
  OBVIOUS
<1>2. n \div d < 75
  <2>1. ASSUME n \div d >= 75
        PROVE  FALSE
    <3>1. d * (n \div d) >= d * 75
      BY <1>1, <2>1
    <3> QED
      BY <1>1, <3>1
  <2> QED
    BY <1>1, <2>1
<1> QED
  BY <1>1, <1>2

LEMMA ArbScores == ASSUME NEW opp PROVE Arbitrage!Score(opp) \in 0 .. 74
<1> DEFINE plain == Arbitrage!ProfitScore(opp.profit) * 50 + Arbitrage!LiquidityScore(opp.volume) * 25
           risk == CASE opp.risk = "low" -> 10 [] opp.risk = "medium" -> 8 [] OTHER -> 6
           two == IF opp.risk = "high" /\ opp.slow THEN 8 ELSE 10
           delay == IF opp.slow THEN 7 ELSE 10
           whole == 100 * 1000
<1>1. Arbitrage!ProfitScore(opp.profit) \in 0 .. 99
  BY DEF Arbitrage!ProfitScore
<1>2. Arbitrage!LiquidityScore(opp.volume) \in 0 .. 100
  BY DEF Arbitrage!LiquidityScore
<1>3. plain \in Nat /\ plain <= 99 * 50 + 100 * 25
  BY <1>1, <1>2
<1>4. risk \in 0 .. 10 /\ two \in 0 .. 10 /\ delay \in 0 .. 10
  OBVIOUS
<1>5. Arbitrage!Score(opp) = (plain * risk * delay * two) \div whole
  BY DEF Arbitrage!Score
<1>9. whole \in Nat \ {0} /\ whole = 100 * 1000
  OBVIOUS
<1> HIDE DEF plain, risk, two, delay, whole
<1>6. plain * risk \in Nat /\ plain * risk <= plain * 10
  BY <1>3, <1>4
<1>7. plain * risk * delay \in Nat /\ plain * risk * delay <= plain * risk * 10
  BY <1>4, <1>6
<1>8. plain * risk * delay * two \in Nat /\ plain * risk * delay * two <= plain * risk * delay * 10
  BY <1>4, <1>7
<1>10. plain * risk * delay * two < 75 * whole
  BY <1>3, <1>6, <1>7, <1>8, <1>9
<1>11. PICK k \in Nat : k = plain * risk * delay * two
  BY <1>8
<1>12. k \div whole \in 0 .. 74
  <2>1. k < 75 * whole
    BY <1>10, <1>11
  <2>2. whole \in Nat \ {0}
    BY <1>9
  <2> QED
    BY <2>1, <2>2, ArbQuotient
<1> QED
  BY <1>5, <1>11, <1>12

LEMMA ArbConfidences == ASSUME NEW opp PROVE Arbitrage!Confidence(opp) \in 0 .. 74
<1> DEFINE Off(n, condition, kept) == IF condition THEN (n * kept) \div 100 ELSE n
           medium == Off(Arbitrage!Score(opp), opp.risk = "medium", 90)
           risky == Off(medium, opp.risk = "high", 75)
           slow == Off(risky, opp.slow, 85)
           poor == Off(slow, opp.profit < 20, 70)
           thin == Off(poor, opp.profit \in 20 .. 49, 85)
           few == Off(thin, opp.volume < 100, 70)
<1>1. Arbitrage!Confidence(opp) = Off(few, opp.volume \in 100 .. 999, 85)
  BY DEF Arbitrage!Confidence
<1>2. \A n \in 0 .. 74, kept \in {90, 75, 85, 70} : n \in 0 .. 74 /\ kept \in 0 .. 100
  OBVIOUS
<1>3. Arbitrage!Score(opp) \in 0 .. 74
  BY ArbScores
<1> HIDE DEF few
<1>4. few \in 0 .. 74 => Off(few, opp.volume \in 100 .. 999, 85) \in 0 .. 74
  BY ArbOff
<1> HIDE DEF thin
<1>5. thin \in 0 .. 74 => few \in 0 .. 74
  BY ArbOff DEF few
<1> HIDE DEF poor
<1>6. poor \in 0 .. 74 => thin \in 0 .. 74
  BY ArbOff DEF thin
<1> HIDE DEF slow
<1>7. slow \in 0 .. 74 => poor \in 0 .. 74
  BY ArbOff DEF poor
<1> HIDE DEF risky
<1>8. risky \in 0 .. 74 => slow \in 0 .. 74
  BY ArbOff DEF slow
<1> HIDE DEF medium
<1>9. medium \in 0 .. 74 => risky \in 0 .. 74
  BY ArbOff DEF risky
<1>10. medium \in 0 .. 74
  BY <1>3, ArbOff DEF medium
<1> QED
  BY <1>1, <1>4, <1>5, <1>6, <1>7, <1>8, <1>9, <1>10, ZenonT(40)

\* Fees of a quarter of a percent more than two prices differ by leave nothing, when
\* prices are variations of one and the same.
LEMMA FeesExceed ==
    ASSUME NEW one \in Nat, one = 100 * 100, NEW p \in Nat, p >= 5, NEW b \in Nat, NEW s \in Nat,
           NEW v \in -5 .. 10, NEW w \in -5 .. 10, NEW f \in 0 .. 100, NEW g \in 0 .. 100,
           f + g >= (w - v + 10) + 23,
           100 * b >= p * (one + v - 5) - 99, 100 * s <= p * (one + w + 5), 100 * s >= p * (one + w - 5) - 99
    PROVE  s * one - s * f <= b * (one + g)
<1>1. PICK q \in Nat : q = p * one
  OBVIOUS
<1>2. q >= 5 * one /\ q >= 1000 * p
  BY <1>1
<1>3. p * (one + v - 5) = q + p * v - 5 * p /\ p * (one + w + 5) = q + p * w + 5 * p
      /\ p * (one + w - 5) = q + p * w - 5 * p
  BY <1>1
<1>4. /\ -5 * p <= p * v /\ -5 * p <= p * w
      /\ p * v \in Int /\ p * w \in Int
  OBVIOUS
<1>5. 100 * (s - b) <= p * (w - v + 10) + 99
  <2>1. p * (w - v + 10) = p * w - p * v + 10 * p
    OBVIOUS
  <2> QED
    BY <1>3, <1>4, <2>1
<1>6. 100 * b >= q - 10 * p - 99 /\ 100 * s >= q - 10 * p - 99
  BY <1>3, <1>4
<1>7. PICK k \in -5 .. 25 : k = w - v + 10
  OBVIOUS
<1>8. (100 * (s - b)) * one <= k * q + 99 * one
  <2>1. (100 * (s - b)) * one <= (p * k + 99) * one
    BY <1>5, <1>7
  <2>2. (p * k + 99) * one = k * q + 99 * one
    BY <1>1
  <2> QED
    BY <2>1, <2>2
<1>9. PICK y \in Nat : y = q - 10 * p - 99
  BY <1>2
<1>10. 100 * (s * f) + 100 * (b * g) >= (f + g) * y
  <2>1. (100 * s) * f >= y * f /\ (100 * b) * g >= y * g
    BY <1>6, <1>9
  <2>2. (100 * s) * f = 100 * (s * f) /\ (100 * b) * g = 100 * (b * g)
    OBVIOUS
  <2>3. (f + g) * y = y * f + y * g
    OBVIOUS
  <2>4. PICK a1 \in Int, a2 \in Int, a3 \in Int, a4 \in Int : a1 = s * f /\ a2 = b * g /\ a3 = y * f /\ a4 = y * g
    OBVIOUS
  <2>5. 100 * a1 >= a3 /\ 100 * a2 >= a4
    BY <2>1, <2>2, <2>4
  <2>6. 100 * a1 + 100 * a2 >= a3 + a4
    BY <2>5
  <2> QED
    BY <2>3, <2>4, <2>6
<1>11. (f + g) * y >= (k + 23) * y
  BY <1>7
<1>12. (k + 23) * y >= k * q + 99 * one
  <2>1. (k + 23) * y = k * q + 23 * q - (k + 23) * (10 * p + 99)
    BY <1>9
  <2>2. (k + 23) * (10 * p + 99) <= 48 * (10 * p + 99)
    OBVIOUS
  <2>3. 23 * q >= 48 * (10 * p + 99) + 99 * one
    BY <1>2
  <2>4. k * q \in Int /\ (k + 23) * (10 * p + 99) \in Int
    OBVIOUS
  <2> QED
    BY <2>1, <2>2, <2>3, <2>4
<1>13. (100 * (s - b)) * one <= 100 * (s * f) + 100 * (b * g)
  <2>1. /\ (f + g) * y \in Int /\ (k + 23) * y \in Int /\ k * q + 99 * one \in Int
        /\ (100 * (s - b)) * one \in Int /\ 100 * (s * f) + 100 * (b * g) \in Int
    BY <1>7, <1>9
  <2>2. PICK a1 \in Int, a2 \in Int, a3 \in Int, a4 \in Int, a5 \in Int :
          /\ a1 = (100 * (s - b)) * one /\ a2 = k * q + 99 * one /\ a3 = (k + 23) * y
          /\ a4 = (f + g) * y /\ a5 = 100 * (s * f) + 100 * (b * g)
    BY <2>1, Zenon
  <2>3. a1 <= a2 /\ a3 >= a2 /\ a4 >= a3 /\ a5 >= a4
    BY <1>8, <1>10, <1>11, <1>12, <2>2, Zenon
  <2>4. a1 <= a5
    BY <2>3
  <2> QED
    BY <2>2, <2>4, Zenon
<1>14. (s - b) * one <= s * f + b * g
  <2>1. (100 * (s - b)) * one = 100 * ((s - b) * one)
    OBVIOUS
  <2>2. PICK x \in Int, a1 \in Int, a2 \in Int : x = (s - b) * one /\ a1 = s * f /\ a2 = b * g
    OBVIOUS
  <2>3. 100 * x <= 100 * a1 + 100 * a2
    BY <1>13, <2>1, <2>2
  <2>4. x <= a1 + a2
    BY <2>3
  <2> QED
    BY <2>2, <2>4
<1>15. (s - b) * one = s * one - b * one /\ b * (one + g) = b * one + b * g
  OBVIOUS
<1>16. s * one \in Int /\ b * one \in Int /\ s * f \in Int /\ b * g \in Int
  OBVIOUS
<1> QED
  BY <1>14, <1>15, <1>16

Varied(one, p, v, n) == (p * (one + v + n)) \div 100

Near(one, p, v, x) ==
    x \in Nat /\ x >= 1 /\ 100 * x >= p * (one + v - 5) - 99 /\ 100 * x <= p * (one + v + 5)

LEMMA VariationsAreSmall ==
    ASSUME NEW one \in Nat, one = 100 * 100, NEW p \in Nat, p >= 5, NEW v \in -5 .. 10, NEW n \in -5 .. 5
    PROVE  Near(one, p, v, Varied(one, p, v, n))
<1> DEFINE x == Varied(one, p, v, n)
<1>1. PICK k \in Nat : k = p * (one + v + n)
  OBVIOUS
<1>2. PICK lo \in Nat, hi \in Nat : lo = p * (one + v - 5) /\ hi = p * (one + v + 5)
  OBVIOUS
<1>3. lo <= k /\ k <= hi
  <2>1. p * (one + v - 5) <= p * (one + v + n) /\ p * (one + v + n) <= p * (one + v + 5)
    OBVIOUS
  <2> QED
    BY <1>1, <1>2, <2>1
<1>4. lo >= 200
  <2>1. one + v - 5 >= 200
    OBVIOUS
  <2>2. p * (one + v - 5) >= one + v - 5
    OBVIOUS
  <2> QED
    BY <1>2, <2>1, <2>2
<1>5. x = k \div 100
  BY <1>1, Zenon DEF Varied
<1> HIDE DEF x
<1>6. x \in Nat /\ 100 * x <= k /\ 100 * x >= k - 99
  BY <1>5
<1>7. x >= 1
  BY <1>3, <1>4, <1>6
<1>8. 100 * x >= lo - 99 /\ 100 * x <= hi
  BY <1>3, <1>6
<1> QED
  BY <1>2, <1>6, <1>7, <1>8 DEF Near, x

\* A loss over what was paid is none.
LEMMA NoProfitOverCost ==
    ASSUME NEW one \in Nat \ {0}, NEW cost \in Nat, cost >= one, NEW got \in Int, got <= cost
    PROVE  ~ ((got - cost) \div (cost \div one) > 0)
<1>1. PICK d \in Nat : d = cost \div one
  OBVIOUS
<1>2. d >= 1
  <2>1. cost < one * (d + 1)
    BY <1>1
  <2>2. ASSUME d = 0
        PROVE  FALSE
    BY <2>1, <2>2
  <2> QED
    BY <2>2
<1>3. PICK n \in Int : n = got - cost /\ n <= 0
  OBVIOUS
<1>4. PICK r \in Int : r = n \div d
  BY <1>2
<1>5. d * r <= n
  BY <1>2, <1>4
<1>6. ~ r > 0
  <2>1. ASSUME r > 0
        PROVE  d * r > 0
    BY <1>2, <2>1
  <2> QED
    BY <1>3, <1>5, <2>1
<1> QED
  BY <1>1, <1>3, <1>4, <1>6

LEMMA NoProfitInOnePrice ==
    ASSUME Arbitrage!ArbitrageAssumption, ArbInv, NEW from \in Exchanges, NEW to \in Exchanges,
           from \in DOMAIN Arbitrage!Fees, to \in DOMAIN Arbitrage!Fees, from # to,
           priceCache[from] # None, priceCache[to] # None, priceCache[from].of = priceCache[to].of
    PROVE  ~ (Arbitrage!Profit(priceCache[from].price, priceCache[to].price, from, to) > 0)
<1>1. PICK h \in [0 .. MaxMoves -> BasePrices] :
        \A e \in Exchanges : priceCache[e] # None => priceCache[e] \in Cached /\ Variant(h, priceCache[e], e)
  BY DEF ArbInv, ArbPrices
<1>2. PICK p \in Nat : p = h[priceCache[from].of] /\ p = h[priceCache[to].of] /\ p >= 5
  <2>1. priceCache[from].of \in 0 .. MaxMoves
    BY <1>1 DEF Cached
  <2> QED
    BY <1>1, <2>1 DEF Arbitrage!ArbitrageAssumption
<1>3. PICK one \in Nat : one = Arbitrage!Whole /\ one = 100 * 100
  BY DEF Arbitrage!Whole
<1>4. \A n \in Noise : n \in -5 .. 5
  BY DEF Arbitrage!ArbitrageAssumption
<1>6. PICK m \in -5 .. 5 : priceCache[from].price = (p * (one + Arbitrage!Variation(from) + m)) \div 100
  BY <1>1, <1>2, <1>3, <1>4, Zenon DEF Variant
<1>7. PICK n \in -5 .. 5 : priceCache[to].price = (p * (one + Arbitrage!Variation(to) + n)) \div 100
  BY <1>1, <1>2, <1>3, <1>4, Zenon DEF Variant
<1>8. from \in {"binance", "coinbase", "kraken"} /\ to \in {"binance", "coinbase", "kraken"}
  BY DEF Arbitrage!Fees
<1>9. PICK v \in -5 .. 10, w \in -5 .. 10, f \in 0 .. 100, g1 \in 0 .. 100, g2 \in 0 .. 100 :
        /\ v = Arbitrage!Variation(from) /\ w = Arbitrage!Variation(to)
        /\ f = Arbitrage!Fees[to].taker /\ g1 = Arbitrage!Fees[from].taker /\ g2 = Arbitrage!Fees[from].withdraw
        /\ f + (g1 + g2) >= (w - v + 10) + 23 /\ g1 + g2 \in 0 .. 100
  <2>1. /\ Arbitrage!Fees["binance"].taker = 10 /\ Arbitrage!Fees["binance"].withdraw = 5
        /\ Arbitrage!Fees["coinbase"].taker = 60 /\ Arbitrage!Fees["coinbase"].withdraw = 10
        /\ Arbitrage!Fees["kraken"].taker = 26 /\ Arbitrage!Fees["kraken"].withdraw = 9
    BY DEF Arbitrage!Fees
  <2>2. /\ Arbitrage!Variation("binance") = -5 /\ Arbitrage!Variation("coinbase") = 10
        /\ Arbitrage!Variation("kraken") = 3
    BY DEF Arbitrage!Variation
  <2>3. \A e \in {"binance", "coinbase", "kraken"} :
          /\ e = "binance" => Arbitrage!Variation(e) = -5 /\ Arbitrage!Fees[e].taker = 10 /\ Arbitrage!Fees[e].withdraw = 5
          /\ e = "coinbase" => Arbitrage!Variation(e) = 10 /\ Arbitrage!Fees[e].taker = 60 /\ Arbitrage!Fees[e].withdraw = 10
          /\ e = "kraken" => Arbitrage!Variation(e) = 3 /\ Arbitrage!Fees[e].taker = 26 /\ Arbitrage!Fees[e].withdraw = 9
    BY <2>1, <2>2, Zenon
  <2>4. PICK v \in {-5, 10, 3}, g1 \in {10, 60, 26}, g2 \in {5, 10, 9} :
          /\ v = Arbitrage!Variation(from) /\ g1 = Arbitrage!Fees[from].taker /\ g2 = Arbitrage!Fees[from].withdraw
          /\ from = "binance" => v = -5 /\ g1 = 10 /\ g2 = 5
          /\ from = "coinbase" => v = 10 /\ g1 = 60 /\ g2 = 10
          /\ from = "kraken" => v = 3 /\ g1 = 26 /\ g2 = 9
    BY <1>8, <2>3
  <2>5. PICK w \in {-5, 10, 3}, f \in {10, 60, 26} :
          /\ w = Arbitrage!Variation(to) /\ f = Arbitrage!Fees[to].taker
          /\ to = "binance" => w = -5 /\ f = 10
          /\ to = "coinbase" => w = 10 /\ f = 60
          /\ to = "kraken" => w = 3 /\ f = 26
    BY <1>8, <2>3
  <2>6. f + (g1 + g2) >= (w - v + 10) + 23
    <3>1. \/ v = -5 /\ g1 = 10 /\ g2 = 5 /\ ((w = 10 /\ f = 60) \/ (w = 3 /\ f = 26))
          \/ v = 10 /\ g1 = 60 /\ g2 = 10 /\ ((w = -5 /\ f = 10) \/ (w = 3 /\ f = 26))
          \/ v = 3 /\ g1 = 26 /\ g2 = 9 /\ ((w = -5 /\ f = 10) \/ (w = 10 /\ f = 60))
      BY <1>8, <2>4, <2>5, Zenon
    <3> QED
      BY <3>1
  <2>7. v \in -5 .. 10 /\ w \in -5 .. 10 /\ f \in 0 .. 100 /\ g1 \in 0 .. 100 /\ g2 \in 0 .. 100 /\ g1 + g2 \in 0 .. 100
    OBVIOUS
  <2> QED
    BY <2>4, <2>5, <2>6, <2>7, Zenon
<1>20. /\ v = Arbitrage!Variation(from) /\ w = Arbitrage!Variation(to)
       /\ f = Arbitrage!Fees[to].taker /\ g1 = Arbitrage!Fees[from].taker /\ g2 = Arbitrage!Fees[from].withdraw
       /\ one = Arbitrage!Whole
  BY <1>3, <1>9
<1> DEFINE b == priceCache[from].price
           s == priceCache[to].price
           cost == b * (one + g1 + g2) + s * f
<1>10. Arbitrage!Profit(b, s, from, to) = (s * one - cost) \div (cost \div one)
  BY <1>20, Zenon DEF Arbitrage!Profit
<1>11. b = (p * (one + v + m)) \div 100 /\ s = (p * (one + w + n)) \div 100
  BY <1>6, <1>7, <1>20, Zenon
<1> HIDE DEF b, s, cost
<1>12. /\ b \in Nat /\ b >= 1 /\ 100 * b >= p * (one + v - 5) - 99
       /\ s \in Nat /\ 100 * s <= p * (one + w + 5) /\ 100 * s >= p * (one + w - 5) - 99
  <2>1. one \in Nat /\ one = 100 * 100 /\ p \in Nat /\ p >= 5
    BY <1>2, <1>3
  <2>4. b = Varied(one, p, v, m) /\ s = Varied(one, p, w, n)
    BY <1>11, Zenon DEF Varied
  <2>2. Near(one, p, v, Varied(one, p, v, m)) /\ Near(one, p, w, Varied(one, p, w, n))
    BY <2>1, VariationsAreSmall
  <2>3. Near(one, p, v, b) /\ Near(one, p, w, s)
    BY <2>2, <2>4, Zenon
  <2> QED
    BY <2>3, Zenon DEF Near
<1>13. s * one - s * f <= b * (one + (g1 + g2))
  BY <1>2, <1>3, <1>9, <1>12, FeesExceed
<1>14. PICK c \in Nat : c = b * (one + (g1 + g2)) + s * f
  BY <1>12
<1>15. cost = c
  <2>1. one + g1 + g2 = one + (g1 + g2)
    OBVIOUS
  <2> QED
    BY <1>14, <2>1, Zenon DEF cost
<1>16. PICK got \in Nat : got = s * one
  BY <1>12
<1>17. got <= c
  BY <1>12, <1>13, <1>14, <1>16
<1>18. c >= one
  <2>1. b * (one + (g1 + g2)) >= one
    BY <1>12
  <2>2. s * f \in Nat /\ b * (one + (g1 + g2)) \in Nat
    BY <1>12
  <2> QED
    BY <1>14, <2>1, <2>2
<1>19. ~ ((got - c) \div (c \div one) > 0)
  BY <1>3, <1>17, <1>18, NoProfitOverCost
<1> QED
  BY <1>10, <1>15, <1>16, <1>19, Zenon DEF b, s

\* What is signalled is an opportunity between prices of two versions, not a minute apart.
LEMMA ArbDecides ==
    ASSUME Arbitrage!ArbitrageAssumption, ArbInv, NEW d \in Arbitrage!GenerateDecision(Arbitrage!CalculateSpreads),
           d # Arbitrage!Hold
    PROVE  /\ d.signal = "ARBITRAGE" /\ d.confidence \in 0 .. 74 /\ d.confidence >= threshold
           /\ d.buy.of # d.sell.of /\ d.buy.at - d.sell.at \in -Minute .. Minute
<1>1. PICK top \in Arbitrage!CalculateSpreads :
        d = [signal |-> "ARBITRAGE", confidence |-> Arbitrage!Confidence(top),
             buy |-> priceCache[top.from], sell |-> priceCache[top.to]]
        /\ ~ (Arbitrage!Confidence(top) < threshold)
  <2>1. Arbitrage!CalculateSpreads # {}
    BY Zenon DEF Arbitrage!GenerateDecision
  <2> QED
    BY <2>1, Zenon DEF Arbitrage!GenerateDecision
<1>2. Arbitrage!Confidence(top) \in 0 .. 74
  BY ArbConfidences
<1>3. threshold \in Int
  BY DEF ArbInv, ArbTyped, Arbitrage!ArbitrageAssumption
<1>4. Arbitrage!Confidence(top) >= threshold
  BY <1>1, <1>2, <1>3
<1>5. PICK from \in Arbitrage!Comparable \cap DOMAIN Arbitrage!Fees, to \in Arbitrage!Comparable \cap DOMAIN Arbitrage!Fees :
        top = Arbitrage!CalculateOpportunity(from, to)
  BY <1>1, SMT DEF Arbitrage!CalculateSpreads
<1>6. /\ from \in Exchanges /\ priceCache[from] # None /\ clock - priceCache[from].at <= Minute
      /\ to \in Exchanges /\ priceCache[to] # None /\ clock - priceCache[to].at <= Minute
  BY <1>5, Zenon DEF Arbitrage!Comparable
<1>7. /\ top.from = from /\ top.to = to
      /\ top.profit = Arbitrage!Profit(priceCache[from].price, priceCache[to].price, from, to)
  BY <1>5 DEF Arbitrage!CalculateOpportunity
<1>8. top.from # top.to /\ top.profit > 0
  BY <1>1, SMT DEF Arbitrage!CalculateSpreads
<1>9. priceCache[from].of # priceCache[to].of
  BY <1>5, <1>6, <1>7, <1>8, NoProfitInOnePrice, Zenon
<1>10. d.buy = priceCache[from] /\ d.sell = priceCache[to] /\ d.signal = "ARBITRAGE"
       /\ d.confidence = Arbitrage!Confidence(top)
  BY <1>1, <1>7
<1>11. priceCache[from].at - priceCache[to].at \in -Minute .. Minute
  <2>1. priceCache[from].at \in Int /\ priceCache[from].at <= clock
    BY <1>6 DEF ArbInv, ArbPrices, Cached
  <2>2. priceCache[to].at \in Int /\ priceCache[to].at <= clock
    BY <1>6 DEF ArbInv, ArbPrices, Cached
  <2>3. clock \in Int /\ Minute \in Nat
    BY DEF ArbInv, ArbTyped, Arbitrage!ArbitrageAssumption
  <2> QED
    BY <1>6, <2>1, <2>2, <2>3
<1> QED
  BY <1>2, <1>4, <1>9, <1>10, <1>11

LEMMA ArbEnds == ASSUME Arbitrage!ArbitrageAssumption, ArbInv, Arbitrage!ArbitrageStepEnds PROVE ArbInv'
<1> USE DEF Arbitrage!ArbitrageStepEnds
<1>1. ArbTyped'
  BY DEF ArbInv, ArbTyped
<1>2. ArbCounts'
  BY DEF ArbInv, ArbCounts
<1>3. ArbPrices'
  BY DEF ArbInv, ArbPrices, Variant
<1>4. ArbDecided'
  <2>1. CASE UNCHANGED decision
    BY <2>1 DEF ArbInv, ArbDecided, Arbitrage!SpreadsAreMovesOfThePrice, Arbitrage!HoldsAtItsThreshold,
                Arbitrage!PricesOfAMinute
  <2>2. CASE decision' = Arbitrage!Hold
    BY <2>2 DEF ArbDecided, Arbitrage!Hold, Arbitrage!SpreadsAreMovesOfThePrice, Arbitrage!HoldsAtItsThreshold,
                Arbitrage!PricesOfAMinute
  <2>3. CASE /\ decision' \in Arbitrage!GenerateDecision(Arbitrage!CalculateSpreads)
             /\ decision' # Arbitrage!Hold
    <3>1. PICK d \in Arbitrage!GenerateDecision(Arbitrage!CalculateSpreads) : d = decision' /\ d # Arbitrage!Hold
      BY <2>3
    <3>2. /\ d.signal = "ARBITRAGE" /\ d.confidence \in 0 .. 74 /\ d.confidence >= threshold
          /\ d.buy.of # d.sell.of /\ d.buy.at - d.sell.at \in -Minute .. Minute
      BY <3>1, ArbDecides
    <3>3. threshold' = threshold /\ threshold \in Int
      BY DEF ArbInv, ArbTyped, Arbitrage!ArbitrageAssumption
    <3>4. decision'.confidence \in 0 .. 100 /\ ~ (threshold' > 75)
      BY <3>1, <3>2, <3>3
    <3> QED
      BY <3>1, <3>2, <3>4 DEF ArbDecided, Arbitrage!SpreadsAreMovesOfThePrice, Arbitrage!HoldsAtItsThreshold,
                Arbitrage!PricesOfAMinute
  <2> QED
    BY <2>1, <2>2, <2>3, Zenon
<1> QED
  BY <1>1, <1>2, <1>3, <1>4 DEF ArbInv

LEMMA ArbitrageStep ==
    ASSUME Arbitrage!ArbitrageAssumption, ArbInv, Arbitrage!ArbitrageNext \/ UNCHANGED spreads
    PROVE  ArbInv'
<1>0. clock \in Int
  BY DEF ArbInv, ArbTyped
<1>1. CASE Arbitrage!FetchPrices
  <2>1. ArbTyped' /\ clock' >= clock
    BY <1>0, <1>1 DEF Arbitrage!FetchPrices, ArbInv, ArbTyped
  <2>2. ArbCounts'
    BY <1>1, ExchangesAreFinite DEF Arbitrage!FetchPrices, ArbCounts
  <2> QED
    BY <1>1, <2>1, <2>2, ArbQuiet DEF Arbitrage!FetchPrices
<1>2. ASSUME NEW e \in Exchanges, Arbitrage!FetchFails(e)
      PROVE  ArbInv'
  <2>1. ArbTyped' /\ clock' >= clock
    BY <1>0, <1>2 DEF Arbitrage!FetchFails, ArbInv, ArbTyped
  <2>2. ArbCounts'
    BY <1>2, ArbGoroutineEnds DEF Arbitrage!FetchFails
  <2> QED
    BY <1>2, <2>1, <2>2, ArbQuiet DEF Arbitrage!FetchFails
<1>3. CASE Arbitrage!ArbitrageTick
  <2>1. ArbTyped' /\ clock' >= clock
    BY <1>0, <1>3 DEF Arbitrage!ArbitrageTick, ArbInv, ArbTyped, Arbitrage!ArbitrageAssumption
  <2>2. ArbCounts'
    BY <1>3 DEF Arbitrage!ArbitrageTick, ArbInv, ArbCounts
  <2> QED
    BY <1>3, <2>1, <2>2, ArbQuiet DEF Arbitrage!ArbitrageTick
<1>4. CASE UNCHANGED spreads
  <2>1. ArbTyped' /\ clock' >= clock
    BY <1>0, <1>4 DEF spreads, ArbInv, ArbTyped
  <2>2. ArbCounts'
    BY <1>4 DEF spreads, ArbInv, ArbCounts
  <2> QED
    BY <1>4, <2>1, <2>2, ArbQuiet DEF spreads
<1> QED
  BY <1>1, <1>2, <1>3, <1>4, ArbEnds, ArbMoves, ArbFetches DEF Arbitrage!ArbitrageNext

-----------------------------------------------------------------------------
(* The risk agent.                                                         *)

LEMMA RiskSum == \A f, S : Risk!Sum(f, S) = Total(f, S)
BY DEF Risk!Sum, Risk!MapThenSumSet, Risk!MapThenFoldSet, Total, SumFunctionOnSet, FoldFunctionOnSet, MapThenFoldSet

LEMMA RiskFinite == \A S : (Risk!IsFiniteSet(S) <=> IsFiniteSet(S)) /\ Risk!Cardinality(S) = Cardinality(S)
<1>1. \A S : Risk!IsFiniteSet(S) <=> IsFiniteSet(S)
  BY DEF Risk!IsFiniteSet, IsFiniteSet
<1>2. \A S : Risk!Cardinality(S) = Cardinality(S)
  BY DEF Risk!Cardinality, Cardinality
<1> QED
  BY <1>1, <1>2

\* The largest of a finite set of numbers.
LEMMA LargestExists ==
    ASSUME NEW S \in SUBSET Nat, IsFiniteSet(S), S # {}
    PROVE  \E x \in S : \A y \in S : x >= y
<1> DEFINE Above(x) == {y \in S : y > x}
           Counts == {n \in Nat : \E x \in S : n = Cardinality(Above(x))}
<1>1. \A x \in S : IsFiniteSet(Above(x)) /\ Cardinality(Above(x)) \in Nat
  BY FS_Subset, FS_CardinalityType
<1>2. Counts \in SUBSET Nat /\ Counts # {}
  BY <1>1
<1>3. PICK n \in Counts : \A m \in Counts : ~ (m < n)
  <2> HIDE DEF Counts
  <2> QED
    BY <1>2, Least
<1>4. PICK x \in S : n = Cardinality(Above(x))
  BY <1>3
<1>5. ASSUME NEW y \in S, ~ (x >= y)
      PROVE  FALSE
  <2>0. x \in Nat /\ y \in Nat /\ y > x /\ \A z \in S : z \in Nat
    BY <1>5
  <2>1. Above(y) \subseteq Above(x) /\ y \in Above(x) /\ y \notin Above(y)
    <3>1. \A z \in S : z > y => z > x
      BY <2>0
    <3>2. ~ (y > y)
      BY <2>0
    <3> QED
      BY <2>0, <3>1, <3>2
  <2>2. Cardinality(Above(y)) <= Cardinality(Above(x)) /\ Cardinality(Above(y)) # Cardinality(Above(x))
    <3> HIDE DEF Above
    <3> QED
      BY <1>1, <2>1, FS_Subset
  <2>3. Cardinality(Above(y)) \in Counts
    BY <1>1
  <2>4. Cardinality(Above(y)) < n
    <3> HIDE DEF Above, Counts
    <3> QED
      BY <1>1, <1>4, <1>5, <2>2
  <2> QED
    BY <1>3, <2>3, <2>4
<1> QED
  BY <1>5

LEMMA DivAtMost ==
    ASSUME NEW n \in Nat, NEW c \in Nat \ {0}, NEW m \in Nat, n <= c * m
    PROVE  n \div c \in Nat /\ n \div c <= m
<1>1. PICK d \in Nat : d = n \div c /\ c * d <= n
  OBVIOUS
<1>2. ASSUME d >= m + 1
      PROVE  FALSE
  <2>1. c * d >= c * (m + 1)
    BY <1>2
  <2>2. c * (m + 1) = c * m + c
    OBVIOUS
  <2>3. PICK a \in Int, b \in Int : a = c * d /\ b = c * m
    OBVIOUS
  <2> QED
    BY <1>1, <2>1, <2>2, <2>3
<1> QED
  BY <1>1, <1>2

LEMMA RiskRows ==
    ASSUME Risk!RiskAssumption
    PROVE  /\ IsFiniteSet(Rows) /\ IsFiniteSet(Risk!Symbols)
           /\ \A r \in Rows : r.symbol \in Risk!Symbols /\ r.side \in {"LONG", "SHORT"}
           /\ \A r \in Rows : r.qty \in Nat /\ r.price \in Nat
<1>1. IsFiniteSet(Rows)
  BY RiskFinite, Zenon DEF Risk!RiskAssumption
<1>2. Rows \subseteq [symbol : {r.symbol : r \in Rows}, side : {"LONG", "SHORT"}, qty : Nat, price : Nat]
  BY Zenon DEF Risk!RiskAssumption
<1>3. \A r \in Rows : r.symbol \in Risk!Symbols /\ r.side \in {"LONG", "SHORT"} /\ r.qty \in Nat /\ r.price \in Nat
  BY <1>2 DEF Risk!Symbols
<1>4. IsFiniteSet(Risk!Symbols)
  <2> DEFINE f == [r \in Rows |-> r.symbol]
  <2>1. f \in Surjection(Rows, Risk!Symbols)
    BY DEF Surjection, Risk!Symbols
  <2> QED
    BY <1>1, <2>1, FS_Surjection
<1> QED
  BY <1>1, <1>3, <1>4

Of(s) == {r \in positions : r.symbol = s}
LongOf(s) == {r \in Of(s) : r.side = "LONG"}
Signed == [r \in Rows |-> IF r.side = "LONG" THEN r.qty ELSE -r.qty]
Quantity == [r \in Rows |-> r.qty]
Priced == [r \in Rows |-> r.price]
AtTheDearest == [r \in Rows |-> r.qty * Risk!Max({q.price : q \in Rows})]

\* What is net long of a symbol is no more than its long rows hold, and is there only
\* if one of them is.
LEMMA NetIsOfLongs ==
    ASSUME Risk!RiskAssumption, positions \subseteq Rows, NEW s
    PROVE  /\ IsFiniteSet(LongOf(s)) /\ LongOf(s) \subseteq Rows
           /\ Total(Signed, Of(s)) \in Int /\ Total(Quantity, LongOf(s)) \in Nat
           /\ Total(Signed, Of(s)) <= Total(Quantity, LongOf(s))
           /\ Total(Signed, Of(s)) > 0 => Cardinality(LongOf(s)) \in Nat \ {0}
<1>1. Of(s) \subseteq Rows /\ LongOf(s) \subseteq Of(s) /\ IsFiniteSet(Of(s)) /\ IsFiniteSet(LongOf(s))
  BY RiskRows, FS_Subset DEF Of, LongOf
<1>2. \A r \in Of(s) : Signed[r] \in Int
  BY <1>1, RiskRows DEF Signed
<1>3. \A r \in Of(s) \ LongOf(s) : Signed[r] <= 0
  BY <1>1, RiskRows DEF Signed, LongOf
<1>4. \A r \in LongOf(s) : Quantity[r] \in Nat /\ Signed[r] = Quantity[r]
  BY <1>1, RiskRows DEF Signed, Quantity, LongOf
<1>5. /\ Total(Signed, Of(s)) \in Int /\ Total(Signed, LongOf(s)) \in Int
      /\ Total(Signed, Of(s)) <= Total(Signed, LongOf(s))
  BY <1>1, <1>2, <1>3, SumOfPart
<1>6. Total(Signed, LongOf(s)) = Total(Quantity, LongOf(s))
  BY <1>1, <1>4, SumAgree
<1>7. Total(Quantity, LongOf(s)) \in Nat
  BY <1>1, <1>4, SumNat
<1>8. ASSUME Total(Signed, Of(s)) > 0
      PROVE  Cardinality(LongOf(s)) \in Nat \ {0}
  <2>1. ASSUME LongOf(s) = {}
        PROVE  FALSE
    <3>1. Total(Quantity, LongOf(s)) = 0
      BY <1>1, <2>1, SumOfNothing
    <3> QED
      BY <1>5, <1>6, <1>8, <3>1
  <2> QED
    BY <1>1, <2>1, FS_EmptySet, FS_CardinalityType
<1> QED
  BY <1>1, <1>5, <1>6, <1>7, <1>8

\* What such a symbol is believed to be exposed.
LEMMA NetLongIs ==
    ASSUME Risk!RiskAssumption, positions \subseteq Rows
    PROVE  /\ DOMAIN Risk!NetLongPositions \subseteq Risk!Symbols
           /\ \A s \in DOMAIN Risk!NetLongPositions :
                 /\ Risk!NetLongPositions[s] \in Nat
                 /\ Risk!NetLongPositions[s] <= Total(AtTheDearest, LongOf(s))
<1> DEFINE Shown == {t \in Risk!Symbols : Total(Signed, Of(t)) > 0}
           Value(s) == (Total(Signed, Of(s)) * Total(Priced, LongOf(s))) \div Cardinality(LongOf(s))
<1>1. Risk!NetLongPositions = [s \in Shown |-> Value(s)]
  BY RiskSum, RiskFinite DEF Risk!NetLongPositions, Of, LongOf, Signed, Priced
<1>2. ASSUME NEW s \in Shown
      PROVE  Value(s) \in Nat /\ Value(s) <= Total(AtTheDearest, LongOf(s))
  <2>1. /\ IsFiniteSet(LongOf(s)) /\ LongOf(s) \subseteq Rows
        /\ Total(Signed, Of(s)) \in Int /\ Total(Quantity, LongOf(s)) \in Nat
        /\ Total(Signed, Of(s)) <= Total(Quantity, LongOf(s))
        /\ Total(Signed, Of(s)) > 0 => Cardinality(LongOf(s)) \in Nat \ {0}
    BY NetIsOfLongs
  <2>2. PICK c \in Nat \ {0} : c = Cardinality(LongOf(s))
    BY <2>1
  <2>3. PICK n \in Nat, q \in Nat : n = Total(Signed, Of(s)) /\ q = Total(Quantity, LongOf(s)) /\ n <= q
    BY <2>1
  <2>4. PICK m \in Nat : m = Risk!Max({r.price : r \in Rows}) /\ \A r \in Rows : r.price <= m
    <3> DEFINE S == {r.price : r \in Rows}
    <3>1. S \in SUBSET Nat /\ S # {}
      <4>1. \E r \in LongOf(s) : r \in Rows
        <5>1. LongOf(s) # {}
          BY <2>1, <2>2, FS_EmptySet
        <5> QED
          BY <2>1, <5>1
      <4> QED
        BY <4>1, RiskRows
    <3>2. IsFiniteSet(S)
      <4> DEFINE f == [r \in Rows |-> r.price]
      <4>1. f \in Surjection(Rows, S)
        BY DEF Surjection
      <4> QED
        BY <4>1, RiskRows, FS_Surjection
    <3>3. \E x \in S : \A y \in S : x >= y
      <4> HIDE DEF S
      <4> QED
        BY <3>1, <3>2, LargestExists
    <3>4. Risk!Max(S) \in S /\ \A y \in S : Risk!Max(S) >= y
      <4> HIDE DEF S
      <4> QED
        BY <3>3 DEF Risk!Max
    <3>5. \A r \in Rows : r.price \in S
      OBVIOUS
    <3> HIDE DEF S
    <3>6. Risk!Max(S) \in Nat /\ \A r \in Rows : r.price <= Risk!Max(S)
      BY <3>1, <3>4, <3>5, RiskRows
    <3> QED
      BY <3>6 DEF S
  <2>5. PICK p \in Nat : p = Total(Priced, LongOf(s)) /\ p <= c * m
    <3>1. \A r \in LongOf(s) : Priced[r] \in Nat /\ Priced[r] <= m
      BY <2>1, <2>4, RiskRows DEF Priced
    <3>2. Total(Priced, LongOf(s)) \in Nat
      BY <2>1, <3>1, SumNat
    <3>3. Total(Priced, LongOf(s)) <= Cardinality(LongOf(s)) * m
      BY <2>1, <3>1, SumOfAtMost
    <3> QED
      BY <2>2, <3>2, <3>3
  <2>6. Total(AtTheDearest, LongOf(s)) = q * m
    <3>1. \A r \in LongOf(s) : Quantity[r] \in Int /\ AtTheDearest[r] = Quantity[r] * m
      BY <2>1, <2>4, RiskRows DEF Quantity, AtTheDearest
    <3> QED
      BY <2>1, <2>3, <3>1, SumScale
  <2>7. n * p <= c * (n * m)
    <3>1. n * p <= n * (c * m)
      BY <2>5
    <3>2. n * (c * m) = c * (n * m)
      OBVIOUS
    <3> QED
      BY <3>1, <3>2
  <2>8. n * m <= q * m
    BY <2>3
  <2>9. (n * p) \div c \in Nat /\ (n * p) \div c <= n * m
    <3>1. n * p \in Nat /\ n * m \in Nat
      OBVIOUS
    <3>2. PICK a \in Nat, b \in Nat : a = n * p /\ b = n * m
      BY <3>1
    <3>3. a <= c * b
      BY <2>7, <3>2
    <3>4. a \div c \in Nat /\ a \div c <= b
      BY <3>3, DivAtMost
    <3> QED
      BY <3>2, <3>4
  <2>10. Value(s) = (n * p) \div c
    BY <2>2, <2>3, <2>5
  <2> HIDE DEF Value
  <2>11. n * m \in Nat /\ q * m \in Nat
    OBVIOUS
  <2> QED
    BY <2>6, <2>8, <2>9, <2>10, <2>11
<1> HIDE DEF Value
<1> QED
  BY <1>1, <1>2

RiskTyped ==
    /\ positions \subseteq Rows /\ DOMAIN believed \subseteq Risk!Symbols
    /\ \A s \in DOMAIN believed : believed[s] \in Nat
    /\ drawdown \in Drawdowns \cup {0} /\ volatility \in Volatilities \cup {0} /\ utilization \in Nat
    /\ writer \in {"off", "waiting", "holding"} /\ section \in 0 .. 4 /\ updates \in 0 .. MaxUpdates

\* The read locks the judge has where it is; none is held beside a writer's.
RiskLocked ==
    /\ judge \in {"idle", "asked"} => readers = 0
    /\ judge \in {"limits", "rules", "stop"} => readers = 1
    /\ judge \in {"reading", "readingStop"} => readers = 2
    /\ judge \in {"idle", "asked", "limits", "reading", "rules", "stop", "readingStop"}
    /\ writer = "holding" => judge \in {"idle", "asked"}

Proposals == [symbol : Risk!Symbols, side : {"BUY", "SELL"}, size : Sizes]
RiskAsked ==
    /\ judge # "idle" => proposal \in Proposals
    /\ judge \in {"limits", "reading"} => proposal.side = "BUY"

RiskInv == RiskTyped /\ RiskLocked /\ RiskAsked /\ Risk!ApprovalsFit

LEMMA RiskShows == ASSUME RiskInv PROVE Risk!RiskAgentTypeOK
<1>1. readers \in 0 .. 2
  BY DEF RiskInv, RiskLocked
<1> QED
  BY <1>1, Zenon DEF RiskInv, RiskTyped, RiskLocked, Risk!RiskAgentTypeOK

LEMMA RiskBegins == ASSUME Risk!RiskAssumption, Risk!RiskAgentInit PROVE RiskInv
<1> USE DEF Risk!RiskAgentInit
<1>1. RiskTyped
  BY DEF RiskTyped, Risk!RiskAssumption
<1>2. RiskLocked /\ RiskAsked
  BY DEF RiskLocked, RiskAsked
<1>3. Risk!ApprovalsFit
  BY DEF Risk!ApprovalsFit
<1> QED
  BY <1>1, <1>2, <1>3 DEF RiskInv

LEMMA ExposureIsKnown ==
    ASSUME Risk!RiskAssumption, RiskTyped
    PROVE  Risk!Exposure \in Nat /\ \A s : Risk!ExposureOf(s) \in Nat
<1>1. IsFiniteSet(DOMAIN believed)
  BY RiskRows, FS_Subset DEF RiskTyped
<1>2. Total(believed, DOMAIN believed) \in Nat
  BY <1>1, SumNat DEF RiskTyped
<1>3. Risk!Exposure = Total(believed, DOMAIN believed)
  BY RiskSum DEF Risk!Exposure
<1>4. \A s : Risk!ExposureOf(s) \in Nat
  BY DEF Risk!ExposureOf, RiskTyped
<1> QED
  BY <1>2, <1>3, <1>4

\* What the judge goes by stays while it judges.
LEMMA JudgementRests ==
    ASSUME RiskInv, RiskTyped', RiskLocked', UNCHANGED <<judge, proposal, intentions>>,
           judge \in {"idle", "asked"} \/ UNCHANGED <<believed, drawdown>>
    PROVE  RiskInv'
<1>1. RiskAsked'
  BY DEF RiskInv, RiskAsked
<1>2. CASE judge \in {"idle", "asked"}
  <2>1. Risk!ApprovalsFit'
    BY <1>2 DEF Risk!ApprovalsFit
  <2> QED
    BY <1>1, <2>1 DEF RiskInv
<1>3. CASE UNCHANGED <<believed, drawdown>>
  <2>1. Risk!Exposure' = Risk!Exposure /\ Risk!ExposureOf(proposal.symbol)' = Risk!ExposureOf(proposal.symbol)
    BY <1>3 DEF Risk!Exposure, Risk!ExposureOf
  <2>2. Risk!ApprovalsFit'
    BY <1>3, <2>1 DEF Risk!ApprovalsFit, RiskInv
  <2> QED
    BY <1>1, <2>2 DEF RiskInv
<1> QED
  BY <1>2, <1>3

\* An update of the beliefs, section by section.
LEMMA RiskUpdates ==
    ASSUME Risk!RiskAssumption, RiskInv, Risk!Trade \/ Risk!LoadFails \/ Risk!UpdateBeliefs \/ Risk!Update
    PROVE  RiskInv'
<1> USE DEF Risk!beliefs, Risk!lock, Risk!judgement, Risk!Released
<1>1. CASE Risk!Trade
  <2>1. RiskTyped'
    BY <1>1 DEF Risk!Trade, RiskInv, RiskTyped
  <2>2. RiskLocked'
    BY <1>1 DEF Risk!Trade, RiskInv, RiskLocked
  <2> QED
    BY <1>1, <2>1, <2>2, JudgementRests DEF Risk!Trade
<1>2. CASE Risk!LoadFails
  <2>1. RiskTyped'
    BY <1>2 DEF Risk!LoadFails, RiskInv, RiskTyped, Risk!RiskAssumption
  <2>2. RiskLocked'
    BY <1>2 DEF Risk!LoadFails, RiskInv, RiskLocked
  <2> QED
    BY <1>2, <2>1, <2>2, JudgementRests DEF Risk!LoadFails
<1>3. CASE Risk!UpdateBeliefs
  <2>1. RiskTyped'
    BY <1>3 DEF Risk!UpdateBeliefs, RiskInv, RiskTyped, Risk!RiskAssumption
  <2>2. RiskLocked'
    BY <1>3 DEF Risk!UpdateBeliefs, RiskInv, RiskLocked
  <2> QED
    BY <1>3, <2>1, <2>2, JudgementRests DEF Risk!UpdateBeliefs
<1>4. CASE Risk!LockBeliefs
  <2>1. RiskTyped'
    BY <1>4 DEF Risk!LockBeliefs, RiskInv, RiskTyped
  <2>2. RiskLocked'
    BY <1>4 DEF Risk!LockBeliefs, RiskInv, RiskLocked
  <2> QED
    BY <1>4, <2>1, <2>2, JudgementRests DEF Risk!LockBeliefs
<1>5. CASE Risk!LoadPortfolioState
  <2>1. RiskTyped'
    <3>1. positions \subseteq Rows
      BY DEF RiskInv, RiskTyped
    <3>2. DOMAIN believed' \subseteq Risk!Symbols /\ \A s \in DOMAIN believed' : believed'[s] \in Nat
      BY <1>5, <3>1, NetLongIs DEF Risk!LoadPortfolioState
    <3> QED
      BY <1>5, <3>2 DEF Risk!LoadPortfolioState, RiskInv, RiskTyped
  <2>2. RiskLocked' /\ judge \in {"idle", "asked"}
    BY <1>5 DEF Risk!LoadPortfolioState, RiskInv, RiskLocked
  <2> QED
    BY <1>5, <2>1, <2>2, JudgementRests DEF Risk!LoadPortfolioState
<1>6. CASE Risk!CalculatePerformanceMetrics
  <2>1. RiskTyped'
    BY <1>6 DEF Risk!CalculatePerformanceMetrics, RiskInv, RiskTyped
  <2>2. RiskLocked' /\ judge \in {"idle", "asked"}
    BY <1>6 DEF Risk!CalculatePerformanceMetrics, RiskInv, RiskLocked
  <2> QED
    BY <1>6, <2>1, <2>2, JudgementRests DEF Risk!CalculatePerformanceMetrics
<1>7. CASE Risk!NoEquityCurve
  <2>1. RiskTyped'
    BY <1>7 DEF Risk!NoEquityCurve, RiskInv, RiskTyped
  <2>2. RiskLocked'
    BY <1>7 DEF Risk!NoEquityCurve, RiskInv, RiskLocked
  <2> QED
    BY <1>7, <2>1, <2>2, JudgementRests DEF Risk!NoEquityCurve
<1>8. CASE Risk!AssessMarketConditions
  <2>1. RiskTyped'
    BY <1>8 DEF Risk!AssessMarketConditions, RiskInv, RiskTyped
  <2>2. RiskLocked' /\ judge \in {"idle", "asked"}
    BY <1>8 DEF Risk!AssessMarketConditions, RiskInv, RiskLocked
  <2> QED
    BY <1>8, <2>1, <2>2, JudgementRests DEF Risk!AssessMarketConditions
<1>9. CASE Risk!UpdateUtilization
  <2>1. RiskTyped'
    <3>1. PICK e \in Nat, m \in Nat \ {0} : e = Risk!Exposure /\ m = MaxTotalExposure
      BY ExposureIsKnown DEF RiskInv, Risk!RiskAssumption
    <3>2. (e * 100) \div m \in Nat
      <4>1. PICK k \in Nat : k = e * 100
        OBVIOUS
      <4>2. k \div m \in Nat
        OBVIOUS
      <4> QED
        BY <4>1, <4>2
    <3>3. utilization' \in Nat
      BY <1>9, <3>1, <3>2 DEF Risk!UpdateUtilization
    <3> QED
      BY <1>9, <3>3 DEF Risk!UpdateUtilization, RiskInv, RiskTyped
  <2>2. RiskLocked' /\ judge \in {"idle", "asked"}
    BY <1>9 DEF Risk!UpdateUtilization, RiskInv, RiskLocked
  <2> QED
    BY <1>9, <2>1, <2>2, JudgementRests DEF Risk!UpdateUtilization
<1> QED
  BY <1>1, <1>2, <1>3, <1>4, <1>5, <1>6, <1>7, <1>8, <1>9, Zenon DEF Risk!Update

\* What is capped is no more than its cap.
LEMMA OptimalIsCapped ==
    ASSUME Risk!RiskAssumption, NEW kelly \in Nat
    PROVE  Risk!CalculateOptimalSize(kelly) \in Nat /\ Risk!CalculateOptimalSize(kelly) * 10 <= MaxTotalExposure
<1>1. PICK a \in Nat, m \in Nat : a = MaxTotalExposure /\ m = MaxPositionSize
  BY DEF Risk!RiskAssumption
<1>2. PICK b \in Nat : b = a \div 10 /\ b * 10 <= a
  OBVIOUS
<1>3. PICK n \in {kelly, b, m} : \A k \in {kelly, b, m} : n <= k
  OBVIOUS
<1>4. Risk!Min({kelly, b, m}) \in {kelly, b, m} /\ \A k \in {kelly, b, m} : Risk!Min({kelly, b, m}) <= k
  BY <1>3 DEF Risk!Min
<1>5. Risk!CalculateOptimalSize(kelly) = Risk!Min({kelly, b, m})
  BY <1>1, <1>2 DEF Risk!CalculateOptimalSize
<1> HIDE DEF Risk!Min
<1> QED
  BY <1>1, <1>2, <1>4, <1>5

\* The rules, between their read locks.
LEMMA RiskJudges ==
    ASSUME Risk!RiskAssumption, RiskInv, Risk!Propose \/ Risk!Judge
    PROVE  RiskInv'
<1> USE DEF Risk!beliefs, Risk!lock, Risk!judgement
<1>0. UNCHANGED <<positions, believed, drawdown, volatility, utilization, writer, section, updates>>
  BY DEF Risk!Propose, Risk!Judge, Risk!EvaluateWithLLM, Risk!LockRules, Risk!LockLimits, Risk!LockStop, Risk!RLock,
         Risk!CheckPortfolioLimits, Risk!EvaluateRules, Risk!CalculateStopLoss
<1>1. RiskTyped'
  BY <1>0 DEF RiskInv, RiskTyped
<1>2. Risk!Exposure' = Risk!Exposure /\ \A s : Risk!ExposureOf(s)' = Risk!ExposureOf(s)
  BY <1>0 DEF Risk!Exposure, Risk!ExposureOf
<1>3. CASE Risk!Propose
  <2>1. proposal' \in Proposals
    BY <1>3 DEF Risk!Propose, Proposals
  <2>2. RiskLocked' /\ RiskAsked'
    BY <1>3, <2>1 DEF Risk!Propose, RiskInv, RiskLocked, RiskAsked
  <2>3. Risk!ApprovalsFit'
    BY <1>3 DEF Risk!Propose, Risk!ApprovalsFit
  <2> QED
    BY <1>1, <2>2, <2>3 DEF RiskInv
<1>4. CASE Risk!EvaluateWithLLM
  <2>1. judge = "asked" /\ judge' = "idle" /\ UNCHANGED <<readers, writer>>
    BY <1>4 DEF Risk!EvaluateWithLLM
  <2>2. RiskLocked' /\ RiskAsked'
    BY <2>1 DEF RiskInv, RiskLocked, RiskAsked
  <2>3. Risk!ApprovalsFit'
    BY <2>1 DEF Risk!ApprovalsFit
  <2> QED
    BY <1>1, <2>2, <2>3 DEF RiskInv
<1>5. CASE Risk!LockRules
  <2>1. /\ judge = "asked" /\ writer = "off" /\ readers' = readers + 1 /\ UNCHANGED <<proposal, writer>>
        /\ judge' = IF proposal.side = "BUY" THEN "limits" ELSE "rules"
    BY <1>5 DEF Risk!LockRules, Risk!RLock
  <2>2. RiskLocked' /\ RiskAsked'
    BY <2>1 DEF RiskInv, RiskLocked, RiskAsked
  <2>3. Risk!ApprovalsFit'
    BY <2>1 DEF Risk!ApprovalsFit
  <2> QED
    BY <1>1, <2>2, <2>3 DEF RiskInv
<1>6. CASE Risk!LockLimits
  <2>1. judge = "limits" /\ writer = "off" /\ readers' = readers + 1 /\ UNCHANGED <<proposal, writer>> /\ judge' = "reading"
    BY <1>6 DEF Risk!LockLimits, Risk!RLock
  <2>2. RiskLocked' /\ RiskAsked'
    BY <2>1 DEF RiskInv, RiskLocked, RiskAsked
  <2>3. Risk!ApprovalsFit'
    BY <2>1 DEF Risk!ApprovalsFit
  <2> QED
    BY <1>1, <2>2, <2>3 DEF RiskInv
<1>7. CASE Risk!CheckPortfolioLimits
  <2>1. /\ judge = "reading" /\ UNCHANGED <<proposal, writer>>
        /\ \/ judge' = "idle" /\ readers' = readers - 2
           \/ judge' = "rules" /\ readers' = readers - 1 /\ Risk!WithinLimits(proposal.symbol, proposal.size)
    BY <1>7 DEF Risk!CheckPortfolioLimits, Risk!Decide
  <2>2. RiskLocked' /\ RiskAsked'
    BY <2>1 DEF RiskInv, RiskLocked, RiskAsked
  <2>3. Risk!ApprovalsFit'
    BY <1>2, <2>1 DEF Risk!ApprovalsFit, Risk!WithinLimits
  <2> QED
    BY <1>1, <2>2, <2>3 DEF RiskInv
<1>8. CASE Risk!EvaluateRules
  <2>1. PICK kelly \in OptimalSizes :
          /\ judge = "rules" /\ UNCHANGED <<proposal, writer>>
          /\ \/ judge' = "idle" /\ readers' = readers - 1
             \/ /\ judge' = "stop" /\ readers' = readers
                /\ ~ (proposal.side = "BUY" /\ Risk!PurchaseVetoes)
                /\ intentions'.recommended = Risk!CalculateOptimalSize(kelly)
    BY <1>8 DEF Risk!EvaluateRules, Risk!Decide
  <2>2. RiskLocked' /\ RiskAsked'
    BY <2>1 DEF RiskInv, RiskLocked, RiskAsked
  <2>3. ASSUME judge' = "stop"
        PROVE  /\ intentions'.recommended * 10 <= MaxTotalExposure
               /\ proposal.side = "BUY" => drawdown * 10 <= MaxDrawdownPercent * 8
    <3>1. kelly \in Nat
      BY DEF Risk!RiskAssumption
    <3>2. intentions'.recommended * 10 <= MaxTotalExposure
      BY <2>1, <2>3, <3>1, OptimalIsCapped
    <3>3. drawdown \in Nat /\ MaxDrawdownPercent \in Nat
      BY DEF RiskInv, RiskTyped, Risk!RiskAssumption
    <3>4. proposal.side = "BUY" => ~ (drawdown * 10 > MaxDrawdownPercent * 8)
      BY <2>1, <2>3 DEF Risk!PurchaseVetoes
    <3> QED
      BY <3>2, <3>3, <3>4
  <2>4. Risk!ApprovalsFit'
    <3>1. CASE judge' = "idle"
      BY <3>1 DEF Risk!ApprovalsFit
    <3>2. CASE judge' = "stop"
      <4>1. proposal.side = "BUY" =>
              /\ Risk!Exposure + proposal.size <= MaxTotalExposure
              /\ (Risk!ExposureOf(proposal.symbol) + proposal.size) * 100 <= MaxTotalExposure * MaxConcentration
        BY <2>1 DEF Risk!ApprovalsFit, RiskInv
      <4> QED
        BY <1>0, <1>2, <2>1, <2>3, <3>2, <4>1 DEF Risk!ApprovalsFit
    <3> QED
      BY <2>1, <3>1, <3>2
  <2> QED
    BY <1>1, <2>2, <2>4 DEF RiskInv
<1>9. CASE Risk!LockStop
  <2>1. judge = "stop" /\ writer = "off" /\ readers' = readers + 1 /\ UNCHANGED <<proposal, writer>> /\ judge' = "readingStop"
    BY <1>9 DEF Risk!LockStop, Risk!RLock
  <2>2. RiskLocked' /\ RiskAsked'
    BY <2>1 DEF RiskInv, RiskLocked, RiskAsked
  <2>3. Risk!ApprovalsFit'
    BY <2>1 DEF Risk!ApprovalsFit
  <2> QED
    BY <1>1, <2>2, <2>3 DEF RiskInv
<1>10. CASE Risk!CalculateStopLoss
  <2>1. judge = "readingStop" /\ judge' = "idle" /\ readers' = readers - 2 /\ UNCHANGED writer
    BY <1>10 DEF Risk!CalculateStopLoss
  <2>2. RiskLocked' /\ RiskAsked'
    BY <2>1 DEF RiskInv, RiskLocked, RiskAsked
  <2>3. Risk!ApprovalsFit'
    BY <2>1 DEF Risk!ApprovalsFit
  <2> QED
    BY <1>1, <2>2, <2>3 DEF RiskInv
<1> QED
  BY <1>3, <1>4, <1>5, <1>6, <1>7, <1>8, <1>9, <1>10, Zenon DEF Risk!Judge

LEMMA RiskStep ==
    ASSUME Risk!RiskAssumption, RiskInv, Risk!RiskAgentNext \/ UNCHANGED risks
    PROVE  RiskInv'
<1>1. CASE UNCHANGED risks
  <2>1. RiskTyped' /\ RiskLocked'
    BY <1>1 DEF risks, RiskInv, RiskTyped, RiskLocked
  <2> QED
    BY <1>1, <2>1, JudgementRests DEF risks
<1> QED
  BY <1>1, RiskUpdates, RiskJudges DEF Risk!RiskAgentNext

\* What is believed changes in one section only, to what is net long then.
LEMMA RiskExposes ==
    ASSUME Risk!RiskAssumption, RiskInv, Risk!RiskAgentNext, believed' # believed, NEW s \in DOMAIN believed'
    PROVE  believed'[s] <= Risk!Sum([r \in Rows |-> r.qty * Risk!Max({q.price : q \in Rows})],
                                    {r \in positions : r.symbol = s /\ r.side = "LONG"})
<1>1. Risk!LoadPortfolioState
  BY DEF Risk!RiskAgentNext, Risk!Trade, Risk!LoadFails, Risk!UpdateBeliefs, Risk!Update, Risk!LockBeliefs,
         Risk!CalculatePerformanceMetrics, Risk!NoEquityCurve, Risk!AssessMarketConditions, Risk!UpdateUtilization,
         Risk!Propose, Risk!Judge, Risk!EvaluateWithLLM, Risk!LockRules, Risk!LockLimits, Risk!LockStop, Risk!RLock,
         Risk!CheckPortfolioLimits, Risk!EvaluateRules, Risk!CalculateStopLoss, Risk!beliefs, Risk!lock, Risk!judgement
<1>2. positions \subseteq Rows
  BY DEF RiskInv, RiskTyped
<1>3. believed'[s] <= Total(AtTheDearest, LongOf(s))
  BY <1>1, <1>2, NetLongIs DEF Risk!LoadPortfolioState
<1>4. LongOf(s) = {r \in positions : r.symbol = s /\ r.side = "LONG"}
  BY DEF LongOf, Of
<1> QED
  BY <1>3, <1>4, RiskSum DEF AtTheDearest

-----------------------------------------------------------------------------
(* The order book agent.                                                   *)

LEMMA BookSum ==
    /\ \A w, S : Book!SumFunctionOnSet(w, S) = Total(w, S)
    /\ \A w : Book!SumFunction(w) = Total(w, DOMAIN w)
BY DEF Book!SumFunctionOnSet, Book!SumFunction, Book!FoldFunctionOnSet, Book!MapThenFoldSet, Total,
       SumFunctionOnSet, FoldFunctionOnSet, MapThenFoldSet

LEMMA BookCardinality == \A S : Book!Cardinality(S) = Cardinality(S)
BY DEF Book!Cardinality, Cardinality

\* What a side of a book, and a part of it, holds.
LEMMA VolumeIs ==
    ASSUME NEW levels \in Seq(Book!Level), NEW S \in SUBSET (DOMAIN levels)
    PROVE  /\ IsFiniteSet(S) /\ Cardinality(S) \in Nat
           /\ Book!Volume(levels) \in Nat /\ Total(Book!Quantities(levels), S) \in Nat
<1>1. DOMAIN levels = 1 .. Len(levels) /\ Len(levels) \in Nat /\ \A i \in DOMAIN levels : levels[i] \in Book!Level
  OBVIOUS
<1>2. IsFiniteSet(DOMAIN levels)
  BY <1>1, FS_Interval
<1>3. IsFiniteSet(S) /\ Cardinality(S) \in Nat
  BY <1>2, FS_Subset, FS_CardinalityType
<1>4. DOMAIN Book!Quantities(levels) = DOMAIN levels /\ \A i \in DOMAIN levels : Book!Quantities(levels)[i] \in Nat
  BY <1>1 DEF Book!Quantities, Book!Level
<1>5. Total(Book!Quantities(levels), S) \in Nat
  BY <1>3, <1>4, SumNat
<1>6. Total(Book!Quantities(levels), DOMAIN levels) \in Nat
  BY <1>2, <1>4, SumNat
<1> QED
  BY <1>3, <1>4, <1>5, <1>6, BookSum DEF Book!Volume

LEMMA FrontIs ==
    ASSUME NEW levels \in Seq(Book!Level), NEW n \in Nat, n <= Len(levels)
    PROVE  Book!Volume(SubSeq(levels, 1, n)) \in Nat
<1>1. SubSeq(levels, 1, n) \in Seq(Book!Level)
  BY SubSeqProperties
<1> QED
  BY <1>1, VolumeIs

Sides == {"BUY", "SELL", "HOLD"}
Vote == [for : Sides, num : Nat, den : Nat \ {0}]
Sided == [bids : Seq(Book!Level), asks : Seq(Book!Level)]

LEMMA ImbalanceIs ==
    ASSUME Book!OrderBookAssumption, NEW book \in Sided
    PROVE  \E n \in Int, d \in Nat \ {0} : Book!Imbalance(book) = <<n, d>> /\ -d <= n /\ n <= d
<1>1. book.bids \in Seq(Book!Level) /\ book.asks \in Seq(Book!Level) /\ DepthLevels \in Nat
  BY DEF Sided, Book!OrderBookAssumption
<1> DEFINE n == Book!Least(DepthLevels, Book!Least(Len(book.bids), Len(book.asks)))
           b == Book!Volume(SubSeq(book.bids, 1, n))
           a == Book!Volume(SubSeq(book.asks, 1, n))
<1>2. n \in Nat /\ n <= Len(book.bids) /\ n <= Len(book.asks)
  BY <1>1 DEF Book!Least
<1> HIDE DEF n
<1>3. b \in Nat /\ a \in Nat
  BY <1>1, <1>2, FrontIs
<1>4. Book!Imbalance(book) = IF b + a = 0 THEN <<0, 1>> ELSE <<b - a, b + a>>
  BY DEF Book!Imbalance, n
<1> HIDE DEF a, b
<1>5. CASE b + a = 0
  BY <1>4, <1>5
<1>6. CASE b + a # 0
  <2>1. b - a \in Int /\ b + a \in Nat \ {0} /\ -(b + a) <= b - a /\ b - a <= b + a
    BY <1>3, <1>6
  <2> QED
    BY <1>4, <1>6, <2>1
<1> QED
  BY <1>5, <1>6

\* The four votes.
LEMMA ImbalanceVotes ==
    ASSUME Book!OrderBookAssumption, NEW n \in Int, NEW d \in Nat \ {0}, -d <= n, n <= d
    PROVE  LET v == Book!AnalyzeImbalance(<<n, d>>) IN
           /\ v \in Vote /\ v.num <= v.den
           /\ v.for = "BUY" => n * 100 > d * ThresholdPct
           /\ v.for = "SELL" => -n * 100 > d * ThresholdPct
           /\ v.for = "HOLD" => v.den = d /\ v.num = d - Book!Distance(n, 0)
<1>1. PICK t \in Nat : t = ThresholdPct
  BY DEF Book!OrderBookAssumption
<1>2. PICK k \in Nat : k = d * t
  OBVIOUS
<1>3. CASE n * 100 > d * t
  <2>1. Book!AnalyzeImbalance(<<n, d>>) = [for |-> "BUY", num |-> n, den |-> d]
    BY <1>1, <1>3 DEF Book!AnalyzeImbalance
  <2>2. n \in Nat
    BY <1>2, <1>3
  <2> QED
    BY <1>1, <1>3, <2>1, <2>2 DEF Vote, Sides
<1>4. CASE ~ (n * 100 > d * t) /\ -n * 100 > d * t
  <2>1. Book!AnalyzeImbalance(<<n, d>>) = [for |-> "SELL", num |-> -n, den |-> d]
    BY <1>1, <1>4 DEF Book!AnalyzeImbalance
  <2>2. -n \in Nat /\ -n <= d
    BY <1>2, <1>4
  <2> QED
    BY <1>1, <1>4, <2>1, <2>2 DEF Vote, Sides
<1>5. CASE ~ (n * 100 > d * t) /\ ~ (-n * 100 > d * t)
  <2>1. Book!AnalyzeImbalance(<<n, d>>) = [for |-> "HOLD", num |-> d - Book!Distance(n, 0), den |-> d]
    BY <1>1, <1>5 DEF Book!AnalyzeImbalance
  <2>2. d - Book!Distance(n, 0) \in Nat /\ d - Book!Distance(n, 0) <= d
    BY DEF Book!Distance
  <2> QED
    BY <2>1, <2>2 DEF Vote, Sides
<1> QED
  BY <1>3, <1>4, <1>5

NearLevel(mid, levels) == \E p \in levels : Book!Distance(mid, 2 * p) * 100 < mid

\* The closest level of some is one of them.
LEMMA ClosestIs ==
    ASSUME NEW mid \in Nat, NEW levels \in SUBSET Nat, levels # {}
    PROVE  \E p \in levels : /\ Book!Min({Book!Distance(mid, 2 * q) : q \in levels}) = Book!Distance(mid, 2 * p)
                             /\ Book!Distance(mid, 2 * p) \in Nat
<1> DEFINE S == {Book!Distance(mid, 2 * q) : q \in levels}
<1>1. S \in SUBSET Nat /\ S # {}
  <2>1. \A q \in levels : Book!Distance(mid, 2 * q) \in Nat
    BY DEF Book!Distance
  <2> QED
    BY <2>1
<1>2. Book!Min(S) \in S
  <2> HIDE DEF S
  <2>1. \E x \in S : \A y \in S : ~ (y < x)
    BY <1>1, Least
  <2>2. \E x \in S : \A y \in S : x <= y
    BY <1>1, <2>1
  <2> QED
    BY <2>2 DEF Book!Min
<1>3. Book!Min(S) \in Nat
  BY <1>1, <1>2
<1>4. PICK p \in levels : Book!Min(S) = Book!Distance(mid, 2 * p)
  <2>1. \A x \in S : \E p \in levels : x = Book!Distance(mid, 2 * p)
    OBVIOUS
  <2> HIDE DEF S
  <2> QED
    BY <1>2, <2>1
<1> HIDE DEF S
<1>5. Book!Distance(mid, 2 * p) \in Nat
  BY <1>3, <1>4
<1> QED
  BY <1>4, <1>5 DEF S

LEMMA DepthVotes ==
    ASSUME NEW mid \in Nat \ {0}, NEW s \in SUBSET Nat, NEW r \in SUBSET Nat
    PROVE  LET v == Book!AnalyzeDepthProximity(mid, s, r) IN
           /\ v \in Vote /\ v.num <= v.den /\ v.num > 0
           /\ v.for = "BUY" => NearLevel(mid, s)
           /\ v.for = "SELL" => NearLevel(mid, r)
<1> DEFINE Closest(levels) == Book!Min({Book!Distance(mid, 2 * p) : p \in levels})
           CloseBy(levels) == levels # {} /\ Closest(levels) * 100 < mid
           Says(side, levels) == [for |-> side, num |-> mid - 100 * Closest(levels), den |-> mid]
<1>1. Book!AnalyzeDepthProximity(mid, s, r) =
        IF s = {} /\ r = {} THEN [for |-> "HOLD", num |-> 3, den |-> 10]
        ELSE IF CloseBy(s) THEN Says("BUY", s)
        ELSE IF CloseBy(r) THEN Says("SELL", r)
        ELSE [for |-> "HOLD", num |-> 1, den |-> 2]
  BY DEF Book!AnalyzeDepthProximity
<1>2. ASSUME NEW levels \in SUBSET Nat, CloseBy(levels), NEW side \in Sides
      PROVE  /\ Says(side, levels) \in Vote /\ Says(side, levels).for = side
             /\ Says(side, levels).num > 0 /\ Says(side, levels).num <= Says(side, levels).den
             /\ NearLevel(mid, levels)
  <2>1. PICK p \in levels : Closest(levels) = Book!Distance(mid, 2 * p) /\ Book!Distance(mid, 2 * p) \in Nat
    BY <1>2, ClosestIs
  <2>2. PICK c \in Nat : c = Closest(levels)
    BY <2>1
  <2>3. mid - 100 * c \in Nat /\ mid - 100 * c > 0 /\ mid - 100 * c <= mid
    BY <1>2, <2>2
  <2>4. NearLevel(mid, levels)
    BY <1>2, <2>1, Zenon DEF NearLevel
  <2>5. Says(side, levels) = [for |-> side, num |-> mid - 100 * c, den |-> mid]
    BY <2>2
  <2> HIDE DEF Says
  <2> QED
    BY <2>3, <2>4, <2>5 DEF Vote
<1>3. [for |-> "HOLD", num |-> 3, den |-> 10] \in Vote /\ [for |-> "HOLD", num |-> 1, den |-> 2] \in Vote
  BY DEF Vote, Sides
<1> HIDE DEF CloseBy, Says, Closest
<1>4. CASE s = {} /\ r = {}
  BY <1>1, <1>3, <1>4
<1>5. CASE ~ (s = {} /\ r = {}) /\ CloseBy(s)
  <2>1. "BUY" \in Sides
    BY DEF Sides
  <2> QED
    BY <1>1, <1>2, <1>5, <2>1
<1>6. CASE ~ (s = {} /\ r = {}) /\ ~ CloseBy(s) /\ CloseBy(r)
  <2>1. "SELL" \in Sides
    BY DEF Sides
  <2> QED
    BY <1>1, <1>2, <1>6, <2>1
<1>7. CASE ~ (s = {} /\ r = {}) /\ ~ CloseBy(s) /\ ~ CloseBy(r)
  BY <1>1, <1>3, <1>7
<1> QED
  BY <1>4, <1>5, <1>6, <1>7

LEMMA LargeVotes ==
    ASSUME NEW book \in Sided
    PROVE  LET v == Book!AnalyzeLargeOrders(book) IN
           /\ v \in Vote /\ v.num <= v.den
           /\ v.for = "BUY" => Book!Heavier(book, book.bids, book.asks)
           /\ v.for = "SELL" => Book!Heavier(book, book.asks, book.bids)
<1> DEFINE b == Book!Cardinality(Book!DetectLargeOrders(book, book.bids))
           a == Book!Cardinality(Book!DetectLargeOrders(book, book.asks))
<1>1. b \in Nat /\ a \in Nat
  <2>1. book.bids \in Seq(Book!Level) /\ book.asks \in Seq(Book!Level)
    BY DEF Sided
  <2>2. /\ Book!DetectLargeOrders(book, book.bids) \in SUBSET (DOMAIN book.bids)
        /\ Book!DetectLargeOrders(book, book.asks) \in SUBSET (DOMAIN book.asks)
    BY DEF Book!DetectLargeOrders
  <2> QED
    BY <2>1, <2>2, VolumeIs, BookCardinality
<1>2. Book!AnalyzeLargeOrders(book) =
        IF a + b = 0 THEN [for |-> "HOLD", num |-> 3, den |-> 10]
        ELSE IF Book!Heavier(book, book.bids, book.asks) THEN [for |-> "BUY", num |-> b, den |-> a + b]
        ELSE IF Book!Heavier(book, book.asks, book.bids) THEN [for |-> "SELL", num |-> a, den |-> a + b]
        ELSE [for |-> "HOLD", num |-> 1, den |-> 2]
  BY DEF Book!AnalyzeLargeOrders
<1> HIDE DEF a, b
<1>3. a + b \in Nat /\ b <= a + b /\ a <= a + b
  BY <1>1
<1>4. CASE a + b = 0
  BY <1>2, <1>4 DEF Vote, Sides
<1>5. CASE a + b # 0 /\ Book!Heavier(book, book.bids, book.asks)
  BY <1>1, <1>2, <1>3, <1>5 DEF Vote, Sides
<1>6. CASE a + b # 0 /\ ~ Book!Heavier(book, book.bids, book.asks) /\ Book!Heavier(book, book.asks, book.bids)
  BY <1>1, <1>2, <1>3, <1>6 DEF Vote, Sides
<1>7. CASE a + b # 0 /\ ~ Book!Heavier(book, book.bids, book.asks) /\ ~ Book!Heavier(book, book.asks, book.bids)
  BY <1>2, <1>7 DEF Vote, Sides
<1> QED
  BY <1>4, <1>5, <1>6, <1>7

LEMMA SpoofingVotes ==
    ASSUME NEW flags \in Nat
    PROVE  LET v == Book!AnalyzeSpoofing(flags) IN
           v \in Vote /\ v.num \in 0 .. 5 /\ v.den = 5 /\ v.for = "HOLD"
<1>1. CASE flags >= 5
  BY <1>1 DEF Book!AnalyzeSpoofing, Vote, Sides
<1>2. CASE ~ (flags >= 5)
  <2>1. 5 - flags \in 0 .. 5
    BY <1>2
  <2> QED
    BY <1>2, <2>1 DEF Book!AnalyzeSpoofing, Vote, Sides
<1> QED
  BY <1>1, <1>2

\* What the votes weigh, once they have a common denominator.
Weighed(votes, R, side) ==
    (IF votes[1].for = side THEN 4 * (votes[1].num * R[1]) ELSE 0)
    + (IF votes[2].for = side THEN 3 * (votes[2].num * R[2]) ELSE 0)
    + (IF votes[3].for = side THEN 2 * (votes[3].num * R[3]) ELSE 0)
    + (IF votes[4].for = side THEN 1 * (votes[4].num * R[4]) ELSE 0)

LEMMA Product ==
    ASSUME NEW a \in Nat \ {0}, NEW b \in Nat \ {0}
    PROVE  a * b \in Nat \ {0}
OBVIOUS

LEMMA CommonDenominator ==
    ASSUME NEW a \in Nat \ {0}, NEW b \in Nat \ {0}, NEW c \in Nat \ {0}, NEW d \in Nat \ {0}
    PROVE  /\ b * c * d \in Nat \ {0} /\ a * c * d \in Nat \ {0} /\ a * b * d \in Nat \ {0} /\ a * b * c \in Nat \ {0}
           /\ a * b * c * d \in Nat \ {0}
           /\ a * b * c * d = a * (b * c * d) /\ a * b * c * d = b * (a * c * d)
           /\ a * b * c * d = c * (a * b * d) /\ a * b * c * d = d * (a * b * c)
<1>1. a * b \in Nat \ {0} /\ b * c \in Nat \ {0} /\ a * c \in Nat \ {0}
  BY Product
<1>2. b * c * d \in Nat \ {0} /\ a * c * d \in Nat \ {0} /\ a * b * d \in Nat \ {0} /\ a * b * c \in Nat \ {0}
  BY <1>1, Product
<1>3. a * b * c * d \in Nat \ {0}
  BY <1>2, Product
<1> QED
  BY <1>2, <1>3

Chosen(votes, R) ==
    {side \in {"BUY", "SELL", "HOLD"} :
        \A other \in {"BUY", "SELL", "HOLD"} : Weighed(votes, R, side) >= Weighed(votes, R, other)}

Common(votes, R, P) ==
    /\ R[1] \in Nat \ {0} /\ R[2] \in Nat \ {0} /\ R[3] \in Nat \ {0} /\ R[4] \in Nat \ {0} /\ P \in Nat \ {0}
    /\ P = votes[1].den * R[1] /\ P = votes[2].den * R[2] /\ P = votes[3].den * R[3] /\ P = votes[4].den * R[4]

Factors(votes) ==
    << votes[2].den * votes[3].den * votes[4].den, votes[1].den * votes[3].den * votes[4].den,
       votes[1].den * votes[2].den * votes[4].den, votes[1].den * votes[2].den * votes[3].den >>

LEMMA CombineIs == \A votes : Book!CombineSignals(votes) = Chosen(votes, Factors(votes))
BY DEF Book!CombineSignals, Chosen, Weighed, Factors

LEMMA FactorsAre ==
    ASSUME NEW votes, \A i \in 1 .. 4 : votes[i] \in Vote
    PROVE  Common(votes, Factors(votes), votes[1].den * votes[2].den * votes[3].den * votes[4].den)
<1>1. votes[1].den \in Nat \ {0} /\ votes[2].den \in Nat \ {0} /\ votes[3].den \in Nat \ {0} /\ votes[4].den \in Nat \ {0}
  BY DEF Vote
<1>2. PICK a, b, c, d \in Nat \ {0} : a = votes[1].den /\ b = votes[2].den /\ c = votes[3].den /\ d = votes[4].den
  BY <1>1
<1>3. /\ Factors(votes)[1] = b * c * d /\ Factors(votes)[2] = a * c * d
      /\ Factors(votes)[3] = a * b * d /\ Factors(votes)[4] = a * b * c
  BY <1>2 DEF Factors
<1>4. /\ b * c * d \in Nat \ {0} /\ a * c * d \in Nat \ {0} /\ a * b * d \in Nat \ {0} /\ a * b * c \in Nat \ {0}
      /\ a * b * c * d \in Nat \ {0}
      /\ a * b * c * d = a * (b * c * d) /\ a * b * c * d = b * (a * c * d)
      /\ a * b * c * d = c * (a * b * d) /\ a * b * c * d = d * (a * b * c)
  BY CommonDenominator
<1> HIDE DEF Factors
<1> QED
  BY <1>2, <1>3, <1>4, Zenon DEF Common

Outweighs(f, g, h, a, b, c, d, side, x) ==
    (IF f = side THEN 4 * a ELSE 0) + (IF g = side THEN 3 * b ELSE 0) + (IF h = side THEN 2 * c ELSE 0)
      >= (IF f = x THEN 4 * a ELSE 0) + (IF g = x THEN 3 * b ELSE 0) + (IF h = x THEN 2 * c ELSE 0)
         + (IF "HOLD" = x THEN d ELSE 0)

\* Four weights, of which those of the smaller votes are P at most.
Bounded(P, a, b, c, d) == P \in Nat /\ a \in Nat /\ b \in 1 .. P /\ c \in 0 .. P /\ d \in Nat

Outvotes(P, f, g, h, a, side, other) ==
    \/ f = side
    \/ g = side /\ (h = side \/ f = other \/ 4 * a <= 3 * P)
    \/ h = side /\ (f = other \/ 4 * a <= 2 * P)

\* Whoever trades on the smaller votes has to outweigh the vote of the imbalance,
\* if that is to hold.
LEMMA Outvoted ==
    ASSUME NEW P, NEW f \in Sides, NEW g \in Sides, NEW h \in Sides, NEW a, NEW b, NEW c, NEW d,
           Bounded(P, a, b, c, d),
           NEW side \in {"BUY", "SELL"}, NEW other \in {"BUY", "SELL"}, side # other,
           Outweighs(f, g, h, a, b, c, d, side, other), Outweighs(f, g, h, a, b, c, d, side, "HOLD")
    PROVE  Outvotes(P, f, g, h, a, side, other)
<1> USE DEF Outvotes
<1>0. P \in Nat /\ a \in Nat /\ b \in Nat /\ c \in Nat /\ d \in Nat /\ b > 0 /\ b <= P /\ c <= P
  BY DEF Bounded
<1>1. f \in {side, other, "HOLD"} /\ g \in {side, other, "HOLD"} /\ h \in {side, other, "HOLD"}
  BY DEF Sides
<1>2. side # "HOLD" /\ other # "HOLD"
  OBVIOUS
<1>3. CASE f # side /\ g # side /\ h # side
  <2>1. 0 >= (IF g = other THEN 3 * b ELSE 0) /\ 0 >= (IF g = "HOLD" THEN 3 * b ELSE 0)
    BY <1>0, <1>2, <1>3 DEF Outweighs
  <2> QED
    BY <1>0, <1>1, <1>3, <2>1
<1>4. CASE f = "HOLD" /\ g = side /\ h # side
  <2>1. 3 * b >= 4 * a
    BY <1>0, <1>2, <1>4 DEF Outweighs
  <2> QED
    BY <1>0, <1>4, <2>1
<1>5. CASE f = "HOLD" /\ g # side /\ h = side
  <2>1. 2 * c >= 4 * a
    BY <1>0, <1>2, <1>5 DEF Outweighs
  <2> QED
    BY <1>0, <1>5, <2>1
<1> QED
  BY <1>1, <1>3, <1>4, <1>5

\* The parts of a vote, over the common denominator.
LEMMA PartIs ==
    ASSUME NEW num \in Nat, NEW den \in Nat, num <= den, NEW r \in Nat, NEW P \in Nat, P = den * r
    PROVE  num * r \in 0 .. P
<1>1. PICK e \in Nat : den = num + e
  BY den - num \in Nat
<1>2. P = num * r + e * r /\ num * r \in Nat /\ e * r \in Nat
  BY <1>1
<1> QED
  BY <1>2

Sound(votes) ==
    /\ \A i \in 1 .. 4 : votes[i] \in Vote /\ votes[i].num <= votes[i].den
    /\ votes[2].num > 0 /\ votes[4].for = "HOLD"

LEMMA VotesDecide ==
    ASSUME NEW votes, Sound(votes), NEW side \in {"BUY", "SELL"}, NEW other \in {"BUY", "SELL"}, side # other,
           side \in Book!CombineSignals(votes)
    PROVE  \/ votes[1].for = side
           \/ votes[2].for = side
              /\ (votes[3].for = side \/ votes[1].for = other \/ 4 * votes[1].num <= 3 * votes[1].den)
           \/ votes[3].for = side /\ (votes[1].for = other \/ 4 * votes[1].num <= 2 * votes[1].den)
<1>1. PICK R, P : Common(votes, R, P) /\ side \in Chosen(votes, R)
  BY FactorsAre, CombineIs DEF Sound
<1>2. /\ P \in Nat \ {0} /\ R[1] \in Nat \ {0} /\ R[2] \in Nat \ {0} /\ R[3] \in Nat \ {0} /\ R[4] \in Nat \ {0}
      /\ P = votes[1].den * R[1] /\ P = votes[2].den * R[2] /\ P = votes[3].den * R[3] /\ P = votes[4].den * R[4]
  BY <1>1 DEF Common
<1>3. \A i \in {1, 2, 3, 4} : votes[i].num \in Nat /\ votes[i].den \in Nat \ {0} /\ votes[i].for \in Sides
                              /\ votes[i].num <= votes[i].den
  <2>1. {1, 2, 3, 4} = 1 .. 4
    OBVIOUS
  <2> QED
    BY <2>1 DEF Sound, Vote
<1>4. PICK a \in 0 .. P : a = votes[1].num * R[1]
  BY <1>2, <1>3, PartIs
<1>5. PICK b \in 0 .. P : b = votes[2].num * R[2]
  BY <1>2, <1>3, PartIs
<1>6. PICK c \in 0 .. P : c = votes[3].num * R[3]
  BY <1>2, <1>3, PartIs
<1>7. PICK d \in 0 .. P : d = votes[4].num * R[4]
  BY <1>2, <1>3, PartIs
<1>8. b > 0
  <2>1. votes[2].num \in Nat \ {0} /\ R[2] \in Nat \ {0}
    BY <1>2, <1>3 DEF Sound
  <2>2. votes[2].num * R[2] \in Nat \ {0}
    BY <2>1, Product
  <2> QED
    BY <1>5, <2>2
<1>9. \A x \in {other, "HOLD"} : Weighed(votes, R, side) >= Weighed(votes, R, x)
  BY <1>1 DEF Chosen
<1> DEFINE f == votes[1].for
           g == votes[2].for
           h == votes[3].for
<1>10. f \in Sides /\ g \in Sides /\ h \in Sides /\ votes[4].for = "HOLD"
  BY <1>3 DEF Sound
<1>11. \A x : Weighed(votes, R, x) =
          (IF f = x THEN 4 * a ELSE 0) + (IF g = x THEN 3 * b ELSE 0) + (IF h = x THEN 2 * c ELSE 0)
             + (IF "HOLD" = x THEN 1 * d ELSE 0)
  BY <1>4, <1>5, <1>6, <1>7, <1>10 DEF Weighed
<1>12. P \in Nat /\ d \in Nat /\ \A x \in {other, "HOLD"} : Outweighs(f, g, h, a, b, c, d, side, x)
  <2>1. side # "HOLD"
    OBVIOUS
  <2> QED
    BY <1>2, <1>9, <1>11, <2>1 DEF Outweighs
<1> HIDE DEF f, g, h
<1>13. Outvotes(P, f, g, h, a, side, other)
  <2>1. Outweighs(f, g, h, a, b, c, d, side, other) /\ Outweighs(f, g, h, a, b, c, d, side, "HOLD")
    BY <1>12, Zenon
  <2>2. Bounded(P, a, b, c, d)
    BY <1>2, <1>8, <1>12 DEF Bounded
  <2> QED
    BY <1>10, <2>1, <2>2, Outvoted, Zenon
<1>14. ASSUME NEW k \in {2, 3}, 4 * a <= k * P
       PROVE  4 * votes[1].num <= k * votes[1].den
  <2>1. PICK n, m \in Nat : n = votes[1].num /\ m = votes[1].den
    BY <1>3
  <2>2. SUFFICES ASSUME 4 * n > k * m PROVE FALSE
    BY <2>1
  <2>3. PICK e \in Nat \ {0} : 4 * n = k * m + e
    <3>1. PICK w \in Nat : w = k * m
      OBVIOUS
    <3>2. 4 * n - w \in Nat \ {0} /\ 4 * n = w + (4 * n - w)
      BY <2>2, <3>1
    <3> QED
      BY <3>1, <3>2
  <2>4. 4 * (n * R[1]) = k * (m * R[1]) + e * R[1] /\ e * R[1] \in Nat \ {0}
    <3>1. e * R[1] \in Nat \ {0}
      BY <1>2, Product
    <3>2. (4 * n) * R[1] = (k * m) * R[1] + e * R[1]
      BY <1>2, <2>3
    <3>3. (4 * n) * R[1] = 4 * (n * R[1]) /\ (k * m) * R[1] = k * (m * R[1])
      BY <1>2
    <3> QED
      BY <3>1, <3>2, <3>3
  <2> QED
    BY <1>2, <1>4, <1>14, <2>1, <2>4
<1> QED
  BY <1>13, <1>14 DEF f, g, h, Outvotes

\* The fourth vote only ever holds.
LEMMA HoldingLess ==
    ASSUME NEW these, NEW those, Sound(these), Sound(those),
           these[1] = those[1], these[2] = those[2], these[3] = those[3],
           these[4].den = those[4].den, these[4].num <= those[4].num,
           "HOLD" \notin Book!CombineSignals(those)
    PROVE  Book!CombineSignals(these) \subseteq Book!CombineSignals(those)
<1>1. Factors(these) = Factors(those)
  BY Zenon DEF Factors
<1>2. PICK R, P : Common(those, R, P) /\ Common(these, R, P) /\ R = Factors(these) /\ R = Factors(those)
  BY <1>1, FactorsAre DEF Sound, Common
<1>3. Book!CombineSignals(these) = Chosen(these, R) /\ Book!CombineSignals(those) = Chosen(those, R)
  BY <1>2, CombineIs
<1>4. these[4].num \in Nat /\ those[4].num \in Nat /\ these[4].for = "HOLD" /\ those[4].for = "HOLD" /\ R[4] \in Nat
  <2>1. these[4] \in Vote /\ those[4] \in Vote
    BY DEF Sound
  <2> QED
    BY <1>2, <2>1 DEF Sound, Common, Vote
<1>5. PICK t, o \in Nat : t = these[4].num * R[4] /\ o = those[4].num * R[4] /\ t <= o
  <2>1. PICK e \in Nat : those[4].num = these[4].num + e
    BY <1>4, those[4].num - these[4].num \in Nat
  <2>2. those[4].num * R[4] = these[4].num * R[4] + e * R[4] /\ e * R[4] \in Nat /\ these[4].num * R[4] \in Nat
    BY <1>4, <2>1
  <2> QED
    BY <2>2
<1>6. PICK V \in [Sides -> Int] :
         \A x \in Sides : V[x] = (IF these[1].for = x THEN 4 * (these[1].num * R[1]) ELSE 0)
                                 + (IF these[2].for = x THEN 3 * (these[2].num * R[2]) ELSE 0)
                                 + (IF these[3].for = x THEN 2 * (these[3].num * R[3]) ELSE 0)
  <2>1. /\ these[1].num \in Nat /\ these[2].num \in Nat /\ these[3].num \in Nat
        /\ R[1] \in Nat /\ R[2] \in Nat /\ R[3] \in Nat
    <3>1. these[1] \in Vote /\ these[2] \in Vote /\ these[3] \in Vote
      BY DEF Sound
    <3> QED
      BY <1>2, <3>1 DEF Common, Vote
  <2>2. PICK a, b, c \in Nat : a = these[1].num * R[1] /\ b = these[2].num * R[2] /\ c = these[3].num * R[3]
    BY <2>1
  <2> DEFINE W == [x \in Sides |-> (IF these[1].for = x THEN 4 * a ELSE 0) + (IF these[2].for = x THEN 3 * b ELSE 0)
                                   + (IF these[3].for = x THEN 2 * c ELSE 0)]
  <2>3. W \in [Sides -> Int]
    OBVIOUS
  <2> QED
    BY <2>2, <2>3
<1>7. \A x \in Sides : /\ Weighed(these, R, x) = V[x] + (IF x = "HOLD" THEN t ELSE 0)
                       /\ Weighed(those, R, x) = V[x] + (IF x = "HOLD" THEN o ELSE 0)
  BY <1>4, <1>5, <1>6 DEF Weighed
<1>8. V["BUY"] \in Int /\ V["SELL"] \in Int /\ V["HOLD"] \in Int
  BY <1>6 DEF Sides
<1>9. \A x, y \in Sides : (V[x] + (IF x = "HOLD" THEN t ELSE 0) >= V[y] + (IF y = "HOLD" THEN t ELSE 0))
                            <=> Weighed(these, R, x) >= Weighed(these, R, y)
  BY <1>7, Zenon
<1>10. \A x, y \in Sides : (V[x] + (IF x = "HOLD" THEN o ELSE 0) >= V[y] + (IF y = "HOLD" THEN o ELSE 0))
                             <=> Weighed(those, R, x) >= Weighed(those, R, y)
  BY <1>7, Zenon
<1>11. Chosen(these, R) = {x \in Sides : \A y \in Sides : V[x] + (IF x = "HOLD" THEN t ELSE 0)
                                                            >= V[y] + (IF y = "HOLD" THEN t ELSE 0)}
  BY <1>9 DEF Chosen, Sides
<1>12. Chosen(those, R) = {x \in Sides : \A y \in Sides : V[x] + (IF x = "HOLD" THEN o ELSE 0)
                                                            >= V[y] + (IF y = "HOLD" THEN o ELSE 0)}
  BY <1>10 DEF Chosen, Sides
<1>13. "HOLD" \notin Chosen(those, R)
  BY <1>3
<1>14. \E y \in {"BUY", "SELL"} : V[y] > V["HOLD"] + o
  BY <1>8, <1>12, <1>13 DEF Sides
<1>15. SUFFICES ASSUME NEW x \in Chosen(these, R) PROVE x \in Chosen(those, R)
  BY <1>3
<1>16. x \in {"BUY", "SELL"} /\ \A y \in {"BUY", "SELL"} : V[x] >= V[y]
  BY <1>5, <1>8, <1>11, <1>14, <1>15 DEF Sides
<1> QED
  BY <1>8, <1>12, <1>14, <1>16 DEF Sides

LEMMA DepthIs ==
    ASSUME NEW levels \in Seq(Book!Level), NEW s \in Book!AnalyzeDepth(levels)
    PROVE  s \in SUBSET Nat /\ \A p \in s : \E i \in DOMAIN levels : p = levels[i].price
<1>1. PICK S \in SUBSET (1 .. Book!Least(11, Len(levels))) : s = {levels[i].price : i \in S}
  BY DEF Book!AnalyzeDepth
<1>2. \A i \in S : i \in DOMAIN levels /\ levels[i].price \in Nat
  <2>1. S \in SUBSET (1 .. Len(levels)) /\ DOMAIN levels = 1 .. Len(levels)
    BY DEF Book!Least
  <2>2. \A i \in DOMAIN levels : levels[i] \in Book!Level
    OBVIOUS
  <2> QED
    BY <2>1, <2>2 DEF Book!Level
<1> QED
  BY <1>1, <1>2

LEMMA MidIs ==
    ASSUME NEW book \in Sided, book.bids # <<>>, book.asks # <<>>
    PROVE  Book!Mid(book) \in Nat \ {0}
<1>1. book.bids \in Seq(Book!Level) /\ book.asks \in Seq(Book!Level)
  BY DEF Sided
<1>2. Head(book.bids) \in Book!Level /\ Head(book.asks) \in Book!Level
  BY <1>1
<1>3. Head(book.bids).price \in Nat \ {0} /\ Head(book.asks).price \in Nat \ {0}
  BY <1>2 DEF Book!Level
<1>4. PICK b, a \in Nat \ {0} : b = Head(book.bids).price /\ a = Head(book.asks).price
  BY <1>3
<1>5. b + a \in Nat \ {0} /\ Book!Mid(book) = b + a
  BY <1>4 DEF Book!Mid
<1> QED
  BY <1>5

\* A book an agent can judge, and the deep levels it sees in it.
Judgeable(book, s, r) ==
    /\ book \in Sided /\ book.bids # <<>> /\ book.asks # <<>>
    /\ s \in Book!AnalyzeDepth(book.bids) /\ r \in Book!AnalyzeDepth(book.asks)

LEMMA SignalIs ==
    ASSUME NEW book, NEW flags
    PROVE  \A x : x \in Book!GenerateSignal(book, flags)
                    <=> \E s \in Book!AnalyzeDepth(book.bids), r \in Book!AnalyzeDepth(book.asks) :
                           x \in Book!CombineSignals(Book!VotesOf(book, s, r, flags))
BY SMT DEF Book!GenerateSignal

LEMMA VotesAre ==
    ASSUME Book!OrderBookAssumption, NEW book, NEW s, NEW r, Judgeable(book, s, r), NEW flags \in Nat
    PROVE  LET v == Book!VotesOf(book, s, r, flags) IN
           /\ Sound(v) /\ v[4].den = 5 /\ v[4].num \in 0 .. 5
           /\ v[1] = Book!AnalyzeImbalance(Book!Imbalance(book))
           /\ v[2].for = "BUY" => NearLevel(Book!Mid(book), s)
           /\ v[2].for = "SELL" => NearLevel(Book!Mid(book), r)
           /\ v[3].for = "BUY" => Book!Heavier(book, book.bids, book.asks)
           /\ v[3].for = "SELL" => Book!Heavier(book, book.asks, book.bids)
<1>1. /\ book \in Sided /\ book.bids \in Seq(Book!Level) /\ book.asks \in Seq(Book!Level)
      /\ s \in Book!AnalyzeDepth(book.bids) /\ r \in Book!AnalyzeDepth(book.asks)
  BY DEF Judgeable, Sided
<1>2. Book!Mid(book) \in Nat \ {0}
  BY MidIs DEF Judgeable
<1>3. s \in SUBSET Nat /\ r \in SUBSET Nat
  BY <1>1, DepthIs
<1> DEFINE v == Book!VotesOf(book, s, r, flags)
           v1 == Book!AnalyzeImbalance(Book!Imbalance(book))
           v2 == Book!AnalyzeDepthProximity(Book!Mid(book), s, r)
           v3 == Book!AnalyzeLargeOrders(book)
           v4 == Book!AnalyzeSpoofing(flags)
<1>4. v[1] = v1 /\ v[2] = v2 /\ v[3] = v3 /\ v[4] = v4
  BY DEF Book!VotesOf
<1>5. v1 \in Vote /\ v1.num <= v1.den
  <2>1. PICK n \in Int, d \in Nat \ {0} : Book!Imbalance(book) = <<n, d>> /\ -d <= n /\ n <= d
    BY <1>1, ImbalanceIs
  <2> QED
    BY <2>1, ImbalanceVotes
<1>6. /\ v2 \in Vote /\ v2.num <= v2.den /\ v2.num > 0
      /\ v2.for = "BUY" => NearLevel(Book!Mid(book), s)
      /\ v2.for = "SELL" => NearLevel(Book!Mid(book), r)
  BY <1>2, <1>3, DepthVotes
<1>7. /\ v3 \in Vote /\ v3.num <= v3.den
      /\ v3.for = "BUY" => Book!Heavier(book, book.bids, book.asks)
      /\ v3.for = "SELL" => Book!Heavier(book, book.asks, book.bids)
  BY <1>1, LargeVotes
<1>8. v4 \in Vote /\ v4.num \in 0 .. 5 /\ v4.den = 5 /\ v4.for = "HOLD"
  BY SpoofingVotes
<1> HIDE DEF v, v1, v2, v3, v4
<1>9. v4.num <= v4.den
  BY <1>8
<1>10. Sound(v)
  <2>1. \A i \in 1 .. 4 : i = 1 \/ i = 2 \/ i = 3 \/ i = 4
    OBVIOUS
  <2> QED
    BY <1>4, <1>5, <1>6, <1>7, <1>8, <1>9, <2>1, Zenon DEF Sound
<1>11. /\ v[4].den = 5 /\ v[4].num \in 0 .. 5 /\ v[1] = v1
       /\ v[2].for = "BUY" => NearLevel(Book!Mid(book), s)
       /\ v[2].for = "SELL" => NearLevel(Book!Mid(book), r)
       /\ v[3].for = "BUY" => Book!Heavier(book, book.bids, book.asks)
       /\ v[3].for = "SELL" => Book!Heavier(book, book.asks, book.bids)
  BY <1>4, <1>6, <1>7, <1>8, Zenon
<1> QED
  BY <1>10, <1>11 DEF v, v1

\* What TradesNeedEvidence asks of a trade on one side.
NearTheSide(book, side) == \E i \in DOMAIN side : Book!Distance(Book!Mid(book), 2 * side[i].price) * 100 < Book!Mid(book)
Further(imb, n, d) == Book!Distance(imb[1], 0) * d >= imb[2] * n
Outdone(imb, of) ==
    IF of = "BUY" THEN imb[1] * 100 > imb[2] * ThresholdPct ELSE -imb[1] * 100 > imb[2] * ThresholdPct

Evident(book, side, levels, those, other) ==
    LET imb == Book!Imbalance(book) IN
    \/ Outdone(imb, side)
    \/ NearTheSide(book, levels) /\ (Book!Heavier(book, levels, those) \/ Outdone(imb, other) \/ Further(imb, 1, 4))
    \/ Book!Heavier(book, levels, those) /\ (Outdone(imb, other) \/ Further(imb, 1, 2))

LEMMA NearIs ==
    ASSUME NEW book, NEW levels \in Seq(Book!Level), NEW s \in Book!AnalyzeDepth(levels), NearLevel(Book!Mid(book), s)
    PROVE  NearTheSide(book, levels)
<1>1. PICK p \in s : Book!Distance(Book!Mid(book), 2 * p) * 100 < Book!Mid(book)
  BY DEF NearLevel
<1>2. PICK i \in DOMAIN levels : p = levels[i].price
  BY DepthIs
<1> QED
  BY <1>1, <1>2, Zenon DEF NearTheSide

\* The imbalance that is voted to hold with little confidence is large.
LEMMA HeldBy ==
    ASSUME NEW n \in Int, NEW d \in Nat \ {0}, -d <= n, n <= d
    PROVE  /\ 4 * (d - Book!Distance(n, 0)) <= 3 * d => Further(<<n, d>>, 1, 4)
           /\ 4 * (d - Book!Distance(n, 0)) <= 2 * d => Further(<<n, d>>, 1, 2)
<1>1. PICK k \in Nat : k = Book!Distance(n, 0)
  BY DEF Book!Distance
<1> QED
  BY <1>1 DEF Further

LEMMA ImbalanceSays ==
    ASSUME Book!OrderBookAssumption, NEW book \in Sided
    PROVE  LET imb == Book!Imbalance(book)
               v == Book!AnalyzeImbalance(imb) IN
           /\ v.for \in Sides
           /\ v.for = "BUY" => Outdone(imb, "BUY")
           /\ v.for = "SELL" => Outdone(imb, "SELL")
           /\ v.for = "HOLD" /\ 4 * v.num <= 3 * v.den => Further(imb, 1, 4)
           /\ v.for = "HOLD" /\ 4 * v.num <= 2 * v.den => Further(imb, 1, 2)
<1>1. PICK n \in Int, d \in Nat \ {0} : Book!Imbalance(book) = <<n, d>> /\ -d <= n /\ n <= d
  BY ImbalanceIs
<1> DEFINE v == Book!AnalyzeImbalance(<<n, d>>)
<1>2. /\ v \in Vote
      /\ v.for = "BUY" => n * 100 > d * ThresholdPct
      /\ v.for = "SELL" => -n * 100 > d * ThresholdPct
      /\ v.for = "HOLD" => v.den = d /\ v.num = d - Book!Distance(n, 0)
  BY <1>1, ImbalanceVotes
<1> HIDE DEF v
<1>3. v.for \in Sides
  BY <1>2 DEF Vote
<1>4. (v.for = "BUY" => Outdone(<<n, d>>, "BUY")) /\ (v.for = "SELL" => Outdone(<<n, d>>, "SELL"))
  BY <1>2 DEF Outdone
<1>5. /\ v.for = "HOLD" /\ 4 * v.num <= 3 * v.den => Further(<<n, d>>, 1, 4)
      /\ v.for = "HOLD" /\ 4 * v.num <= 2 * v.den => Further(<<n, d>>, 1, 2)
  BY <1>1, <1>2, HeldBy
<1> QED
  BY <1>1, <1>3, <1>4, <1>5 DEF v

LEMMA TradesAreEvident ==
    ASSUME Book!OrderBookAssumption, NEW book \in Sided, book.bids # <<>>, book.asks # <<>>, NEW flags \in Nat,
           NEW side \in Book!GenerateSignal(book, flags)
    PROVE  /\ side = "BUY" => Evident(book, "BUY", book.bids, book.asks, "SELL")
           /\ side = "SELL" => Evident(book, "SELL", book.asks, book.bids, "BUY")
<1>1. PICK s \in Book!AnalyzeDepth(book.bids), r \in Book!AnalyzeDepth(book.asks) :
         side \in Book!CombineSignals(Book!VotesOf(book, s, r, flags))
  BY SignalIs
<1>2. Judgeable(book, s, r)
  BY <1>1 DEF Judgeable
<1> DEFINE v == Book!VotesOf(book, s, r, flags)
           imb == Book!Imbalance(book)
<1>3. /\ Sound(v) /\ v[1] = Book!AnalyzeImbalance(imb)
      /\ v[2].for = "BUY" => NearLevel(Book!Mid(book), s)
      /\ v[2].for = "SELL" => NearLevel(Book!Mid(book), r)
      /\ v[3].for = "BUY" => Book!Heavier(book, book.bids, book.asks)
      /\ v[3].for = "SELL" => Book!Heavier(book, book.asks, book.bids)
  BY <1>2, VotesAre
<1>4. /\ v[1].for \in Sides
      /\ v[1].for = "BUY" => Outdone(imb, "BUY")
      /\ v[1].for = "SELL" => Outdone(imb, "SELL")
      /\ v[1].for = "HOLD" /\ 4 * v[1].num <= 3 * v[1].den => Further(imb, 1, 4)
      /\ v[1].for = "HOLD" /\ 4 * v[1].num <= 2 * v[1].den => Further(imb, 1, 2)
  BY <1>3, ImbalanceSays
<1>5. side \in Book!CombineSignals(v)
  BY <1>1
<1>6. book.bids \in Seq(Book!Level) /\ book.asks \in Seq(Book!Level)
  BY DEF Sided
<1> HIDE DEF v, imb
<1>7. CASE side = "BUY"
  <2>1. \/ v[1].for = "BUY"
        \/ v[2].for = "BUY"
           /\ (v[3].for = "BUY" \/ v[1].for = "SELL" \/ 4 * v[1].num <= 3 * v[1].den)
        \/ v[3].for = "BUY" /\ (v[1].for = "SELL" \/ 4 * v[1].num <= 2 * v[1].den)
    BY <1>3, <1>5, <1>7, VotesDecide
  <2>2. v[2].for = "BUY" => NearTheSide(book, book.bids)
    BY <1>1, <1>3, <1>6, NearIs
  <2>3. v[1].for = "BUY" \/ v[1].for = "SELL" \/ v[1].for = "HOLD"
    BY <1>4 DEF Sides
  <2>4. \/ Outdone(imb, "BUY")
        \/ NearTheSide(book, book.bids)
           /\ (Book!Heavier(book, book.bids, book.asks) \/ Outdone(imb, "SELL") \/ Further(imb, 1, 4))
        \/ Book!Heavier(book, book.bids, book.asks) /\ (Outdone(imb, "SELL") \/ Further(imb, 1, 2))
    BY <1>3, <1>4, <2>1, <2>2, <2>3, Zenon
  <2> QED
    BY <1>7, <2>4 DEF Evident, imb
<1>8. CASE side = "SELL"
  <2>1. \/ v[1].for = "SELL"
        \/ v[2].for = "SELL"
           /\ (v[3].for = "SELL" \/ v[1].for = "BUY" \/ 4 * v[1].num <= 3 * v[1].den)
        \/ v[3].for = "SELL" /\ (v[1].for = "BUY" \/ 4 * v[1].num <= 2 * v[1].den)
    BY <1>3, <1>5, <1>8, VotesDecide
  <2>2. v[2].for = "SELL" => NearTheSide(book, book.asks)
    BY <1>1, <1>3, <1>6, NearIs
  <2>3. v[1].for = "BUY" \/ v[1].for = "SELL" \/ v[1].for = "HOLD"
    BY <1>4 DEF Sides
  <2>4. \/ Outdone(imb, "SELL")
        \/ NearTheSide(book, book.asks)
           /\ (Book!Heavier(book, book.asks, book.bids) \/ Outdone(imb, "BUY") \/ Further(imb, 1, 4))
        \/ Book!Heavier(book, book.asks, book.bids) /\ (Outdone(imb, "BUY") \/ Further(imb, 1, 2))
    BY <1>3, <1>4, <2>1, <2>2, <2>3, Zenon
  <2> QED
    BY <1>8, <2>4 DEF Evident, imb
<1> QED
  BY <1>7, <1>8

LEMMA FlagsStopNoTrade ==
    ASSUME Book!OrderBookAssumption, NEW book \in Sided, book.bids # <<>>, book.asks # <<>>, NEW flags \in Nat,
           "HOLD" \notin Book!GenerateSignal(book, 0)
    PROVE  Book!GenerateSignal(book, flags) \subseteq Book!GenerateSignal(book, 0)
<1>1. SUFFICES ASSUME NEW x \in Book!GenerateSignal(book, flags) PROVE x \in Book!GenerateSignal(book, 0)
  OBVIOUS
<1>2. PICK s \in Book!AnalyzeDepth(book.bids), r \in Book!AnalyzeDepth(book.asks) :
         x \in Book!CombineSignals(Book!VotesOf(book, s, r, flags))
  BY <1>1, SignalIs
<1> DEFINE these == Book!VotesOf(book, s, r, flags)
           those == Book!VotesOf(book, s, r, 0)
<1>3. Judgeable(book, s, r) /\ 0 \in Nat
  BY <1>2 DEF Judgeable
<1>4. Sound(these) /\ Sound(those) /\ these[4].den = 5 /\ those[4].den = 5 /\ these[4].num \in 0 .. 5
  BY <1>3, VotesAre
<1>5. /\ these[1] = those[1] /\ these[2] = those[2] /\ these[3] = those[3] /\ those[4].num = 5
  BY DEF Book!VotesOf, Book!AnalyzeSpoofing
<1>6. these[4].den = those[4].den /\ these[4].num <= those[4].num
  BY <1>4, <1>5
<1>7. "HOLD" \notin Book!CombineSignals(those)
  BY <1>2, SignalIs
<1> HIDE DEF these, those
<1>8. Book!CombineSignals(these) \subseteq Book!CombineSignals(those)
  BY <1>4, <1>5, <1>6, <1>7, HoldingLess
<1>9. x \in Book!CombineSignals(those)
  BY <1>2, <1>8 DEF these
<1> QED
  BY <1>2, <1>9, SignalIs DEF those

-----------------------------------------------------------------------------
(* The history of the order book agent.                                    *)

Remembered == [at : 0 .. MaxNow, book : Books]

LEMMA FlagsAre ==
    ASSUME Book!OrderBookAssumption, NEW h \in Seq(Remembered)
    PROVE  /\ Book!DetectSpoofing(h) \in Nat
           /\ (\A i \in 1 .. Len(h) : h[i].book = h[Len(h)].book) => Book!DetectSpoofing(h) = 0
<1> DEFINE w == [i \in 2 .. Len(h) |-> Book!CompareSnapshots(h[i - 1].book, h[i].book)]
           S == {i \in 2 .. Len(h) : \A j \in i .. Len(h) : bookTime - h[j].at <= Window}
<1>1. Book!DetectSpoofing(h) = Total(w, S)
  BY BookSum DEF Book!DetectSpoofing
<1>2. IsFiniteSet(S)
  <2>1. Len(h) \in Nat /\ IsFiniteSet(2 .. Len(h)) /\ S \subseteq 2 .. Len(h)
    BY FS_Interval
  <2> QED
    BY <2>1, FS_Subset
<1>3. \A i \in 1 .. Len(h) : h[i].book \in Sided
  <2>1. \A i \in 1 .. Len(h) : h[i] \in Remembered
    OBVIOUS
  <2>2. Books \subseteq Sided
    BY DEF Book!OrderBookAssumption, Sided
  <2> QED
    BY <2>1, <2>2 DEF Remembered
<1>4. ASSUME NEW i \in S PROVE i \in 2 .. Len(h) /\ i - 1 \in 1 .. Len(h) /\ i \in 1 .. Len(h)
  BY Len(h) \in Nat
<1>5. ASSUME NEW a \in Sided, NEW b \in Sided
      PROVE  Book!CompareSnapshots(a, b) \in Nat /\ (a = b => Book!CompareSnapshots(a, b) = 0)
  <2>1. /\ a.bids \in Seq(Book!Level) /\ a.asks \in Seq(Book!Level)
        /\ Book!Gone(a.bids, b.bids) \in SUBSET (DOMAIN a.bids) /\ Book!Gone(a.asks, b.asks) \in SUBSET (DOMAIN a.asks)
    BY DEF Sided, Book!Gone
  <2>2. Cardinality(Book!Gone(a.bids, b.bids)) \in Nat /\ Cardinality(Book!Gone(a.asks, b.asks)) \in Nat
    BY <2>1, VolumeIs
  <2>3. a = b => Book!Gone(a.bids, b.bids) = {} /\ Book!Gone(a.asks, b.asks) = {}
    <3>1. ASSUME NEW levels \in Seq(Book!Level) PROVE Book!Gone(levels, levels) = {}
      <4>1. DOMAIN levels = 1 .. Len(levels)
        OBVIOUS
      <4>2. \A i \in DOMAIN levels : Book!Contains(levels, levels[i])
        BY <4>1, Zenon DEF Book!Contains
      <4> QED
        BY <4>2 DEF Book!Gone
    <3> QED
      BY <2>1, <3>1
  <2>4. Cardinality({}) = 0
    BY FS_EmptySet
  <2>5. Book!CompareSnapshots(a, b)
           = Cardinality(Book!Gone(a.bids, b.bids)) + Cardinality(Book!Gone(a.asks, b.asks))
    BY BookCardinality, Zenon DEF Book!CompareSnapshots
  <2>6. PICK k, m \in Nat : k = Cardinality(Book!Gone(a.bids, b.bids)) /\ m = Cardinality(Book!Gone(a.asks, b.asks))
    BY <2>2
  <2>7. a = b => k = 0 /\ m = 0
    BY <2>3, <2>4, <2>6
  <2> QED
    BY <2>5, <2>6, <2>7
<1>6. \A i \in S : w[i] = Book!CompareSnapshots(h[i - 1].book, h[i].book)
  BY <1>4
<1>7. \A i \in S : w[i] \in Nat
  BY <1>3, <1>4, <1>5, <1>6
<1>8. (\A i \in 1 .. Len(h) : h[i].book = h[Len(h)].book) => \A i \in S : w[i] = 0
  <2>1. SUFFICES ASSUME \A i \in 1 .. Len(h) : h[i].book = h[Len(h)].book, NEW i \in S PROVE w[i] = 0
    OBVIOUS
  <2>2. h[i - 1].book = h[i].book /\ h[i - 1].book \in Sided /\ h[i].book \in Sided
    BY <1>3, <1>4, <2>1
  <2> QED
    BY <1>5, <1>6, <2>2
<1> HIDE DEF w, S
<1> QED
  BY <1>1, <1>2, <1>7, <1>8, SumNat, SumOfNothing

\* A signal was made from the newest book of the history, with what changed there.
Judged(b, h) ==
    /\ b.book \in Books /\ b.book.bids # <<>> /\ b.book.asks # <<>> /\ b.flags \in Nat
    /\ b.action \in Book!GenerateSignal(b.book, b.flags)
    /\ h # <<>> /\ h[Len(h)].book = b.book
    /\ (\A i \in 1 .. Len(h) : h[i].book = b.book) => b.flags = 0

BookInv ==
    /\ history \in Seq(Remembered) /\ bookTime \in 0 .. MaxNow
    /\ bookSignal.action \in {"none", "BUY", "SELL", "HOLD"}
    /\ bookSignal.action # "none" => Judged(bookSignal, history)

LEMMA BooksAre == Book!OrderBookAssumption => \A book \in Books : book \in Sided
BY DEF Book!OrderBookAssumption, Sided

LEMMA BookBegins == Book!OrderBookAssumption /\ Book!OrderBookInit => BookInv
<1> SUFFICES ASSUME Book!OrderBookAssumption, Book!OrderBookInit PROVE BookInv
  OBVIOUS
<1>1. history \in Seq(Remembered)
  <2>1. <<>> \in Seq(Remembered)
    OBVIOUS
  <2> QED
    BY <2>1 DEF Book!OrderBookInit
<1>2. bookTime \in 0 .. MaxNow
  BY DEF Book!OrderBookInit, Book!OrderBookAssumption
<1>3. bookSignal.action = "none"
  BY DEF Book!OrderBookInit, Book!NoBookSignal
<1> QED
  BY <1>1, <1>2, <1>3 DEF BookInv

LEMMA SnapshotIs ==
    ASSUME Book!OrderBookAssumption, BookInv, NEW book \in Books
    PROVE  LET h == Book!AddOrderBookSnapshot(history, book) IN
           h \in Seq(Remembered) /\ h # <<>> /\ h[Len(h)].book = book
<1> DEFINE new == [at |-> bookTime, book |-> book]
           grown == Append(history, new)
<1>1. new \in Remembered /\ history \in Seq(Remembered) /\ new.book = book
  BY DEF Remembered, BookInv
<1> HIDE DEF new
<1>2. /\ grown \in Seq(Remembered) /\ Len(grown) = Len(history) + 1 /\ Len(history) \in Nat
      /\ grown[Len(grown)] = new
  BY <1>1
<1> HIDE DEF grown
<1>3. MaxHistory \in Nat \ {0}
  BY DEF Book!OrderBookAssumption
<1>4. CASE Len(grown) > MaxHistory
  <2>1. grown # <<>> /\ Len(grown) >= 2
    BY <1>2, <1>3, <1>4
  <2>2. PICK rest : /\ rest = Tail(grown) /\ rest \in Seq(Remembered) /\ Len(rest) = Len(grown) - 1
                    /\ \A i \in 1 .. Len(rest) : rest[i] = grown[i + 1]
    BY <1>2, <2>1, HeadTailProperties
  <2>3. PICK k \in Nat : k = Len(rest) /\ k >= 1 /\ k + 1 = Len(grown)
    BY <1>2, <2>1, <2>2
  <2>4. rest[k] = new
    <3>1. k \in 1 .. Len(rest)
      BY <2>3
    <3>2. rest[k] = grown[k + 1]
      BY <2>2, <3>1
    <3> QED
      BY <1>2, <2>3, <3>2
  <2>5. rest # <<>>
    <3>1. Len(<<>>) = 0
      OBVIOUS
    <3>2. Len(rest) # 0
      BY <2>3
    <3> QED
      BY <3>1, <3>2, Zenon
  <2>6. Book!AddOrderBookSnapshot(history, book) = rest
    BY <1>4, <2>2 DEF Book!AddOrderBookSnapshot, grown, new
  <2> QED
    BY <1>1, <2>2, <2>3, <2>4, <2>5, <2>6
<1>5. CASE ~ (Len(grown) > MaxHistory)
  <2>1. grown # <<>>
    BY <1>2
  <2>2. Book!AddOrderBookSnapshot(history, book) = grown
    BY <1>5 DEF Book!AddOrderBookSnapshot, grown, new
  <2> QED
    BY <1>1, <1>2, <2>1, <2>2
<1> QED
  BY <1>4, <1>5

LEMMA SignalsAre ==
    ASSUME NEW book, NEW flags, NEW x \in Book!GenerateSignal(book, flags)
    PROVE  x \in {"BUY", "SELL", "HOLD"}
<1>1. PICK s, r : x \in Book!CombineSignals(Book!VotesOf(book, s, r, flags))
  BY SignalIs
<1>2. x \in Chosen(Book!VotesOf(book, s, r, flags), Factors(Book!VotesOf(book, s, r, flags)))
  BY <1>1, CombineIs
<1> QED
  BY <1>2 DEF Chosen

LEMMA BookKept ==
    ASSUME Book!OrderBookAssumption, BookInv, Book!BookStep
    PROVE  BookInv'
<1>1. PICK book \in Books :
         /\ book.bids # <<>> /\ book.asks # <<>>
         /\ history' = Book!AddOrderBookSnapshot(history, book)
         /\ \E action \in Book!GenerateSignal(book, Book!DetectSpoofing(history')) :
               bookSignal' = [action |-> action, book |-> book, flags |-> Book!DetectSpoofing(history')]
  BY DEF Book!BookStep
<1>2. PICK h : h = history'
  OBVIOUS
<1>3. h \in Seq(Remembered) /\ h # <<>> /\ h[Len(h)].book = book
  BY <1>1, <1>2, SnapshotIs
<1>4. PICK n : n = Book!DetectSpoofing(h)
  OBVIOUS
<1>5. n \in Nat /\ ((\A i \in 1 .. Len(h) : h[i].book = book) => n = 0)
  BY <1>3, <1>4, FlagsAre
<1>6. Book!DetectSpoofing(history') = n
  BY <1>2, <1>4
<1>7. PICK action \in Book!GenerateSignal(book, n) : bookSignal' = [action |-> action, book |-> book, flags |-> n]
  BY <1>1, <1>6
<1>8. PICK b : b = [action |-> action, book |-> book, flags |-> n]
  OBVIOUS
<1>9. b.action = action /\ b.book = book /\ b.flags = n
  BY <1>8
<1>10. Judged(b, h)
  BY <1>1, <1>3, <1>5, <1>7, <1>9, Zenon DEF Judged
<1>11. b.action \in {"none", "BUY", "SELL", "HOLD"}
  BY <1>7, <1>9, SignalsAre
<1>12. bookTime' = bookTime
  BY DEF Book!BookStep
<1> QED
  BY <1>2, <1>3, <1>7, <1>8, <1>10, <1>11, <1>12 DEF BookInv

LEMMA BookKeepsStep ==
    ASSUME Book!OrderBookAssumption, BookInv, Book!OrderBookNext \/ UNCHANGED books
    PROVE  BookInv'
<1>1. CASE Book!BookStep
  BY <1>1, BookKept
<1>2. CASE Book!BookTick
  <2>1. bookTime' \in 0 .. MaxNow
    BY <1>2 DEF Book!BookTick, BookInv, Book!OrderBookAssumption
  <2>2. history' = history /\ bookSignal' = bookSignal
    BY <1>2 DEF Book!BookTick
  <2> QED
    BY <2>1, <2>2 DEF BookInv
<1>3. CASE UNCHANGED books
  BY <1>3 DEF books, BookInv
<1> QED
  BY <1>1, <1>2, <1>3 DEF Book!OrderBookNext

LEMMA BookShows ==
    ASSUME Book!OrderBookAssumption, BookInv
    PROVE  /\ Book!OrderBookTypeOK /\ Book!FlagsComeFromChange
           /\ Book!TradesNeedEvidence /\ Book!SpoofingNeverStopsATrade
<1>1. Book!OrderBookTypeOK
  <2>1. \A i \in 1 .. Len(history) : history[i] \in Remembered
    BY DEF BookInv
  <2>2. \A i \in 1 .. Len(history) : history[i].at \in 0 .. MaxNow /\ history[i].book \in Books
    BY <2>1 DEF Remembered
  <2> QED
    BY <2>2 DEF BookInv, Book!OrderBookTypeOK
<1>2. Book!FlagsComeFromChange
  BY DEF BookInv, Judged, Book!FlagsComeFromChange, Book!Last
<1>3. bookSignal.action # "none" =>
         /\ bookSignal.book \in Sided /\ bookSignal.book.bids # <<>> /\ bookSignal.book.asks # <<>>
         /\ bookSignal.flags \in Nat /\ bookSignal.action \in Book!GenerateSignal(bookSignal.book, bookSignal.flags)
  BY BooksAre DEF BookInv, Judged
<1>4. Book!TradesNeedEvidence
  <2> DEFINE book == bookSignal.book
  <2>1. bookSignal.action = "BUY" => Evident(book, "BUY", book.bids, book.asks, "SELL")
    BY <1>3, TradesAreEvident
  <2>2. bookSignal.action = "SELL" => Evident(book, "SELL", book.asks, book.bids, "BUY")
    BY <1>3, TradesAreEvident
  <2> QED
    BY <2>1, <2>2 DEF Book!TradesNeedEvidence, Evident, NearTheSide, Further, Outdone
<1>5. Book!SpoofingNeverStopsATrade
  <2>1. ASSUME bookSignal.action # "none", NEW flags \in 1 .. 6, "HOLD" \notin Book!GenerateSignal(bookSignal.book, 0)
        PROVE  Book!GenerateSignal(bookSignal.book, flags) \subseteq Book!GenerateSignal(bookSignal.book, 0)
    <3>1. flags \in Nat
      OBVIOUS
    <3> QED
      BY <1>3, <2>1, <3>1, FlagsStopNoTrade
  <2> QED
    BY <2>1 DEF Book!SpoofingNeverStopsATrade
<1> QED
  BY <1>1, <1>2, <1>4, <1>5

-----------------------------------------------------------------------------
(* The technical agent.                                                    *)

LEMMA TechnicalSum == \A w : Technical!SumFunction(w) = Total(w, DOMAIN w)
BY DEF Technical!SumFunction, Technical!SumFunctionOnSet, Technical!FoldFunctionOnSet, Technical!MapThenFoldSet, Total,
       SumFunctionOnSet, FoldFunctionOnSet, MapThenFoldSet

\* The weight of an indicator and the score of a side, for given weights.
WeightIn(w, n) ==
    LET name == IF n = "ema" THEN "trend" ELSE n
        default == [rsi |-> 25, macd |-> 25, boll |-> 20, trend |-> 20]
    IN  IF name \in DOMAIN w THEN w[name] ELSE default[name]

Points(w, votes, side) ==
    [n \in Technical!Names |-> IF votes[n].side = side THEN votes[n].conf * WeightIn(w, n) ELSE 0]

WeightsIn(w, votes) == [n \in Technical!Names |-> IF votes[n] = Technical!NoVote THEN 0 ELSE WeightIn(w, n)]

Scored(w, votes, side) == Total(Points(w, votes, side), Technical!Names)

CombineIn(w, votes) ==
    LET first == IF Scored(w, votes, "SELL") >= Scored(w, votes, "BUY") THEN "SELL" ELSE "BUY"
        final == IF Scored(w, votes, "HOLD") >= Scored(w, votes, first) THEN "HOLD" ELSE first
        total == Total(WeightsIn(w, votes), Technical!Names)
    IN  [side |-> final, conf |-> Scored(w, votes, final), of |-> IF total = 0 THEN 1 ELSE total, by |-> "rules"]

LEMMA ScoreIs == \A votes, side : Technical!Score(votes, side) = Scored(weights, votes, side)
<1> SUFFICES ASSUME NEW votes, NEW side PROVE Technical!Score(votes, side) = Scored(weights, votes, side)
  OBVIOUS
<1>1. \A n : Technical!WeightOf(n) = WeightIn(weights, n)
  BY DEF Technical!WeightOf, WeightIn
<1>2. Points(weights, votes, side) =
         [n \in Technical!Names |-> IF votes[n].side = side THEN votes[n].conf * Technical!WeightOf(n) ELSE 0]
  BY <1>1 DEF Points
<1>3. DOMAIN Points(weights, votes, side) = Technical!Names
  BY DEF Points
<1> QED
  BY <1>2, <1>3, TechnicalSum, Zenon DEF Technical!Score, Scored

LEMMA TotalWeightIs == \A votes : Technical!TotalWeight(votes) = Total(WeightsIn(weights, votes), Technical!Names)
<1> SUFFICES ASSUME NEW votes
             PROVE  Technical!TotalWeight(votes) = Total(WeightsIn(weights, votes), Technical!Names)
  OBVIOUS
<1>1. \A n : Technical!WeightOf(n) = WeightIn(weights, n)
  BY DEF Technical!WeightOf, WeightIn
<1>2. WeightsIn(weights, votes) =
         [n \in Technical!Names |-> IF votes[n] = Technical!NoVote THEN 0 ELSE Technical!WeightOf(n)]
  BY <1>1 DEF WeightsIn
<1>3. DOMAIN WeightsIn(weights, votes) = Technical!Names
  BY DEF WeightsIn
<1> QED
  BY <1>2, <1>3, TechnicalSum, Zenon DEF Technical!TotalWeight

LEMMA CombinedIs == \A votes : Technical!Combine(votes) = CombineIn(weights, votes)
BY ScoreIs, TotalWeightIs, Zenon DEF Technical!Combine, CombineIn

LEMMA RulesAre == \A ind : Technical!RuleBased(ind) = CombineIn(weights, Technical!Votes(ind))
BY CombinedIs, Zenon DEF Technical!RuleBased

\* What an agent may be configured with.
Weighing(w) == \A name \in DOMAIN w : w[name] \in Nat

LEMMA WeightIs ==
    ASSUME NEW w, Weighing(w), NEW n \in Technical!Names
    PROVE  WeightIn(w, n) \in Nat
<1>1. CASE n = "ema"
  BY <1>1 DEF WeightIn, Weighing
<1>2. CASE n # "ema"
  BY <1>2 DEF WeightIn, Weighing, Technical!Names
<1> QED
  BY <1>1, <1>2

Voice == [side : {"BUY", "SELL", "HOLD", "none"}, conf : Nat]

LEMMA RSIVote == \A v \in Int : Technical!AnalyzeRSI(v) \in Voice
<1> SUFFICES ASSUME NEW v \in Int PROVE Technical!AnalyzeRSI(v) \in Voice
  OBVIOUS
<1>1. CASE v <= 30
  <2>1. PICK k \in Nat : k = (30 - v) * 50
    BY <1>1
  <2>2. 50 + (k \div 30) \in Nat
    OBVIOUS
  <2> QED
    BY <1>1, <2>1, <2>2 DEF Technical!AnalyzeRSI, Technical!Vote, Voice
<1>2. CASE ~ (v <= 30) /\ v >= 70
  <2>1. PICK k \in Nat : k = (v - 70) * 50
    BY <1>2
  <2>2. 50 + (k \div 30) \in Nat
    OBVIOUS
  <2> QED
    BY <1>2, <2>1, <2>2 DEF Technical!AnalyzeRSI, Technical!Vote, Voice
<1>3. CASE ~ (v <= 30) /\ ~ (v >= 70)
  <2>1. PICK k \in Nat : k = Technical!AtMost(v - 30, 70 - v) * 100
    BY <1>3 DEF Technical!AtMost
  <2>2. k \div 20 \in Nat
    OBVIOUS
  <2> QED
    BY <1>3, <2>1, <2>2 DEF Technical!AnalyzeRSI, Technical!Vote, Voice
<1> QED
  BY <1>1, <1>2, <1>3

LEMMA MACDVote == \A h \in Int : Technical!AnalyzeMACD(h) \in Voice
BY DEF Technical!AnalyzeMACD, Technical!AtMost, Technical!Vote, Voice

LEMMA BollingerVote == \A b : Technical!AnalyzeBollinger(b) \in Voice
BY DEF Technical!AnalyzeBollinger, Technical!Vote, Voice

LEMMA EMAVote == \A d \in Int : Technical!AnalyzeEMATrend(d) \in Voice
<1> SUFFICES ASSUME NEW d \in Int PROVE Technical!AnalyzeEMATrend(d) \in Voice
  OBVIOUS
<1>1. Technical!AtLeast(Technical!AtMost(Technical!Abs(d) * 50, 100), 50) \in Nat
  BY DEF Technical!AtLeast, Technical!AtMost, Technical!Abs
<1> QED
  BY <1>1 DEF Technical!AnalyzeEMATrend, Technical!Vote, Voice

LEMMA VotesAreVoices ==
    ASSUME Technical!TechnicalAssumption, NEW ind \in Technical!AllIndicators
    PROVE  \A n \in Technical!Names : Technical!Votes(ind)[n] \in Voice
<1>1. /\ ind.rsi # None => ind.rsi \in Int
      /\ ind.macd # None => ind.macd \in Int
      /\ ind.ema # None => ind.ema \in Int
  BY DEF Technical!AllIndicators, Technical!TechnicalAssumption
<1>2. Technical!NoVote \in Voice
  BY DEF Technical!NoVote, Technical!Vote, Voice
<1>3. Technical!Votes(ind)["rsi"] \in Voice
  BY <1>1, <1>2, RSIVote DEF Technical!Votes
<1>4. Technical!Votes(ind)["macd"] \in Voice
  BY <1>1, <1>2, MACDVote DEF Technical!Votes
<1>5. Technical!Votes(ind)["boll"] \in Voice
  BY <1>2, BollingerVote DEF Technical!Votes
<1>6. Technical!Votes(ind)["ema"] \in Voice
  BY <1>1, <1>2, EMAVote DEF Technical!Votes
<1> QED
  BY <1>3, <1>4, <1>5, <1>6 DEF Technical!Names

\* One vote that says more for a side and takes nothing from it.
LEMMA PointsAre ==
    ASSUME NEW w, Weighing(w), NEW votes, \A n \in Technical!Names : votes[n] \in Voice, NEW side, NEW n \in Technical!Names
    PROVE  /\ Points(w, votes, side)[n] \in Nat
           /\ Points(w, votes, side)[n] = IF votes[n].side = side THEN votes[n].conf * WeightIn(w, n) ELSE 0
<1>1. votes[n] \in Voice /\ WeightIn(w, n) \in Nat
  BY WeightIs
<1>2. votes[n].conf \in Nat
  BY <1>1 DEF Voice
<1>3. votes[n].conf * WeightIn(w, n) \in Nat
  BY <1>1, <1>2
<1> QED
  BY <1>3 DEF Points

LEMMA NamesAre == IsFiniteSet(Technical!Names)
<1>1. IsFiniteSet({"rsi"} \cup {"macd"} \cup {"boll"} \cup {"ema"})
  BY FS_Singleton, FS_Union
<1>2. Technical!Names = {"rsi"} \cup {"macd"} \cup {"boll"} \cup {"ema"}
  BY DEF Technical!Names
<1> QED
  BY <1>1, <1>2

LEMMA SupportHelps ==
    ASSUME NEW w, Weighing(w), NEW before, NEW after, NEW m \in Technical!Names, NEW side \in {"BUY", "SELL"},
           \A n \in Technical!Names : before[n] \in Voice /\ after[n] \in Voice,
           \A n \in Technical!Names \ {m} : before[n] = after[n],
           after[m].side = side,
           before[m] = Technical!NoVote \/ (before[m].side = side /\ before[m].conf <= after[m].conf),
           CombineIn(w, before).side = side
    PROVE  CombineIn(w, after).side = side
<1> DEFINE B(s) == Points(w, before, s)
           A(s) == Points(w, after, s)
<1>1. \A s : \A n \in Technical!Names : B(s)[n] \in Nat /\ A(s)[n] \in Nat
  BY PointsAre
<1>2. \A n \in Technical!Names : B(side)[n] <= A(side)[n]
  <2>1. TAKE n \in Technical!Names
  <2>2. CASE n = m
    <3>1. before[m] \in Voice /\ after[m] \in Voice /\ WeightIn(w, m) \in Nat
      BY WeightIs
    <3>2. A(side)[m] = after[m].conf * WeightIn(w, m)
      BY PointsAre
    <3>3. CASE before[m] = Technical!NoVote
      <4>1. before[m].side = "none"
        BY <3>3 DEF Technical!NoVote, Technical!Vote
      <4>2. B(side)[m] = 0
        BY <4>1, PointsAre
      <4> QED
        BY <1>1, <2>2, <4>2
    <3>4. CASE before[m].side = side /\ before[m].conf <= after[m].conf
      <4>1. B(side)[m] = before[m].conf * WeightIn(w, m)
        BY <3>4, PointsAre
      <4>2. PICK b, a, k \in Nat : b = before[m].conf /\ a = after[m].conf /\ k = WeightIn(w, m) /\ b <= a
        BY <3>1, <3>4 DEF Voice
      <4>3. PICK e \in Nat : a = b + e
        BY <4>2, a - b \in Nat
      <4>4. a * k = b * k + e * k /\ e * k \in Nat /\ b * k \in Nat
        BY <4>2, <4>3
      <4>5. b * k <= a * k
        BY <4>4
      <4> QED
        BY <2>2, <3>2, <4>1, <4>2, <4>5
    <3> QED
      BY <3>3, <3>4
  <2>3. CASE n # m
    <3>1. before[n] = after[n]
      BY <2>3
    <3>2. B(side)[n] = A(side)[n]
      BY <3>1, PointsAre
    <3> QED
      BY <1>1, <3>2
  <2> QED
    BY <2>2, <2>3
<1>3. \A s : s \in {"BUY", "SELL", "HOLD"} /\ s # side => \A n \in Technical!Names : A(s)[n] = B(s)[n]
  <2>1. SUFFICES ASSUME NEW s \in {"BUY", "SELL", "HOLD"}, s # side, NEW n \in Technical!Names
                 PROVE  A(s)[n] = B(s)[n]
    OBVIOUS
  <2>2. CASE n = m
    <3>1. before[m].side # s /\ after[m].side # s
      BY <2>1 DEF Technical!NoVote, Technical!Vote
    <3> QED
      BY <2>2, <3>1, PointsAre
  <2>3. CASE n # m
    <3>1. before[n] = after[n]
      BY <2>3
    <3> QED
      BY <3>1, PointsAre
  <2> QED
    BY <2>2, <2>3
<1> HIDE DEF A, B
<1>4. /\ Total(B(side), Technical!Names) \in Int /\ Total(A(side), Technical!Names) \in Int
      /\ Total(B(side), Technical!Names) <= Total(A(side), Technical!Names)
  <2>1. \A n \in Technical!Names : B(side)[n] \in Int /\ A(side)[n] \in Int /\ B(side)[n] <= A(side)[n]
    BY <1>1, <1>2
  <2> QED
    BY <2>1, NamesAre, SumAtMost
<1>5. ASSUME NEW s \in {"BUY", "SELL", "HOLD"}, s # side
      PROVE  Total(B(s), Technical!Names) \in Int /\ Total(A(s), Technical!Names) = Total(B(s), Technical!Names)
  <2>1. \A n \in Technical!Names : B(s)[n] \in Int /\ A(s)[n] = B(s)[n]
    BY <1>1, <1>3, <1>5
  <2> QED
    BY <2>1, NamesAre, SumAgree
<1>6. \A s : Scored(w, before, s) = Total(B(s), Technical!Names) /\ Scored(w, after, s) = Total(A(s), Technical!Names)
  BY DEF Scored, A, B
<1>7. \A votes : CombineIn(w, votes).side =
         LET first == IF Scored(w, votes, "SELL") >= Scored(w, votes, "BUY") THEN "SELL" ELSE "BUY"
         IN  IF Scored(w, votes, "HOLD") >= Scored(w, votes, first) THEN "HOLD" ELSE first
  BY DEF CombineIn
<1>8. CASE side = "BUY"
  BY <1>4, <1>5, <1>6, <1>7, <1>8
<1>9. CASE side = "SELL"
  BY <1>4, <1>5, <1>6, <1>7, <1>9
<1> QED
  BY <1>8, <1>9

\* What the bands say is what is believed of the trend.
LEMMA TrendIs ==
    ASSUME Technical!TechnicalAssumption, NEW ind \in Technical!AllIndicators
    PROVE  /\ Technical!OverallTrend(ind) \in {"bullish", "bearish", "neutral"}
           /\ Technical!OverallTrend(ind) = "bullish" => ind.boll = "buy"
           /\ Technical!OverallTrend(ind) = "bearish" => ind.boll = "sell"
           /\ ind.boll = None => Technical!OverallTrend(ind) = "neutral"
<1> DEFINE said == [rsi |-> IF ind.rsi = None THEN None ELSE Technical!RSISignal(ind.rsi),
                    macd |-> IF ind.macd = None THEN None ELSE Technical!Crossover(ind.macd),
                    boll |-> ind.boll]
           buys == {n \in DOMAIN said : said[n] = "buy"}
           sells == {n \in DOMAIN said : said[n] = "sell"}
<1>1. None # "buy" /\ None # "sell"
  BY DEF Technical!TechnicalAssumption
<1>2. /\ said["rsi"] # "buy" /\ said["rsi"] # "sell"
      /\ said["macd"] # "buy" /\ said["macd"] # "sell"
  BY <1>1 DEF Technical!RSISignal, Technical!Crossover
<1>3. DOMAIN said = {"rsi", "macd", "boll"} /\ said["boll"] = ind.boll
  OBVIOUS
<1> HIDE DEF said
<1>4. buys = (IF ind.boll = "buy" THEN {"boll"} ELSE {}) /\ sells = (IF ind.boll = "sell" THEN {"boll"} ELSE {})
  BY <1>2, <1>3
<1>5. Cardinality({}) = 0 /\ Cardinality({"boll"}) = 1
  BY FS_EmptySet, FS_Singleton
<1>6. Technical!TrendVotes(ind) = [buy |-> Cardinality(buys), sell |-> Cardinality(sells)]
  <2>1. \A S : Technical!Cardinality(S) = Cardinality(S)
    BY DEF Technical!Cardinality, Cardinality
  <2> QED
    BY <2>1, Zenon DEF Technical!TrendVotes, said
<1> HIDE DEF buys, sells
<1>7. /\ Technical!TrendVotes(ind).buy = IF ind.boll = "buy" THEN 1 ELSE 0
      /\ Technical!TrendVotes(ind).sell = IF ind.boll = "sell" THEN 1 ELSE 0
  BY <1>4, <1>5, <1>6
<1>8. /\ Technical!OverallTrend(ind) = IF Technical!TrendVotes(ind).buy > Technical!TrendVotes(ind).sell THEN "bullish"
                                       ELSE IF Technical!TrendVotes(ind).sell > Technical!TrendVotes(ind).buy THEN "bearish"
                                       ELSE "neutral"
  BY Zenon DEF Technical!OverallTrend
<1> QED
  BY <1>1, <1>7, <1>8

\* What one analysis leaves in the beliefs.
LEMMA BeliefsAre ==
    ASSUME Technical!TechnicalAssumption, NEW ind \in Technical!AllIndicators, NEW at \in Nat
    PROVE  LET b == Technical!UpdateBeliefs(ind, at) IN
           /\ DOMAIN b = {"rsi", "macd", "boll", "trend"}
           /\ b["trend"].at = at /\ b["trend"].val = Technical!OverallTrend(ind)
           /\ \A n \in {"rsi", "macd", "boll"} :
                 /\ ind[n] = None => b[n] = beliefs[n]
                 /\ ind[n] # None => b[n].val = ind[n] /\ b[n].at = at
BY DEF Technical!UpdateBeliefs, Technical!Believe

TechInv ==
    /\ indicators \in Technical!AllIndicators /\ steps \in 0 .. MaxSteps /\ Weighing(weights)
    /\ DOMAIN beliefs = {"rsi", "macd", "boll", "trend"}
    /\ \A k \in {"rsi", "macd", "boll", "trend"} : beliefs[k].at \in 0 .. steps
    /\ beliefs["trend"].val \in {None, "bullish", "bearish", "neutral"}
    /\ \A n \in {"rsi", "macd", "boll"} : beliefs[n].at < beliefs["trend"].at => indicators[n] = None
    /\ beliefs["trend"].val = "bullish" => beliefs["boll"].at = beliefs["trend"].at /\ beliefs["boll"].val = "buy"
    /\ beliefs["trend"].val = "bearish" => beliefs["boll"].at = beliefs["trend"].at /\ beliefs["boll"].val = "sell"
    /\ signal.side \in {"BUY", "SELL", "HOLD"} /\ published.side \in {"BUY", "SELL", "HOLD"}
    /\ signal.by = "rules" => signal = CombineIn(weights, Technical!Votes(indicators))
    /\ published.by = "rules" => published.side = "HOLD" /\ published.conf = 0

LEMMA TechnicalBegins == Technical!TechnicalAssumption /\ Technical!TechnicalInit => TechInv
<1> SUFFICES ASSUME Technical!TechnicalAssumption, Technical!TechnicalInit PROVE TechInv
  OBVIOUS
<1>1. indicators \in Technical!AllIndicators
  BY DEF Technical!TechnicalInit, Technical!AllIndicators, Technical!Nothing, Technical!Names
<1>2. steps \in 0 .. MaxSteps /\ steps = 0
  BY DEF Technical!TechnicalInit, Technical!TechnicalAssumption
<1>3. Weighing(weights)
  BY DEF Technical!TechnicalInit, Technical!TechnicalAssumption, Weighing
<1>4. DOMAIN beliefs = {"rsi", "macd", "boll", "trend"}
  BY DEF Technical!TechnicalInit
<1>5. \A k \in {"rsi", "macd", "boll", "trend"} : beliefs[k].at = 0 /\ beliefs[k].val = None
  BY DEF Technical!TechnicalInit, Technical!NoBelief
<1>6. /\ signal.side = "HOLD" /\ published.side = "HOLD" /\ signal.by = "nobody" /\ published.by = "nobody"
  BY DEF Technical!TechnicalInit, Technical!NoSignal
<1>7. None # "bullish" /\ None # "bearish"
  BY DEF Technical!TechnicalAssumption
<1> QED
  BY <1>1, <1>2, <1>3, <1>4, <1>5, <1>6, <1>7 DEF TechInv

\* The sides of a signal made by rules.
LEMMA CombinedSide == \A w, votes : CombineIn(w, votes).side \in {"BUY", "SELL", "HOLD"} /\ CombineIn(w, votes).by = "rules"
BY DEF CombineIn

\* Without an indicator there is nothing to sum.
LEMMA NothingHolds ==
    ASSUME NEW w
    PROVE  CombineIn(w, Technical!Votes(Technical!Nothing)).side = "HOLD"
           /\ CombineIn(w, Technical!Votes(Technical!Nothing)).conf = 0
<1> DEFINE votes == Technical!Votes(Technical!Nothing)
<1>1. \A n \in Technical!Names : votes[n] = Technical!NoVote
  BY DEF Technical!Votes, Technical!Nothing, Technical!Names
<1>2. Technical!NoVote.side = "none"
  BY DEF Technical!NoVote, Technical!Vote
<1> HIDE DEF votes
<1>3. ASSUME NEW side \in {"BUY", "SELL", "HOLD"} PROVE Scored(w, votes, side) = 0
  <2>1. \A n \in Technical!Names : Points(w, votes, side)[n] = 0
    BY <1>1, <1>2 DEF Points
  <2> QED
    BY <2>1, NamesAre, SumOfNothing DEF Scored
<1>4. Scored(w, votes, "BUY") = 0 /\ Scored(w, votes, "SELL") = 0 /\ Scored(w, votes, "HOLD") = 0
  BY <1>3
<1>5. CombineIn(w, votes).side = "HOLD" /\ CombineIn(w, votes).conf = 0
  BY <1>4 DEF CombineIn
<1> QED
  BY <1>5 DEF votes

\* An analysis of any indicators keeps what is believed, and the signal is of them.
LEMMA AnalysisKeeps ==
    ASSUME Technical!TechnicalAssumption, TechInv, NEW ind \in Technical!AllIndicators,
           steps < MaxSteps, steps' = steps + 1, weights' = weights, indicators' = ind,
           beliefs' = Technical!UpdateBeliefs(ind, steps + 1),
           signal'.side \in {"BUY", "SELL", "HOLD"},
           signal'.by = "rules" => signal' = CombineIn(weights, Technical!Votes(ind)),
           published'.side \in {"BUY", "SELL", "HOLD"},
           published'.by = "rules" => published'.side = "HOLD" /\ published'.conf = 0
    PROVE  TechInv'
<1>1. steps \in Nat /\ steps + 1 \in Nat /\ steps' \in 0 .. MaxSteps
  BY DEF TechInv, Technical!TechnicalAssumption
<1>2. PICK b : b = Technical!UpdateBeliefs(ind, steps + 1) /\ b = beliefs'
  OBVIOUS
<1>3. /\ DOMAIN b = {"rsi", "macd", "boll", "trend"}
      /\ b["trend"].at = steps + 1 /\ b["trend"].val = Technical!OverallTrend(ind)
      /\ \A n \in {"rsi", "macd", "boll"} :
            /\ ind[n] = None => b[n] = beliefs[n]
            /\ ind[n] # None => b[n].val = ind[n] /\ b[n].at = steps + 1
  BY <1>1, <1>2, BeliefsAre
<1>4. \A k \in {"rsi", "macd", "boll", "trend"} : beliefs[k].at \in 0 .. steps
  BY DEF TechInv
<1>5. \A k \in {"rsi", "macd", "boll", "trend"} : b[k].at \in 0 .. steps + 1
  <2>1. \A n \in {"rsi", "macd", "boll"} : b[n].at \in 0 .. steps + 1
    BY <1>1, <1>3, <1>4
  <2>2. b["trend"].at \in 0 .. steps + 1
    BY <1>1, <1>3
  <2> QED
    BY <2>1, <2>2
<1>6. /\ b["trend"].val \in {"bullish", "bearish", "neutral"}
      /\ b["trend"].val = "bullish" => ind.boll = "buy"
      /\ b["trend"].val = "bearish" => ind.boll = "sell"
  BY <1>3, TrendIs
<1>7. \A n \in {"rsi", "macd", "boll"} : b[n].at < b["trend"].at => ind[n] = None
  <2>1. ~ (steps + 1 < steps + 1)
    BY <1>1
  <2> QED
    BY <1>3, <2>1
<1>8. /\ b["trend"].val = "bullish" => b["boll"].at = b["trend"].at /\ b["boll"].val = "buy"
      /\ b["trend"].val = "bearish" => b["boll"].at = b["trend"].at /\ b["boll"].val = "sell"
  <2>1. None # "buy" /\ None # "sell"
    BY DEF Technical!TechnicalAssumption
  <2>2. ind.boll = ind["boll"]
    OBVIOUS
  <2> QED
    BY <1>3, <1>6, <2>1, <2>2
<1>9. Weighing(weights)' /\ weights' = weights
  BY DEF TechInv, Weighing
<1>10. signal'.by = "rules" => signal' = CombineIn(weights', Technical!Votes(indicators'))
  BY <1>9
<1> QED
  BY <1>1, <1>2, <1>3, <1>5, <1>6, <1>7, <1>8, <1>9, <1>10 DEF TechInv

LEMMA TechnicalStep ==
    ASSUME Technical!TechnicalAssumption, TechInv, Technical!TechnicalNext \/ UNCHANGED technicals
    PROVE  TechInv'
<1>1. CASE Technical!StepWithoutData
  <2>1. /\ indicators' = indicators /\ beliefs' = beliefs /\ signal' = signal /\ published' = published
        /\ weights' = weights
    BY <1>1 DEF Technical!StepWithoutData
  <2>2. steps' = steps + 1 /\ steps \in Nat /\ steps' \in 0 .. MaxSteps
    BY <1>1 DEF Technical!StepWithoutData, TechInv, Technical!TechnicalAssumption
  <2>3. \A k \in {"rsi", "macd", "boll", "trend"} : beliefs[k].at \in 0 .. steps'
    <3>1. \A k \in {"rsi", "macd", "boll", "trend"} : beliefs[k].at \in 0 .. steps
      BY DEF TechInv
    <3> QED
      BY <2>2, <3>1
  <2> QED
    BY <2>1, <2>2, <2>3 DEF TechInv, Weighing
<1>2. CASE Technical!Step
  <2>1. PICK answers \in {Technical!Nothing, [rsi |-> 15, macd |-> 50, boll |-> "buy", ema |-> 2]},
             reply \in Technical!ModelReplies :
           /\ indicators' = Technical!CalculateIndicators(answers)
           /\ beliefs' = Technical!UpdateBeliefs(Technical!CalculateIndicators(answers), steps + 1)
           /\ signal' = Technical!GenerateSignal(Technical!CalculateIndicators(answers), reply)
    BY <1>2, Zenon DEF Technical!Step
  <2>2. Technical!CalculateIndicators(answers) = Technical!Nothing
    BY DEF Technical!CalculateIndicators, Technical!Parse, Technical!CallTool, Technical!Nothing
  <2>3. PICK ind : ind = Technical!Nothing
    OBVIOUS
  <2>4. ind \in Technical!AllIndicators
    BY <2>3 DEF Technical!AllIndicators, Technical!Nothing, Technical!Names
  <2>5. /\ indicators' = ind /\ beliefs' = Technical!UpdateBeliefs(ind, steps + 1)
        /\ signal' = Technical!GenerateSignal(ind, reply)
    BY <2>1, <2>2, <2>3
  <2>6. steps < MaxSteps /\ steps' = steps + 1 /\ weights' = weights /\ published' \in {published, signal'}
    BY <1>2 DEF Technical!Step
  <2>7. /\ signal'.side \in {"BUY", "SELL", "HOLD"}
        /\ signal'.by = "rules" => signal' = CombineIn(weights, Technical!Votes(ind))
    <3>1. CASE ~ reply.ok
      <4>1. signal' = CombineIn(weights, Technical!Votes(ind))
        BY <2>5, <3>1, RulesAre, Zenon DEF Technical!GenerateSignal, Technical!GenerateSignalWithLLM
      <4> QED
        BY <4>1, CombinedSide
    <3>2. CASE reply.ok
      <4>1. signal' = [side |-> Technical!BySide(reply), conf |-> reply.conf, of |-> 1, by |-> "model"]
        BY <2>5, <3>2, Zenon DEF Technical!GenerateSignal, Technical!GenerateSignalWithLLM
      <4>2. Technical!BySide(reply) \in {"BUY", "SELL", "HOLD"}
        BY DEF Technical!BySide, Technical!Sides
      <4> QED
        BY <4>1, <4>2
    <3> QED
      BY <3>1, <3>2
  <2>8. published.side \in {"BUY", "SELL", "HOLD"} /\ (published.by = "rules" => published.side = "HOLD" /\ published.conf = 0)
    BY DEF TechInv
  <2>9. signal'.by = "rules" => signal'.side = "HOLD" /\ signal'.conf = 0
    BY <2>3, <2>7, NothingHolds
  <2>10. /\ published'.side \in {"BUY", "SELL", "HOLD"}
         /\ published'.by = "rules" => published'.side = "HOLD" /\ published'.conf = 0
    BY <2>6, <2>7, <2>8, <2>9
  <2> QED
    BY <2>4, <2>5, <2>6, <2>7, <2>10, AnalysisKeeps
<1>3. CASE Technical!Analyse
  <2>1. PICK ind \in Technical!AllIndicators :
           /\ indicators' = ind
           /\ beliefs' = Technical!UpdateBeliefs(ind, steps + 1)
           /\ signal' = Technical!RuleBased(ind)
    BY <1>3 DEF Technical!Analyse
  <2>2. steps < MaxSteps /\ steps' = steps + 1 /\ weights' = weights /\ published' = published
    BY <1>3 DEF Technical!Analyse
  <2>3. signal' = CombineIn(weights, Technical!Votes(ind))
    BY <2>1, RulesAre
  <2>4. signal'.side \in {"BUY", "SELL", "HOLD"}
    BY <2>3, CombinedSide
  <2>5. published.side \in {"BUY", "SELL", "HOLD"} /\ (published.by = "rules" => published.side = "HOLD" /\ published.conf = 0)
    BY DEF TechInv
  <2> QED
    BY <2>1, <2>2, <2>3, <2>4, <2>5, AnalysisKeeps
<1>4. CASE UNCHANGED technicals
  BY <1>4 DEF technicals, TechInv, Weighing
<1> QED
  BY <1>1, <1>2, <1>3, <1>4 DEF Technical!TechnicalNext

LEMMA TechnicalShows ==
    ASSUME Technical!TechnicalAssumption, TechInv
    PROVE  /\ Technical!TechnicalTypeOK /\ Technical!StaleOnlyIfMissing
           /\ Technical!TrendIsBollinger /\ Technical!SupportNeverHurts /\ Technical!RulesHold
<1>1. Technical!TechnicalTypeOK
  BY DEF TechInv, Technical!TechnicalTypeOK, Technical!Sides
<1>2. Technical!StaleOnlyIfMissing
  BY DEF TechInv, Technical!StaleOnlyIfMissing
<1>3. Technical!TrendIsBollinger
  BY DEF TechInv, Technical!TrendIsBollinger
<1>4. Technical!RulesHold
  BY DEF TechInv, Technical!RulesHold
<1>5. Technical!SupportNeverHurts
  <2>1. SUFFICES ASSUME signal.by = "rules", signal.side # "HOLD", NEW n \in Technical!Names, NEW val \in Technical!Values[n],
                        Technical!Votes([indicators EXCEPT ![n] = val])[n].side = signal.side,
                        \/ Technical!Votes(indicators)[n] = Technical!NoVote
                        \/ /\ Technical!Votes(indicators)[n].side = signal.side
                           /\ Technical!Votes(indicators)[n].conf <= Technical!Votes([indicators EXCEPT ![n] = val])[n].conf
                 PROVE  Technical!RuleBased([indicators EXCEPT ![n] = val]).side = signal.side
    BY Zenon DEF Technical!SupportNeverHurts
  <2>2. PICK other : other = [indicators EXCEPT ![n] = val]
    OBVIOUS
  <2>3. /\ indicators \in Technical!AllIndicators /\ Weighing(weights) /\ signal.side \in {"BUY", "SELL"}
        /\ signal = CombineIn(weights, Technical!Votes(indicators))
    BY <2>1 DEF TechInv
  <2>4. other \in Technical!AllIndicators
    BY <2>2, <2>3 DEF Technical!AllIndicators, Technical!Values, Technical!Names
  <2>5. \A m \in Technical!Names \ {n} : Technical!Votes(indicators)[m] = Technical!Votes(other)[m]
    BY <2>2, <2>3 DEF Technical!Votes, Technical!Names, Technical!AllIndicators
  <2>6. \A m \in Technical!Names : Technical!Votes(indicators)[m] \in Voice /\ Technical!Votes(other)[m] \in Voice
    BY <2>3, <2>4, VotesAreVoices
  <2>7. CombineIn(weights, Technical!Votes(other)).side = signal.side
    <3> DEFINE before == Technical!Votes(indicators)
               after == Technical!Votes(other)
    <3>1. /\ after[n].side = signal.side
          /\ before[n] = Technical!NoVote \/ (before[n].side = signal.side /\ before[n].conf <= after[n].conf)
          /\ CombineIn(weights, before).side = signal.side
      BY <2>1, <2>2, <2>3
    <3> HIDE DEF before, after
    <3>2. \A m \in Technical!Names : before[m] \in Voice /\ after[m] \in Voice
      BY <2>6 DEF before, after
    <3>3. \A m \in Technical!Names \ {n} : before[m] = after[m]
      BY <2>5 DEF before, after
    <3>4. CombineIn(weights, after).side = signal.side
      BY <2>3, <3>1, <3>2, <3>3, SupportHelps
    <3> QED
      BY <3>4 DEF after
  <2> QED
    BY <2>2, <2>7, RulesAre
<1> QED
  BY <1>1, <1>2, <1>3, <1>4, <1>5

-----------------------------------------------------------------------------
(* The sentiment agent.                                                    *)

LEMMA SentimentSum == \A w : Sentiment!SumFunction(w) = Total(w, DOMAIN w)
BY DEF Sentiment!SumFunction, Sentiment!SumFunctionOnSet, Sentiment!FoldFunctionOnSet, Sentiment!MapThenFoldSet, Total,
       SumFunctionOnSet, FoldFunctionOnSet, MapThenFoldSet

LEMMA SentimentCardinality == \A S : Sentiment!Cardinality(S) = Cardinality(S)
BY DEF Sentiment!Cardinality, Cardinality

LEMMA LesserIs == \A x, y \in Int : Sentiment!Min({x, y}) = IF x <= y THEN x ELSE y
<1> SUFFICES ASSUME NEW x \in Int, NEW y \in Int PROVE Sentiment!Min({x, y}) = IF x <= y THEN x ELSE y
  OBVIOUS
<1>1. PICK m : m = IF x <= y THEN x ELSE y
  OBVIOUS
<1>2. m \in {x, y} /\ \A z \in {x, y} : m <= z
  BY <1>1
<1>3. \A k \in {x, y} : (\A z \in {x, y} : k <= z) => k = m
  BY <1>2
<1> QED
  BY <1>1, <1>2, <1>3 DEF Sentiment!Min

LEMMA GreaterIs == \A x, y \in Int : Sentiment!Max({x, y}) = IF x >= y THEN x ELSE y
<1> SUFFICES ASSUME NEW x \in Int, NEW y \in Int PROVE Sentiment!Max({x, y}) = IF x >= y THEN x ELSE y
  OBVIOUS
<1>1. PICK m : m = IF x >= y THEN x ELSE y
  OBVIOUS
<1>2. m \in {x, y} /\ \A z \in {x, y} : m >= z
  BY <1>1
<1>3. \A k \in {x, y} : (\A z \in {x, y} : k >= z) => k = m
  BY <1>2
<1> QED
  BY <1>1, <1>2, <1>3 DEF Sentiment!Max

\* f takes S to T one for one, and v to w.
Renames(f, S, T, v, w) ==
    /\ f \in [S -> T]
    /\ \A y \in T : \E x \in S : y = f[x]
    /\ \A x, y \in S : f[x] = f[y] => x = y
    /\ \A y \in T : w[y] \in Int
    /\ \A x \in S : v[x] = w[f[x]]


\* A sum over what a one-to-one function makes of a set is one over the set.
LEMMA SumRenamed ==
    ASSUME NEW S, IsFiniteSet(S), NEW T, NEW f, NEW v, NEW w, Renames(f, S, T, v, w)
    PROVE  Total(v, S) = Total(w, T) /\ Total(v, S) \in Int /\ IsFiniteSet(T) /\ Cardinality(T) = Cardinality(S)
<1>0. /\ f \in [S -> T] /\ (\A y \in T : \E x \in S : y = f[x]) /\ \A x, y \in S : f[x] = f[y] => x = y
      /\ (\A y \in T : w[y] \in Int) /\ \A x \in S : v[x] = w[f[x]]
  BY Zenon DEF Renames
<1> DEFINE of(P) == {f[x] : x \in P}
<1>1. IsFiniteSet(T) /\ Cardinality(T) = Cardinality(S)
  <2>1. f \in Surjection(S, T) /\ f \in Injection(S, T)
    BY <1>0 DEF Injection, Surjection, IsInjective
  <2> QED
    BY <2>1, FS_Surjection
<1>2. PICK g : Additive(g, w, T)
  BY <1>0, <1>1, AdditiveExists
<1> DEFINE h == [P \in SUBSET S |-> g[of(P)]]
<1>3. \A P \in SUBSET S : of(P) \in SUBSET T
  BY <1>0
<1>4. Additive(h, v, S)
  <2>1. g \in [SUBSET T -> Int] /\ g[{}] = 0 /\ \A P \in SUBSET T : \A y \in T \ P : g[P \cup {y}] = w[y] + g[P]
    BY <1>2 DEF Additive
  <2>2. h \in [SUBSET S -> Int]
    BY <1>3, <2>1
  <2>3. h[{}] = 0
    <3>1. of({}) = {}
      OBVIOUS
    <3> QED
      BY <2>1, <3>1
  <2>4. ASSUME NEW P \in SUBSET S, NEW x \in S \ P
        PROVE  h[P \cup {x}] = v[x] + h[P]
    <3>1. of(P \cup {x}) = of(P) \cup {f[x]} /\ f[x] \in T \ of(P) /\ of(P) \in SUBSET T
      BY <1>0
    <3>2. h[P \cup {x}] = g[of(P \cup {x})] /\ h[P] = g[of(P)]
      OBVIOUS
    <3> HIDE DEF of, h
    <3>3. g[of(P) \cup {f[x]}] = w[f[x]] + g[of(P)]
      BY <2>1, <3>1
    <3> QED
      BY <1>0, <3>1, <3>2, <3>3
  <2> HIDE DEF h
  <2> QED
    BY <2>2, <2>3, <2>4 DEF Additive
<1>5. h[S] = g[T]
  <2>1. of(S) = T
    BY <1>0
  <2> QED
    BY <2>1
<1>6. Total(v, S) = h[S] /\ Total(w, T) = g[T]
  BY <1>0, <1>1, <1>2, <1>4, SumIsAdditive
<1>7. g[T] \in Int
  BY <1>2 DEF Additive
<1> QED
  BY <1>1, <1>5, <1>6, <1>7

Told == [pos : Nat, neg : Nat, words : Nat, source : Nat]
Piece == [headline : Told, at : Int]
Reversed(h) == [h EXCEPT !.pos = h.neg, !.neg = h.pos]

LEMMA Quotient == \A a \in Nat, b \in Nat \ {0} : a \div b \in Nat
OBVIOUS

LEMMA QuotientAtMost ==
    ASSUME NEW a \in Nat, NEW b \in Nat \ {0}, NEW k \in Nat, a <= k * b
    PROVE  a \div b \in 0 .. k
<1>1. PICK q \in Nat : q = a \div b
  BY Quotient
<1>2. q * b <= a
  BY <1>1
<1>3. SUFFICES ASSUME q > k PROVE FALSE
  BY <1>1
<1>4. PICK e \in Nat : q = k + 1 + e
  BY <1>3, q - k - 1 \in Nat
<1>5. q * b = k * b + b + e * b /\ e * b \in Nat /\ k * b \in Nat
  BY <1>4
<1> QED
  BY <1>2, <1>5

LEMMA TenthsAre == \A n \in Int, d \in Nat \ {0} :
    Sentiment!Tenths(n, d) \in Int /\ Sentiment!Tenths(-n, d) = -Sentiment!Tenths(n, d)
<1> SUFFICES ASSUME NEW n \in Int, NEW d \in Nat \ {0}
             PROVE  Sentiment!Tenths(n, d) \in Int /\ Sentiment!Tenths(-n, d) = -Sentiment!Tenths(n, d)
  OBVIOUS
<1>1. CASE n = 0
  <2>1. (0 * 10) \div d = 0
    OBVIOUS
  <2> QED
    BY <1>1, <2>1 DEF Sentiment!Tenths
<1>2. CASE n > 0
  <2>1. PICK k \in Nat : k = n * 10
    BY <1>2
  <2>2. PICK q \in Nat : q = k \div d
    BY Quotient
  <2>3. Sentiment!Tenths(n, d) = q
    BY <1>2, <2>1, <2>2 DEF Sentiment!Tenths
  <2>4. ~ (-n >= 0) /\ -(-n) = n
    BY <1>2
  <2>5. Sentiment!Tenths(-n, d) = -q
    BY <2>1, <2>2, <2>4 DEF Sentiment!Tenths
  <2> QED
    BY <2>3, <2>5
<1>3. CASE n < 0
  <2>1. PICK k \in Nat : k = (-n) * 10
    BY <1>3
  <2>2. PICK q \in Nat : q = k \div d
    BY Quotient
  <2>3. Sentiment!Tenths(n, d) = -q
    BY <1>3, <2>1, <2>2 DEF Sentiment!Tenths
  <2>4. -n >= 0
    BY <1>3
  <2>5. Sentiment!Tenths(-n, d) = q
    BY <2>1, <2>2, <2>4 DEF Sentiment!Tenths
  <2> QED
    BY <2>3, <2>5
<1> QED
  BY <1>1, <1>2, <1>3

LEMMA ScoresAre ==
    ASSUME NEW h \in Told
    PROVE  /\ Sentiment!Score(h) \in -10 .. 10
           /\ Sentiment!Score(Reversed(h)) = 0 - Sentiment!Score(h)
<1>1. h.pos \in Nat /\ h.neg \in Nat /\ h.words \in Nat
  BY DEF Told
<1>2. Reversed(h).pos = h.neg /\ Reversed(h).neg = h.pos /\ Reversed(h).words = h.words
  BY DEF Told, Reversed
<1>3. CASE h.words = 0
  <2>1. Sentiment!Score(h) = 0 /\ Sentiment!Score(Reversed(h)) = 0
    BY <1>2, <1>3, Zenon DEF Sentiment!Score
  <2>2. 0 \in -10 .. 10 /\ 0 - 0 = 0
    OBVIOUS
  <2> QED
    BY <2>1, <2>2, Zenon
<1>4. CASE h.words # 0
  <2>1. PICK n \in Int : n = h.pos - h.neg
    BY <1>1
  <2>2. PICK t \in Int : t = Sentiment!Tenths(n, h.words) /\ Sentiment!Tenths(-n, h.words) = -t
    BY <1>1, <1>4, TenthsAre
  <2>3. Reversed(h).pos - Reversed(h).neg = -n
    BY <1>1, <1>2, <2>1
  <2>4. Sentiment!Score(h) = Sentiment!Clamp(t)
    BY <1>4, <2>1, <2>2, Zenon DEF Sentiment!Score
  <2>5. Sentiment!Score(Reversed(h)) = Sentiment!Clamp(-t)
    BY <1>2, <1>4, <2>2, <2>3, Zenon DEF Sentiment!Score
  <2> QED
    BY <2>4, <2>5 DEF Sentiment!Clamp
<1> QED
  BY <1>3, <1>4

Swapped(mood) == IF mood = "positive" THEN "negative" ELSE IF mood = "negative" THEN "positive" ELSE "neutral"

LEMMA MoodsAre ==
    ASSUME NEW h \in Told
    PROVE  LET m == Sentiment!AnalyzeSentiment(h)
               o == Sentiment!AnalyzeSentiment(Reversed(h)) IN
           /\ m.score \in -10 .. 10 /\ m.score = Sentiment!Score(h)
           /\ m.mood \in {"positive", "negative", "neutral"} /\ m.confidence \in Nat
           /\ o.score = -m.score /\ o.mood = Swapped(m.mood) /\ o.confidence = m.confidence
<1>1. PICK s \in -10 .. 10 : s = Sentiment!Score(h) /\ Sentiment!Score(Reversed(h)) = -s
  BY ScoresAre
<1>2. Reversed(h).words = h.words
  BY DEF Told, Reversed
<1>3. Sentiment!Abs(s) \in Nat /\ Sentiment!Abs(-s) = Sentiment!Abs(s)
  BY DEF Sentiment!Abs
<1> DEFINE Confident(mood, k) == IF h.words = 0 THEN 3 ELSE IF mood = "neutral" THEN 5 ELSE Sentiment!Min({2 * k, 10})
           Felt(k) == IF k > 1 THEN "positive" ELSE IF k < -1 THEN "negative" ELSE "neutral"
<1>4. Sentiment!AnalyzeSentiment(h) =
         [score |-> s, mood |-> Felt(s), confidence |-> Confident(Felt(s), Sentiment!Abs(s))]
  BY <1>1, Zenon DEF Sentiment!AnalyzeSentiment
<1>5. Sentiment!AnalyzeSentiment(Reversed(h)) =
         [score |-> -s, mood |-> Felt(-s), confidence |-> Confident(Felt(-s), Sentiment!Abs(-s))]
  BY <1>1, <1>2, Zenon DEF Sentiment!AnalyzeSentiment
<1>6. Felt(s) \in {"positive", "negative", "neutral"} /\ Felt(-s) = Swapped(Felt(s))
  BY DEF Swapped
<1> HIDE DEF Felt
<1>7. Confident(Felt(-s), Sentiment!Abs(-s)) = Confident(Felt(s), Sentiment!Abs(s))
  <2>1. Felt(-s) = "neutral" <=> Felt(s) = "neutral"
    BY <1>6 DEF Swapped
  <2> QED
    BY <1>3, <2>1, Zenon
<1>8. Confident(Felt(s), Sentiment!Abs(s)) \in Nat
  <2>1. PICK k \in Nat : k = Sentiment!Abs(s)
    BY <1>3
  <2>2. Sentiment!Min({2 * k, 10}) \in Nat
    BY LesserIs
  <2> QED
    BY <2>1, <2>2
<1> HIDE DEF Confident
<1> QED
  BY <1>1, <1>4, <1>5, <1>6, <1>7, <1>8

\* The weight of a piece of news, and of its opposite.
LEMMA WeightsAre ==
    ASSUME hour \in Int, NEW a \in Piece
    PROVE  /\ Sentiment!Weight(a) \in Nat
           /\ Sentiment!Weight(Sentiment!Opposite(a)) = Sentiment!Weight(a)
           /\ Sentiment!AnalyzeSentiment(a.headline).score \in -10 .. 10
           /\ Sentiment!AnalyzeSentiment(Sentiment!Opposite(a).headline).score = -Sentiment!AnalyzeSentiment(a.headline).score
           /\ Sentiment!AnalyzeSentiment(Sentiment!Opposite(a).headline).mood
                 = Swapped(Sentiment!AnalyzeSentiment(a.headline).mood)
           /\ Sentiment!Opposite(a) \in Piece
<1>1. a.headline \in Told /\ a.at \in Int
  BY DEF Piece
<1>2. Sentiment!Opposite(a).headline = Reversed(a.headline) /\ Sentiment!Opposite(a).at = a.at
  BY DEF Sentiment!Opposite, Reversed, Piece
<1>3. Reversed(a.headline).source = a.headline.source /\ a.headline.source \in Nat /\ Reversed(a.headline) \in Told
  BY <1>1 DEF Reversed, Told
<1>4. Sentiment!Opposite(a) \in Piece
  BY <1>1, <1>3 DEF Piece, Sentiment!Opposite, Reversed
<1>5. PICK m : m = Sentiment!AnalyzeSentiment(a.headline)
  OBVIOUS
<1>6. PICK o : o = Sentiment!AnalyzeSentiment(Reversed(a.headline))
  OBVIOUS
<1>7. m.score \in -10 .. 10 /\ m.confidence \in Nat /\ o.score = -m.score /\ o.mood = Swapped(m.mood) /\ o.confidence = m.confidence
  BY <1>1, <1>5, <1>6, MoodsAre
<1>8. PICK r \in {1, 2} : r = Sentiment!Recency(a.at)
  BY <1>1 DEF Sentiment!Recency
<1>9. Sentiment!Weight(a) = r * a.headline.source * m.confidence
  BY <1>5, <1>8, Zenon DEF Sentiment!Weight
<1>10. Sentiment!Weight(Sentiment!Opposite(a)) = r * a.headline.source * m.confidence
  BY <1>2, <1>3, <1>6, <1>7, <1>8, Zenon DEF Sentiment!Weight
<1>11. r * a.headline.source * m.confidence \in Nat
  <2>1. PICK x, y \in Nat : x = a.headline.source /\ y = m.confidence
    BY <1>3, <1>7
  <2> QED
    BY <2>1
<1> QED
  BY <1>2, <1>4, <1>5, <1>6, <1>7, <1>9, <1>10, <1>11

\* The sums over the news.
LEMMA NewsAre ==
    ASSUME hour \in Int, NEW news \in SUBSET Piece, IsFiniteSet(news)
    PROVE  /\ Sentiment!TotalWeight(news) \in Nat /\ Sentiment!WeightedSum(news) \in Int
           /\ Sentiment!WeightedSum(news) <= 10 * Sentiment!TotalWeight(news)
           /\ -Sentiment!WeightedSum(news) <= 10 * Sentiment!TotalWeight(news)
           /\ (\A a \in news : Sentiment!Score(a.headline) <= 0) => Sentiment!WeightedSum(news) <= 0
<1> DEFINE W == [a \in news |-> Sentiment!Weight(a)]
           V == [a \in news |-> Sentiment!AnalyzeSentiment(a.headline).score * Sentiment!Weight(a)]
           T == [a \in news |-> W[a] * 10]
           M == [a \in news |-> V[a] * (-1)]
           O == [a \in news |-> 0]
<1>1. Sentiment!TotalWeight(news) = Total(W, news) /\ Sentiment!WeightedSum(news) = Total(V, news)
  <2>1. DOMAIN W = news /\ DOMAIN V = news
    OBVIOUS
  <2> QED
    BY <2>1, SentimentSum DEF Sentiment!TotalWeight, Sentiment!WeightedSum
<1>2. ASSUME NEW a \in news
      PROVE  /\ W[a] \in Nat /\ V[a] \in Int /\ V[a] <= T[a] /\ -V[a] <= T[a] /\ T[a] = W[a] * 10
             /\ M[a] = V[a] * (-1) /\ O[a] = 0
             /\ Sentiment!Score(a.headline) <= 0 => V[a] <= 0
  <2>1. Sentiment!Weight(a) \in Nat /\ Sentiment!AnalyzeSentiment(a.headline).score \in -10 .. 10
    BY WeightsAre
  <2>2. Sentiment!AnalyzeSentiment(a.headline).score = Sentiment!Score(a.headline)
    BY MoodsAre DEF Piece
  <2>3. PICK k \in Nat, s \in Int : /\ k = Sentiment!Weight(a) /\ s = Sentiment!Score(a.headline)
                                    /\ s = Sentiment!AnalyzeSentiment(a.headline).score /\ -10 <= s /\ s <= 10
    BY <2>1, <2>2
  <2>4. s * k \in Int /\ s * k <= k * 10 /\ -(s * k) <= k * 10 /\ (s <= 0 => s * k <= 0)
    <3>1. PICK e \in Nat, f \in Nat : s + e = 10 /\ s = f - 10
      BY <2>3, 10 - s \in Nat, s + 10 \in Nat
    <3>2. s * k + e * k = k * 10 /\ e * k \in Nat /\ s * k = f * k - 10 * k /\ f * k \in Nat /\ s * k \in Int
      BY <2>3, <3>1
    <3>3. s <= 0 => s * k <= 0
      <4>1. ASSUME s <= 0 PROVE s * k <= 0
        <5>1. PICK m \in Nat : s = -m
          BY <4>1, -s \in Nat
        <5>2. s * k = -(m * k) /\ m * k \in Nat
          BY <5>1
        <5> QED
          BY <5>2
      <4> QED
        BY <4>1
    <3> QED
      BY <3>2, <3>3
  <2>5. W[a] = k /\ V[a] = s * k /\ T[a] = k * 10 /\ M[a] = V[a] * (-1) /\ O[a] = 0
    BY <2>3
  <2> QED
    BY <2>3, <2>4, <2>5
<1> HIDE DEF W, V, T, M, O
<1>3. Total(W, news) \in Nat
  BY <1>2, SumNat
<1>4. Total(T, news) = Total(W, news) * 10
  <2>1. \A a \in news : W[a] \in Int /\ T[a] = W[a] * 10
    BY <1>2
  <2> QED
    BY <2>1, SumScale
<1>5. Total(M, news) = Total(V, news) * (-1)
  <2>1. \A a \in news : V[a] \in Int /\ M[a] = V[a] * (-1)
    BY <1>2
  <2> QED
    BY <2>1, SumScale
<1>6. Total(V, news) \in Int /\ Total(V, news) <= Total(T, news)
  <2>1. \A a \in news : V[a] \in Int /\ T[a] \in Int /\ V[a] <= T[a]
    BY <1>2
  <2> QED
    BY <2>1, SumAtMost
<1>7. Total(M, news) <= Total(T, news)
  <2>1. \A a \in news : M[a] \in Int /\ T[a] \in Int /\ M[a] <= T[a]
    BY <1>2
  <2> QED
    BY <2>1, SumAtMost
<1>8. (\A a \in news : Sentiment!Score(a.headline) <= 0) => Total(V, news) <= 0
  <2>1. SUFFICES ASSUME \A a \in news : Sentiment!Score(a.headline) <= 0 PROVE Total(V, news) <= 0
    OBVIOUS
  <2>2. \A a \in news : V[a] \in Int /\ O[a] \in Int /\ V[a] <= O[a]
    BY <1>2, <2>1
  <2>3. Total(V, news) <= Total(O, news)
    BY <2>2, SumAtMost
  <2>4. Total(O, news) = 0
    BY <1>2, SumOfNothing
  <2> QED
    BY <2>3, <2>4
<1>9. PICK t \in Nat, v \in Int : t = Total(W, news) /\ v = Total(V, news)
  BY <1>3, <1>6
<1> QED
  BY <1>1, <1>4, <1>5, <1>6, <1>7, <1>8, <1>9

\* Where the average of the news and the index can lie.
LEMMA AverageIs ==
    ASSUME hour \in Int, Sentiment!SentimentAssumption, NEW news \in SUBSET Piece, IsFiniteSet(news),
           NEW index \in FearGreeds \cup {None}
    PROVE  \E n \in Int, d \in Nat \ {0} :
              /\ Sentiment!AggregateSentiment(news, index) = <<n, d>>
              /\ -d <= n /\ n <= d
              /\ (\A a \in news : Sentiment!Score(a.headline) <= 0) /\ (index = None \/ index <= 5) => n <= 0
<1>1. PICK t \in Nat, v \in Int :
         /\ t = Sentiment!TotalWeight(news) /\ v = Sentiment!WeightedSum(news)
         /\ v <= 10 * t /\ -v <= 10 * t
         /\ (\A a \in news : Sentiment!Score(a.headline) <= 0) => v <= 0
  BY NewsAre
<1> DEFINE n == IF t = 0 THEN 0 ELSE v
           d == IF t = 0 THEN 10 ELSE t * 10
<1>2. Sentiment!AggregateSentiment(news, index) =
         IF index = None THEN <<n, d>> ELSE <<30 * n + 4 * d * (index - 5), 50 * d>>
  BY <1>1, Zenon DEF Sentiment!AggregateSentiment
<1>3. /\ n \in Int /\ d \in Nat \ {0} /\ -d <= n /\ n <= d
      /\ (\A a \in news : Sentiment!Score(a.headline) <= 0) => n <= 0
  BY <1>1
<1> HIDE DEF n, d
<1>4. CASE index = None
  BY <1>2, <1>3, <1>4
<1>5. CASE index # None
  <2>1. PICK i \in -5 .. 5 : i = index - 5 /\ (index <= 5 => i <= 0)
    <3>1. index \in 0 .. 10
      BY <1>5 DEF Sentiment!SentimentAssumption
    <3> QED
      BY <3>1
  <2>2. PICK c \in Int : c = d * i /\ -5 * d <= c /\ c <= 5 * d /\ (i <= 0 => c <= 0)
    <3>1. d * i \in Int /\ -5 * d <= d * i /\ d * i <= 5 * d /\ (i <= 0 => d * i <= 0)
      <4>1. i = -5 \/ i = -4 \/ i = -3 \/ i = -2 \/ i = -1 \/ i = 0 \/ i = 1 \/ i = 2 \/ i = 3 \/ i = 4 \/ i = 5
        OBVIOUS
      <4> QED
        BY <1>3, <4>1
    <3> QED
      BY <3>1
  <2>3. 4 * d * (index - 5) = 4 * c
    BY <1>3, <2>1, <2>2
  <2>4. Sentiment!AggregateSentiment(news, index) = <<30 * n + 4 * c, 50 * d>>
    BY <1>2, <1>5, <2>3
  <2>5. 30 * n + 4 * c \in Int /\ 50 * d \in Nat \ {0} /\ -(50 * d) <= 30 * n + 4 * c /\ 30 * n + 4 * c <= 50 * d
    BY <1>3, <2>2
  <2>6. (\A a \in news : Sentiment!Score(a.headline) <= 0) /\ index <= 5 => 30 * n + 4 * c <= 0
    BY <1>3, <2>1, <2>2
  <2> QED
    BY <1>5, <2>4, <2>5, <2>6
<1> QED
  BY <1>4, <1>5

\* News and their opposites, one for one.
LEMMA OppositesAre ==
    ASSUME hour \in Int, NEW news \in SUBSET Piece, IsFiniteSet(news), NEW flip, flip = {Sentiment!Opposite(a) : a \in news}
    PROVE  /\ flip \in SUBSET Piece /\ IsFiniteSet(flip) /\ Cardinality(flip) = Cardinality(news)
           /\ Sentiment!TotalWeight(flip) = Sentiment!TotalWeight(news)
           /\ Sentiment!WeightedSum(flip) = -Sentiment!WeightedSum(news)
<1> DEFINE f == [a \in news |-> Sentiment!Opposite(a)]
           W == [a \in news |-> Sentiment!Weight(a)]
           V == [a \in news |-> Sentiment!AnalyzeSentiment(a.headline).score * Sentiment!Weight(a)]
           M == [a \in news |-> V[a] * (-1)]
           FW == [a \in flip |-> Sentiment!Weight(a)]
           FV == [a \in flip |-> Sentiment!AnalyzeSentiment(a.headline).score * Sentiment!Weight(a)]
<1>1. f \in [news -> flip] /\ \A y \in flip : \E x \in news : y = f[x]
  OBVIOUS
<1>2. \A x, y \in news : f[x] = f[y] => x = y
  <2>1. SUFFICES ASSUME NEW x \in news, NEW y \in news, Sentiment!Opposite(x) = Sentiment!Opposite(y) PROVE x = y
    OBVIOUS
  <2>2. x \in Piece /\ y \in Piece
    OBVIOUS
  <2>3. ASSUME NEW a \in Piece
        PROVE  /\ Sentiment!Opposite(a).at = a.at
               /\ Sentiment!Opposite(a).headline.pos = a.headline.neg /\ Sentiment!Opposite(a).headline.neg = a.headline.pos
               /\ Sentiment!Opposite(a).headline.words = a.headline.words
               /\ Sentiment!Opposite(a).headline.source = a.headline.source
               /\ a.headline \in Told
    BY DEF Sentiment!Opposite, Piece, Told
  <2>4. /\ x.at = y.at /\ x.headline \in Told /\ y.headline \in Told
        /\ x.headline.pos = y.headline.pos /\ x.headline.neg = y.headline.neg
        /\ x.headline.words = y.headline.words /\ x.headline.source = y.headline.source
    BY <2>1, <2>2, <2>3
  <2>5. x.headline = y.headline
    BY <2>4 DEF Told
  <2> QED
    BY <2>2, <2>4, <2>5 DEF Piece
<1>3. ASSUME NEW a \in news
      PROVE  /\ W[a] \in Nat /\ V[a] \in Int /\ W[a] = FW[f[a]] /\ M[a] = FV[f[a]] /\ M[a] = V[a] * (-1)
             /\ f[a] \in Piece
  <2>1. /\ Sentiment!Weight(a) \in Nat /\ Sentiment!AnalyzeSentiment(a.headline).score \in -10 .. 10
        /\ Sentiment!Weight(Sentiment!Opposite(a)) = Sentiment!Weight(a)
        /\ Sentiment!AnalyzeSentiment(Sentiment!Opposite(a).headline).score = -Sentiment!AnalyzeSentiment(a.headline).score
        /\ Sentiment!Opposite(a) \in Piece
    BY WeightsAre
  <2>2. PICK k \in Nat, s \in Int : k = Sentiment!Weight(a) /\ s = Sentiment!AnalyzeSentiment(a.headline).score
    BY <2>1
  <2>3. W[a] = k /\ V[a] = s * k /\ M[a] = V[a] * (-1)
    BY <2>2
  <2>4. f[a] = Sentiment!Opposite(a) /\ f[a] \in flip
    BY <1>1
  <2>5. FW[f[a]] = k /\ FV[f[a]] = (-s) * k
    BY <2>1, <2>2, <2>4
  <2>6. (-s) * k = (s * k) * (-1) /\ s * k \in Int
    OBVIOUS
  <2> QED
    BY <2>1, <2>3, <2>4, <2>5, <2>6
<1>4. flip \in SUBSET Piece
  BY <1>1, <1>3
<1>5. \A b \in flip : FW[b] \in Int /\ FV[b] \in Int
  <2>1. TAKE b \in flip
  <2>2. Sentiment!Weight(b) \in Nat /\ Sentiment!AnalyzeSentiment(b.headline).score \in -10 .. 10
    BY <1>4, WeightsAre
  <2>3. PICK k \in Nat, s \in Int : k = Sentiment!Weight(b) /\ s = Sentiment!AnalyzeSentiment(b.headline).score
    BY <2>2
  <2> QED
    BY <2>3
<1>6. /\ Sentiment!TotalWeight(news) = Total(W, news) /\ Sentiment!WeightedSum(news) = Total(V, news)
      /\ Sentiment!TotalWeight(flip) = Total(FW, flip) /\ Sentiment!WeightedSum(flip) = Total(FV, flip)
  <2>1. DOMAIN W = news /\ DOMAIN V = news /\ DOMAIN FW = flip /\ DOMAIN FV = flip
    OBVIOUS
  <2> QED
    BY <2>1, SentimentSum DEF Sentiment!TotalWeight, Sentiment!WeightedSum
<1> HIDE DEF f, W, V, M, FW, FV
<1>7. Total(W, news) = Total(FW, flip) /\ IsFiniteSet(flip) /\ Cardinality(flip) = Cardinality(news)
  <2>1. (\A a \in news : W[a] = FW[f[a]]) /\ \A b \in flip : FW[b] \in Int
    BY <1>3, <1>5
  <2>2. Renames(f, news, flip, W, FW)
    BY <1>1, <1>2, <2>1, Zenon DEF Renames
  <2> QED
    BY <2>2, SumRenamed
<1>8. Total(M, news) = Total(FV, flip)
  <2>1. (\A a \in news : M[a] = FV[f[a]]) /\ \A b \in flip : FV[b] \in Int
    BY <1>3, <1>5
  <2>2. Renames(f, news, flip, M, FV)
    BY <1>1, <1>2, <2>1, Zenon DEF Renames
  <2> QED
    BY <2>2, SumRenamed
<1>9. Total(V, news) \in Int /\ Total(M, news) = Total(V, news) * (-1)
  BY <1>3, SumScale
<1>10. PICK v \in Int : v = Total(V, news) /\ Total(M, news) = -v
  BY <1>9
<1> QED
  BY <1>4, <1>6, <1>7, <1>8, <1>10

\* Good news are counted as bad ones of their opposites.
LEMMA CountsAre ==
    ASSUME hour \in Int, NEW news \in SUBSET Piece, IsFiniteSet(news), NEW flip, flip = {Sentiment!Opposite(a) : a \in news},
           NEW mood \in {"positive", "negative"}
    PROVE  /\ Sentiment!Count(flip, Swapped(mood)) = Sentiment!Count(news, mood)
           /\ Sentiment!Count(news, mood) \in Nat /\ Sentiment!Count(news, mood) <= Cardinality(news)
<1> DEFINE S == {a \in news : Sentiment!AnalyzeSentiment(a.headline).mood = mood}
           T == {a \in flip : Sentiment!AnalyzeSentiment(a.headline).mood = Swapped(mood)}
<1>1. S \in SUBSET Piece /\ IsFiniteSet(S) /\ Cardinality(S) \in Nat /\ Cardinality(S) <= Cardinality(news)
  BY FS_Subset, FS_CardinalityType
<1>2. T = {Sentiment!Opposite(a) : a \in S}
  <2>1. ASSUME NEW a \in news
        PROVE  Sentiment!AnalyzeSentiment(Sentiment!Opposite(a).headline).mood = Swapped(mood)
                 <=> Sentiment!AnalyzeSentiment(a.headline).mood = mood
    <3>1. Sentiment!AnalyzeSentiment(Sentiment!Opposite(a).headline).mood
             = Swapped(Sentiment!AnalyzeSentiment(a.headline).mood)
      BY WeightsAre
    <3>2. Sentiment!AnalyzeSentiment(a.headline).mood \in {"positive", "negative", "neutral"}
      BY MoodsAre DEF Piece
    <3> QED
      BY <3>1, <3>2 DEF Swapped
  <2> QED
    BY <2>1
<1>3. Sentiment!Count(news, mood) = Cardinality(S) /\ Sentiment!Count(flip, Swapped(mood)) = Cardinality(T)
  BY SentimentCardinality DEF Sentiment!Count
<1> HIDE DEF S, T
<1>4. Cardinality(T) = Cardinality(S)
  <2>1. PICK P : P = S
    OBVIOUS
  <2>2. P \in SUBSET Piece /\ IsFiniteSet(P)
    BY <1>1, <2>1
  <2>3. Cardinality({Sentiment!Opposite(a) : a \in P}) = Cardinality(P)
    BY <2>2, OppositesAre
  <2> QED
    BY <1>2, <2>1, <2>3
<1> QED
  BY <1>1, <1>3, <1>4

LEMMA MajorityIs ==
    ASSUME hour \in Int, NEW news \in SUBSET Piece, IsFiniteSet(news)
    PROVE  LET m == Sentiment!Max({Sentiment!Count(news, "positive"), Sentiment!Count(news, "negative")}) IN
           m \in Nat /\ m <= Cardinality(news)
<1> DEFINE flip == {Sentiment!Opposite(a) : a \in news}
<1>1. PICK p, q \in Nat : /\ p = Sentiment!Count(news, "positive") /\ q = Sentiment!Count(news, "negative")
                          /\ p <= Cardinality(news) /\ q <= Cardinality(news)
  <2>1. \A mood \in {"positive", "negative"} :
           Sentiment!Count(news, mood) \in Nat /\ Sentiment!Count(news, mood) <= Cardinality(news)
    BY CountsAre
  <2> QED
    BY <2>1
<1>2. Sentiment!Max({p, q}) = IF p >= q THEN p ELSE q
  BY GreaterIs
<1> QED
  BY <1>1, <1>2

LEMMA AtMostAll ==
    ASSUME NEW x \in 0 .. 100, NEW m \in Nat, NEW c \in Nat, m <= c
    PROVE  x * m \in Nat /\ x * m <= 100 * c
<1>1. PICK e \in Nat : x + e = 100
  BY 100 - x \in Nat
<1>2. x * m + e * m = 100 * m /\ x * m \in Nat /\ e * m \in Nat
  BY <1>1
<1> QED
  BY <1>2

LEMMA BaseIs ==
    ASSUME Sentiment!SentimentAssumption, NEW k \in Nat, NEW d \in Nat \ {0}, k <= d
    PROVE  (IF k * 10 > Threshold * d
            THEN Sentiment!Min({((k * 10 - Threshold * d) * 100) \div ((10 - Threshold) * d), 100})
            ELSE 100 - ((Threshold * d - k * 10) * 100) \div (Threshold * d)) \in 0 .. 100
<1>1. PICK t, r \in Nat \ {0} : t = Threshold /\ r = 10 - Threshold
  BY DEF Sentiment!SentimentAssumption
<1>2. PICK p, q \in Nat \ {0} : p = t * d /\ q = r * d
  BY Product
<1>3. CASE k * 10 > p
  <2>1. PICK n \in Nat : n = (k * 10 - p) * 100
    BY <1>3
  <2>2. PICK z \in Nat : z = n \div q
    BY Quotient
  <2>3. Sentiment!Min({z, 100}) \in 0 .. 100
    <3>1. Sentiment!Min({z, 100}) = IF z <= 100 THEN z ELSE 100
      BY LesserIs
    <3> QED
      BY <3>1
  <2>4. Threshold * d = p /\ (10 - Threshold) * d = q
    BY <1>1, <1>2, Zenon
  <2>6. ((k * 10 - Threshold * d) * 100) \div ((10 - Threshold) * d) = z
    BY <2>1, <2>2, <2>4, Zenon
  <2>5. k * 10 > Threshold * d
    BY <1>1, <1>2, <1>3
  <2> QED
    BY <2>3, <2>5, <2>6
<1>4. CASE ~ (k * 10 > p)
  <2>1. PICK n \in Nat : n = (p - k * 10) * 100 /\ n <= 100 * p
    BY <1>4
  <2>2. PICK z \in 0 .. 100 : z = n \div p
    BY <2>1, QuotientAtMost
  <2>3. ((Threshold * d - k * 10) * 100) \div (Threshold * d) = z
    BY <1>1, <1>2, <2>1, <2>2
  <2>4. ~ (k * 10 > Threshold * d)
    BY <1>1, <1>2, <1>4
  <2>5. 100 - z \in 0 .. 100
    OBVIOUS
  <2> QED
    BY <2>3, <2>4, <2>5
<1> QED
  BY <1>3, <1>4

LEMMA SurenessIs ==
    ASSUME hour \in Int, Sentiment!SentimentAssumption, NEW news \in SUBSET Piece, IsFiniteSet(news),
           NEW n \in Int, NEW d \in Nat \ {0}, -d <= n, n <= d
    PROVE  Sentiment!ConfidenceOf(<<n, d>>, news) \in 0 .. 100
<1>1. PICK k \in Nat : k = Sentiment!Abs(n) /\ k <= d
  BY DEF Sentiment!Abs
<1>2. PICK sure \in 0 .. 100 :
         sure = IF k * 10 > Threshold * d
                THEN Sentiment!Min({((k * 10 - Threshold * d) * 100) \div ((10 - Threshold) * d), 100})
                ELSE 100 - ((Threshold * d - k * 10) * 100) \div (Threshold * d)
  BY <1>1, BaseIs
<1>3. PICK c \in Nat : c = Cardinality(news)
  BY FS_CardinalityType
<1>4. PICK majority \in Nat :
         /\ majority = Sentiment!Max({Sentiment!Count(news, "positive"), Sentiment!Count(news, "negative")})
         /\ majority <= c
  BY <1>3, MajorityIs
<1>5. PICK many \in 70 .. 100 : many = 70 + (30 * Sentiment!Min({c, 20})) \div 20
  <2>1. PICK m \in 0 .. 20 : m = Sentiment!Min({c, 20})
    BY LesserIs
  <2>2. (30 * m) \div 20 \in 0 .. 30
    BY QuotientAtMost
  <2>3. 70 + (30 * m) \div 20 \in 70 .. 100
    BY <2>2
  <2> QED
    BY <2>1, <2>3
<1>6. Sentiment!ConfidenceOf(<<n, d>>, news) =
         IF news = {} THEN sure ELSE (((sure * many) \div 100) * majority) \div c
  <2>1. <<n, d>>[1] = n /\ <<n, d>>[2] = d
    OBVIOUS
  <2> QED
    BY <1>1, <1>2, <1>3, <1>4, <1>5, <2>1, SentimentCardinality, Zenon DEF Sentiment!ConfidenceOf
<1>7. CASE news = {}
  BY <1>6, <1>7
<1>8. CASE news # {}
  <2>1. c # 0
    BY <1>3, <1>8, FS_EmptySet
  <2>2. sure * many \in Nat /\ sure * many <= 100 * 100
    <3>1. many \in Nat /\ many <= 100 /\ 100 \in Nat /\ sure \in 0 .. 100
      OBVIOUS
    <3> QED
      BY <3>1, AtMostAll, Zenon
  <2>3. PICK x \in 0 .. 100 : x = (sure * many) \div 100
    <3>1. 100 \in Nat /\ 100 \in Nat \ {0}
      OBVIOUS
    <3>2. (sure * many) \div 100 \in 0 .. 100
      BY <2>2, <3>1, QuotientAtMost, Zenon
    <3> QED
      BY <3>2, Zenon
  <2>4. x * majority \in Nat /\ x * majority <= 100 * c
    BY <1>4, AtMostAll
  <2>5. (x * majority) \div c \in 0 .. 100
    BY <2>1, <2>4, QuotientAtMost
  <2> QED
    BY <1>6, <1>8, <2>3, <2>5
<1> QED
  BY <1>7, <1>8

\* The opposite of a signal.
LEMMA OppositeSignalIs ==
    ASSUME hour \in Int, Sentiment!SentimentAssumption, NEW news \in SUBSET Piece, IsFiniteSet(news),
           NEW index \in FearGreeds \cup {None}, NEW flip, flip = {Sentiment!Opposite(a) : a \in news}
    PROVE  LET back == Sentiment!AggregateSentiment(flip, IF index = None THEN None ELSE 10 - index)
               there == Sentiment!AggregateSentiment(news, index)
           IN  /\ Sentiment!ActionOf(back) = IF Sentiment!ActionOf(there) = "BUY" THEN "SELL"
                                             ELSE IF Sentiment!ActionOf(there) = "SELL" THEN "BUY" ELSE "HOLD"
               /\ Sentiment!ConfidenceOf(back, flip) = Sentiment!ConfidenceOf(there, news)
<1>1. PICK n \in Int, d \in Nat \ {0} : Sentiment!AggregateSentiment(news, index) = <<n, d>> /\ -d <= n /\ n <= d
  BY AverageIs
<1>2. /\ flip \in SUBSET Piece /\ IsFiniteSet(flip) /\ Cardinality(flip) = Cardinality(news)
      /\ Sentiment!TotalWeight(flip) = Sentiment!TotalWeight(news)
      /\ Sentiment!WeightedSum(flip) = -Sentiment!WeightedSum(news)
  BY OppositesAre
<1> DEFINE there == Sentiment!AggregateSentiment(news, index)
           back == Sentiment!AggregateSentiment(flip, IF index = None THEN None ELSE 10 - index)
<1>3. back = <<-n, d>>
  <2>1. PICK t \in Nat, v \in Int : t = Sentiment!TotalWeight(news) /\ v = Sentiment!WeightedSum(news)
    BY NewsAre
  <2> DEFINE s == IF t = 0 THEN 0 ELSE v
             o == IF t = 0 THEN 0 ELSE -v
             e == IF t = 0 THEN 10 ELSE t * 10
  <2>2. there = IF index = None THEN <<s, e>> ELSE <<30 * s + 4 * e * (index - 5), 50 * e>>
    BY <2>1, Zenon DEF Sentiment!AggregateSentiment
  <2>3. \A j : Sentiment!AggregateSentiment(flip, j) =
                  IF j = None THEN <<o, e>> ELSE <<30 * o + 4 * e * (j - 5), 50 * e>>
    BY <1>2, <2>1, Zenon DEF Sentiment!AggregateSentiment
  <2>4. o = 0 - s /\ s \in Int /\ e \in Nat \ {0} /\ o \in Int
    BY <2>1
  <2> HIDE DEF s, o, e, there
  <2>5. CASE index = None
    <3>1. there = <<s, e>> /\ Sentiment!AggregateSentiment(flip, None) = <<o, e>>
      BY <2>2, <2>3, <2>5
    <3>2. s = n /\ e = d
      BY <1>1, <3>1 DEF there
    <3>3. o = -n
      BY <2>4, <3>2
    <3> QED
      BY <2>5, <3>1, <3>2, <3>3
  <2>6. CASE index # None
    <3>1. index \in 0 .. 10 /\ None \notin 0 .. 10
      BY <2>6 DEF Sentiment!SentimentAssumption
    <3>2. 10 - index \in 0 .. 10
      BY <3>1
    <3>3. 10 - index # None
      BY <3>1, <3>2
    <3>4. back = <<30 * o + 4 * e * ((10 - index) - 5), 50 * e>>
      BY <2>3, <2>6, <3>3
    <3>5. there = <<30 * s + 4 * e * (index - 5), 50 * e>>
      BY <2>2, <2>6
    <3>6. n = 30 * s + 4 * e * (index - 5) /\ d = 50 * e
      BY <1>1, <3>5 DEF there
    <3>7. PICK i \in Int : i = index - 5 /\ (10 - index) - 5 = 0 - i
      BY <3>1
    <3>8. 4 * e * (0 - i) = 0 - 4 * e * i /\ 4 * e * i \in Int
      BY <2>4
    <3>9. 30 * o + 4 * e * (0 - i) = -n
      BY <2>4, <3>6, <3>7, <3>8
    <3> QED
      BY <3>4, <3>6, <3>7, <3>9
  <2> QED
    BY <2>5, <2>6
<1>4. there = <<n, d>>
  BY <1>1
<1> HIDE DEF there, back
<1>5. Sentiment!ActionOf(back) = IF Sentiment!ActionOf(there) = "BUY" THEN "SELL"
                                 ELSE IF Sentiment!ActionOf(there) = "SELL" THEN "BUY" ELSE "HOLD"
  <2>1. PICK p \in Nat : p = Threshold * d
    BY DEF Sentiment!SentimentAssumption
  <2>2. -Threshold * d = -p /\ Threshold \in Int
    BY <2>1 DEF Sentiment!SentimentAssumption
  <2>3. Sentiment!ActionOf(there) = IF n * 10 > p THEN "BUY" ELSE IF n * 10 < -p THEN "SELL" ELSE "HOLD"
    BY <1>4, <2>1, <2>2 DEF Sentiment!ActionOf
  <2>4. Sentiment!ActionOf(back) = IF -n * 10 > p THEN "BUY" ELSE IF -n * 10 < -p THEN "SELL" ELSE "HOLD"
    BY <1>3, <2>1, <2>2 DEF Sentiment!ActionOf
  <2> QED
    BY <2>3, <2>4
<1>6. Sentiment!ConfidenceOf(back, flip) = Sentiment!ConfidenceOf(there, news)
  <2>1. Sentiment!Abs(-n) = Sentiment!Abs(n)
    BY DEF Sentiment!Abs
  <2>2. back[1] = -n /\ back[2] = d /\ there[1] = n /\ there[2] = d
    BY <1>3, <1>4
  <2>3. /\ Sentiment!Count(flip, "negative") = Sentiment!Count(news, "positive")
        /\ Sentiment!Count(flip, "positive") = Sentiment!Count(news, "negative")
    <3>1. Swapped("positive") = "negative" /\ Swapped("negative") = "positive"
      BY DEF Swapped
    <3>2. \A mood \in {"positive", "negative"} : Sentiment!Count(flip, Swapped(mood)) = Sentiment!Count(news, mood)
      BY CountsAre
    <3>3. /\ Sentiment!Count(flip, Swapped("positive")) = Sentiment!Count(news, "positive")
          /\ Sentiment!Count(flip, Swapped("negative")) = Sentiment!Count(news, "negative")
      BY <3>2
    <3> QED
      BY <3>1, <3>3
  <2>4. {Sentiment!Count(flip, "positive"), Sentiment!Count(flip, "negative")}
           = {Sentiment!Count(news, "positive"), Sentiment!Count(news, "negative")}
    BY <2>3
  <2>5. flip = {} <=> news = {}
    OBVIOUS
  <2>6. Sentiment!Cardinality(flip) = Sentiment!Cardinality(news)
    BY <1>2, SentimentCardinality
  <2> QED
    BY <2>1, <2>2, <2>4, <2>5, <2>6, Zenon DEF Sentiment!ConfidenceOf
<1> QED
  BY <1>5, <1>6 DEF there, back

\* What the cache holds, and what stands behind a signal.
Article == [headline : Headlines, at : -Lookback - 1 .. MaxHours]

Felt(s) ==
    /\ s.articles \in SUBSET Piece /\ IsFiniteSet(s.articles) /\ s.index \in FearGreeds \cup {None}
    /\ Sentiment!Abs(s.overall[1]) <= s.overall[2] /\ s.confidence \in 0 .. 100
    /\ s.action \in {"BUY", "SELL", "HOLD"}
    /\ s.action = "BUY" => \/ \E a \in s.articles : Sentiment!Score(a.headline) > 0
                           \/ s.index # None /\ s.index > 5

\* The news in the cache were within the lookback when they were fetched, and
\* the cache expires at the tick after that.
SentInv ==
    /\ cachedNews \in SUBSET Article /\ IsFiniteSet(cachedNews)
    /\ \A a \in cachedNews : a.at >= cacheExpiry - 1 - Lookback
    /\ cacheExpiry \in 0 .. MaxHours + 1 /\ hour \in 0 .. MaxHours /\ cacheExpiry - 1 <= hour
    /\ cachedFearGreed = None \/ cachedFearGreed.value \in FearGreeds
    /\ fetched \in [how : {"never", "cached", "fetched", "failed"}, at : Int]
    /\ sentiment # None => Felt(sentiment)

LEMMA ArticlesArePieces == Sentiment!SentimentAssumption => Article \subseteq Piece
BY DEF Sentiment!SentimentAssumption, Article, Piece, Told

LEMMA SentimentBegins == Sentiment!SentimentAssumption /\ Sentiment!SentimentInit => SentInv
<1> SUFFICES ASSUME Sentiment!SentimentAssumption, Sentiment!SentimentInit PROVE SentInv
  OBVIOUS
<1>1. /\ cachedNews = {} /\ cacheExpiry = 0 /\ cachedFearGreed = None /\ hour = 0 /\ sentiment = None
      /\ fetched = [how |-> "never", at |-> 0] /\ MaxHours \in Nat /\ Lookback \in Nat
  BY DEF Sentiment!SentimentInit, Sentiment!SentimentAssumption
<1>2. IsFiniteSet(cachedNews)
  BY <1>1, FS_EmptySet
<1> QED
  BY <1>1, <1>2 DEF SentInv

\* A signal that is published.
LEMMA PublishedIsFelt ==
    ASSUME Sentiment!SentimentAssumption, hour \in Int, NEW news \in SUBSET Article, IsFiniteSet(news),
           cachedFearGreed' = None \/ cachedFearGreed'.value \in FearGreeds, Sentiment!Publish(news)
    PROVE  Felt(sentiment') /\ sentiment'.articles = news
<1>1. news \in SUBSET Piece
  BY ArticlesArePieces
<1>2. PICK index \in FearGreeds \cup {None} : index = IF cachedFearGreed' = None THEN None ELSE cachedFearGreed'.value
  OBVIOUS
<1>3. PICK n \in Int, d \in Nat \ {0} :
         /\ Sentiment!AggregateSentiment(news, index) = <<n, d>> /\ -d <= n /\ n <= d
         /\ (\A a \in news : Sentiment!Score(a.headline) <= 0) /\ (index = None \/ index <= 5) => n <= 0
  BY <1>1, AverageIs
<1>4. PICK sure \in 0 .. 100 : sure = Sentiment!ConfidenceOf(<<n, d>>, news)
  BY <1>1, <1>3, SurenessIs
<1>5. PICK mood : mood = Sentiment!DominantSentiment(news)
  OBVIOUS
<1>6. PICK act \in {"BUY", "SELL", "HOLD"} :
         act = Sentiment!ActionOf(<<n, d>>) /\ (act = "BUY" => n * 10 > Threshold * d)
  <2>1. PICK p, m \in Int : p = Threshold * d /\ m = -Threshold * d
    BY DEF Sentiment!SentimentAssumption
  <2>2. Sentiment!ActionOf(<<n, d>>) = IF n * 10 > p THEN "BUY" ELSE IF n * 10 < m THEN "SELL" ELSE "HOLD"
    BY <2>1 DEF Sentiment!ActionOf
  <2> QED
    BY <2>1, <2>2
<1>7. sentiment' = [action |-> act, confidence |-> sure, overall |-> <<n, d>>, articles |-> news, index |-> index,
                    mood |-> mood]
  BY <1>2, <1>3, <1>4, <1>5, <1>6, Zenon DEF Sentiment!Publish
<1>8. /\ sentiment'.articles = news /\ sentiment'.index = index /\ sentiment'.overall = <<n, d>>
      /\ sentiment'.confidence = sure /\ sentiment'.action = act
  BY <1>7
<1>9. Sentiment!Abs(sentiment'.overall[1]) <= sentiment'.overall[2]
  BY <1>3, <1>8 DEF Sentiment!Abs
<1>10. act = "BUY" => (\E a \in news : Sentiment!Score(a.headline) > 0) \/ (index # None /\ index > 5)
  <2>1. act = "BUY" => n > 0
    <3>1. PICK p \in Nat : p = Threshold * d
      BY DEF Sentiment!SentimentAssumption
    <3> QED
      BY <1>6, <3>1
  <2>2. \A a \in news : Sentiment!Score(a.headline) \in Int
    BY <1>1, ScoresAre DEF Piece
  <2>3. index # None => index \in Int
    BY <1>2 DEF Sentiment!SentimentAssumption
  <2> QED
    BY <1>3, <2>1, <2>2, <2>3
<1> QED
  BY <1>1, <1>8, <1>9, <1>10 DEF Felt

\* The index that is gone by.
LEMMA IndexIs ==
    ASSUME cachedFearGreed = None \/ cachedFearGreed.value \in FearGreeds, Sentiment!FetchFearGreedIndex
    PROVE  cachedFearGreed' = None \/ cachedFearGreed'.value \in FearGreeds
BY DEF Sentiment!FetchFearGreedIndex

\* What is published after a fetch, and when the fetch fails.
LEMMA SentimentStep ==
    ASSUME Sentiment!SentimentAssumption, SentInv, Sentiment!SentimentNext \/ UNCHANGED moods
    PROVE  /\ SentInv'
           /\ sentiment' # sentiment =>
                 /\ fetched'.how = "failed" => sentiment'.articles = cachedNews /\ cachedNews # {}
                 /\ fetched'.how # "failed" => \A a \in sentiment'.articles : hour - a.at <= Lookback
<1>1. /\ cachedNews \in SUBSET Article /\ IsFiniteSet(cachedNews)
      /\ \A a \in cachedNews : a.at \in Int /\ a.at >= cacheExpiry - 1 - Lookback
      /\ cacheExpiry \in 0 .. MaxHours + 1 /\ hour \in 0 .. MaxHours /\ cacheExpiry - 1 <= hour
      /\ cachedFearGreed = None \/ cachedFearGreed.value \in FearGreeds
      /\ fetched \in [how : {"never", "cached", "fetched", "failed"}, at : Int]
      /\ sentiment # None => Felt(sentiment)
  BY DEF SentInv, Article
<1>2. hour \in Int /\ Lookback \in Nat /\ MaxHours \in Nat
  BY <1>1 DEF Sentiment!SentimentAssumption
<1>3. CASE Sentiment!StepFromCache
  <2>1. /\ cachedNews' = cachedNews /\ cacheExpiry' = cacheExpiry /\ hour' = hour
        /\ Sentiment!FetchFearGreedIndex /\ Sentiment!Publish(cachedNews) /\ hour < cacheExpiry
        /\ fetched' = [fetched EXCEPT !.how = "cached"]
    BY <1>3, Zenon DEF Sentiment!StepFromCache, Sentiment!CacheHolds
  <2>2. cachedFearGreed' = None \/ cachedFearGreed'.value \in FearGreeds
    BY <1>1, <2>1, IndexIs
  <2>3. Felt(sentiment') /\ sentiment'.articles = cachedNews
    BY <1>1, <1>2, <2>1, <2>2, PublishedIsFelt
  <2>4. fetched' \in [how : {"never", "cached", "fetched", "failed"}, at : Int] /\ fetched'.how = "cached"
    BY <1>1, <2>1
  <2>5. \A a \in cachedNews : hour - a.at <= Lookback
    BY <1>1, <1>2, <2>1
  <2> QED
    BY <1>1, <2>1, <2>2, <2>3, <2>4, <2>5 DEF SentInv
<1>4. CASE Sentiment!StepFromNews
  <2>1. PICK answer \in Sentiment!News :
           IsFiniteSet(answer) /\ cachedNews' = Sentiment!Recent(answer) /\ Sentiment!Publish(Sentiment!Recent(answer))
    <3>1. PICK answer \in {A \in Sentiment!News : Sentiment!IsFiniteSet(A) /\ Sentiment!Cardinality(A) <= 2} :
             cachedNews' = Sentiment!Recent(answer) /\ Sentiment!Publish(Sentiment!Recent(answer))
      BY <1>4, Zenon DEF Sentiment!StepFromNews
    <3>2. Sentiment!IsFiniteSet(answer) => IsFiniteSet(answer)
      BY Zenon DEF Sentiment!IsFiniteSet, IsFiniteSet
    <3> QED
      BY <3>1, <3>2
  <2>2. /\ cacheExpiry' = hour + 1 /\ hour' = hour /\ Sentiment!FetchFearGreedIndex
        /\ fetched' = [how |-> "fetched", at |-> hour]
    BY <1>4, Zenon DEF Sentiment!StepFromNews
  <2>3. /\ Sentiment!Recent(answer) \in SUBSET Article
        /\ \A a \in Sentiment!Recent(answer) : a.at \in Int /\ a.at >= hour - Lookback
    <3>1. \A a \in answer : a \in Article
      <4>1. SUFFICES ASSUME NEW a \in answer PROVE a \in Article
        OBVIOUS
      <4>2. PICK h \in Headlines, age \in {0, Lookback, Lookback + 1} : a = [headline |-> h, at |-> hour - age]
        BY <2>1 DEF Sentiment!News
      <4>3. hour - age \in -Lookback - 1 .. MaxHours
        BY <1>1, <1>2
      <4> QED
        BY <4>2, <4>3 DEF Article
    <3>2. \A a \in Article : a.at \in Int
      BY DEF Article
    <3> QED
      BY <3>1, <3>2 DEF Sentiment!Recent
  <2>4. IsFiniteSet(Sentiment!Recent(answer))
    <3>1. Sentiment!Recent(answer) \subseteq answer
      BY DEF Sentiment!Recent
    <3> QED
      BY <2>1, <3>1, FS_Subset
  <2>5. cachedFearGreed' = None \/ cachedFearGreed'.value \in FearGreeds
    BY <1>1, <2>2, IndexIs
  <2>6. Felt(sentiment') /\ sentiment'.articles = Sentiment!Recent(answer)
    BY <1>2, <2>1, <2>3, <2>4, <2>5, PublishedIsFelt
  <2>7. fetched' \in [how : {"never", "cached", "fetched", "failed"}, at : Int] /\ fetched'.how = "fetched"
    BY <1>2, <2>2
  <2>8. \A a \in cachedNews' : a.at >= cacheExpiry' - 1 - Lookback
    BY <1>2, <2>1, <2>2, <2>3
  <2>9. \A a \in sentiment'.articles : hour - a.at <= Lookback
    BY <1>2, <2>3, <2>6
  <2>10. cacheExpiry' \in 0 .. MaxHours + 1 /\ hour' \in 0 .. MaxHours /\ cacheExpiry' - 1 <= hour'
    BY <1>1, <1>2, <2>2
  <2>11. cachedNews' \in SUBSET Article /\ IsFiniteSet(cachedNews')
    BY <2>1, <2>3, <2>4
  <2>12. SentInv'
    BY <2>5, <2>6, <2>7, <2>8, <2>10, <2>11 DEF SentInv
  <2> QED
    BY <2>7, <2>9, <2>12
<1>5. CASE Sentiment!StepFromOldNews
  <2>1. /\ cachedNews' = cachedNews /\ cacheExpiry' = cacheExpiry /\ hour' = hour
        /\ fetched' = [fetched EXCEPT !.how = "failed"]
    BY <1>5, Zenon DEF Sentiment!StepFromOldNews
  <2>2. fetched' \in [how : {"never", "cached", "fetched", "failed"}, at : Int] /\ fetched'.how = "failed"
    BY <1>1, <2>1
  <2>3. CASE cachedNews = {}
    <3>1. sentiment' = sentiment /\ cachedFearGreed' = cachedFearGreed
      BY <1>5, <2>3, Zenon DEF Sentiment!StepFromOldNews
    <3> QED
      BY <1>1, <2>1, <2>2, <3>1 DEF SentInv
  <2>4. CASE cachedNews # {}
    <3>1. Sentiment!FetchFearGreedIndex /\ Sentiment!Publish(cachedNews)
      BY <1>5, <2>4, Zenon DEF Sentiment!StepFromOldNews
    <3>2. cachedFearGreed' = None \/ cachedFearGreed'.value \in FearGreeds
      BY <1>1, <3>1, IndexIs
    <3>3. Felt(sentiment') /\ sentiment'.articles = cachedNews
      BY <1>1, <1>2, <3>1, <3>2, PublishedIsFelt
    <3> QED
      BY <1>1, <2>1, <2>2, <2>4, <3>2, <3>3 DEF SentInv
  <2> QED
    BY <2>3, <2>4
<1>6. CASE Sentiment!HourPasses
  <2>1. /\ cachedNews' = cachedNews /\ cacheExpiry' = cacheExpiry /\ cachedFearGreed' = cachedFearGreed
        /\ sentiment' = sentiment /\ fetched' = fetched /\ hour' = hour + 1 /\ hour < MaxHours
    BY <1>6 DEF Sentiment!HourPasses
  <2> QED
    BY <1>1, <1>2, <2>1 DEF SentInv
<1>7. CASE UNCHANGED moods
  BY <1>1, <1>7 DEF moods, SentInv
<1> QED
  BY <1>3, <1>4, <1>5, <1>6, <1>7 DEF Sentiment!SentimentNext

LEMMA SentimentShows ==
    ASSUME Sentiment!SentimentAssumption, SentInv
    PROVE  Sentiment!SentimentTypeOK /\ Sentiment!SentimentIsBounded /\ Sentiment!OppositeNewsOppositeSignal
<1>1. Sentiment!SentimentTypeOK
  <2>1. \A a \in Article : a.headline \in Headlines /\ a.at \in -Lookback - 1 .. MaxHours
    BY DEF Article
  <2>2. /\ \A a \in cachedNews : a.headline \in Headlines /\ a.at \in -Lookback - 1 .. MaxHours
        /\ cacheExpiry \in 0 .. MaxHours + 1 /\ hour \in 0 .. MaxHours
        /\ cachedFearGreed = None \/ cachedFearGreed.value \in FearGreeds
    BY <2>1 DEF SentInv
  <2>3. sentiment = None \/ sentiment.action \in {"BUY", "SELL", "HOLD"}
    BY DEF SentInv, Felt
  <2> QED
    BY <2>2, <2>3 DEF Sentiment!SentimentTypeOK
<1>2. Sentiment!SentimentIsBounded
  BY DEF SentInv, Felt, Sentiment!SentimentIsBounded
<1>3. Sentiment!OppositeNewsOppositeSignal
  <2>1. SUFFICES ASSUME sentiment # None PROVE Sentiment!OppositeNewsOppositeSignal
    BY DEF Sentiment!OppositeNewsOppositeSignal
  <2>2. /\ hour \in Int /\ sentiment.articles \in SUBSET Piece /\ IsFiniteSet(sentiment.articles)
        /\ sentiment.index \in FearGreeds \cup {None}
    BY <2>1 DEF SentInv, Felt, Sentiment!SentimentAssumption
  <2>3. PICK flip : flip = {Sentiment!Opposite(a) : a \in sentiment.articles}
    OBVIOUS
  <2> DEFINE back == Sentiment!AggregateSentiment(flip, IF sentiment.index = None THEN None ELSE 10 - sentiment.index)
             there == Sentiment!AggregateSentiment(sentiment.articles, sentiment.index)
  <2>4. /\ Sentiment!ActionOf(back) = IF Sentiment!ActionOf(there) = "BUY" THEN "SELL"
                                      ELSE IF Sentiment!ActionOf(there) = "SELL" THEN "BUY" ELSE "HOLD"
        /\ Sentiment!ConfidenceOf(back, flip) = Sentiment!ConfidenceOf(there, sentiment.articles)
    BY <2>2, <2>3, OppositeSignalIs
  <2> QED
    BY <2>3, <2>4 DEF Sentiment!OppositeNewsOppositeSignal
<1> QED
  BY <1>1, <1>2, <1>3

-----------------------------------------------------------------------------
(* Theorems of the specification.                                          *)

AgentsInv == PInv /\ TechInv /\ TrendInv /\ RevInv /\ BookInv /\ SentInv /\ ArbInv /\ RiskInv

\* Every part moves by its own step, or stays.
LEMMA OneMoves ==
    ASSUME [MCNext]_all
    PROVE  /\ AgentNext \/ UNCHANGED agent
           /\ Technical!TechnicalNext \/ UNCHANGED technicals
           /\ Trend!TrendNext \/ UNCHANGED trends
           /\ Reversion!ReversionNext \/ UNCHANGED reversals
           /\ Book!OrderBookNext \/ UNCHANGED books
           /\ Sentiment!SentimentNext \/ UNCHANGED moods
           /\ Arbitrage!ArbitrageNext \/ UNCHANGED spreads
           /\ Risk!RiskAgentNext \/ UNCHANGED risks
BY Zenon DEF MCNext, OfProcess, OfTechnical, OfTrend, OfReversion, OfBook, OfSentiment, OfArbitrage, OfRisk, all

\* The inductive invariants of the process and of the seven agents.
THEOREM AgentsInvariant == MCSpec => []AgentsInv
<1>1. MCInit => AgentsInv
  BY AgentsAssumption, ProcessBegins, TechnicalBegins, TrendBegins, ReversionBegins, BookBegins, SentimentBegins,
     ArbitrageBegins, RiskBegins, Zenon DEF MCInit, AgentsInv
<1>2. AgentsInv /\ [MCNext]_all => AgentsInv'
  <2>1. SUFFICES ASSUME AgentsInv, [MCNext]_all PROVE AgentsInv'
    OBVIOUS
  <2>2. PInv' /\ TechInv' /\ TrendInv'
    BY <2>1, AgentsAssumption, OneMoves, ProcessStep, TechnicalStep, TrendStep, Zenon DEF AgentsInv
  <2>3. RevInv' /\ BookInv' /\ SentInv'
    BY <2>1, AgentsAssumption, OneMoves, ReversionStep, BookKeepsStep, SentimentStep, Zenon DEF AgentsInv
  <2>4. ArbInv' /\ RiskInv'
    BY <2>1, AgentsAssumption, OneMoves, ArbitrageStep, RiskStep, Zenon DEF AgentsInv
  <2> QED
    BY <2>2, <2>3, <2>4, Zenon DEF AgentsInv
<1> QED
  BY <1>1, <1>2, PTL DEF MCSpec

\* AgentsKeepUp: for any indicators, prices, books and limits, beliefs are stale
\* only where an indicator was missing, the prices compared are of one minute and
\* the flags of a book of what changed in it; a subscribed agent follows its control
\* events and is silent once it is down, whatever order they come in.
THEOREM TheAgentsKeepUp == MCSpec => []AgentsKeepUp
<1>1. AgentsInv => AgentsKeepUp
  <2>1. SUFFICES ASSUME AgentsInv PROVE AgentsKeepUp
    OBVIOUS
  <2>2. AgentTypeOK /\ FollowsControl /\ LastStepIsWhole
    BY <2>1 DEF AgentsInv, PInv
  <2>3. Technical!TechnicalTypeOK /\ Technical!StaleOnlyIfMissing
    BY <2>1, AgentsAssumption, TechnicalShows, Zenon DEF AgentsInv
  <2>4. Trend!TrendTypeOK /\ Trend!PausedIsSilent
    BY <2>1, AgentsAssumption, TrendShows, Zenon DEF AgentsInv, TrendInv
  <2>5. Reversion!ReversionTypeOK
    BY <2>1, Zenon DEF AgentsInv, RevInv
  <2>6. Book!OrderBookTypeOK /\ Book!FlagsComeFromChange
    BY <2>1, AgentsAssumption, BookShows, Zenon DEF AgentsInv
  <2>7. Sentiment!SentimentTypeOK
    BY <2>1, AgentsAssumption, SentimentShows, Zenon DEF AgentsInv
  <2>8. Arbitrage!ArbitrageTypeOK /\ Arbitrage!PricesOfAMinute
    BY <2>1, AgentsAssumption, ArbShows, Zenon DEF AgentsInv, ArbInv, ArbDecided
  <2>9. Risk!RiskAgentTypeOK
    BY <2>1, RiskShows, Zenon DEF AgentsInv
  <2> QED
    BY <2>2, <2>3, <2>4, <2>5, <2>6, <2>7, <2>8, <2>9, Zenon DEF AgentsKeepUp
<1> QED
  BY <1>1, AgentsInvariant, PTL

\* SignalsAreSound: support never makes a signal less sure, filters and limits hold
\* whatever the model says, the opposite market and the opposite news give the
\* opposite signal of the same confidence, and what is not worth its risk or its
\* fees is not traded, for any indicators, prices, books, headlines and limits.
THEOREM TheSignalsAreSound == MCSpec => []SignalsAreSound
<1>1. AgentsInv => SignalsAreSound
  <2>1. SUFFICES ASSUME AgentsInv PROVE SignalsAreSound
    OBVIOUS
  <2>2. Technical!TrendIsBollinger /\ Technical!SupportNeverHurts /\ Technical!RulesHold
    BY <2>1, AgentsAssumption, TechnicalShows, Zenon DEF AgentsInv
  <2>3. Trend!TrailsTheBestPrice /\ Trend!NeverTradesBelowRatio
    BY <2>1, AgentsAssumption, TrendShows, Zenon DEF AgentsInv, TrendInv
  <2>4. Reversion!FiltersHold /\ Reversion!MirrorImage /\ Reversion!ConfirmationHelps
    BY <2>1, AgentsAssumption, RevMirror, RevConfirms, Zenon DEF AgentsInv, RevInv
  <2>5. Book!TradesNeedEvidence /\ Book!SpoofingNeverStopsATrade
    BY <2>1, AgentsAssumption, BookShows, Zenon DEF AgentsInv
  <2>6. Sentiment!OppositeNewsOppositeSignal /\ Sentiment!SentimentIsBounded
    BY <2>1, AgentsAssumption, SentimentShows, Zenon DEF AgentsInv
  <2>7. Arbitrage!SpreadsAreMovesOfThePrice /\ Arbitrage!HoldsAtItsThreshold
    BY <2>1, Zenon DEF AgentsInv, ArbInv, ArbDecided
  <2>8. Risk!ApprovalsFit
    BY <2>1, Zenon DEF AgentsInv, RiskInv
  <2> QED
    BY <2>2, <2>3, <2>4, <2>5, <2>6, <2>7, <2>8, Zenon DEF SignalsAreSound
<1> QED
  BY <1>1, AgentsInvariant, PTL

\* The first part of AgentsGoOn: a signal rests on news older than the lookback only
\* if the news service failed the step, and then on what was cached.
THEOREM OldNewsForAFailure == MCSpec => Sentiment!OldNewsOnlyOnFailure
<1>1. ASSUME AgentsInv, [MCNext]_all
      PROVE  [sentiment' # sentiment =>
                 /\ fetched'.how = "failed" => sentiment'.articles = cachedNews /\ cachedNews # {}
                 /\ fetched'.how # "failed" => \A a \in sentiment'.articles : hour - a.at <= Lookback]_(Sentiment!sentiments)
  BY <1>1, AgentsAssumption, OneMoves, SentimentStep, Zenon DEF AgentsInv
<1> QED
  BY <1>1, AgentsInvariant, PTL DEF MCSpec, Sentiment!OldNewsOnlyOnFailure

\* The second part of AgentsGoOn: an exposure the risk agent comes to believe is no
\* more than the positions that are long at the highest price, whichever of the two
\* goroutines read them.
THEOREM ExposureOfLongs == MCSpec => Risk!ExposureIsOfLongs
<1>1. ASSUME AgentsInv, [MCNext]_all
      PROVE  [believed' # believed => \A s \in DOMAIN believed' :
                 believed'[s] <= Risk!Sum([r \in Rows |-> r.qty * Risk!Max({q.price : q \in Rows})],
                                          {r \in positions : r.symbol = s /\ r.side = "LONG"})]_(Risk!risk_agent)
  <2>1. SUFFICES ASSUME believed' # believed, NEW s \in DOMAIN believed'
                 PROVE  believed'[s] <= Risk!Sum([r \in Rows |-> r.qty * Risk!Max({q.price : q \in Rows})],
                                                 {r \in positions : r.symbol = s /\ r.side = "LONG"})
    OBVIOUS
  <2>2. Risk!RiskAgentNext
    BY <1>1, <2>1, OneMoves DEF risks
  <2> QED
    BY <1>1, <2>1, <2>2, AgentsAssumption, RiskExposes, Zenon DEF AgentsInv
<1> QED
  BY <1>1, AgentsInvariant, PTL DEF MCSpec, Risk!ExposureIsOfLongs

=============================================================================
