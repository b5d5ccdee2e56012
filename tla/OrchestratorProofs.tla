--------------------------- MODULE OrchestratorProofs ---------------------------
(***************************************************************************)
(* Proofs about two managers of the orchestrator that share no state:      *)
(* the hot-swap of agents (HotSwap), for any number of agents, swaps (also *)
(* of the same agent), registrations and reports; and the Delphi sessions  *)
(* (DelphiConsensus), for any number of sessions, agents, rounds and       *)
(* timeout handlers.                                                       *)
(*                                                                         *)
(* IInv, of HotSwap, follows what the old agent had reported when the swap *)
(* began: it is no newer than its registration until the state is          *)
(* captured, than the snapshot until the new agent is registered, and than *)
(* the new registration from then on (SwapOK).  Other activities replace   *)
(* the state of a registration only by a newer one (Current), or change    *)
(* its status (Grows).  WInv says what registry and *)
(* objects look like at every point of a swap whose names nobody else      *)
(* uses: registrations keep the names they are found under (Named), so     *)
(* the steps of others touch neither its names nor its objects             *)
(* (Undisturbed), and its own steps leave it whole (Whole).                *)
(*                                                                         *)
(* RInv, of DelphiConsensus, says of every session object what             *)
(* RoundsInOrder and OneResult say (Good), and relates it to how far the   *)
(* call that created it has come (Placed): the first round is opened       *)
(* without the mutex, which is harmless because nothing else touches a     *)
(* pending session.                                                        *)
(***************************************************************************)
EXTENDS HotSwap, DelphiConsensus, TLAPS

Before == {"capture", "pause", "transfer"}
After == {"start", "verify", "terminate", "unregister"}

SwapOK(s, w, ob) ==
    \/ w \in {NotCalled, NotFound} /\ ob[s] = Unborn
    \/ /\ w \in Swap
       /\ ob[w.old] \in Registration
       /\ ob[s] \in Registration \cup {Unborn}
       /\ w.pc \in Before => ob[s] = Unborn /\ w.status = "running"
       /\ w.pc = "capture" => w.known <= ob[w.old].state
       /\ w.pc \in {"pause", "transfer"} => w.known <= w.snapshot
       /\ w.pc \in After => w.status = "running"
       /\ w.pc \in After \/ w.status = "completed" =>
             ob[s] \in Registration /\ w.known <= w.snapshot /\ w.snapshot <= ob[s].state
       /\ w.pc \in {"terminate", "unregister"} \/ w.status = "completed" => w.answered
       /\ w.status = "completed" => w.pc = "returned"

Registered == \A n \in Names : registry[n] # None => object[registry[n]] \in Registration

\* Swap w has terminated object o.
Terminated(w, o) ==
    /\ w.status \in {"running", "completed"}
    /\ w.pc \in {"unregister", "returned"}
    /\ w.old = o /\ w.answered

Justified == \A o \in Objects : object[o].status = "terminating" =>
                \E s \in Swaps : Terminated(swap[s], o)

IInv ==
    /\ TypeOK
    /\ Registered
    /\ \A s \in Swaps : SwapOK(s, swap[s], object)
    /\ Justified

\* No registration and no snapshot is newer than the last report.
Current ==
    /\ \A o \in Objects : object[o] \in Registration => object[o].state <= reports
    /\ \A s \in Swaps : swap[s] \in Swap => swap[s].snapshot <= reports

\* What a step may do to the registration object a: it stays one, and is no older.
Grows(a, b) ==
    /\ a = Unborn => b = Unborn
    /\ a \in Registration => b \in Registration /\ a.state <= b.state

-----------------------------------------------------------------------------
(* Data.                                                                   *)

LEMMA KindsOfObject ==
    /\ Unborn \notin Registration
    /\ Unborn.status # "terminating"
BY DEF Unborn, Registration

LEMMA KindsOfSwap ==
    ASSUME NEW w \in Swap \cup {NotCalled, NotFound}
    PROVE  /\ w.pc \notin {"idle"} /\ w.status # "none" => w \in Swap
           /\ w.pc \in Before \cup After \cup {"resume"} => w \in Swap
           /\ w.status \in {"running", "completed", "failed"} => w \in Swap
           /\ w \in Swap => w.status # "none" /\ w.pc # "idle"
BY DEF Swap, NotCalled, NotFound, Before, After

LEMMA Numbers ==
    /\ States \subseteq Nat /\ 0 \in States
    /\ \A r \in Registration : r.state \in Nat
    /\ \A w \in Swap : w.known \in Nat /\ w.snapshot \in Nat
BY ReportAssumption DEF Registration, Swap, States

LEMMA GrowsReflexive == \A a : Grows(a, a)
BY Numbers DEF Grows

\* A swap stays well when the two objects it knows only grow.
LEMMA SwapStaysOK ==
    ASSUME NEW s \in Swaps, NEW w, NEW f, NEW g, SwapOK(s, w, f),
           Grows(f[s], g[s]), w \in Swap => Grows(f[w.old], g[w.old])
    PROVE  SwapOK(s, w, g)
<1>1. CASE w \in {NotCalled, NotFound} /\ f[s] = Unborn
  BY <1>1 DEF SwapOK, Grows
<1>2. CASE w \in Swap /\ ~(w \in {NotCalled, NotFound} /\ f[s] = Unborn)
  <2>1. /\ w \in Swap
        /\ f[w.old] \in Registration
        /\ f[s] \in Registration \cup {Unborn}
        /\ w.pc \in Before => f[s] = Unborn /\ w.status = "running"
        /\ w.pc = "capture" => w.known <= f[w.old].state
        /\ w.pc \in {"pause", "transfer"} => w.known <= w.snapshot
        /\ w.pc \in After => w.status = "running"
        /\ w.pc \in After \/ w.status = "completed" =>
              f[s] \in Registration /\ w.known <= w.snapshot /\ w.snapshot <= f[s].state
        /\ w.pc \in {"terminate", "unregister"} \/ w.status = "completed" => w.answered
        /\ w.status = "completed" => w.pc = "returned"
    BY <1>2 DEF SwapOK
  <2>2. g[w.old] \in Registration /\ f[w.old].state <= g[w.old].state
    BY <2>1 DEF Grows
  <2>3. g[s] \in Registration \cup {Unborn}
    BY <2>1 DEF Grows
  <2>4. w.pc \in Before => g[s] = Unborn /\ w.status = "running"
    BY <2>1 DEF Grows
  <2>a. w.known \in Nat /\ w.snapshot \in Nat
        /\ f[w.old].state \in Nat /\ g[w.old].state \in Nat
    BY <2>1, <2>2, Numbers
  <2>5. w.pc = "capture" => w.known <= g[w.old].state
    BY <2>1, <2>2, <2>a
  <2>6. w.pc \in After \/ w.status = "completed" =>
              g[s] \in Registration /\ w.known <= w.snapshot /\ w.snapshot <= g[s].state
    <3> SUFFICES ASSUME w.pc \in After \/ w.status = "completed"
                 PROVE  g[s] \in Registration /\ w.known <= w.snapshot /\ w.snapshot <= g[s].state
      OBVIOUS
    <3>1. f[s] \in Registration /\ w.known <= w.snapshot /\ w.snapshot <= f[s].state
      BY <2>1
    <3>2. g[s] \in Registration /\ f[s].state <= g[s].state
      BY <3>1 DEF Grows
    <3>3. f[s].state \in Nat /\ g[s].state \in Nat
      BY <3>1, <3>2, Numbers
    <3> QED
      BY <2>a, <3>1, <3>2, <3>3
  <2> QED
    BY <2>1, <2>2, <2>3, <2>4, <2>5, <2>6 DEF SwapOK
<1> QED
  BY <1>1, <1>2 DEF SwapOK

LEMMA ObjectsOfSwap ==
    ASSUME IInv, NEW s \in Swaps
    PROVE  /\ s \in Objects
           /\ swap[s] \in Swap => swap[s].old \in Objects /\ object[swap[s].old] \in Registration
           /\ SwapOK(s, swap[s], object)
           /\ swap[s] \in Swap \cup {NotCalled, NotFound}
<1>1. s \in Objects
  BY DEF Objects
<1>2. SwapOK(s, swap[s], object) /\ swap[s] \in Swap \cup {NotCalled, NotFound}
  BY DEF IInv, TypeOK
<1>3. swap[s] \in Swap => swap[s] \notin {NotCalled, NotFound}
  BY KindsOfSwap DEF NotCalled, NotFound
<1>4. swap[s] \in Swap => swap[s].old \in Objects
  BY DEF Swap
<1> QED
  BY <1>1, <1>2, <1>3, <1>4 DEF SwapOK

-----------------------------------------------------------------------------
(* Steps that change one object and possibly one swap.                     *)

\* A step that changes only the registration object o, whose state grows, and
\* does not terminate it.
LEMMA OneObject ==
    ASSUME IInv, NEW o \in Objects, NEW r \in Registration,
           object[o] \in Registration, object[o].state <= r.state,
           object' = [object EXCEPT ![o] = r]
    PROVE  /\ object' \in [Objects -> Registration \cup {Unborn}]
           /\ \A p \in Objects : Grows(object[p], object'[p])
           /\ \A n \in Names : registry[n] # None => object'[registry[n]] \in Registration
<1>1. object \in [Objects -> Registration \cup {Unborn}]
      /\ registry \in [Names -> Objects \cup {None}]
  BY DEF IInv, TypeOK
<1>2. object' \in [Objects -> Registration \cup {Unborn}]
  BY <1>1
<1>3. object'[o] = r /\ \A p \in Objects \ {o} : object'[p] = object[p]
  BY <1>1
<1>4. Grows(object[o], object'[o])
  BY <1>3, KindsOfObject DEF Grows
<1>5. \A p \in Objects : Grows(object[p], object'[p])
  BY <1>3, <1>4, GrowsReflexive
<1>6. ASSUME NEW n \in Names, registry[n] # None PROVE object'[registry[n]] \in Registration
  <2>1. registry[n] \in Objects /\ object[registry[n]] \in Registration
    BY <1>1, <1>6 DEF IInv, Registered
  <2> QED
    BY <2>1, <1>5 DEF Grows
<1> QED
  BY <1>2, <1>5, <1>6

LEMMA StatusOfRegistration ==
    ASSUME NEW r \in Registration, NEW x \in {"active", "paused", "terminating"}
    PROVE  /\ [r EXCEPT !.status = x] \in Registration
           /\ [r EXCEPT !.status = x].state = r.state
           /\ [r EXCEPT !.status = x].status = x
BY DEF Registration

LEMMA StateOfRegistration ==
    ASSUME NEW r \in Registration, NEW u \in States
    PROVE  /\ [r EXCEPT !.state = u] \in Registration
           /\ [r EXCEPT !.state = u].state = u
           /\ [r EXCEPT !.state = u].name = r.name
           /\ [r EXCEPT !.state = u].status = r.status
BY DEF Registration

\* The other swaps when the objects grow.
LEMMA OtherSwaps ==
    ASSUME IInv, NEW s \in Swaps, \A p \in Objects : Grows(object[p], object'[p])
    PROVE  SwapOK(s, swap[s], object')
BY ObjectsOfSwap, SwapStaysOK


\* The swaps other than q when q is born and the other objects grow.
LEMMA OtherSwapsAtBirth ==
    ASSUME IInv, NEW s \in Swaps, NEW q, q # s, object[q] = Unborn,
           \A p \in Objects \ {q} : Grows(object[p], object'[p])
    PROVE  SwapOK(s, swap[s], object')
<1>1. Grows(object[s], object'[s])
  BY ObjectsOfSwap
<1>2. swap[s] \in Swap => Grows(object[swap[s].old], object'[swap[s].old])
  BY ObjectsOfSwap, KindsOfObject
<1> QED
  BY <1>1, <1>2, ObjectsOfSwap, SwapStaysOK

\* Whoever was terminated stays accounted for when no other object is terminated
\* and no swap takes it back.
LEMMA JustifiedKept ==
    ASSUME Justified,
           \A o \in Objects : object'[o].status = "terminating" => object[o].status = "terminating",
           \A t \in Swaps : swap'[t] = swap[t] \/ swap[t].pc \notin {"unregister", "returned"}
    PROVE  Justified'
<1> SUFFICES ASSUME NEW o \in Objects, object'[o].status = "terminating"
             PROVE  \E t \in Swaps : Terminated(swap'[t], o)
  BY DEF Justified
<1>1. PICK t \in Swaps : Terminated(swap[t], o)
  BY DEF Justified
<1>2. swap'[t] = swap[t]
  BY <1>1 DEF Terminated
<1> QED
  BY <1>1, <1>2

\* A swap session after one of its steps: w for s, the others as they were.
LEMMA OneSwap ==
    ASSUME IInv, NEW s \in Swaps, NEW w, swap' = [swap EXCEPT ![s] = w]
    PROVE  swap'[s] = w /\ \A t \in Swaps \ {s} : swap'[t] = swap[t]
BY DEF IInv, TypeOK

\* A step that changes one swap and no object.
LEMMA SwapMoves ==
    ASSUME IInv, NEW s \in Swaps, NEW w \in Swap \cup {NotCalled, NotFound},
           swap' = [swap EXCEPT ![s] = w], SwapOK(s, w, object),
           swap[s].pc \notin {"unregister", "returned"},
           UNCHANGED <<object, registry, reports>>
    PROVE  IInv'
<1>1. swap'[s] = w /\ \A t \in Swaps \ {s} : swap'[t] = swap[t]
  BY OneSwap
<1>2. swap' \in [Swaps -> Swap \cup {NotCalled, NotFound}]
  BY DEF IInv, TypeOK
<1>3. TypeOK' /\ Registered'
  BY <1>2 DEF IInv, TypeOK, Registered
<1>4. ASSUME NEW t \in Swaps PROVE SwapOK(t, swap'[t], object')
  BY <1>1, ObjectsOfSwap
<1>5. Justified'
  BY <1>1, JustifiedKept DEF IInv
<1> QED
  BY <1>3, <1>4, <1>5 DEF IInv

\* The fields of a swap that has begun.
LEMMA Begun ==
    ASSUME IInv, NEW s \in Swaps, swap[s].pc \in Before \cup After \cup {"resume"}
    PROVE  /\ swap[s] \in Swap
           /\ swap[s].old \in Objects /\ object[swap[s].old] \in Registration
           /\ object[s] \in Registration \cup {Unborn}
           /\ s \in Objects
           /\ swap[s].pc \in Before => object[s] = Unborn /\ swap[s].status = "running"
           /\ swap[s].pc = "capture" => swap[s].known <= object[swap[s].old].state
           /\ swap[s].pc \in {"pause", "transfer"} => swap[s].known <= swap[s].snapshot
           /\ swap[s].pc \in After => swap[s].status = "running" /\ object[s] \in Registration
                                      /\ swap[s].known <= swap[s].snapshot
                                      /\ swap[s].snapshot <= object[s].state
           /\ swap[s].pc \in {"terminate", "unregister"} => swap[s].answered
           /\ swap[s].status # "completed"
<1>1. swap[s] \in Swap /\ swap[s] \notin {NotCalled, NotFound}
  BY ObjectsOfSwap, KindsOfSwap DEF NotCalled, NotFound
<1>2. SwapOK(s, swap[s], object)
  BY ObjectsOfSwap
<1> QED
  BY <1>1, <1>2, ObjectsOfSwap DEF SwapOK, Before, After

\* Every way a swap fails.
LEMMA Failing ==
    ASSUME NEW w \in Swap, NEW pc \in {"resume", "returned"}
    PROVE  /\ [w EXCEPT !.pc = pc, !.status = "failed"] \in Swap
           /\ [w EXCEPT !.pc = pc, !.status = "failed"].pc = pc
           /\ [w EXCEPT !.pc = pc, !.status = "failed"].status = "failed"
           /\ [w EXCEPT !.pc = pc, !.status = "failed"].old = w.old
BY DEF Swap

LEMMA FailingIsOK ==
    ASSUME NEW s \in Swaps, NEW w \in Swap, NEW f, NEW pc \in {"resume", "returned"},
           f[w.old] \in Registration, f[s] \in Registration \cup {Unborn}
    PROVE  SwapOK(s, [w EXCEPT !.pc = pc, !.status = "failed"], f)
<1> DEFINE x == [w EXCEPT !.pc = pc, !.status = "failed"]
<1>1. x \in Swap /\ x.pc = pc /\ x.status = "failed" /\ x.old = w.old
  BY Failing
<1> HIDE DEF x
<1>2. SwapOK(s, x, f)
  BY <1>1 DEF SwapOK, Before, After
<1> QED
  BY <1>2 DEF x

LEMMA FailKeeps ==
    ASSUME IInv, NEW s \in Swaps, NEW pc \in {"resume", "returned"}, Fail(s, pc),
           swap[s].pc \in Before \cup {"start", "verify"},
           UNCHANGED <<object, registry, reports>>
    PROVE  IInv'
<1> DEFINE w == [swap[s] EXCEPT !.pc = pc, !.status = "failed"]
<1>1. swap[s] \in Swap /\ object[swap[s].old] \in Registration
      /\ object[s] \in Registration \cup {Unborn}
  BY Begun DEF After
<1>2. w \in Swap /\ SwapOK(s, w, object)
  BY <1>1, Failing, FailingIsOK
<1>3. swap' = [swap EXCEPT ![s] = w]
  BY DEF Fail
<1> HIDE DEF w
<1>4. swap[s].pc \notin {"unregister", "returned"}
  BY DEF Before
<1> QED
  BY <1>2, <1>3, <1>4, SwapMoves


-----------------------------------------------------------------------------
(* The actions.                                                            *)

LEMMA InitHolds == Init => IInv
<1> SUFFICES ASSUME Init PROVE IInv
  OBVIOUS
<1>1. \A o \in Objects : object[o] = IF o \in Started THEN Active(o, 0) ELSE Unborn
  BY DEF Init
<1>2. \A n \in Started : Active(n, 0) \in Registration /\ Active(n, 0).status # "terminating"
  BY ArgumentAssumption, Numbers DEF Active, Registration
<1>3. object \in [Objects -> Registration \cup {Unborn}]
  BY <1>1, <1>2 DEF Init
<1>4. registry \in [Names -> Objects \cup {None}]
  BY DEF Init, Objects
<1>5. TypeOK
  BY <1>3, <1>4, Numbers DEF Init, TypeOK
<1>6. Registered
  BY <1>1, <1>2 DEF Init, Registered, Objects
<1>7. ASSUME NEW s \in Swaps PROVE SwapOK(s, swap[s], object)
  <2>1. object[s] = Unborn
    BY <1>1, ObjectAssumption DEF Objects
  <2> QED
    BY <2>1 DEF Init, SwapOK
<1>8. Justified
  BY <1>1, <1>2, KindsOfObject DEF Justified
<1> QED
  BY <1>5, <1>6, <1>7, <1>8 DEF IInv

LEMMA RegisterAgentKeeps ==
    ASSUME IInv, NEW o \in Spares, NEW n \in Restarting, RegisterAgent(o, n)
    PROVE  IInv'
<1>1. n \in Names /\ o \in Objects /\ object[o] = Unborn
      /\ object' = [object EXCEPT ![o] = Active(n, 0)]
      /\ registry' = [registry EXCEPT ![n] = o] /\ UNCHANGED <<swap, reports>>
  BY ArgumentAssumption DEF RegisterAgent, Register, Objects
<1>2. Active(n, 0) \in Registration /\ Active(n, 0).status # "terminating"
  BY <1>1, Numbers DEF Active, Registration
<1>3. /\ object \in [Objects -> Registration \cup {Unborn}]
      /\ registry \in [Names -> Objects \cup {None}]
  BY DEF IInv, TypeOK
<1>4. object'[o] = Active(n, 0) /\ \A p \in Objects \ {o} : object'[p] = object[p]
  BY <1>1, <1>3
<1>5. TypeOK'
  BY <1>1, <1>2, <1>3 DEF IInv, TypeOK
<1>6. \A p \in Objects \ {o} : Grows(object[p], object'[p])
  BY <1>4, GrowsReflexive
<1>7. Registered'
  BY <1>1, <1>2, <1>3, <1>4 DEF IInv, Registered
<1>8. ASSUME NEW t \in Swaps PROVE SwapOK(t, swap'[t], object')
  BY <1>1, <1>6, OtherSwapsAtBirth, ObjectAssumption
<1>9. Justified'
  BY <1>1, <1>2, <1>4, JustifiedKept DEF IInv
<1> QED
  BY <1>5, <1>7, <1>8, <1>9 DEF IInv

LEMMA UnregisterAgentKeeps ==
    ASSUME IInv, NEW n \in Restarting, UnregisterAgent(n) PROVE IInv'
<1>1. n \in Names /\ registry' = [registry EXCEPT ![n] = None]
      /\ UNCHANGED <<object, swap, reports>>
  BY ArgumentAssumption DEF UnregisterAgent, Unregister
<1>2. TypeOK' /\ Registered'
  BY <1>1 DEF IInv, TypeOK, Registered
<1>3. Justified'
  BY <1>1, JustifiedKept DEF IInv
<1> QED
  BY <1>1, <1>2, <1>3 DEF IInv

LEMMA UpdateAgentStateKeeps ==
    ASSUME IInv, Current, NEW n \in Names, UpdateAgentState(n)
    PROVE  IInv'
<1> DEFINE o == registry[n]
           u == reports + 1
           r == [object[o] EXCEPT !.state = u]
<1>1. o \in Objects /\ object[o] \in Registration
  BY DEF IInv, TypeOK, Registered, UpdateAgentState
<1>a. u \in States /\ reports \in Nat
  BY ReportAssumption DEF IInv, TypeOK, States, UpdateAgentState
<1>b. object[o].state \in Nat /\ object[o].state <= reports
  BY <1>1 DEF Current, Registration, States
<1>c. object[o].state <= u
  BY <1>a, <1>b
<1>3. object' = [object EXCEPT ![o] = r] /\ reports' = u
      /\ UNCHANGED <<registry, swap>>
  BY DEF UpdateAgentState
<1> HIDE DEF u
<1>2. r \in Registration /\ object[o].state <= r.state /\ r.status = object[o].status
  BY <1>1, <1>a, <1>c, StateOfRegistration
<1> HIDE DEF o, r
<1>4. /\ object' \in [Objects -> Registration \cup {Unborn}]
      /\ \A p \in Objects : Grows(object[p], object'[p])
      /\ \A m \in Names : registry[m] # None => object'[registry[m]] \in Registration
  BY <1>1, <1>2, <1>3, OneObject
<1>5. TypeOK' /\ Registered'
  BY <1>3, <1>4, <1>a DEF IInv, TypeOK, Registered
<1>6. ASSUME NEW t \in Swaps PROVE SwapOK(t, swap'[t], object')
  BY <1>3, <1>4, OtherSwaps
<1>7. \A p \in Objects : object'[p].status = "terminating" => object[p].status = "terminating"
  BY <1>1, <1>2, <1>3 DEF IInv, TypeOK
<1>8. Justified'
  BY <1>3, <1>7, JustifiedKept DEF IInv
<1> QED
  BY <1>5, <1>6, <1>8 DEF IInv

LEMMA SwapAgentKeeps ==
    ASSUME IInv, NEW s \in Swaps, SwapAgent(s) PROVE IInv'
<1> DEFINE o == registry[OldName[s]]
           w == [pc |-> "capture", old |-> o, snapshot |-> 0, status |-> "running",
                 paused |-> FALSE, known |-> object[o].state, answered |-> FALSE]
<1>1. swap[s].pc = "idle" /\ UNCHANGED <<object, registry, reports>>
  BY DEF SwapAgent, At
<1>2. swap[s] \in {NotCalled, NotFound} /\ object[s] = Unborn
  BY <1>1, ObjectsOfSwap, KindsOfSwap DEF SwapOK
<1>3. CASE o = None
  <2>1. swap' = [swap EXCEPT ![s] = NotFound]
    BY <1>3 DEF SwapAgent
  <2>2. SwapOK(s, NotFound, object)
    BY <1>2 DEF SwapOK
  <2> QED
    BY <2>1, <2>2, <1>1, SwapMoves
<1>4. CASE o # None
  <2>1. o \in Objects /\ object[o] \in Registration
    BY <1>4, ArgumentAssumption DEF IInv, TypeOK, Registered
  <2>2. object[o].state \in States
    BY <2>1 DEF Registration
  <2>3. swap' = [swap EXCEPT ![s] = w]
    BY <1>4 DEF SwapAgent
  <2> HIDE DEF o
  <2>4. /\ w \in Swap /\ w.old = o /\ w.pc = "capture" /\ w.status = "running"
        /\ w.known = object[o].state
    BY <2>1, <2>2, Numbers DEF Swap
  <2>6. object[o].state \in Nat
    BY <2>2, Numbers
  <2>7. w.known <= object[o].state
    BY <2>4, <2>6
  <2> HIDE DEF w
  <2>5. SwapOK(s, w, object)
    BY <1>2, <2>1, <2>4, <2>7 DEF SwapOK, After, Before
  <2> QED
    BY <2>3, <2>4, <2>5, <1>1, SwapMoves
<1> QED
  BY <1>3, <1>4

LEMMA CaptureStateKeeps ==
    ASSUME IInv, NEW s \in Swaps, CaptureState(s) PROVE IInv'
<1>1. swap[s].pc = "capture" /\ UNCHANGED <<object, registry, reports>>
  BY DEF CaptureState, At
<1>2. CASE Fail(s, "returned")
  BY <1>1, <1>2, FailKeeps DEF Before
<1>3. CASE swap' = [swap EXCEPT ![s].pc = "pause", ![s].snapshot = object[swap[s].old].state]
  <2> DEFINE w == [swap[s] EXCEPT !.pc = "pause", !.snapshot = object[swap[s].old].state]
  <2>1. /\ swap[s] \in Swap /\ swap[s].old \in Objects /\ object[swap[s].old] \in Registration
        /\ object[s] = Unborn /\ swap[s].status = "running"
        /\ swap[s].known <= object[swap[s].old].state
    BY <1>1, Begun DEF Before
  <2>2. object[swap[s].old].state \in States
    BY <2>1 DEF Registration
  <2>3. /\ w \in Swap /\ w.pc = "pause" /\ w.old = swap[s].old /\ w.status = "running"
        /\ w.known = swap[s].known /\ w.snapshot = object[swap[s].old].state
    BY <2>1, <2>2 DEF Swap
  <2>4. swap' = [swap EXCEPT ![s] = w]
    BY <1>3
  <2> HIDE DEF w
  <2>5. SwapOK(s, w, object)
    BY <2>1, <2>3 DEF SwapOK, After, Before
  <2> QED
    BY <2>3, <2>4, <2>5, <1>1, SwapMoves
<1> QED
  BY <1>2, <1>3 DEF CaptureState

\* The object of the old agent gets a new status.
LEMMA OldStatus ==
    ASSUME IInv, NEW s \in Swaps, NEW x \in {"active", "paused", "terminating"},
           swap[s] \in Swap, swap[s].old \in Objects, object[swap[s].old] \in Registration,
           object' = [object EXCEPT ![swap[s].old].status = x]
    PROVE  /\ object' \in [Objects -> Registration \cup {Unborn}]
           /\ \A p \in Objects : Grows(object[p], object'[p])
           /\ \A n \in Names : registry[n] # None => object'[registry[n]] \in Registration
           /\ object'[swap[s].old].status = x
           /\ \A p \in Objects \ {swap[s].old} : object'[p] = object[p]
<1> DEFINE o == swap[s].old
           r == [object[o] EXCEPT !.status = x]
<1>0. r \in Registration /\ object[o].state = r.state /\ r.status = x
  BY StatusOfRegistration
<1>a. object[o].state \in Nat
  BY Numbers
<1>1. r \in Registration /\ object[o].state <= r.state /\ r.status = x
  BY <1>0, <1>a
<1>2. object' = [object EXCEPT ![o] = r]
  OBVIOUS
<1> HIDE DEF r
<1>3. object'[o] = r /\ \A p \in Objects \ {o} : object'[p] = object[p]
  BY <1>2 DEF IInv, TypeOK
<1> QED
  BY <1>1, <1>2, <1>3, OneObject

\* A step of s that sets the status of its old agent to x and becomes w.
LEMMA StatusStep ==
    ASSUME IInv, NEW s \in Swaps, NEW x \in {"active", "paused", "terminating"},
           swap[s] \in Swap, swap[s].old \in Objects, object[swap[s].old] \in Registration,
           object' = [object EXCEPT ![swap[s].old].status = x],
           NEW w \in Swap, swap' = [swap EXCEPT ![s] = w], SwapOK(s, w, object'),
           swap[s].pc \notin {"unregister", "returned"},
           x = "terminating" => Terminated(w, swap[s].old),
           UNCHANGED <<registry, reports>>
    PROVE  IInv'
<1>1. /\ object' \in [Objects -> Registration \cup {Unborn}]
      /\ \A p \in Objects : Grows(object[p], object'[p])
      /\ \A n \in Names : registry[n] # None => object'[registry[n]] \in Registration
      /\ object'[swap[s].old].status = x
      /\ \A p \in Objects \ {swap[s].old} : object'[p] = object[p]
  BY OldStatus
<1>2. swap'[s] = w /\ \A t \in Swaps \ {s} : swap'[t] = swap[t]
  BY OneSwap
<1>3. swap' \in [Swaps -> Swap \cup {NotCalled, NotFound}]
  BY DEF IInv, TypeOK
<1>4. TypeOK' /\ Registered'
  BY <1>1, <1>3 DEF IInv, TypeOK, Registered
<1>5. ASSUME NEW t \in Swaps PROVE SwapOK(t, swap'[t], object')
  BY <1>1, <1>2, OtherSwaps
<1>6. ASSUME NEW o \in Objects, object'[o].status = "terminating"
      PROVE  \E t \in Swaps : Terminated(swap'[t], o)
  <2>1. CASE o = swap[s].old
    BY <2>1, <1>1, <1>2, <1>6
  <2>2. CASE o # swap[s].old
    <3>1. PICK t \in Swaps : Terminated(swap[t], o)
      BY <2>2, <1>1, <1>6 DEF IInv, Justified
    <3>2. t # s
      BY <3>1 DEF Terminated
    <3> QED
      BY <3>1, <3>2, <1>2
  <2> QED
    BY <2>1, <2>2
<1> QED
  BY <1>4, <1>5, <1>6 DEF IInv, Justified

LEMMA PauseAgentKeeps ==
    ASSUME IInv, NEW s \in Swaps, PauseAgent(s) PROVE IInv'
<1>1. /\ swap[s].pc = "pause" /\ UNCHANGED <<registry, reports>>
      /\ object' = [object EXCEPT ![swap[s].old].status = "paused"]
  BY DEF PauseAgent, At
<1>2. /\ swap[s] \in Swap /\ swap[s].old \in Objects /\ object[swap[s].old] \in Registration
      /\ object[s] = Unborn /\ s \in Objects /\ swap[s].status = "running"
      /\ swap[s].known <= swap[s].snapshot
  BY <1>1, Begun DEF Before
<1>3. \A p \in Objects : Grows(object[p], object'[p])
  BY <1>1, <1>2, OldStatus
<1>4. object'[swap[s].old] \in Registration /\ object'[s] = Unborn
  BY <1>2, <1>3 DEF Grows
<1>5. CASE Fail(s, "returned")
  <2> DEFINE w == [swap[s] EXCEPT !.pc = "returned", !.status = "failed"]
  <2>1. w \in Swap /\ SwapOK(s, w, object')
    BY <1>2, <1>4, Failing, FailingIsOK
  <2>2. swap' = [swap EXCEPT ![s] = w]
    BY <1>5 DEF Fail
  <2> HIDE DEF w
  <2> QED
    BY <2>1, <2>2, <1>1, <1>2, StatusStep
<1>6. CASE swap' = [swap EXCEPT ![s].pc = "transfer", ![s].paused = TRUE]
  <2> DEFINE w == [swap[s] EXCEPT !.pc = "transfer", !.paused = TRUE]
  <2>1. /\ w \in Swap /\ w.pc = "transfer" /\ w.old = swap[s].old /\ w.status = "running"
        /\ w.known = swap[s].known /\ w.snapshot = swap[s].snapshot
    BY <1>2 DEF Swap
  <2>2. swap' = [swap EXCEPT ![s] = w]
    BY <1>6
  <2> HIDE DEF w
  <2>3. SwapOK(s, w, object')
    BY <2>1, <1>2, <1>4 DEF SwapOK, After, Before
  <2> QED
    BY <2>1, <2>2, <2>3, <1>1, <1>2, StatusStep
<1> QED
  BY <1>5, <1>6 DEF PauseAgent

LEMMA TransferStateKeeps ==
    ASSUME IInv, NEW s \in Swaps, TransferState(s) PROVE IInv'
<1> DEFINE new == Active(NewName[s], swap[s].snapshot)
           w == [swap[s] EXCEPT !.pc = "start"]
<1>1. /\ swap[s].pc = "transfer" /\ NewName[s] # "" /\ UNCHANGED reports
      /\ object' = [object EXCEPT ![s] = new]
      /\ registry' = [registry EXCEPT ![NewName[s]] = s]
      /\ swap' = [swap EXCEPT ![s] = w]
  BY DEF TransferState, At, Register, GoTo
<1>2. /\ swap[s] \in Swap /\ swap[s].old \in Objects /\ object[swap[s].old] \in Registration
      /\ object[s] = Unborn /\ s \in Objects /\ swap[s].status = "running"
      /\ swap[s].known <= swap[s].snapshot
  BY <1>1, Begun DEF Before
<1>3. NewName[s] \in Names /\ swap[s].snapshot \in States
  BY <1>1, <1>2, ArgumentAssumption DEF Swap
<1>4. new \in Registration /\ new.status = "active" /\ new.state = swap[s].snapshot
  BY <1>3 DEF Active, Registration
<1>5. /\ w \in Swap /\ w.pc = "start" /\ w.old = swap[s].old /\ w.status = "running"
      /\ w.known = swap[s].known /\ w.snapshot = swap[s].snapshot
  BY <1>2 DEF Swap
<1>a. swap[s].snapshot \in Nat
  BY <1>2, Numbers
<1> HIDE DEF new, w
<1>6. /\ object \in [Objects -> Registration \cup {Unborn}]
      /\ registry \in [Names -> Objects \cup {None}]
  BY DEF IInv, TypeOK
<1>7. object'[s] = new /\ \A p \in Objects \ {s} : object'[p] = object[p]
  BY <1>1, <1>2, <1>6
<1>8. swap'[s] = w /\ \A t \in Swaps \ {s} : swap'[t] = swap[t]
  BY <1>1, OneSwap
<1>9. swap' \in [Swaps -> Swap \cup {NotCalled, NotFound}]
  BY <1>1, <1>5 DEF IInv, TypeOK
<1>10. TypeOK'
  BY <1>1, <1>2, <1>3, <1>4, <1>6, <1>9 DEF IInv, TypeOK
<1>11. Registered'
  BY <1>1, <1>3, <1>4, <1>6, <1>7 DEF IInv, Registered
<1>12. SwapOK(s, w, object')
  <2>1. swap[s].old # s
    BY <1>2, KindsOfObject
  <2>2. object'[w.old] \in Registration
    BY <2>1, <1>2, <1>5, <1>7
  <2>3. w.snapshot <= object'[s].state
    BY <1>a, <1>4, <1>5, <1>7
  <2> QED
    BY <2>2, <2>3, <1>2, <1>4, <1>5, <1>7 DEF SwapOK, After, Before
<1>13. ASSUME NEW t \in Swaps PROVE SwapOK(t, swap'[t], object')
  <2>1. \A p \in Objects \ {s} : Grows(object[p], object'[p])
    BY <1>7, GrowsReflexive
  <2> QED
    BY <2>1, <1>2, <1>8, <1>12, OtherSwapsAtBirth
<1>14. Justified'
  BY <1>1, <1>4, <1>7, <1>8, JustifiedKept DEF IInv
<1> QED
  BY <1>10, <1>11, <1>13, <1>14 DEF IInv

LEMMA TransferFailsKeeps ==
    ASSUME IInv, NEW s \in Swaps, TransferFails(s) PROVE IInv'
BY FailKeeps DEF TransferFails, At, Before

\* A step of s that only moves on, from start or verify.
LEMMA MoveOn ==
    ASSUME IInv, NEW s \in Swaps, swap[s].pc \in {"start", "verify"},
           NEW w, NEW pc \in {"verify", "terminate"}, w = [swap[s] EXCEPT !.pc = pc] \/
              w = [swap[s] EXCEPT !.pc = pc, !.answered = TRUE],
           pc = "terminate" => w.answered,
           swap' = [swap EXCEPT ![s] = w],
           UNCHANGED <<object, registry, reports>>
    PROVE  IInv'
<1>1. /\ swap[s] \in Swap /\ object[swap[s].old] \in Registration
      /\ swap[s].status = "running" /\ object[s] \in Registration
      /\ swap[s].known <= swap[s].snapshot /\ swap[s].snapshot <= object[s].state
  BY Begun DEF After
<1>2. /\ w \in Swap /\ w.pc = pc /\ w.old = swap[s].old /\ w.status = "running"
      /\ w.known = swap[s].known /\ w.snapshot = swap[s].snapshot
  BY <1>1 DEF Swap
<1>3. SwapOK(s, w, object)
  BY <1>1, <1>2 DEF SwapOK, After, Before
<1> QED
  BY <1>2, <1>3, SwapMoves

LEMMA StartNewAgentKeeps ==
    ASSUME IInv, NEW s \in Swaps, StartNewAgent(s) PROVE IInv'
<1>1. CASE Fail(s, "resume")
  BY <1>1, FailKeeps DEF StartNewAgent, At
<1>2. CASE GoTo(s, "verify")
  BY <1>2, MoveOn DEF StartNewAgent, At, GoTo
<1> QED
  BY <1>1, <1>2 DEF StartNewAgent

LEMMA VerifyAgentKeeps ==
    ASSUME IInv, NEW s \in Swaps, VerifyAgent(s) PROVE IInv'
<1>1. CASE Fail(s, "resume")
  BY <1>1, FailKeeps DEF VerifyAgent, At
<1>2. CASE swap' = [swap EXCEPT ![s].pc = "terminate", ![s].answered = TRUE]
  <2> DEFINE w == [swap[s] EXCEPT !.pc = "terminate", !.answered = TRUE]
  <2>1. swap[s].pc = "verify" /\ UNCHANGED <<object, registry, reports>>
    BY DEF VerifyAgent, At
  <2>2. swap[s] \in Swap
    BY <2>1, Begun DEF After
  <2>3. w.answered
    BY <2>2 DEF Swap
  <2>4. swap' = [swap EXCEPT ![s] = w]
    BY <1>2
  <2>5. w = [swap[s] EXCEPT !.pc = "terminate", !.answered = TRUE]
    OBVIOUS
  <2> HIDE DEF w
  <2> QED
    BY <2>1, <2>3, <2>4, <2>5, MoveOn
<1> QED
  BY <1>1, <1>2 DEF VerifyAgent

LEMMA TerminateAgentKeeps ==
    ASSUME IInv, NEW s \in Swaps, TerminateAgent(s) PROVE IInv'
<1> DEFINE w == [swap[s] EXCEPT !.pc = "unregister"]
<1>1. /\ swap[s].pc = "terminate" /\ UNCHANGED <<registry, reports>>
      /\ object' = [object EXCEPT ![swap[s].old].status = "terminating"]
      /\ swap' = [swap EXCEPT ![s] = w]
  BY DEF TerminateAgent, At, GoTo
<1>2. /\ swap[s] \in Swap /\ swap[s].old \in Objects /\ object[swap[s].old] \in Registration
      /\ s \in Objects /\ swap[s].status = "running" /\ object[s] \in Registration
      /\ swap[s].known <= swap[s].snapshot /\ swap[s].snapshot <= object[s].state /\ swap[s].answered
  BY <1>1, Begun DEF After
<1>3. \A p \in Objects : Grows(object[p], object'[p])
  BY <1>1, <1>2, OldStatus
<1>4. /\ w \in Swap /\ w.pc = "unregister" /\ w.old = swap[s].old /\ w.status = "running"
      /\ w.known = swap[s].known /\ w.snapshot = swap[s].snapshot /\ w.answered = swap[s].answered
  BY <1>2 DEF Swap
<1> HIDE DEF w
<1>a. /\ object'[w.old] \in Registration /\ object'[s] \in Registration
      /\ w.known <= w.snapshot /\ object[s].state <= object'[s].state
  BY <1>2, <1>3, <1>4 DEF Grows
<1>b. /\ w.snapshot \in Nat /\ object[s].state \in Nat /\ object'[s].state \in Nat
      /\ w.snapshot <= object[s].state
  BY <1>2, <1>4, <1>a, Numbers
<1>5. /\ object'[w.old] \in Registration /\ object'[s] \in Registration
      /\ w.known <= w.snapshot /\ w.snapshot <= object'[s].state
  BY <1>a, <1>b
<1>6. SwapOK(s, w, object')
  BY <1>2, <1>4, <1>5 DEF SwapOK, After, Before
<1>7. Terminated(w, swap[s].old)
  BY <1>2, <1>4 DEF Terminated
<1> QED
  BY <1>1, <1>2, <1>4, <1>6, <1>7, StatusStep

LEMMA UnregisterOldKeeps ==
    ASSUME IInv, NEW s \in Swaps, UnregisterOld(s) PROVE IInv'
<1> DEFINE w == [swap[s] EXCEPT !.pc = "returned", !.status = "completed"]
           n == object[swap[s].old].name
<1>1. /\ swap[s].pc = "unregister" /\ UNCHANGED <<object, reports>>
      /\ registry' = [registry EXCEPT ![n] = None]
      /\ swap' = [swap EXCEPT ![s] = w]
  BY DEF UnregisterOld, At, Unregister
<1>2. /\ swap[s] \in Swap /\ swap[s].old \in Objects /\ object[swap[s].old] \in Registration
      /\ swap[s].status = "running" /\ object[s] \in Registration
      /\ swap[s].known <= swap[s].snapshot /\ swap[s].snapshot <= object[s].state /\ swap[s].answered
  BY <1>1, Begun DEF After
<1>3. /\ w \in Swap /\ w.pc = "returned" /\ w.old = swap[s].old /\ w.status = "completed"
      /\ w.known = swap[s].known /\ w.snapshot = swap[s].snapshot /\ w.answered = swap[s].answered
  BY <1>2 DEF Swap
<1> HIDE DEF w, n
<1>4. swap'[s] = w /\ \A t \in Swaps \ {s} : swap'[t] = swap[t]
  BY <1>1, OneSwap
<1>5. TypeOK' /\ Registered'
  BY <1>1, <1>3 DEF IInv, TypeOK, Registered
<1>6. SwapOK(s, w, object)
  BY <1>2, <1>3 DEF SwapOK, After, Before
<1>7. ASSUME NEW t \in Swaps PROVE SwapOK(t, swap'[t], object')
  BY <1>1, <1>4, <1>6, ObjectsOfSwap
<1>8. ASSUME NEW o \in Objects, NEW t \in Swaps, Terminated(swap[t], o)
      PROVE  Terminated(swap'[t], o)
  BY <1>2, <1>3, <1>4, <1>8 DEF Terminated
<1>9. Justified'
  BY <1>1, <1>8 DEF IInv, Justified
<1> QED
  BY <1>5, <1>7, <1>9 DEF IInv

LEMMA ResumeAgentKeeps ==
    ASSUME IInv, NEW s \in Swaps, ResumeAgent(s) PROVE IInv'
<1> DEFINE w == [swap[s] EXCEPT !.pc = "returned"]
<1>1. /\ swap[s].pc = "resume" /\ UNCHANGED <<registry, reports>>
      /\ object' = [object EXCEPT ![swap[s].old].status = "active"]
      /\ swap' = [swap EXCEPT ![s] = w]
  BY DEF ResumeAgent, At, GoTo
<1>2. /\ swap[s] \in Swap /\ swap[s].old \in Objects /\ object[swap[s].old] \in Registration
      /\ s \in Objects /\ object[s] \in Registration \cup {Unborn}
      /\ swap[s].status # "completed"
  BY <1>1, Begun
<1>3. \A p \in Objects : Grows(object[p], object'[p])
  BY <1>1, <1>2, OldStatus
<1>4. w \in Swap /\ w.pc = "returned" /\ w.old = swap[s].old /\ w.status = swap[s].status
  BY <1>2 DEF Swap
<1> HIDE DEF w
<1>5. object'[w.old] \in Registration /\ object'[s] \in Registration \cup {Unborn}
  BY <1>2, <1>3, <1>4 DEF Grows
<1>6. SwapOK(s, w, object')
  BY <1>2, <1>4, <1>5 DEF SwapOK, After, Before
<1> QED
  BY <1>1, <1>2, <1>4, <1>6, StatusStep

-----------------------------------------------------------------------------
(* Theorems.                                                               *)

\* What a step of t does to its swap session.
LEMMA SessionOf ==
    ASSUME IInv, NEW t \in Swaps, SwapAgent(t) \/ Steps(t)
    PROVE  /\ \A s \in Swaps \ {t} : swap'[s] = swap[s]
           /\ swap'[t] \in Swap =>
                 \/ swap[t] \in Swap /\ swap'[t].old = swap[t].old
                 \/ swap[t] \notin Swap /\ swap'[t].old = registry[OldName[t]] /\ registry[OldName[t]] # None
<1>0. swap \in [Swaps -> Swap \cup {NotCalled, NotFound}]
  BY DEF IInv, TypeOK
<1>1. CASE SwapAgent(t)
  <2>1. swap[t].pc = "idle"
    BY <1>1 DEF SwapAgent, At
  <2>2. swap[t] \notin Swap
    BY <2>1, KindsOfSwap
  <2>3. NotFound \notin Swap
    BY DEF NotFound, Swap
  <2> QED
    BY <1>0, <1>1, <2>2, <2>3 DEF SwapAgent
<1>2. CASE Steps(t)
  <2>1. swap[t] \in Swap
    BY <1>2, Begun DEF Steps, CaptureState, PauseAgent, TransferState, TransferFails, StartNewAgent,
       VerifyAgent, TerminateAgent, UnregisterOld, ResumeAgent, At, Before, After
  <2>2. \A s \in Swaps \ {t} : swap'[s] = swap[s]
    BY <1>0, <1>2 DEF Steps, CaptureState, PauseAgent, TransferState, TransferFails, StartNewAgent,
       VerifyAgent, TerminateAgent, UnregisterOld, ResumeAgent, Fail, GoTo
  <2>3. swap'[t].old = swap[t].old
    <3>1. CASE CaptureState(t)
      BY <1>0, <2>1, <3>1 DEF CaptureState, Fail, Swap
    <3>2. CASE PauseAgent(t)
      BY <1>0, <2>1, <3>2 DEF PauseAgent, Fail, Swap
    <3>3. CASE TransferState(t) \/ TransferFails(t)
      BY <1>0, <2>1, <3>3 DEF TransferState, TransferFails, Fail, GoTo, Swap
    <3>4. CASE StartNewAgent(t)
      BY <1>0, <2>1, <3>4 DEF StartNewAgent, Fail, GoTo, Swap
    <3>5. CASE VerifyAgent(t)
      BY <1>0, <2>1, <3>5 DEF VerifyAgent, Fail, GoTo, Swap
    <3>6. CASE TerminateAgent(t) \/ ResumeAgent(t)
      BY <1>0, <2>1, <3>6 DEF TerminateAgent, ResumeAgent, GoTo, Swap
    <3>7. CASE UnregisterOld(t)
      BY <1>0, <2>1, <3>7 DEF UnregisterOld, Swap
    <3> QED
      BY <1>2, <3>1, <3>2, <3>3, <3>4, <3>5, <3>6, <3>7 DEF Steps
  <2> QED
    BY <2>1, <2>2, <2>3
<1> QED
  BY <1>1, <1>2

\* A step that changes neither states nor snapshots.
LEMMA StatesKept ==
    ASSUME IInv, Current, reports' = reports,
           \A o \in Objects : object'[o] \in Registration =>
              object[o] \in Registration /\ object'[o].state = object[o].state,
           \A s \in Swaps : swap'[s] \in Swap =>
              swap'[s].snapshot = 0 \/ (swap[s] \in Swap /\ swap'[s].snapshot = swap[s].snapshot)
    PROVE  Current'
BY ReportAssumption DEF Current, IInv, TypeOK, States

\* Reports are numbered one after the other, so that none is older than what
\* it replaces (UpdateAgentState, captureState, transferState).
LEMMA CurrentKept == ASSUME IInv, Current, [Next]_vars PROVE Current'
<1>0. /\ object \in [Objects -> Registration \cup {Unborn}]
      /\ swap \in [Swaps -> Swap \cup {NotCalled, NotFound}]
      /\ reports \in Nat /\ Swaps \subseteq Objects
  BY ReportAssumption DEF IInv, TypeOK, States, Objects
<1>1. ASSUME NEW s \in Swaps, SwapAgent(s) PROVE Current'
  <2>1. UNCHANGED <<object, registry, reports>>
    BY <1>1 DEF SwapAgent
  <2>2. swap'[s] \in Swap => swap'[s].snapshot = 0
    BY <1>0, <1>1 DEF SwapAgent, NotFound, Swap
  <2>3. \A t \in Swaps \ {s} : swap'[t] = swap[t]
    BY <1>1, SessionOf
  <2> QED
    BY <2>1, <2>2, <2>3, StatesKept
<1>2. ASSUME NEW s \in Swaps, CaptureState(s) PROVE Current'
  <2>1. swap[s] \in Swap /\ swap[s].old \in Objects /\ object[swap[s].old] \in Registration
    BY <1>2, Begun DEF CaptureState, At, Before
  <2>2. UNCHANGED <<object, reports>> /\ \A t \in Swaps \ {s} : swap'[t] = swap[t]
    BY <1>2, SessionOf DEF Steps, CaptureState
  <2>3. \/ swap'[s] = [swap[s] EXCEPT !.pc = "pause", !.snapshot = object[swap[s].old].state]
        \/ swap'[s] = [swap[s] EXCEPT !.pc = "returned", !.status = "failed"]
    BY <1>0, <1>2 DEF CaptureState, Fail
  <2>4. swap'[s].snapshot \in {swap[s].snapshot, object[swap[s].old].state}
    BY <2>1, <2>3 DEF Swap
  <2>5. swap'[s].snapshot <= reports
    BY <2>1, <2>4 DEF Current
  <2> QED
    BY <2>2, <2>5 DEF Current
<1>3. ASSUME NEW s \in Swaps, TransferState(s) PROVE Current'
  <2>1. /\ swap[s] \in Swap /\ object' = [object EXCEPT ![s] = Active(NewName[s], swap[s].snapshot)]
        /\ swap' = [swap EXCEPT ![s].pc = "start"] /\ reports' = reports
    BY <1>3, Begun DEF TransferState, Register, GoTo, At, Before
  <2>2. /\ object'[s] = Active(NewName[s], swap[s].snapshot)
        /\ \A o \in Objects \ {s} : object'[o] = object[o]
    BY <1>0, <2>1
  <2>3. object'[s].state = swap[s].snapshot
    BY <2>2 DEF Active
  <2>4. \A t \in Swaps : swap'[t] \in Swap => swap[t] \in Swap /\ swap'[t].snapshot = swap[t].snapshot
    BY <1>0, <2>1 DEF Swap, NotCalled, NotFound
  <2> QED
    BY <2>1, <2>2, <2>3, <2>4 DEF Current
<1>4. ASSUME NEW s \in Swaps, PauseAgent(s) \/ TerminateAgent(s) \/ ResumeAgent(s) PROVE Current'
  <2>1. swap[s] \in Swap /\ swap[s].old \in Objects /\ object[swap[s].old] \in Registration
    BY <1>4, Begun DEF PauseAgent, TerminateAgent, ResumeAgent, At, Before, After
  <2>2. PICK x \in {"active", "paused", "terminating"} :
          object' = [object EXCEPT ![swap[s].old].status = x]
    BY <1>4 DEF PauseAgent, TerminateAgent, ResumeAgent
  <2>3. /\ object'[swap[s].old] = [object[swap[s].old] EXCEPT !.status = x]
        /\ \A o \in Objects \ {swap[s].old} : object'[o] = object[o]
    BY <1>0, <2>1, <2>2
  <2>4. object'[swap[s].old].state = object[swap[s].old].state
    BY <2>1, <2>3, StatusOfRegistration
  <2>5. swap'[s].snapshot = swap[s].snapshot /\ reports' = reports
    BY <1>0, <1>4, <2>1 DEF PauseAgent, TerminateAgent, ResumeAgent, Fail, GoTo, Swap
  <2>6. \A t \in Swaps \ {s} : swap'[t] = swap[t]
    BY <1>4, SessionOf DEF Steps
  <2> QED
    BY <2>1, <2>3, <2>4, <2>5, <2>6, StatesKept
<1>5. ASSUME NEW s \in Swaps,
             TransferFails(s) \/ StartNewAgent(s) \/ VerifyAgent(s) \/ UnregisterOld(s)
      PROVE  Current'
  <2>1. swap[s] \in Swap
    BY <1>5, Begun DEF TransferFails, StartNewAgent, VerifyAgent, UnregisterOld, At, Before, After
  <2>2. UNCHANGED <<object, reports>>
    BY <1>5 DEF TransferFails, StartNewAgent, VerifyAgent, UnregisterOld
  <2>3. swap'[s].snapshot = swap[s].snapshot
    <3>1. CASE TransferFails(s) \/ StartNewAgent(s)
      BY <1>0, <3>1, <2>1 DEF TransferFails, StartNewAgent, Fail, GoTo, Swap
    <3>2. CASE VerifyAgent(s)
      BY <1>0, <3>2, <2>1 DEF VerifyAgent, Fail, GoTo, Swap
    <3>3. CASE UnregisterOld(s)
      BY <1>0, <3>3, <2>1 DEF UnregisterOld, Swap
    <3> QED
      BY <1>5, <3>1, <3>2, <3>3
  <2>4. \A t \in Swaps \ {s} : swap'[t] = swap[t]
    BY <1>5, SessionOf DEF Steps
  <2> QED
    BY <2>1, <2>2, <2>3, <2>4, StatesKept
<1>6. ASSUME NEW o \in Spares, NEW n \in Restarting, RegisterAgent(o, n) PROVE Current'
  <2>1. /\ o \in Objects /\ object' = [object EXCEPT ![o] = Active(n, 0)]
        /\ UNCHANGED <<swap, reports>>
    BY <1>6 DEF RegisterAgent, Register, Objects
  <2>2. object'[o] = Active(n, 0) /\ \A p \in Objects \ {o} : object'[p] = object[p]
    BY <1>0, <2>1
  <2>3. object'[o].state = 0
    BY <2>2 DEF Active
  <2> QED
    BY <1>0, <2>1, <2>2, <2>3 DEF Current
<1>7. ASSUME NEW n \in Names, UpdateAgentState(n) PROVE Current'
  <2>1. /\ registry[n] \in Objects /\ object[registry[n]] \in Registration
        /\ object' = [object EXCEPT ![registry[n]].state = reports + 1]
        /\ reports' = reports + 1 /\ swap' = swap
    BY <1>7 DEF UpdateAgentState, IInv, TypeOK, Registered
  <2>2. /\ object'[registry[n]] = [object[registry[n]] EXCEPT !.state = reports']
        /\ \A p \in Objects \ {registry[n]} : object'[p] = object[p]
    BY <1>0, <2>1
  <2>3. object'[registry[n]].state = reports'
    BY <2>1, <2>2 DEF Registration
  <2>4. \A p \in Objects : object[p] \in Registration => object[p].state \in Nat
    BY ReportAssumption DEF Registration, States
  <2>5. \A t \in Swaps : swap[t] \in Swap => swap[t].snapshot \in Nat
    BY ReportAssumption DEF Swap, States
  <2>6. \A k \in Nat : k <= reports => k <= reports'
    BY <1>0, <2>1
  <2>7. reports' <= reports'
    BY <1>0, <2>1
  <2>8. ASSUME NEW p \in Objects, object'[p] \in Registration PROVE object'[p].state <= reports'
    <3>1. CASE p = registry[n]
      BY <3>1, <2>3, <2>7
    <3>2. CASE p # registry[n]
      BY <3>2, <2>2, <2>4, <2>6, <2>8 DEF Current
    <3> QED
      BY <3>1, <3>2
  <2>9. \A t \in Swaps : swap'[t] \in Swap => swap'[t].snapshot <= reports'
    BY <2>1, <2>5, <2>6 DEF Current
  <2> QED
    BY <2>8, <2>9 DEF Current
<1>8. CASE UNCHANGED vars \/ \E n \in Restarting : UnregisterAgent(n)
  BY <1>8 DEF vars, UnregisterAgent, Current
<1> QED
  BY <1>1, <1>2, <1>3, <1>4, <1>5, <1>6, <1>7, <1>8 DEF Next, Steps

LEMMA CurrentAtFirst == Init => Current
<1> SUFFICES ASSUME Init PROVE Current
  OBVIOUS
<1>1. \A o \in Objects : object[o] = Unborn \/ object[o].state = 0
  BY DEF Init, Active
<1>2. \A s \in Swaps : swap[s] \notin Swap
  BY DEF Init, NotCalled, Swap
<1>3. reports = 0
  BY DEF Init
<1> QED
  BY <1>1, <1>2, <1>3, KindsOfObject DEF Current

LEMMA Invariance == Spec => []IInv
<1>1. IInv /\ Current /\ [Next]_vars => IInv'
  <2> SUFFICES ASSUME IInv, Current, [Next]_vars PROVE IInv'
    OBVIOUS
  <2>1. ASSUME NEW s \in Swaps, SwapAgent(s) PROVE IInv'
    BY <2>1, SwapAgentKeeps
  <2>2. ASSUME NEW s \in Swaps, Steps(s) PROVE IInv'
    BY <2>2, CaptureStateKeeps, PauseAgentKeeps, TransferStateKeeps, TransferFailsKeeps,
       StartNewAgentKeeps, VerifyAgentKeeps, TerminateAgentKeeps, UnregisterOldKeeps,
       ResumeAgentKeeps DEF Steps
  <2>3. ASSUME NEW o \in Spares, NEW n \in Restarting, RegisterAgent(o, n) PROVE IInv'
    BY <2>3, RegisterAgentKeeps
  <2>4. ASSUME NEW n \in Restarting, UnregisterAgent(n) PROVE IInv'
    BY <2>4, UnregisterAgentKeeps
  <2>5. ASSUME NEW n \in Names, UpdateAgentState(n) PROVE IInv'
    BY <2>5, UpdateAgentStateKeeps
  <2>6. ASSUME UNCHANGED vars PROVE IInv'
    BY <2>6 DEF vars, IInv, TypeOK, Registered, Justified
  <2> QED
    BY <2>1, <2>2, <2>3, <2>4, <2>5, <2>6 DEF Next
<1>2. IInv /\ Current /\ [Next]_vars => Current'
  BY CurrentKept
<1> QED
  BY InitHolds, CurrentAtFirst, <1>1, <1>2, PTL DEF Spec

\* Registrations, registry and swap sessions are well typed in every reachable
\* state of the coordinator.
THEOREM TypeCorrect == Spec => []TypeOK
<1>1. IInv => TypeOK
  BY DEF IInv
<1> QED
  BY <1>1, Invariance, PTL

\* However swaps, registrations and reports interleave, the successor of a
\* replaced agent has a state no older than the one the agent had reported when
\* its replacement began (captureState, transferState, UpdateAgentState).
THEOREM KnowledgeSurvives == Spec => []SuccessorIsUpToDate
<1>1. IInv => SuccessorIsUpToDate
  <2> SUFFICES ASSUME IInv, NEW s \in Swaps, swap[s].status = "completed"
               PROVE  swap[s].known <= swap[s].snapshot /\ swap[s].snapshot <= object[s].state
    BY DEF SuccessorIsUpToDate
  <2>1. SwapOK(s, swap[s], object) /\ swap[s] \notin {NotCalled, NotFound}
    BY ObjectsOfSwap DEF NotCalled, NotFound
  <2> QED
    BY <2>1 DEF SwapOK
<1> QED
  BY <1>1, Invariance, PTL

\* Only a swap whose new agent answered the ping terminates an agent.
THEOREM NoOneIsTerminatedForNothing == Spec => []TerminatedOnlyIfReplaced
<1>1. IInv => TerminatedOnlyIfReplaced
  BY DEF IInv, Justified, Terminated, TerminatedOnlyIfReplaced
<1> QED
  BY <1>1, Invariance, PTL

-----------------------------------------------------------------------------
(* Whole swaps.                                                            *)

\* A registration keeps its name.
NamesStay ==
    \A p \in Objects : object[p] \in Registration =>
        object'[p] \in Registration /\ object'[p].name = object[p].name

\* The registry, and the two objects of a swap, by their names.
Named ==
    /\ \A n \in Names : registry[n] # None => object[registry[n]].name = n
    /\ \A s \in Swaps : swap[s] \in Swap =>
          /\ object[swap[s].old].name = OldName[s]
          /\ object[s] \in Registration => object[s].name = NewName[s]

\* A swap that nobody disturbs, at every point of it.
Whole(s) ==
    swap[s] \in Swap =>
        /\ registry[OldName[s]] = IF swap[s].status = "completed" THEN None ELSE swap[s].old
        /\ swap[s].pc \in After \/ swap[s].status = "completed" =>
              NewName[s] \in Names /\ registry[NewName[s]] = s /\ object[s].status = "active"
        /\ swap[s].pc \in {"capture", "pause"} => ~ swap[s].paused
        /\ swap[s].pc = "returned" /\ swap[s].status = "failed" /\ swap[s].paused =>
              object[swap[s].old].status = "active"

\* A step of t that sets the status of its old agent.
LEMMA StatusOnly ==
    ASSUME IInv, NEW t \in Swaps, PauseAgent(t) \/ TerminateAgent(t) \/ ResumeAgent(t)
    PROVE  /\ swap[t] \in Swap /\ swap[t].old \in Objects
           /\ object'[swap[t].old] \in Registration
           /\ object'[swap[t].old].name = object[swap[t].old].name
           /\ \A p \in Objects \ {swap[t].old} : object'[p] = object[p]
           /\ registry' = registry
<1>1. swap[t] \in Swap /\ swap[t].old \in Objects /\ object[swap[t].old] \in Registration
  BY Begun DEF PauseAgent, TerminateAgent, ResumeAgent, At, Before, After
<1>2. PICK x \in {"active", "paused", "terminating"} :
         object' = [object EXCEPT ![swap[t].old].status = x]
  BY DEF PauseAgent, TerminateAgent, ResumeAgent
<1>3. object'[swap[t].old] = [object[swap[t].old] EXCEPT !.status = x]
      /\ \A p \in Objects \ {swap[t].old} : object'[p] = object[p]
  BY <1>1, <1>2 DEF IInv, TypeOK
<1>4. registry' = registry
  BY DEF PauseAgent, TerminateAgent, ResumeAgent
<1>5. [object[swap[t].old] EXCEPT !.status = x] \in Registration
      /\ [object[swap[t].old] EXCEPT !.status = x].name = object[swap[t].old].name
  BY <1>1 DEF Registration
<1> QED
  BY <1>1, <1>3, <1>4, <1>5

\* A registration that is made anew was none before.
LEMMA BornOnly ==
    ASSUME IInv, NEW o \in Objects, object[o] = Unborn, NEW n \in Names, NEW state \in States,
           Register(o, n, state)
    PROVE  /\ object'[o] \in Registration /\ object'[o].name = n /\ object'[o].status = "active"
           /\ \A p \in Objects \ {o} : object'[p] = object[p]
           /\ registry'[n] = o
           /\ \A m \in Names \ {n} : registry'[m] = registry[m]
<1>1. object'[o] = Active(n, state) /\ \A p \in Objects \ {o} : object'[p] = object[p]
  BY DEF Register, IInv, TypeOK
<1>2. registry'[n] = o /\ \A m \in Names \ {n} : registry'[m] = registry[m]
  BY DEF Register, IInv, TypeOK
<1>3. Active(n, state) \in Registration /\ Active(n, state).name = n /\ Active(n, state).status = "active"
  BY DEF Active, Registration
<1> QED
  BY <1>1, <1>2, <1>3

LEMMA Transferring ==
    ASSUME IInv, NEW t \in Swaps, TransferState(t)
    PROVE  /\ NewName[t] \in Names
           /\ object[t] = Unborn /\ t \in Objects
           /\ object'[t] \in Registration /\ object'[t].name = NewName[t] /\ object'[t].status = "active"
           /\ \A p \in Objects \ {t} : object'[p] = object[p]
           /\ registry'[NewName[t]] = t
           /\ \A m \in Names \ {NewName[t]} : registry'[m] = registry[m]
<1>1. swap[t].pc = "transfer" /\ NewName[t] \in Names
  BY ArgumentAssumption DEF TransferState, At
<1>2. object[t] = Unborn /\ t \in Objects /\ swap[t] \in Swap
  BY <1>1, Begun DEF Before
<1>3. swap[t].snapshot \in States
  BY <1>2 DEF Swap
<1>4. Register(t, NewName[t], swap[t].snapshot)
  BY DEF TransferState
<1> QED
  BY <1>1, <1>2, <1>3, <1>4, BornOnly

LEMMA Spare ==
    ASSUME IInv, NEW o \in Spares, NEW n \in Restarting, RegisterAgent(o, n)
    PROVE  /\ n \in Names /\ o \in Objects /\ object[o] = Unborn /\ swap' = swap
           /\ object'[o] \in Registration /\ object'[o].name = n
           /\ \A p \in Objects \ {o} : object'[p] = object[p]
           /\ registry'[n] = o
           /\ \A m \in Names \ {n} : registry'[m] = registry[m]
<1>1. n \in Names /\ o \in Objects /\ object[o] = Unborn /\ swap' = swap /\ Register(o, n, 0)
  BY ArgumentAssumption DEF RegisterAgent, Objects
<1>2. 0 \in States
  BY Numbers
<1> QED
  BY <1>1, <1>2, BornOnly

\* A report changes what its agent knows, nothing else.
LEMMA Reporting ==
    ASSUME IInv, NEW n \in Names, UpdateAgentState(n)
    PROVE  /\ registry' = registry /\ swap' = swap
           /\ \A p \in Objects : object[p] \in Registration =>
                 object'[p] \in Registration /\ object'[p].name = object[p].name
                 /\ object'[p].status = object[p].status
           /\ \A p \in Objects : object[p] \notin Registration => object'[p] = object[p]
<1> DEFINE r == object[registry[n]]
           u == reports + 1
<1>1. /\ registry[n] \in Objects /\ object[registry[n]] \in Registration
      /\ object' = [object EXCEPT ![registry[n]].state = u]
      /\ registry' = registry /\ swap' = swap
  BY DEF UpdateAgentState, IInv, TypeOK, Registered
<1>2. object'[registry[n]] = [r EXCEPT !.state = u]
      /\ \A p \in Objects \ {registry[n]} : object'[p] = object[p]
  BY <1>1 DEF IInv, TypeOK
<1>0. u \in States
  BY ReportAssumption DEF IInv, TypeOK, States, UpdateAgentState
<1> HIDE DEF u
<1>3. [r EXCEPT !.state = u] \in Registration
      /\ [r EXCEPT !.state = u].name = r.name
      /\ [r EXCEPT !.state = u].status = r.status
  BY <1>0, <1>1, StateOfRegistration
<1> QED
  BY <1>1, <1>2, <1>3

LEMMA Unregistering ==
    ASSUME IInv, NEW n \in Names, Unregister(n)
    PROVE  registry'[n] = None /\ \A m \in Names \ {n} : registry'[m] = registry[m]
BY DEF Unregister, IInv, TypeOK

\* The name a swap takes from the registry at its end is its own.
LEMMA UnregisteringOld ==
    ASSUME IInv, Named, NEW t \in Swaps, UnregisterOld(t)
    PROVE  /\ registry'[OldName[t]] = None /\ \A m \in Names \ {OldName[t]} : registry'[m] = registry[m]
           /\ object' = object
<1>1. swap[t] \in Swap
  BY Begun DEF UnregisterOld, At, After
<1>2. Unregister(OldName[t]) /\ OldName[t] \in Names /\ object' = object
  BY <1>1, ArgumentAssumption DEF UnregisterOld, Named
<1> QED
  BY <1>2, Unregistering

\* The steps that change neither registrations nor registry.
Silent(t) ==
    SwapAgent(t) \/ CaptureState(t) \/ TransferFails(t) \/ StartNewAgent(t) \/ VerifyAgent(t)

LEMMA SilentStep ==
    ASSUME NEW t, Silent(t) PROVE UNCHANGED <<object, registry>>
BY DEF Silent, SwapAgent, CaptureState, TransferFails, StartNewAgent, VerifyAgent

LEMMA StepsOf ==
    ASSUME NEW t, SwapAgent(t) \/ Steps(t)
    PROVE  \/ Silent(t) \/ TransferState(t) \/ UnregisterOld(t)
           \/ PauseAgent(t) \/ TerminateAgent(t) \/ ResumeAgent(t)
BY DEF Steps, Silent

LEMMA NamesKept ==
    ASSUME IInv, Named, [Next]_vars PROVE NamesStay
<1>1. ASSUME NEW t \in Swaps, SwapAgent(t) \/ Steps(t) PROVE NamesStay
  <2>1. CASE Silent(t)
    BY <2>1, SilentStep DEF NamesStay
  <2>2. CASE TransferState(t)
    BY <2>2, Transferring, KindsOfObject DEF NamesStay
  <2>3. CASE UnregisterOld(t)
    BY <2>3, UnregisteringOld DEF NamesStay
  <2>4. CASE PauseAgent(t) \/ TerminateAgent(t) \/ ResumeAgent(t)
    BY <2>4, StatusOnly DEF NamesStay
  <2> QED
    BY <1>1, <2>1, <2>2, <2>3, <2>4, StepsOf
<1>2. ASSUME NEW o \in Spares, NEW n \in Restarting, RegisterAgent(o, n) PROVE NamesStay
  BY <1>2, Spare, KindsOfObject DEF NamesStay
<1>3. ASSUME NEW n \in Restarting, UnregisterAgent(n) PROVE NamesStay
  BY <1>3 DEF UnregisterAgent, NamesStay
<1>4. ASSUME NEW n \in Names, UpdateAgentState(n) PROVE NamesStay
  BY <1>4, Reporting DEF NamesStay
<1>5. CASE UNCHANGED vars
  BY <1>5 DEF vars, NamesStay
<1> QED
  BY <1>1, <1>2, <1>3, <1>4, <1>5 DEF Next

\* The names of the registry after a step that puts o under n, if it registers
\* anything at all.
LEMMA RegistryNamed ==
    ASSUME IInv, Named, NamesStay,
           \A m \in Names : \/ registry'[m] = registry[m] \/ registry'[m] = None
                            \/ object'[registry'[m]].name = m
    PROVE  \A m \in Names : registry'[m] # None => object'[registry'[m]].name = m
<1> SUFFICES ASSUME NEW m \in Names, registry'[m] # None, registry'[m] = registry[m]
             PROVE  object'[registry'[m]].name = m
  OBVIOUS
<1>1. registry[m] \in Objects /\ object[registry[m]] \in Registration
  BY DEF IInv, TypeOK, Registered
<1> QED
  BY <1>1 DEF Named, NamesStay

\* The old agent of a swap that begins, and the new one it registers, are named
\* after its arguments.
LEMMA SwapNamed ==
    ASSUME IInv, Named, NamesStay, NEW s \in Swaps, swap'[s] \in Swap,
           \/ swap[s] \in Swap /\ swap'[s].old = swap[s].old
           \/ swap[s] \notin Swap /\ swap'[s].old = registry[OldName[s]] /\ registry[OldName[s]] # None,
           object'[s] \in Registration => object[s] \in Registration \/ object'[s].name = NewName[s]
    PROVE  /\ object'[swap'[s].old].name = OldName[s]
           /\ object'[s] \in Registration => object'[s].name = NewName[s]
<1>1. CASE swap[s] \in Swap /\ swap'[s].old = swap[s].old
  BY <1>1, ObjectsOfSwap DEF Named, NamesStay
<1>2. CASE swap[s] \notin Swap /\ swap'[s].old = registry[OldName[s]] /\ registry[OldName[s]] # None
  <2>1. OldName[s] \in Names /\ registry[OldName[s]] \in Objects /\ object[registry[OldName[s]]] \in Registration
    BY <1>2, ArgumentAssumption DEF IInv, TypeOK, Registered
  <2>2. object[s] = Unborn
    BY <1>2, ObjectsOfSwap DEF SwapOK
  <2> QED
    BY <1>2, <2>1, <2>2, KindsOfObject DEF Named, NamesStay
<1> QED
  BY <1>1, <1>2

LEMMA NamedKept ==
    ASSUME IInv, Named, [Next]_vars PROVE Named'
<1>0. NamesStay
  BY NamesKept
<1>a. ASSUME UNCHANGED swap,
             \A p \in Objects : object'[p] \in Registration => object[p] \in Registration \/ p \notin Swaps
      PROVE  \A s \in Swaps : swap'[s] \in Swap =>
                /\ object'[swap'[s].old].name = OldName[s]
                /\ object'[s] \in Registration => object'[s].name = NewName[s]
  BY <1>0, <1>a, SwapNamed, ObjectsOfSwap
<1>1. ASSUME NEW t \in Swaps, SwapAgent(t) \/ Steps(t) PROVE Named'
  <2>1. /\ \A m \in Names : \/ registry'[m] = registry[m] \/ registry'[m] = None
                            \/ object'[registry'[m]].name = m
        /\ \A p \in Objects : object'[p] \in Registration => object[p] \in Registration \/ p = t
        /\ object'[t] \in Registration => object[t] \in Registration \/ object'[t].name = NewName[t]
    <3>1. CASE Silent(t)
      BY <3>1, SilentStep
    <3>2. CASE TransferState(t)
      BY <3>2, Transferring
    <3>3. CASE UnregisterOld(t)
      BY <3>3, UnregisteringOld
    <3>4. CASE PauseAgent(t) \/ TerminateAgent(t) \/ ResumeAgent(t)
      BY <3>4, StatusOnly, ObjectsOfSwap
    <3> QED
      BY <1>1, <3>1, <3>2, <3>3, <3>4, StepsOf
  <2>2. \A m \in Names : registry'[m] # None => object'[registry'[m]].name = m
    BY <1>0, <2>1, RegistryNamed
  <2>3. ASSUME NEW s \in Swaps, swap'[s] \in Swap
        PROVE  /\ object'[swap'[s].old].name = OldName[s]
               /\ object'[s] \in Registration => object'[s].name = NewName[s]
    <3>1. \/ swap[s] \in Swap /\ swap'[s].old = swap[s].old
          \/ swap[s] \notin Swap /\ swap'[s].old = registry[OldName[s]] /\ registry[OldName[s]] # None
      BY <1>1, <2>3, SessionOf
    <3>2. s \in Objects
      BY DEF Objects
    <3> QED
      BY <1>0, <2>1, <2>3, <3>1, <3>2, SwapNamed
  <2> QED
    BY <2>2, <2>3 DEF Named
<1>2. ASSUME NEW o \in Spares, NEW n \in Restarting, RegisterAgent(o, n) PROVE Named'
  <2>1. \A m \in Names : registry'[m] # None => object'[registry'[m]].name = m
    BY <1>0, <1>2, Spare, RegistryNamed
  <2> QED
    BY <1>a, <1>2, <2>1, Spare, ObjectAssumption DEF Named
<1>3. ASSUME NEW n \in Restarting, UnregisterAgent(n) PROVE Named'
  <2>1. n \in Names /\ Unregister(n) /\ UNCHANGED <<object, swap>>
    BY <1>3, ArgumentAssumption DEF UnregisterAgent
  <2>2. \A m \in Names : registry'[m] # None => object'[registry'[m]].name = m
    BY <1>0, <2>1, Unregistering, RegistryNamed
  <2> QED
    BY <1>a, <2>1, <2>2 DEF Named
<1>4. ASSUME NEW n \in Names, UpdateAgentState(n) PROVE Named'
  <2>1. \A m \in Names : registry'[m] # None => object'[registry'[m]].name = m
    BY <1>0, <1>4, Reporting, RegistryNamed
  <2> QED
    BY <1>a, <1>4, <2>1, Reporting DEF Named
<1>5. CASE UNCHANGED vars
  BY <1>5 DEF vars, Named
<1> QED
  BY <1>1, <1>2, <1>3, <1>4, <1>5 DEF Next

-----------------------------------------------------------------------------
(* A swap that is alone.                                                   *)

\* What others may not do to it.
Undisturbed(s) ==
    /\ swap'[s] = swap[s]
    /\ \A n \in Names : n = OldName[s] \/ n = NewName[s] => registry'[n] = registry[n]
    /\ swap[s] \in Swap => object'[swap[s].old].status = object[swap[s].old].status
    /\ swap[s] \in Swap /\ object[s] \in Registration => object'[s].status = object[s].status

LEMMA UndisturbedStaysWhole ==
    ASSUME IInv, NEW s \in Swaps, Whole(s), Undisturbed(s) PROVE Whole(s)'
<1> SUFFICES ASSUME swap[s] \in Swap PROVE Whole(s)'
  BY DEF Whole, Undisturbed
<1>1. OldName[s] \in Names
  BY ArgumentAssumption
<1>2. swap[s].pc \in After \/ swap[s].status = "completed" => object[s] \in Registration
  BY ObjectsOfSwap, KindsOfSwap DEF SwapOK, NotCalled, NotFound
<1> QED
  BY <1>1, <1>2 DEF Whole, Undisturbed

\* The names of an alone swap are those of no other.
LEMMA AloneNames ==
    ASSUME NEW s \in Swaps, Alone(s), NEW t \in Swaps, t # s
    PROVE  /\ OldName[t] # OldName[s] /\ OldName[t] # NewName[s]
           /\ NewName[t] # OldName[s] /\ NewName[t] # NewName[s]
BY DEF Alone

\* The agents of another swap are neither the old nor the new one of s.
LEMMA AloneObjects ==
    ASSUME IInv, Named, NEW s \in Swaps, Alone(s), NEW t \in Swaps, t # s,
           swap[s] \in Swap, swap[t] \in Swap
    PROVE  swap[t].old # swap[s].old /\ (object[s] \in Registration => swap[t].old # s)
BY AloneNames DEF Named

LEMMA OthersDoNotDisturb ==
    ASSUME IInv, Named, NEW s \in Swaps, Alone(s), NEW t \in Swaps, t # s, SwapAgent(t) \/ Steps(t)
    PROVE  Undisturbed(s)
<1>1. swap'[s] = swap[s] /\ s \in Objects
  BY SessionOf DEF Objects
<1>2. swap[s] \in Swap => swap[s].old \in Objects /\ object[swap[s].old] \in Registration
  BY ObjectsOfSwap
<1>3. CASE Silent(t)
  BY <1>1, <1>3, SilentStep DEF Undisturbed
<1>4. CASE TransferState(t)
  BY <1>1, <1>2, <1>4, Transferring, AloneNames, KindsOfObject DEF Undisturbed
<1>5. CASE UnregisterOld(t)
  BY <1>1, <1>5, UnregisteringOld, AloneNames DEF Undisturbed
<1>6. CASE PauseAgent(t) \/ TerminateAgent(t) \/ ResumeAgent(t)
  BY <1>1, <1>2, <1>6, StatusOnly, AloneObjects DEF Undisturbed
<1> QED
  BY <1>3, <1>4, <1>5, <1>6, StepsOf

LEMMA RegistryDoesNotDisturb ==
    ASSUME IInv, NEW s \in Swaps, Alone(s),
           \/ \E o \in Spares, n \in Restarting : RegisterAgent(o, n)
           \/ \E n \in Restarting : UnregisterAgent(n)
           \/ \E n \in Names : UpdateAgentState(n)
    PROVE  Undisturbed(s)
<1>1. s \in Objects /\ (swap[s] \in Swap => swap[s].old \in Objects /\ object[swap[s].old] \in Registration)
  BY ObjectsOfSwap
<1>2. OldName[s] \notin Restarting /\ NewName[s] \notin Restarting
  BY DEF Alone
<1>3. ASSUME NEW o \in Spares, NEW n \in Restarting, RegisterAgent(o, n) PROVE Undisturbed(s)
  BY <1>1, <1>2, <1>3, Spare, KindsOfObject DEF Undisturbed
<1>4. ASSUME NEW n \in Restarting, UnregisterAgent(n) PROVE Undisturbed(s)
  <2>1. n \in Names /\ Unregister(n) /\ UNCHANGED <<object, swap>>
    BY <1>4, ArgumentAssumption DEF UnregisterAgent
  <2> QED
    BY <1>2, <2>1, Unregistering DEF Undisturbed
<1>5. ASSUME NEW n \in Names, UpdateAgentState(n) PROVE Undisturbed(s)
  BY <1>1, <1>5, Reporting DEF Undisturbed
<1> QED
  BY <1>3, <1>4, <1>5

\* A step of its own leaves it whole.
LEMMA OwnStepKeepsWhole ==
    ASSUME IInv, Named, NEW s \in Swaps, Alone(s), Whole(s), SwapAgent(s) \/ Steps(s)
    PROVE  Whole(s)'
<1> DEFINE w == swap[s]
           v == swap'[s]
<1>0. /\ swap \in [Swaps -> Swap \cup {NotCalled, NotFound}]
      /\ s \in Objects /\ OldName[s] \in Names /\ OldName[s] # NewName[s]
  BY ArgumentAssumption DEF IInv, TypeOK, Objects, Alone
<1>1. CASE SwapAgent(s)
  <2>1. v \in Swap => /\ registry[OldName[s]] = v.old
                      /\ v.status = "running" /\ v.pc = "capture" /\ ~ v.paused
                      /\ registry' = registry /\ object' = object
    BY <1>0, <1>1 DEF SwapAgent, NotFound, Swap
  <2> QED
    BY <2>1 DEF Whole, After
<1>2. CASE Steps(s)
  <2>1. w \in Swap /\ w.old \in Objects /\ object[w.old] \in Registration
        /\ w.status # "completed" /\ registry[OldName[s]] = w.old
    BY <1>2, Begun DEF Steps, CaptureState, PauseAgent, TransferState, TransferFails, StartNewAgent,
       VerifyAgent, TerminateAgent, UnregisterOld, ResumeAgent, At, Before, After, Whole
  <2>2. object[s] \in Registration => s # w.old
    BY <1>0, <2>1 DEF Named
  <2>3. CASE CaptureState(s)
    <3>1. /\ w.pc = "capture" /\ registry' = registry /\ object' = object
          /\ v.old = w.old /\ v.paused = w.paused
          /\ \/ v.pc = "pause" /\ v.status = w.status
             \/ v.pc = "returned" /\ v.status = "failed"
      BY <1>0, <2>1, <2>3 DEF CaptureState, Fail, At, Swap
    <3> QED
      BY <2>1, <3>1 DEF Whole, After
  <2>4. CASE PauseAgent(s)
    <3>1. /\ w.pc = "pause" /\ registry' = registry /\ v.old = w.old
          /\ \/ v.pc = "transfer" /\ v.status = w.status
             \/ v.pc = "returned" /\ v.status = "failed" /\ v.paused = w.paused
      BY <1>0, <2>1, <2>4 DEF PauseAgent, Fail, At, Swap
    <3> QED
      BY <2>1, <3>1 DEF Whole, After
  <2>5. CASE TransferState(s)
    <3>1. v.old = w.old /\ v.pc = "start" /\ v.status = w.status
      BY <1>0, <2>1, <2>5 DEF TransferState, GoTo, Swap
    <3>2. /\ NewName[s] \in Names /\ registry'[NewName[s]] = s
          /\ object'[s].status = "active" /\ registry'[OldName[s]] = registry[OldName[s]]
      BY <1>0, <2>5, Transferring
    <3> QED
      BY <2>1, <3>1, <3>2 DEF Whole
  <2>6. CASE TransferFails(s)
    <3>1. /\ registry' = registry /\ object' = object /\ v.old = w.old
          /\ v.pc = "resume" /\ v.status = "failed"
      BY <1>0, <2>1, <2>6 DEF TransferFails, Fail, Swap
    <3> QED
      BY <2>1, <3>1 DEF Whole, After
  <2>7. CASE StartNewAgent(s)
    <3>1. /\ w.pc = "start" /\ registry' = registry /\ object' = object /\ v.old = w.old
          /\ \/ v.pc = "verify" /\ v.status = w.status
             \/ v.pc = "resume" /\ v.status = "failed"
      BY <1>0, <2>1, <2>7 DEF StartNewAgent, Fail, GoTo, At, Swap
    <3> QED
      BY <2>1, <3>1 DEF Whole, After
  <2>8. CASE VerifyAgent(s)
    <3>1. /\ w.pc = "verify" /\ registry' = registry /\ object' = object /\ v.old = w.old
          /\ \/ v.pc = "terminate" /\ v.status = w.status
             \/ v.pc = "resume" /\ v.status = "failed"
      BY <1>0, <2>1, <2>8 DEF VerifyAgent, Fail, GoTo, At, Swap
    <3> QED
      BY <2>1, <3>1 DEF Whole, After
  <2>9. CASE TerminateAgent(s)
    <3>1. w.pc = "terminate" /\ v.old = w.old /\ v.pc = "unregister" /\ v.status = w.status
      BY <1>0, <2>1, <2>9 DEF TerminateAgent, GoTo, At, Swap
    <3>2. object[s] \in Registration
      BY <3>1, Begun DEF After
    <3>3. registry' = registry /\ object'[s] = object[s]
      BY <1>0, <2>2, <2>9, <3>2, StatusOnly
    <3> QED
      BY <2>1, <3>1, <3>3 DEF Whole, After
  <2>10. CASE UnregisterOld(s)
    <3>1. w.pc = "unregister" /\ v.old = w.old /\ v.pc = "returned" /\ v.status = "completed"
      BY <1>0, <2>1, <2>10 DEF UnregisterOld, At, Swap
    <3>2. registry'[OldName[s]] = None /\ object' = object
          /\ \A m \in Names \ {OldName[s]} : registry'[m] = registry[m]
      BY <2>10, UnregisteringOld
    <3>3. NewName[s] \in Names /\ registry[NewName[s]] = s /\ object[s].status = "active"
      BY <2>1, <3>1 DEF Whole, After
    <3> QED
      BY <1>0, <2>1, <3>1, <3>2, <3>3 DEF Whole
  <2>11. CASE ResumeAgent(s)
    <3>1. /\ registry' = registry /\ v.old = w.old /\ v.pc = "returned" /\ v.status = w.status
          /\ object' = [object EXCEPT ![w.old].status = "active"]
      BY <1>0, <2>1, <2>11 DEF ResumeAgent, GoTo, Swap
    <3>2. object'[w.old] = [object[w.old] EXCEPT !.status = "active"]
      BY <2>1, <3>1 DEF IInv, TypeOK
    <3>3. object'[w.old].status = "active"
      BY <2>1, <3>2 DEF Registration
    <3> QED
      BY <2>1, <3>1, <3>3 DEF Whole, After
  <2> QED
    BY <1>2, <2>3, <2>4, <2>5, <2>6, <2>7, <2>8, <2>9, <2>10, <2>11 DEF Steps
<1> QED
  BY <1>1, <1>2

\* Swaps that are alone are whole, at every point.
WInv == Named /\ \A s \in Swaps : Alone(s) => Whole(s)

LEMMA WholeAtFirst == Init => WInv
<1> SUFFICES ASSUME Init PROVE WInv
  OBVIOUS
<1>1. \A s \in Swaps : swap[s] = NotCalled /\ swap[s] \notin Swap
  BY DEF Init, NotCalled, Swap
<1>2. \A n \in Names : registry[n] # None => object[registry[n]].name = n
  BY ObjectAssumption, ArgumentAssumption DEF Init, Objects, Active
<1> QED
  BY <1>1, <1>2 DEF WInv, Named, Whole

LEMMA WholeKept == ASSUME IInv, WInv, [Next]_vars PROVE WInv'
<1>1. Named'
  BY NamedKept DEF WInv
<1>2. ASSUME NEW s \in Swaps, Alone(s) PROVE Whole(s)'
  <2>1. Named /\ Whole(s)
    BY <1>2 DEF WInv
  <2>2. CASE \E t \in Swaps : SwapAgent(t) \/ Steps(t)
    BY <1>2, <2>1, <2>2, OwnStepKeepsWhole, OthersDoNotDisturb, UndisturbedStaysWhole
  <2>3. CASE \/ \E o \in Spares, n \in Restarting : RegisterAgent(o, n)
             \/ \E n \in Restarting : UnregisterAgent(n)
             \/ \E n \in Names : UpdateAgentState(n)
    BY <1>2, <2>1, <2>3, RegistryDoesNotDisturb, UndisturbedStaysWhole
  <2>4. CASE UNCHANGED vars
    BY <2>1, <2>4 DEF vars, Whole
  <2> QED
    BY <2>2, <2>3, <2>4 DEF Next
<1> QED
  BY <1>1, <1>2 DEF WInv, Alone

LEMMA WholeInTheEnd == ASSUME IInv, WInv PROVE SwapsAreWhole
<1> SUFFICES ASSUME NEW s \in Swaps, Alone(s), swap[s].pc = "returned"
             PROVE  /\ swap[s].status = "completed" =>
                          /\ registry[NewName[s]] = s /\ object[s].status = "active"
                          /\ registry[OldName[s]] = None
                    /\ swap[s].status = "failed" /\ swap[s].paused =>
                          registry[OldName[s]] = swap[s].old /\ Serving(OldName[s])
  BY DEF SwapsAreWhole
<1>1. Whole(s)
  BY DEF WInv
<1>2. swap[s].status \in {"completed", "failed"} =>
        swap[s] \in Swap /\ swap[s].old \in Objects /\ None \notin Objects
  BY ObjectsOfSwap, KindsOfSwap, ObjectAssumption
<1> QED
  BY <1>1, <1>2 DEF Whole, Serving

\* A swap whose names nobody else uses ends with exactly one of its agents in
\* place, the new one when it completed, the old one, active, when it failed after
\* the pause, however many other swaps, restarts and updates interleave with it
\* (SwapAgent, rollback).
THEOREM SwapsStayWhole == Spec => []SwapsAreWhole
<1>1. Init => IInv /\ WInv
  BY InitHolds, WholeAtFirst
<1>2. IInv /\ WInv /\ [Next]_vars => WInv'
  BY WholeKept
<1>3. IInv /\ WInv => SwapsAreWhole
  BY WholeInTheEnd
<1> QED
  BY <1>1, <1>2, <1>3, Invariance, PTL DEF Spec

-----------------------------------------------------------------------------
(* Delphi sessions.                                                        *)

Good(ss, results) ==
    /\ Len(ss.rounds) <= MaxRounds
    /\ \A i \in 1 .. Len(ss.rounds) - 1 : ss.rounds[i].completed
    /\ ss.status = "active" =>
          Len(ss.rounds) > 0 /\ ~ss.rounds[Len(ss.rounds)].completed
    /\ results \in Nat /\ results <= (IF ss.status = "converged" THEN 1 ELSE 0)
    /\ ss.status = "converged" =>
          /\ Len(ss.rounds) > 0
          /\ ss.rounds[Len(ss.rounds)].completed
          /\ Cardinality(Responded(ss.rounds[Len(ss.rounds)])) >= MinParticipants

Placed(s) ==
    /\ session[s].status = "pending" <=> call[s] = "inserted"
    /\ call[s] \in {"idle", "checked", "inserted", "refused"} => session[s].rounds = <<>>
    /\ call[s] \in {"idle", "checked", "refused"} =>
          session[s].status = "none" /\ s \notin sessions
    /\ s \in expired => call[s] = "done"
    /\ call[s] \in {"checked", "inserted", "opened", "done"} =>
          Cardinality(Participants[s]) >= MinParticipants

RInv ==
    /\ DelphiTypeOK
    /\ \A s \in Sessions : Good(session[s], posted[s]) /\ Placed(s)

\* The parts of a step that touches only session s.
Touched(s) ==
    /\ session'[s] \in Session
    /\ posted'[s] \in Nat
    /\ Good(session'[s], posted'[s])
    /\ session' = [session EXCEPT ![s] = session'[s]]
    /\ posted' = [posted EXCEPT ![s] = posted'[s]]

\* Rounds completed in ss are the same in tt.
Keeps(ss, tt) ==
    \A i \in 1 .. Len(ss.rounds) :
        ss.rounds[i].completed => i <= Len(tt.rounds) /\ tt.rounds[i] = ss.rounds[i]

-----------------------------------------------------------------------------
(* Session objects.                                                        *)

LEMMA FieldsOfSession ==
    ASSUME NEW ss \in Session
    PROVE  /\ ss.status \in Status
           /\ ss.rounds \in Seq(Round)
           /\ Len(ss.rounds) \in Nat
           /\ \A i \in 1 .. Len(ss.rounds) : ss.rounds[i] \in Round
           /\ ss = [status |-> ss.status, rounds |-> ss.rounds]
BY DEF Session

LEMMA NewRoundIsRound == NewRound \in Round /\ ~NewRound.completed
<1>1. NoResponse \in Response \cup {NoResponse}
  OBVIOUS
<1>2. [a \in Agents |-> NoResponse] \in [Agents -> Response \cup {NoResponse}]
  BY <1>1
<1> QED
  BY <1>2 DEF NewRound, Round

\* Opening a round after all earlier ones are completed.
LEMMA Opening ==
    ASSUME NEW ss \in Session, Len(ss.rounds) < MaxRounds,
           \A i \in 1 .. Len(ss.rounds) : ss.rounds[i].completed,
           NEW tt, tt = [status |-> "active", rounds |-> Append(ss.rounds, NewRound)]
    PROVE  tt \in Session /\ Good(tt, 0) /\ Keeps(ss, tt)
<1> USE FieldsOfSession, NewRoundIsRound, LimitAssumption
<1>1. /\ tt.rounds \in Seq(Round) /\ Len(tt.rounds) = Len(ss.rounds) + 1
      /\ \A i \in 1 .. Len(ss.rounds) : tt.rounds[i] = ss.rounds[i]
      /\ tt.rounds[Len(ss.rounds) + 1] = NewRound
  OBVIOUS
<1>2. tt \in Session
  BY <1>1 DEF Session, Status
<1>3. Good(tt, 0)
  BY <1>1 DEF Good
<1>4. Keeps(ss, tt)
  BY <1>1 DEF Keeps
<1> QED
  BY <1>2, <1>3, <1>4

\* Replacing round n of a session.
LEMMA Replacing ==
    ASSUME NEW ss \in Session, NEW n \in 1 .. Len(ss.rounds), NEW r \in Round,
           NEW tt, tt = [ss EXCEPT !.rounds = [ss.rounds EXCEPT ![n] = r]]
    PROVE  /\ tt \in Session
           /\ tt.status = ss.status
           /\ Len(tt.rounds) = Len(ss.rounds)
           /\ tt.rounds[n] = r
           /\ \A i \in 1 .. Len(ss.rounds) : i # n => tt.rounds[i] = ss.rounds[i]
<1>1. ss.rounds \in Seq(Round) /\ Len(ss.rounds) \in Nat
  BY FieldsOfSession
<1>2. /\ [ss.rounds EXCEPT ![n] = r] \in Seq(Round)
      /\ Len([ss.rounds EXCEPT ![n] = r]) = Len(ss.rounds)
      /\ [ss.rounds EXCEPT ![n] = r][n] = r
      /\ \A i \in 1 .. Len(ss.rounds) : i # n => [ss.rounds EXCEPT ![n] = r][i] = ss.rounds[i]
  BY <1>1
<1>3. tt.rounds = [ss.rounds EXCEPT ![n] = r] /\ tt.status = ss.status /\ tt \in Session
  BY <1>2 DEF Session
<1> QED
  BY <1>2, <1>3

LEMMA WithResponseKeepsShape ==
    ASSUME NEW ss \in Session, NEW n \in 1 .. Len(ss.rounds), NEW a \in Agents,
           NEW response \in Response, NEW tt, tt = WithResponse(ss, n, a, response)
    PROVE  /\ tt \in Session
           /\ tt.status = ss.status
           /\ Len(tt.rounds) = Len(ss.rounds)
           /\ tt.rounds[n].completed = ss.rounds[n].completed
           /\ \A i \in 1 .. Len(ss.rounds) : i # n => tt.rounds[i] = ss.rounds[i]
<1> DEFINE r == [ss.rounds[n] EXCEPT !.responses = [ss.rounds[n].responses EXCEPT ![a] = response]]
<1>1. ss.rounds[n] \in Round
  BY FieldsOfSession
<1>2. [ss.rounds[n].responses EXCEPT ![a] = response] \in [Agents -> Response \cup {NoResponse}]
  BY <1>1 DEF Round
<1>3. r \in Round /\ r.completed = ss.rounds[n].completed
  BY <1>1, <1>2 DEF Round
<1>4. tt = [ss EXCEPT !.rounds = [ss.rounds EXCEPT ![n] = r]]
  BY DEF WithResponse
<1> HIDE DEF r
<1>5. /\ tt \in Session /\ tt.status = ss.status /\ Len(tt.rounds) = Len(ss.rounds)
      /\ tt.rounds[n] = r
      /\ \A i \in 1 .. Len(ss.rounds) : i # n => tt.rounds[i] = ss.rounds[i]
  BY <1>3, <1>4, Replacing
<1> QED
  BY <1>3, <1>5

LEMMA CompletedKeepsShape ==
    ASSUME NEW ss \in Session, NEW n \in 1 .. Len(ss.rounds), NEW tt, tt = Completed(ss, n)
    PROVE  /\ tt \in Session
           /\ tt.status = ss.status
           /\ Len(tt.rounds) = Len(ss.rounds)
           /\ tt.rounds[n].completed
           /\ tt.rounds[n].responses = ss.rounds[n].responses
           /\ \A i \in 1 .. Len(ss.rounds) : i # n => tt.rounds[i] = ss.rounds[i]
<1> DEFINE r == [ss.rounds[n] EXCEPT !.completed = TRUE]
<1>1. ss.rounds[n] \in Round
  BY FieldsOfSession
<1>2. r \in Round /\ r.completed /\ r.responses = ss.rounds[n].responses
  BY <1>1 DEF Round
<1>3. tt = [ss EXCEPT !.rounds = [ss.rounds EXCEPT ![n] = r]]
  BY DEF Completed
<1> HIDE DEF r
<1>4. /\ tt \in Session /\ tt.status = ss.status /\ Len(tt.rounds) = Len(ss.rounds)
      /\ tt.rounds[n] = r
      /\ \A i \in 1 .. Len(ss.rounds) : i # n => tt.rounds[i] = ss.rounds[i]
  BY <1>2, <1>3, Replacing
<1> QED
  BY <1>2, <1>4


-----------------------------------------------------------------------------
(* Rounds.                                                                 *)

\* What opening a round does to the messages.
LEMMA OpenedRound ==
    ASSUME DelphiTypeOK, NEW s \in Sessions, NEW ss \in Session, OpenRound(s, ss)
    PROVE  /\ session' = [session EXCEPT ![s] =
                   [status |-> "active", rounds |-> Append(ss.rounds, NewRound)]]
           /\ requests' \subseteq Request
<1>1. Len(ss.rounds) + 1 \in Nat
  BY FieldsOfSession
<1>2. Participants[s] \subseteq Agents
  BY SessionAssumption
<1>3. [session : {s}, round : {Len(ss.rounds) + 1}, agent : Participants[s]] \subseteq Request
  BY <1>1, <1>2 DEF Request
<1> QED
  BY <1>3 DEF OpenRound, DelphiTypeOK

\* Completing the only open round n of ss, which is session s with at most one
\* more response in it.
LEMMA CompletingRound ==
    ASSUME DelphiTypeOK, NEW s \in Sessions, NEW ss \in Session, NEW rest \in SUBSET Handler,
           posted[s] = 0, ss.status = "active", Good(ss, 0),
           NEW n \in Nat, n = Len(ss.rounds),
           Cardinality(Responded(ss.rounds[n])) >= MinParticipants,
           CompleteDelphiRound(s, ss, n, rest)
    PROVE  /\ Touched(s)
           /\ session'[s].status \in {"active", "converged"}
           /\ Keeps(ss, session'[s])
           /\ handlers' \subseteq Handler
           /\ requests' \subseteq Request
<1> DEFINE done == Completed(ss, n)
<1>1. n \in 1 .. Len(ss.rounds) /\ n \in 1 .. MaxRounds /\ ~ss.rounds[n].completed
  BY FieldsOfSession, LimitAssumption DEF Good
<1>2. /\ done \in Session /\ done.status = "active" /\ Len(done.rounds) = n
      /\ done.rounds[n].completed
      /\ done.rounds[n].responses = ss.rounds[n].responses
      /\ \A i \in 1 .. Len(ss.rounds) : i # n => done.rounds[i] = ss.rounds[i]
  BY <1>1, CompletedKeepsShape
<1>3. \A i \in 1 .. n : done.rounds[i].completed
  BY <1>1, <1>2 DEF Good
<1>4. Keeps(ss, done)
  BY <1>1, <1>2 DEF Keeps
<1>5. session \in [Sessions -> Session] /\ posted \in [Sessions -> Nat]
  BY DEF DelphiTypeOK
<1> HIDE DEF done
<1>6. CASE FinalizeDelphiConsensus(s, done, rest)
  <2>1. session' = [session EXCEPT ![s] = [done EXCEPT !.status = "converged"]]
        /\ posted' = [posted EXCEPT ![s] = posted'[s]] /\ posted'[s] \in {0, 1}
        /\ handlers' = rest /\ requests' = requests
    BY <1>5, <1>6 DEF FinalizeDelphiConsensus
  <2>2. session'[s] = [done EXCEPT !.status = "converged"]
    BY <2>1, <1>5
  <2>3. session'[s] \in Session /\ session'[s].rounds = done.rounds
        /\ session'[s].status = "converged"
    BY <2>2, <1>2 DEF Session, Status
  <2>4. Responded(session'[s].rounds[n]) = Responded(ss.rounds[n])
    BY <2>3, <1>2 DEF Responded
  <2>5. Good(session'[s], posted'[s])
    BY <2>1, <2>2, <2>3, <2>4, <1>1, <1>2, <1>3 DEF Good
  <2>6. Touched(s)
    BY <2>1, <2>2, <2>3, <2>5, <1>5 DEF Touched
  <2>7. Keeps(ss, session'[s])
    BY <2>3, <1>4 DEF Keeps
  <2> QED
    BY <2>1, <2>3, <2>6, <2>7 DEF DelphiTypeOK
<1>7. CASE n < MaxRounds /\ StartDelphiRound(s, done, rest)
  <2>1. OpenRound(s, done) /\ handlers' = rest \cup {Queued(s, n + 1)} /\ posted' = posted
    BY <1>7, <1>2 DEF StartDelphiRound
  <2>2. /\ session' = [session EXCEPT ![s] =
                [status |-> "active", rounds |-> Append(done.rounds, NewRound)]]
        /\ requests' \subseteq Request
    BY <2>1, <1>2, OpenedRound
  <2>3. session'[s] = [status |-> "active", rounds |-> Append(done.rounds, NewRound)]
    BY <2>2, <1>5
  <2>4. session'[s] \in Session /\ Good(session'[s], 0) /\ Keeps(done, session'[s])
    BY <2>3, <1>2, <1>3, <1>7, Opening
  <2>5. Touched(s)
    BY <2>1, <2>2, <2>3, <2>4, <1>5 DEF Touched
  <2>6. Keeps(ss, session'[s])
    BY <2>4, <1>2, <1>3, <1>4 DEF Keeps
  <2>7. handlers' \subseteq Handler
    BY <2>1 DEF Queued, Handler
  <2> QED
    BY <2>2, <2>3, <2>5, <2>6, <2>7
<1>8. \/ FinalizeDelphiConsensus(s, done, rest)
      \/ ~(n >= MaxRounds) /\ StartDelphiRound(s, done, rest)
  BY Zenon DEF CompleteDelphiRound, done
<1>9. ~(n >= MaxRounds) => n < MaxRounds
  BY <1>1, LimitAssumption
<1> QED
  BY <1>6, <1>7, <1>8, <1>9, Zenon

-----------------------------------------------------------------------------
(* The invariant.                                                          *)

LEMMA RoundsAtFirst == DelphiInit => RInv
<1> SUFFICES ASSUME DelphiInit PROVE RInv
  OBVIOUS
<1>1. \A s \in Sessions : session[s] = [status |-> "none", rounds |-> <<>>]
                          /\ posted[s] = 0 /\ call[s] = "idle"
  BY DEF DelphiInit
<1>2. <<>> \in Seq(Round) /\ Len(<<>>) = 0
  OBVIOUS
<1>3. [status |-> "none", rounds |-> <<>>] \in Session
  BY <1>2 DEF Session, Status
<1>4. DelphiTypeOK
  BY <1>3 DEF DelphiInit, DelphiTypeOK
<1>5. ASSUME NEW s \in Sessions PROVE Good(session[s], posted[s]) /\ Placed(s)
  BY <1>1, <1>2, LimitAssumption DEF Good, Placed, DelphiInit
<1> QED
  BY <1>4, <1>5 DEF RInv

\* A step that touches one session and leaves call, sessions and expired alone.
LEMMA TouchingOne ==
    ASSUME RInv, NEW s \in Sessions, Touched(s),
           call[s] \in {"opened", "done"}, session'[s].status # "pending",
           UNCHANGED <<call, sessions, expired>>,
           handlers' \subseteq Handler, requests' \subseteq Request
    PROVE  RInv'
<1>1. session \in [Sessions -> Session] /\ posted \in [Sessions -> Nat]
  BY DEF RInv, DelphiTypeOK
<1>2. session' \in [Sessions -> Session] /\ posted' \in [Sessions -> Nat]
  BY <1>1 DEF Touched
<1>3. DelphiTypeOK'
  BY <1>2 DEF RInv, DelphiTypeOK
<1>4. \A t \in Sessions \ {s} : session'[t] = session[t] /\ posted'[t] = posted[t]
  BY <1>1 DEF Touched
<1>5. ASSUME NEW t \in Sessions PROVE Good(session'[t], posted'[t])
  BY <1>4 DEF RInv, Touched
<1>6. ASSUME NEW t \in Sessions PROVE Placed(t)'
  <2>1. Placed(t)
    BY DEF RInv
  <2>2. CASE t = s
    BY <2>1, <2>2 DEF Placed
  <2>3. CASE t # s
    BY <2>1, <2>3, <1>4 DEF Placed
  <2> QED
    BY <2>2, <2>3
<1> QED
  BY <1>3, <1>5, <1>6 DEF RInv

\* Only call or handlers change, or nothing at all about a session.
LEMMA UntouchedGood ==
    ASSUME RInv, UNCHANGED <<session, posted>>
    PROVE  \A s \in Sessions : Good(session'[s], posted'[s])
BY DEF RInv

LEMMA StartCheckKeeps ==
    ASSUME RInv, NEW s \in Sessions, StartCheck(s) PROVE RInv'
<1>1. DelphiTypeOK'
  BY DEF RInv, DelphiTypeOK, StartCheck
<1>2. ASSUME NEW t \in Sessions PROVE Placed(t)'
  BY DEF RInv, DelphiTypeOK, Placed, StartCheck
<1> QED
  BY <1>1, <1>2, UntouchedGood DEF RInv, StartCheck

LEMMA StartInsertKeeps ==
    ASSUME RInv, NEW s \in Sessions, StartInsert(s) PROVE RInv'
<1>1. session \in [Sessions -> Session] /\ session[s].status = "none" /\ session[s].rounds = <<>>
  BY DEF RInv, DelphiTypeOK, Placed, StartInsert
<1>2. session'[s] = [session[s] EXCEPT !.status = "pending"]
      /\ \A t \in Sessions \ {s} : session'[t] = session[t]
  BY <1>1 DEF StartInsert
<1>3. session'[s] \in Session /\ session'[s].status = "pending" /\ session'[s].rounds = <<>>
  BY <1>1, <1>2 DEF Session, Status
<1>4. session' \in [Sessions -> Session]
  BY <1>1, <1>2, <1>3 DEF StartInsert
<1>5. DelphiTypeOK'
  BY <1>4 DEF RInv, DelphiTypeOK, StartInsert
<1>6. ASSUME NEW t \in Sessions PROVE Good(session'[t], posted'[t])
  <2>1. CASE t = s
    BY <2>1, <1>1, <1>3, LimitAssumption DEF RInv, Good, StartInsert
  <2>2. CASE t # s
    BY <2>2, <1>2 DEF RInv, StartInsert
  <2> QED
    BY <2>1, <2>2
<1>7. ASSUME NEW t \in Sessions PROVE Placed(t)'
  <2>1. CASE t = s
    BY <2>1, <1>3 DEF RInv, DelphiTypeOK, Placed, StartInsert
  <2>2. CASE t # s
    BY <2>2, <1>2 DEF RInv, DelphiTypeOK, Placed, StartInsert
  <2> QED
    BY <2>1, <2>2
<1> QED
  BY <1>5, <1>6, <1>7 DEF RInv

LEMMA StartFirstRoundKeeps ==
    ASSUME RInv, NEW s \in Sessions, StartFirstRound(s)
    PROVE  RInv' /\ Keeps(session[s], session'[s])
<1>1. /\ session \in [Sessions -> Session] /\ posted \in [Sessions -> Nat]
      /\ session[s] \in Session /\ session[s].rounds = <<>>
      /\ session[s].status = "pending" /\ posted[s] = 0
  BY DEF RInv, DelphiTypeOK, Placed, Good, StartFirstRound
<1>2. /\ session' = [session EXCEPT ![s] =
              [status |-> "active", rounds |-> Append(session[s].rounds, NewRound)]]
      /\ requests' \subseteq Request
  BY <1>1, OpenedRound DEF RInv, StartFirstRound
<1>3. session'[s] = [status |-> "active", rounds |-> Append(session[s].rounds, NewRound)]
      /\ \A t \in Sessions \ {s} : session'[t] = session[t]
  BY <1>1, <1>2
<1>a. Len(session[s].rounds) = 0 /\ Len(session[s].rounds) < MaxRounds
      /\ 1 .. Len(session[s].rounds) = {}
  BY <1>1, LimitAssumption
<1>4. session'[s] \in Session /\ Good(session'[s], 0) /\ Keeps(session[s], session'[s])
  BY <1>1, <1>3, <1>a, Opening
<1>5. session' \in [Sessions -> Session]
  BY <1>1, <1>2, <1>4
<1>6. DelphiTypeOK'
  BY <1>2, <1>5 DEF RInv, DelphiTypeOK, StartFirstRound
<1>7. ASSUME NEW t \in Sessions PROVE Good(session'[t], posted'[t])
  BY <1>1, <1>3, <1>4 DEF RInv, StartFirstRound
<1>8. ASSUME NEW t \in Sessions PROVE Placed(t)'
  <2>1. CASE t = s
    BY <2>1, <1>3 DEF RInv, DelphiTypeOK, Placed, StartFirstRound
  <2>2. CASE t # s
    BY <2>2, <1>3 DEF RInv, DelphiTypeOK, Placed, StartFirstRound
  <2> QED
    BY <2>1, <2>2
<1> QED
  BY <1>4, <1>6, <1>7, <1>8 DEF RInv

LEMMA StartFirstTimeoutKeeps ==
    ASSUME RInv, NEW s \in Sessions, StartFirstTimeout(s) PROVE RInv'
<1>1. DelphiTypeOK'
  BY DEF RInv, DelphiTypeOK, StartFirstTimeout, Queued, Handler
<1>2. ASSUME NEW t \in Sessions PROVE Placed(t)'
  BY DEF RInv, DelphiTypeOK, Placed, StartFirstTimeout
<1> QED
  BY <1>1, <1>2, UntouchedGood DEF RInv, StartFirstTimeout

\* A session with rounds was started.
LEMMA ActiveIsStarted ==
    ASSUME RInv, NEW s \in Sessions, session[s].status = "active"
    PROVE  /\ call[s] \in {"opened", "done"}
           /\ session[s] \in Session
           /\ Good(session[s], 0)
           /\ posted[s] = 0
           /\ Len(session[s].rounds) \in 1 .. MaxRounds
           /\ Cardinality(Participants[s]) >= MinParticipants
<1>1. session[s] \in Session /\ Good(session[s], posted[s]) /\ Placed(s)
  BY DEF RInv, DelphiTypeOK
<1>2. Len(session[s].rounds) \in Nat
  BY <1>1, FieldsOfSession
<1>3. posted[s] = 0 /\ Len(session[s].rounds) \in 1 .. MaxRounds
  BY <1>1, <1>2, LimitAssumption DEF Good
<1>4. call[s] \in {"opened", "done"}
  BY <1>1, <1>3 DEF RInv, DelphiTypeOK, Placed
<1> QED
  BY <1>1, <1>3, <1>4 DEF Placed


LEMMA SubmitKeeps ==
    ASSUME RInv, NEW s \in Sessions, NEW a \in Agents, NEW v \in Values, NEW r \in Nat,
           SubmitDelphiResponse(s, a, v, r)
    PROVE  RInv' /\ Keeps(session[s], session'[s])
           /\ session' = [session EXCEPT ![s] = session'[s]]
<1> DEFINE n == Len(session[s].rounds)
           answer == [value |-> v, asked |-> r]
           ss == WithResponse(session[s], n, a, answer)
<1>1. session[s].status = "active" /\ UNCHANGED <<call, sessions, expired>>
  BY DEF SubmitDelphiResponse
<1>2. /\ call[s] \in {"opened", "done"} /\ session[s] \in Session /\ Good(session[s], 0)
      /\ posted[s] = 0 /\ n \in 1 .. MaxRounds /\ n \in 1 .. Len(session[s].rounds) /\ n \in Nat
      /\ n = Len(session[s].rounds)
      /\ Cardinality(Participants[s]) >= MinParticipants
  BY <1>1, ActiveIsStarted, LimitAssumption
<1>3. answer \in Response
  BY DEF Response
<1>0. ss = WithResponse(session[s], n, a, answer)
  OBVIOUS
<1> HIDE DEF answer, n, ss
<1>4. /\ ss \in Session /\ ss.status = "active" /\ Len(ss.rounds) = n
      /\ ss.rounds[n].completed = session[s].rounds[n].completed
      /\ \A i \in 1 .. Len(session[s].rounds) : i # n => ss.rounds[i] = session[s].rounds[i]
  BY <1>1, <1>0, <1>2, <1>3, WithResponseKeepsShape
<1>5. ~session[s].rounds[n].completed
  BY <1>1, <1>2 DEF Good
<1>6. Good(ss, 0) /\ Keeps(session[s], ss)
  <2>1. \A i \in 1 .. n - 1 : session[s].rounds[i].completed
    BY <1>2 DEF Good
  <2>2. \A i \in 1 .. n - 1 : i \in 1 .. Len(session[s].rounds) /\ i # n
    BY <1>2
  <2>3. \A i \in 1 .. n - 1 : ss.rounds[i].completed
    BY <1>4, <2>1, <2>2
  <2>4. n <= MaxRounds /\ n > 0
    BY <1>2, LimitAssumption
  <2>5. Good(ss, 0)
    BY <1>4, <1>5, <2>3, <2>4 DEF Good
  <2>6. Keeps(session[s], ss)
    BY <1>2, <1>4, <1>5 DEF Keeps
  <2> QED
    BY <2>5, <2>6
<1>7. \/ /\ Cardinality(Responded(ss.rounds[n])) = Cardinality(Participants[s])
         /\ CompleteDelphiRound(s, ss, n, handlers)
      \/ /\ session' = [session EXCEPT ![s] = ss]
         /\ UNCHANGED <<handlers, requests, posted>>
  BY Zenon DEF SubmitDelphiResponse, ss, answer, n
<1>8. DelphiTypeOK /\ handlers \in SUBSET Handler /\ requests \subseteq Request
      /\ session \in [Sessions -> Session] /\ posted \in [Sessions -> Nat]
  BY DEF RInv, DelphiTypeOK
<1>9. CASE /\ Cardinality(Responded(ss.rounds[n])) = Cardinality(Participants[s])
           /\ CompleteDelphiRound(s, ss, n, handlers)
  <2>1. /\ Touched(s) /\ session'[s].status \in {"active", "converged"}
        /\ Keeps(ss, session'[s]) /\ handlers' \subseteq Handler /\ requests' \subseteq Request
    BY <1>9, <1>2, <1>4, <1>6, <1>8, CompletingRound
  <2>2. RInv'
    BY <2>1, <1>1, <1>2, TouchingOne
  <2>3. Keeps(session[s], session'[s])
    BY <2>1, <1>2, <1>4, <1>5, <1>6 DEF Keeps, n
  <2> QED
    BY <2>1, <2>2, <2>3 DEF Touched
<1>10. CASE session' = [session EXCEPT ![s] = ss] /\ UNCHANGED <<handlers, requests, posted>>
  <2>1. session'[s] = ss /\ posted'[s] = 0 /\ posted' = [posted EXCEPT ![s] = 0]
    BY <1>10, <1>8, <1>2
  <2>2. Touched(s)
    BY <2>1, <1>10, <1>4, <1>6 DEF Touched
  <2>3. RInv'
    BY <2>1, <2>2, <1>1, <1>2, <1>4, <1>8, <1>10, TouchingOne
  <2> QED
    BY <2>1, <2>3, <1>6, <1>10
<1> QED
  BY <1>7, <1>9, <1>10

LEMMA AcquireKeeps ==
    ASSUME RInv, NEW h \in handlers, AcquireTimeout(h) PROVE RInv'
<1>1. h \in Handler
  BY DEF RInv, DelphiTypeOK
<1>2. [h EXCEPT !.at = "timing"] \in Handler
  BY <1>1 DEF Handler
<1>3. DelphiTypeOK'
  BY <1>2 DEF RInv, DelphiTypeOK, AcquireTimeout
<1>4. ASSUME NEW t \in Sessions PROVE Placed(t)'
  BY DEF RInv, Placed, AcquireTimeout
<1> QED
  BY <1>3, <1>4, UntouchedGood DEF RInv, AcquireTimeout

\* A handler that is not stale belongs to the only open round.
LEMMA FreshHandler ==
    ASSUME RInv, NEW h \in handlers, ~Stale(h)
    PROVE  /\ h.session \in Sessions
           /\ session[h.session].status = "active"
           /\ h.round = Len(session[h.session].rounds)
           /\ h.round \in Nat
<1>1. h.session \in Sessions /\ h.round \in Nat \ {0}
  BY DEF RInv, DelphiTypeOK, Handler
<1>2. /\ session[h.session].status = "active"
      /\ ~(Len(session[h.session].rounds) < h.round)
      /\ ~session[h.session].rounds[h.round].completed
  BY DEF Stale
<1>3. Good(session[h.session], 0) /\ Len(session[h.session].rounds) \in 1 .. MaxRounds
  BY <1>1, <1>2, ActiveIsStarted
<1> QED
  BY <1>1, <1>2, <1>3, LimitAssumption DEF Good

LEMMA RoundTimeoutKeeps ==
    ASSUME RInv, NEW h \in handlers, RoundTimeout(h)
    PROVE  /\ RInv'
           /\ \/ session' = session
              \/ /\ h.session \in Sessions
                 /\ Keeps(session[h.session], session'[h.session])
                 /\ session' = [session EXCEPT ![h.session] = session'[h.session]]
<1> DEFINE s == h.session
           rest == handlers \ {h}
<1>1. /\ DelphiTypeOK /\ rest \in SUBSET Handler /\ requests \subseteq Request
      /\ session \in [Sessions -> Session] /\ posted \in [Sessions -> Nat]
  BY DEF RInv, DelphiTypeOK
<1>2. UNCHANGED <<call, sessions, expired>>
  BY DEF RoundTimeout
<1>3. CASE handlers' = rest /\ UNCHANGED <<session, requests, posted>>
  <2>1. DelphiTypeOK'
    BY <1>1, <1>2, <1>3 DEF DelphiTypeOK
  <2>2. ASSUME NEW t \in Sessions PROVE Placed(t)'
    BY <1>2, <1>3 DEF RInv, Placed
  <2> QED
    BY <2>1, <2>2, <1>3, UntouchedGood DEF RInv
<1>4. CASE /\ ~Stale(h)
           /\ Cardinality(Responded(session[s].rounds[h.round])) >= MinParticipants
           /\ CompleteDelphiRound(s, session[s], h.round, rest)
  <2>1. /\ s \in Sessions /\ session[s].status = "active"
        /\ h.round = Len(session[s].rounds) /\ h.round \in Nat
    BY <1>4, FreshHandler
  <2>2. /\ call[s] \in {"opened", "done"} /\ session[s] \in Session
        /\ Good(session[s], 0) /\ posted[s] = 0
    BY <2>1, ActiveIsStarted
  <2>3. /\ Touched(s) /\ session'[s].status \in {"active", "converged"}
        /\ Keeps(session[s], session'[s])
        /\ handlers' \subseteq Handler /\ requests' \subseteq Request
    BY <1>1, <1>4, <2>1, <2>2, CompletingRound
  <2>4. RInv'
    BY <2>1, <2>2, <2>3, <1>2, TouchingOne
  <2> QED
    BY <2>1, <2>3, <2>4 DEF Touched
<1>5. CASE /\ ~Stale(h) /\ session' = Failed(s)
           /\ handlers' = rest /\ UNCHANGED <<requests, posted>>
  <2>1. s \in Sessions /\ session[s].status = "active"
    BY <1>5, FreshHandler
  <2>2. /\ call[s] \in {"opened", "done"} /\ session[s] \in Session
        /\ Good(session[s], 0) /\ posted[s] = 0
    BY <2>1, ActiveIsStarted
  <2>3. session'[s] = [session[s] EXCEPT !.status = "failed"]
    BY <1>1, <1>5, <2>1 DEF Failed
  <2>4. /\ session'[s] \in Session /\ session'[s].status = "failed"
        /\ session'[s].rounds = session[s].rounds
    BY <2>2, <2>3 DEF Session, Status
  <2>5. posted'[s] = 0 /\ posted' = [posted EXCEPT ![s] = posted'[s]]
        /\ session' = [session EXCEPT ![s] = session'[s]]
    BY <1>1, <1>5, <2>2, <2>3 DEF Failed
  <2>6. Good(session'[s], posted'[s])
    BY <2>2, <2>4, <2>5 DEF Good
  <2>7. Touched(s)
    BY <2>4, <2>5, <2>6 DEF Touched
  <2>8. Keeps(session[s], session'[s])
    BY <2>2, <2>4, FieldsOfSession DEF Keeps
  <2>9. RInv'
    BY <2>1, <2>2, <2>4, <2>7, <1>1, <1>2, <1>5, TouchingOne
  <2> QED
    BY <2>1, <2>5, <2>8, <2>9
<1> QED
  BY <1>3, <1>4, <1>5 DEF RoundTimeout

LEMMA CallerCancelledKeeps ==
    ASSUME RInv, NEW h \in handlers, CallerCancelled(h) PROVE RInv'
<1>0. [h EXCEPT !.at = "gone"] \in Handler
  BY DEF RInv, DelphiTypeOK, Handler
<1>1. DelphiTypeOK'
  BY <1>0 DEF RInv, DelphiTypeOK, CallerCancelled
<1>2. ASSUME NEW t \in Sessions PROVE Placed(t)'
  BY DEF RInv, Placed, CallerCancelled
<1> QED
  BY <1>1, <1>2, UntouchedGood DEF RInv, CallerCancelled

LEMMA ExpireKeeps ==
    ASSUME RInv, NEW s \in Sessions, Expire(s) PROVE RInv'
<1>1. DelphiTypeOK'
  BY DEF RInv, DelphiTypeOK, Expire
<1>2. ASSUME NEW t \in Sessions PROVE Placed(t)'
  BY DEF RInv, Placed, Expire
<1> QED
  BY <1>1, <1>2, UntouchedGood DEF RInv, Expire

LEMMA CleanupKeeps ==
    ASSUME RInv, CleanupExpiredSessions
    PROVE  RInv' /\ \A t \in Sessions : Keeps(session[t], session'[t])
<1>1. ASSUME NEW t \in Sessions
      PROVE  \/ session'[t] = session[t]
             \/ /\ t \in expired /\ session[t].status \in {"active", "pending"}
                /\ session'[t] = [session[t] EXCEPT !.status = "expired"]
  BY DEF CleanupExpiredSessions
<1>2. ASSUME NEW t \in Sessions
      PROVE  /\ session'[t] \in Session /\ session'[t].rounds = session[t].rounds
             /\ Good(session'[t], posted'[t]) /\ Placed(t)'
             /\ Keeps(session[t], session'[t])
  <2>1. session[t] \in Session /\ Good(session[t], posted[t]) /\ Placed(t)
        /\ posted' = posted /\ call' = call /\ expired' = expired /\ sessions' = sessions \ expired
    BY DEF RInv, DelphiTypeOK, CleanupExpiredSessions
  <2>2. CASE session'[t] = session[t]
    BY <2>1, <2>2, FieldsOfSession DEF Placed, Keeps
  <2>3. CASE /\ t \in expired /\ session[t].status \in {"active", "pending"}
             /\ session'[t] = [session[t] EXCEPT !.status = "expired"]
    <3>1. session'[t] \in Session /\ session'[t].rounds = session[t].rounds
          /\ session'[t].status = "expired"
      BY <2>1, <2>3 DEF Session, Status
    <3>2. Good(session'[t], posted'[t])
      BY <2>1, <2>3, <3>1 DEF Good
    <3>3. call[t] = "done"
      BY <2>1, <2>3 DEF Placed
    <3>4. Placed(t)'
      BY <2>1, <3>1, <3>3 DEF Placed
    <3>5. Keeps(session[t], session'[t])
      BY <2>1, <3>1, FieldsOfSession DEF Keeps
    <3> QED
      BY <3>1, <3>2, <3>4, <3>5
  <2> QED
    BY <1>1, <2>2, <2>3
<1>3. session' \in [Sessions -> Session]
  BY <1>2 DEF CleanupExpiredSessions
<1>4. DelphiTypeOK'
  BY <1>3 DEF RInv, DelphiTypeOK, CleanupExpiredSessions
<1> QED
  BY <1>2, <1>4 DEF RInv

-----------------------------------------------------------------------------
(* Theorems.                                                               *)

LEMMA SameKept ==
    ASSUME RInv, session' = session
    PROVE  \A t \in Sessions : Keeps(session[t], session'[t])
BY FieldsOfSession DEF RInv, DelphiTypeOK, Keeps

LEMMA OneKept ==
    ASSUME RInv, NEW s \in Sessions, Keeps(session[s], session'[s]),
           session' = [session EXCEPT ![s] = session'[s]]
    PROVE  \A t \in Sessions : Keeps(session[t], session'[t])
<1>1. ASSUME NEW t \in Sessions, t # s PROVE session'[t] = session[t]
  BY <1>1 DEF RInv, DelphiTypeOK
<1>2. ASSUME NEW t \in Sessions, t # s PROVE Keeps(session[t], session'[t])
  BY <1>1, <1>2, FieldsOfSession DEF RInv, DelphiTypeOK, Keeps
<1> QED
  BY <1>2

LEMMA StepKeeps ==
    ASSUME RInv, [DelphiNext]_delphi_vars
    PROVE  RInv' /\ \A t \in Sessions : Keeps(session[t], session'[t])
<1>1. ASSUME NEW s \in Sessions, StartCheck(s)
      PROVE RInv' /\ \A t \in Sessions : Keeps(session[t], session'[t])
  BY <1>1, StartCheckKeeps, SameKept DEF StartCheck
<1>2. ASSUME NEW s \in Sessions, StartInsert(s)
      PROVE RInv' /\ \A t \in Sessions : Keeps(session[t], session'[t])
  <2>1. session \in [Sessions -> Session] /\ session[s].rounds = <<>>
    BY <1>2 DEF RInv, DelphiTypeOK, Placed, StartInsert
  <2>2. session' = [session EXCEPT ![s] = session'[s]]
    BY <1>2, <2>1 DEF StartInsert
  <2>3. Keeps(session[s], session'[s])
    BY <2>1 DEF Keeps
  <2> QED
    BY <1>2, <2>2, <2>3, StartInsertKeeps, OneKept
<1>3. ASSUME NEW s \in Sessions, StartFirstRound(s)
      PROVE RInv' /\ \A t \in Sessions : Keeps(session[t], session'[t])
  <2>1. session' = [session EXCEPT ![s] = session'[s]]
    BY <1>3 DEF RInv, DelphiTypeOK, StartFirstRound, OpenRound
  <2> QED
    BY <1>3, <2>1, StartFirstRoundKeeps, OneKept
<1>4. ASSUME NEW s \in Sessions, StartFirstTimeout(s)
      PROVE RInv' /\ \A t \in Sessions : Keeps(session[t], session'[t])
  BY <1>4, StartFirstTimeoutKeeps, SameKept DEF StartFirstTimeout
<1>5. ASSUME NEW s \in Sessions, Expire(s)
      PROVE RInv' /\ \A t \in Sessions : Keeps(session[t], session'[t])
  BY <1>5, ExpireKeeps, SameKept DEF Expire
<1>6. ASSUME Answer
      PROVE RInv' /\ \A t \in Sessions : Keeps(session[t], session'[t])
  <2>1. PICK q \in requests, v \in Values :
          SubmitDelphiResponse(q.session, q.agent, v, q.round)
    BY <1>6 DEF Answer
  <2>2. q.session \in Sessions /\ q.agent \in Agents /\ q.round \in Nat
    BY DEF RInv, DelphiTypeOK, Request
  <2> QED
    BY <2>1, <2>2, SubmitKeeps, OneKept
<1>7. ASSUME NEW h \in handlers, AcquireTimeout(h)
      PROVE RInv' /\ \A t \in Sessions : Keeps(session[t], session'[t])
  BY <1>7, AcquireKeeps, SameKept DEF AcquireTimeout
<1>8. ASSUME NEW h \in handlers, RoundTimeout(h)
      PROVE RInv' /\ \A t \in Sessions : Keeps(session[t], session'[t])
  BY <1>8, RoundTimeoutKeeps, SameKept, OneKept
<1>9. ASSUME NEW h \in handlers, CallerCancelled(h)
      PROVE RInv' /\ \A t \in Sessions : Keeps(session[t], session'[t])
  BY <1>9, CallerCancelledKeeps, SameKept DEF CallerCancelled
<1>10. ASSUME CleanupExpiredSessions
       PROVE RInv' /\ \A t \in Sessions : Keeps(session[t], session'[t])
  BY <1>10, CleanupKeeps
<1>11. ASSUME UNCHANGED delphi_vars
       PROVE RInv' /\ \A t \in Sessions : Keeps(session[t], session'[t])
  <2>1. RInv'
    BY <1>11 DEF RInv, DelphiTypeOK, Placed, delphi_vars
  <2> QED
    BY <1>11, <2>1, SameKept DEF delphi_vars
<1> QED
  BY <1>1, <1>2, <1>3, <1>4, <1>5, <1>6, <1>7, <1>8, <1>9, <1>10, <1>11 DEF DelphiNext, Start

LEMMA RoundsKept == DelphiSpec => []RInv
<1>1. RInv /\ [DelphiNext]_delphi_vars => RInv'
  BY StepKeeps
<1> QED
  BY RoundsAtFirst, <1>1, PTL DEF DelphiSpec

\* Sessions, rounds, responses, handlers and messages are well typed in every
\* reachable state of the consensus manager.
THEOREM DelphiTypeCorrect == DelphiSpec => []DelphiTypeOK
<1>1. RInv => DelphiTypeOK
  BY DEF RInv
<1> QED
  BY <1>1, RoundsKept, PTL

\* Rounds follow each other in order whatever competes to end them: responses,
\* late timers, expiry (completeDelphiRound, roundTimeoutHandler).
THEOREM RoundsFollowInOrder == DelphiSpec => []RoundsInOrder
<1>1. RInv => RoundsInOrder
  BY DEF RInv, Good, RoundsInOrder, LastRound
<1> QED
  BY <1>1, RoundsKept, PTL

\* A session posts at most one result, of a completed round in which at
\* least MinParticipants responded (finalizeDelphiConsensus).
THEOREM ResultsAreUnique == DelphiSpec => []OneResult
<1>1. RInv => OneResult
  BY DEF RInv, Good, OneResult, LastRound
<1> QED
  BY <1>1, RoundsKept, PTL

\* No response and no timer changes a completed round.
THEOREM CompletedRoundsStay == DelphiSpec => CompletedRoundsAreFinal
<1>1. RInv /\ [DelphiNext]_delphi_vars =>
        [\A s \in Sessions : \A i \in 1 .. Len(session[s].rounds) :
            session[s].rounds[i].completed =>
               /\ i <= Len(session'[s].rounds)
               /\ session'[s].rounds[i] = session[s].rounds[i]]_delphi_vars
  BY StepKeeps DEF Keeps
<1> QED
  BY <1>1, RoundsKept, PTL DEF DelphiSpec, CompletedRoundsAreFinal

=============================================================================
