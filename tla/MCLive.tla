-------------------------------- MODULE MCLive --------------------------------
(* Components with liveness properties and no state in common, checked in one *)
(* run: each behaviour is one of one part, fairness included, while the       *)
(* others stay as they began.                                                 *)
EXTENDS LLMFallback

CONSTANTS Controllers, MaxStarts

VARIABLES
    part,
    connected, chan, closed, run, runOn, alive, aliveOn, up, ctl, panic, cleared, overlapped

stream == <<connected, chan, closed, run, runOn, alive, aliveOn, up, ctl, panic, cleared, overlapped>>

Stream == INSTANCE BinanceStream

ASSUME LiveAssumption == LLMAssumption /\ Stream!StreamAssumption

MCInit == part \in {"llm", "stream"} /\ LLMInit /\ Stream!Init

\* A step of one part.
LLM(A) == part = "llm" /\ A /\ UNCHANGED <<part, stream>>
OfStream(A) == part = "stream" /\ A /\ UNCHANGED <<part, llm_vars>>

MCNext == LLM(LLMNext) \/ OfStream(Stream!Next)

\* The fairness of each part, for its own behaviours.
all == <<part, llm_vars, stream>>
MCFairness ==
    /\ \A c \in Callers : WF_all(LLM(Proceed(c)))
    /\ \A m \in Models : WF_all(LLM(Age(m))) /\ WF_all(LLM(GateTimeout(m)))
    /\ \A c \in Controllers : WF_all(OfStream(~ panic /\ Stream!Control(c)))
    /\ \A g \in Stream!Streams :
          /\ WF_all(OfStream(~ panic /\ Stream!RunStep(g)))
          /\ WF_all(OfStream(~ panic /\ Stream!KeepAlive(g)))

MCSpec == MCInit /\ [][MCNext]_all /\ MCFairness

\* What the races of both leave intact: a circuit that is closed counts fewer
\* failures than its threshold; a second stream, or a second close of the stop
\* channel, only comes from the windows the code leaves open.
RacesAreContained == LLMTypeOK /\ Stream!TypeOK /\ ClosedBelowThreshold /\ Stream!OneStream /\ Stream!NoDoubleClose

\* A circuit closes after enough successes only, and is probed before its timeout
\* only on a look that was overtaken (RecordSuccess, IsOpen).
CircuitsKeepOrder == ClosesAfterSuccesses /\ ProbesAfterTimeout

\* A primary model that works again is used again; a stream that was told to stop
\* ends, and so does the keep-alive of its key.
LiveGoesOn == PrimaryReturns /\ Stream!StoppedStreamsEnd /\ Stream!KeepAlivesEnd
=============================================================================
