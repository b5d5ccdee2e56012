------------------------------ MODULE MCTrading ------------------------------
(* The two exchanges behind the exchange service, live and paper, checked in *)
(* one run.  They share no state, so each behaviour is one of either part    *)
(* while the other stays as it began.                                        *)
EXTENDS BinanceOrders, TLC

CONSTANTS Symbols, PaperOrders, Sessions, NoSession, MaxQty, MinRequests, HalfOpenMax,
          MaxRequests, MaxCrashes,
          b1, b2   \* the live orders of the instance

VARIABLES
    part,        \* which exchange this behaviour is about
    session, pmSession, net, result, paperOrders, rows, sessions, breaker, req,
    paperFaults, crashes, booked, unsure, strayed, lostStop, late

paper == <<session, pmSession, net, result, paperOrders, rows, sessions, breaker, req,
           paperFaults, crashes, booked, unsure, strayed, lostStop, late>>

Paper == INSTANCE OrderService WITH
             Orders <- PaperOrders, orders <- paperOrders, faults <- paperFaults

ASSUME TradingAssumption == BinanceAssumption /\ Paper!ServiceAssumption

MCInit == part \in {"live", "paper"} /\ Init /\ Paper!Init

MCNext ==
    \/ part = "live" /\ Next /\ UNCHANGED <<part, paper>>
    \/ part = "paper" /\ Paper!Next /\ UNCHANGED <<part, vars>>

MCSpec == MCInit /\ [][MCNext]_<<part, vars, paper>>

\* Paper: fills reach the positions of their session, the net position is what
\* the session filled, and the rows of an order tell what became of it;
\* one session at a time, and no order outlives the one it was placed in (CreateOrder,
\* OnOrderFilled, StopSession).
FillsAreBooked ==
    /\ Paper!TypeOK /\ Paper!FillsReachPositions /\ Paper!NetIsSessionFills
    /\ Paper!RowsTellTheOrder /\ Paper!OneSession /\ Paper!NoLateOrder

\* Live: the order table of the client and the rows agree with the exchange once
\* nothing is on its way, are never ahead of it, and lose an order only when the
\* answer to it was lost.
TableFollowsExchange ==
    TypeOK /\ EndedMeansEnded /\ DroppedOnlyUnanswered /\ NeverAhead /\ AgreesAtRest /\ RowKnowsTheEnd

\* An order that has ended stays so on paper; live it is reopened only by news
\* that are older than its end.
EndsAreKept == Paper!EndsAreFinal /\ ReopenedOnlyByOlderNews

\* One of the two live orders is of two lots, so that it can fill in part.
MCQty == (b1 :> 2) @@ (b2 :> 1)

\* At most one mishap per behaviour, and an order that fills in parts does not
\* meet the other one halfway.
Bound ==
    /\ faults + downs <= 1 /\ paperFaults + crashes <= 1
    /\ ~ (exch[b2] # NoOrder /\ exch[b1] # NoOrder /\ exch[b1].filled = 1)

Symmetry == Permutations(Callers) \cup Permutations(PaperOrders) \cup Permutations(Sessions)
=============================================================================
