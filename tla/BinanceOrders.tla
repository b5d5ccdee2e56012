---------------------------- MODULE BinanceOrders ----------------------------
(***************************************************************************)
(* The order table of the Binance client (internal/exchange/binance.go).   *)
(*                                                                         *)
(* Three writers keep it up to date: the answers to PlaceOrder and         *)
(* CancelOrder, which hold the client's mutex across the HTTP call and all *)
(* its retries; the answer to GetOrder, which takes the mutex only to      *)
(* write what it read earlier; and the execution reports of the user data  *)
(* stream, which arrive in order while the stream is up and are lost while *)
(* it is down.  The exchange itself is external: an order lives there from *)
(* the moment Binance accepts it, whatever becomes of the answer.          *)
(* Prices are left out; quantities are whole lots.                         *)
(***************************************************************************)
EXTENDS Integers, Sequences

CONSTANTS
    Callers,     \* goroutines that call the client
    NoCaller,
    Orders,      \* exchange order ids
    NoOrder,     \* not yet accepted by Binance, or not in the order table
    Qty,         \* ordered quantity of each order, in lots
    MaxRetries,  \* maxRetries of retryWithBackoff
    MaxFaults,   \* bound: errors of HTTP calls and of the database
    MaxDowns     \* bound: times the stream goes down

VARIABLES
    exch,        \* the orders at the exchange (external)
    orders,      \* b.orders and b.exchangeOrderToInternal, by exchange order id
    fills,       \* b.fills: recorded quantities
    row,         \* the orders table of the database
    lock,        \* who holds b.mu across an HTTP call
    call,        \* the call each caller is in
    up, wire,    \* the user data stream and the reports under way
    faults, downs,
    unanswered,  \* history: orders whose creation was never answered
    missed,      \* history: orders with a report lost while the stream was down
    overtaken,   \* history: orders last written from an answer older than a report
    dropped      \* history: orders a report of which was unknown to the client

vars == <<exch, orders, fills, row, lock, call, up, wire, faults, downs,
          unanswered, missed, overtaken, dropped>>

ExchStatus == {"NEW", "PARTIALLY_FILLED", "FILLED", "CANCELED", "EXPIRED"}
Status == {"pending", "open", "filled", "cancelled"}
Live == {"NEW", "PARTIALLY_FILLED"}
Final == {"filled", "cancelled"}
Filled(o) == 0 .. Qty[o]

\* What the constants are; NoOrder is no record of an order.
BinanceAssumption ==
    /\ NoCaller \notin Callers
    /\ Qty \in [Orders -> Nat \ {0}]
    /\ NoOrder \notin [status : ExchStatus \cup Status, filled : Nat]
    /\ MaxFaults \in Nat

Known == {o \in Orders : orders[o] # NoOrder}
Idle == [op |-> "idle"]

TypeOK ==
    /\ \A o \in Orders :
         /\ exch[o] \in [status : ExchStatus, filled : Filled(o)] \cup {NoOrder}
         /\ orders[o] \in [status : Status, filled : Filled(o)] \cup {NoOrder}
         /\ \A i \in DOMAIN fills[o] : fills[o][i] \in 1 .. Qty[o]
    /\ row \in [Orders -> Status \cup {"none"}]
    /\ lock \in Callers \cup {NoCaller}
    /\ up \in BOOLEAN
    /\ \A i \in DOMAIN wire : wire[i].o \in Orders

Init ==
    /\ exch = [o \in Orders |-> NoOrder] /\ orders = [o \in Orders |-> NoOrder]
    /\ fills = [o \in Orders |-> <<>>] /\ row = [o \in Orders |-> "none"]
    /\ lock = NoCaller /\ call = [c \in Callers |-> Idle]
    /\ up = FALSE /\ wire = <<>>
    /\ faults = 0 /\ downs = 0
    /\ unanswered = {} /\ missed = {} /\ overtaken = {} /\ dropped = {}

-----------------------------------------------------------------------------
(* Helpers.                                                                *)

\* convertBinanceOrder: a status it does not name makes the order pending.
ConvertBinanceOrder(x) ==
    [filled |-> x.filled,
     status |-> CASE x.status \in Live        -> "open"
                  [] x.status = "FILLED"      -> "filled"
                  [] x.status = "CANCELED"    -> "cancelled"
                  [] OTHER                    -> "pending"]

\* updateOrderFromBinance and the switch of handleOrderUpdate: a status they
\* do not name leaves the one before.
Updated(order, x) ==
    IF x.status \in Live \cup {"FILLED", "CANCELED"}
    THEN ConvertBinanceOrder(x)
    ELSE [order EXCEPT !.filled = x.filled]

\* The row after a write that may fail: an error is logged and forgotten.  An
\* UPDATE finds no row when the INSERT failed.
InsertRow(o, status) ==
    \/ row' = [row EXCEPT ![o] = status] /\ UNCHANGED faults
    \/ faults < MaxFaults /\ faults' = faults + 1 /\ UNCHANGED row
UpdateRow(o, status) ==
    IF row[o] = "none" THEN UNCHANGED <<row, faults>> ELSE InsertRow(o, status)

\* The exchange changes order o and reports it; last is the quantity of the
\* trade behind the report.
ExchangeWrites(o, x, last) ==
    /\ exch' = [exch EXCEPT ![o] = x]
    /\ wire' = IF up THEN Append(wire, [o |-> o, x |-> x, last |-> last]) ELSE wire
    /\ missed' = IF up THEN missed ELSE missed \cup {o}

ReleaseAndReturn(c) ==
    /\ lock' = NoCaller
    /\ call' = [call EXCEPT ![c] = Idle]

\* retryWithBackoff after an attempt that failed: another one if the error is
\* retryable and attempts are left, else the caller gets the error.
RetryWithBackoff(c) ==
    /\ faults < MaxFaults /\ faults' = faults + 1
    /\ \/ /\ call[c].tries < MaxRetries
          /\ call' = [call EXCEPT ![c].tries = @ + 1]
          /\ UNCHANGED lock
       \/ ReleaseAndReturn(c)

-----------------------------------------------------------------------------
(* PlaceOrder.                                                             *)

\* A request that validateOrder refuses changes nothing and is left out.
PlaceOrder(c) ==
    /\ call[c] = Idle /\ lock = NoCaller
    /\ \E o \in Orders : exch[o] = NoOrder
    /\ lock' = c
    /\ call' = [call EXCEPT ![c] = [op |-> "place", tries |-> 0]]
    /\ UNCHANGED <<exch, orders, fills, row, up, wire, faults, downs,
                   unanswered, missed, overtaken, dropped>>

\* One attempt reaches the exchange.  A limit order rests, a market order
\* fills or expires at once; the answer is on its way or lost.  Nothing in
\* the request ties a second attempt to the first.
CreateOrder(c) ==
    /\ call[c].op = "place"
    /\ \E o \in Orders, s \in {"NEW", "FILLED", "EXPIRED"} :
         /\ exch[o] = NoOrder
         /\ LET x == [status |-> s, filled |-> IF s = "FILLED" THEN Qty[o] ELSE 0]
            IN  /\ ExchangeWrites(o, x, x.filled)
                /\ \/ /\ call' = [call EXCEPT ![c] = [op |-> "placed", o |-> o, x |-> x]]
                      /\ UNCHANGED <<lock, faults, unanswered>>
                   \/ /\ RetryWithBackoff(c)
                      /\ unanswered' = unanswered \cup {o}
    /\ UNCHANGED <<orders, fills, row, up, downs, overtaken, dropped>>

\* The attempt never reaches the exchange, or is refused there.
CreateFails(c) ==
    /\ call[c].op = "place"
    /\ RetryWithBackoff(c)
    /\ UNCHANGED <<exch, orders, fills, row, up, wire, downs,
                   unanswered, missed, overtaken, dropped>>

\* The answer: table, reverse mapping, row, then the mutex is released.
StoreOrder(c) ==
    /\ call[c].op = "placed"
    /\ LET order == ConvertBinanceOrder(call[c].x)
       IN  /\ orders' = [orders EXCEPT ![call[c].o] = order]
           /\ InsertRow(call[c].o, order.status)
    /\ ReleaseAndReturn(c)
    /\ UNCHANGED <<exch, fills, up, wire, downs, unanswered, missed, overtaken, dropped>>

-----------------------------------------------------------------------------
(* CancelOrder and GetOrder.                                               *)

CancelOrder(c) ==
    /\ call[c] = Idle /\ lock = NoCaller
    /\ \E o \in Known :
         /\ orders[o].status \in {"open", "pending"}
         /\ call' = [call EXCEPT ![c] = [op |-> "cancel", o |-> o, tries |-> 0]]
    /\ lock' = c
    /\ UNCHANGED <<exch, orders, fills, row, up, wire, faults, downs,
                   unanswered, missed, overtaken, dropped>>

\* An attempt that Binance acknowledges: the order becomes cancelled here too.
CancelAcknowledged(c) ==
    /\ call[c].op = "cancel" /\ exch[call[c].o].status \in Live
    /\ LET o == call[c].o
       IN  /\ ExchangeWrites(o, [exch[o] EXCEPT !.status = "CANCELED"], 0)
           /\ orders' = [orders EXCEPT ![o].status = "cancelled"]
           /\ UpdateRow(o, "cancelled")
    /\ ReleaseAndReturn(c)
    /\ UNCHANGED <<fills, up, downs, unanswered, overtaken, dropped>>

\* An attempt that cancels and whose answer is lost, or that does neither.
\* Mutant: the order is cancelled here before the answer is known.
CancelAssumed(c) ==
    /\ call[c].op = "cancel"
    /\ orders' = [orders EXCEPT ![call[c].o].status = "cancelled"]
    /\ RetryWithBackoff(c)
    /\ UNCHANGED <<exch, fills, row, up, wire, downs, unanswered, missed, overtaken, dropped>>

CancelUnanswered(c) ==
    /\ call[c].op = "cancel"
    /\ \/ /\ exch[call[c].o].status \in Live
          /\ ExchangeWrites(call[c].o, [exch[call[c].o] EXCEPT !.status = "CANCELED"], 0)
       \/ UNCHANGED <<exch, wire, missed>>
    /\ RetryWithBackoff(c)
    /\ UNCHANGED <<orders, fills, row, up, downs, unanswered, overtaken, dropped>>

\* "Unknown order": filled, expired or cancelled by an earlier attempt.  Not
\* retryable, and the table is left as it was.
CancelTooLate(c) ==
    /\ call[c].op = "cancel" /\ exch[call[c].o].status \notin Live
    /\ ReleaseAndReturn(c)
    /\ UNCHANGED <<exch, orders, fills, row, up, wire, faults, downs,
                   unanswered, missed, overtaken, dropped>>

\* GetOrder reads the table under the read lock and releases it.
GetOrder(c) ==
    /\ call[c] = Idle /\ lock = NoCaller
    /\ \E o \in Known : call' = [call EXCEPT ![c] = [op |-> "get", o |-> o]]
    /\ UNCHANGED <<exch, orders, fills, row, lock, up, wire, faults, downs,
                   unanswered, missed, overtaken, dropped>>

\* The exchange answers with the order as it is now; or every attempt fails
\* and the caller gets the cached order.
GetAnswered(c) ==
    /\ call[c].op = "get"
    /\ \/ /\ call' = [call EXCEPT ![c] = [op |-> "got", o |-> call[c].o,
                                          x |-> exch[call[c].o]]]
          /\ UNCHANGED faults
       \/ /\ faults < MaxFaults /\ faults' = faults + 1
          /\ call' = [call EXCEPT ![c] = Idle]
    /\ UNCHANGED <<exch, orders, fills, row, lock, up, wire, downs,
                   unanswered, missed, overtaken, dropped>>

\* What was read is written under the mutex, with no look at what came in
\* between; the row of the database is not touched.
GetApplied(c) ==
    /\ call[c].op = "got" /\ lock = NoCaller
    /\ LET o == call[c].o
           x == call[c].x
       IN  /\ orders' = [orders EXCEPT ![o] = Updated(@, x)]
           /\ overtaken' = IF x = exch[o] THEN overtaken \ {o} ELSE overtaken \cup {o}
    /\ call' = [call EXCEPT ![c] = Idle]
    /\ UNCHANGED <<exch, fills, row, lock, up, wire, faults, downs,
                   unanswered, missed, dropped>>

-----------------------------------------------------------------------------
(* The exchange and the user data stream.                                  *)

\* A trade fills part or all of a resting order.
Trade(o, q) ==
    /\ exch[o] # NoOrder /\ exch[o].status \in Live /\ exch[o].filled + q <= Qty[o]
    /\ LET sum == exch[o].filled + q
       IN  ExchangeWrites(o, [status |-> IF sum = Qty[o] THEN "FILLED" ELSE "PARTIALLY_FILLED",
                              filled |-> sum], q)
    /\ UNCHANGED <<orders, fills, row, lock, call, up, faults, downs,
                   unanswered, overtaken, dropped>>

StreamUp ==
    /\ ~ up
    /\ up' = TRUE
    /\ UNCHANGED <<exch, orders, fills, row, lock, call, wire, faults, downs,
                   unanswered, missed, overtaken, dropped>>

\* The WebSocket closes: the reports not yet handled are lost.
StreamDown ==
    /\ up /\ downs < MaxDowns
    /\ up' = FALSE /\ downs' = downs + 1
    /\ missed' = missed \cup {wire[i].o : i \in DOMAIN wire}
    /\ wire' = <<>>
    /\ UNCHANGED <<exch, orders, fills, row, lock, call, faults,
                   unanswered, overtaken, dropped>>

\* handleOrderFilled: one fill per filled order, of its last trade.  The
\* position manager it calls is the client's own, which no code ever gives a
\* session, so it records nothing.
HandleOrderFilled(o, last) ==
    IF last > 0 THEN [fills EXCEPT ![o] = Append(@, last)] ELSE fills

\* Mutant: the report reaches the row only.
HandleRowOnly(e) ==
    /\ IF e.o \in Known THEN UpdateRow(e.o, Updated(orders[e.o], e.x).status)
                         ELSE UNCHANGED <<row, faults>>
    /\ UNCHANGED <<orders, fills, overtaken, dropped>>

Handle(e) ==
    IF e.o \notin Known
    THEN /\ dropped' = dropped \cup {e.o}
         /\ UNCHANGED <<orders, fills, row, faults, overtaken>>
    ELSE LET order == Updated(orders[e.o], e.x)
         IN  /\ orders' = [orders EXCEPT ![e.o] = order]
             /\ fills' = IF e.x.status = "FILLED" THEN HandleOrderFilled(e.o, e.last)
                                                  ELSE fills
             /\ UpdateRow(e.o, order.status)
             /\ overtaken' = overtaken \ {e.o}
             /\ UNCHANGED dropped

\* handleOrderUpdate.
HandleOrderUpdate ==
    /\ wire # <<>> /\ lock = NoCaller
    /\ Handle(Head(wire))
    /\ wire' = Tail(wire)
    /\ UNCHANGED <<exch, lock, call, up, downs, unanswered, missed>>

Next ==
    \/ \E c \in Callers :
         \/ PlaceOrder(c) \/ CreateOrder(c) \/ CreateFails(c) \/ StoreOrder(c)
         \/ CancelOrder(c) \/ CancelAcknowledged(c) \/ CancelUnanswered(c) \/ CancelTooLate(c)
         \/ GetOrder(c) \/ GetAnswered(c) \/ GetApplied(c)
    \/ \E o \in Orders : \E q \in 1 .. Qty[o] : Trade(o, q)
    \/ StreamUp \/ StreamDown \/ HandleOrderUpdate

Spec == Init /\ [][Next]_vars

-----------------------------------------------------------------------------
(* Properties.                                                             *)

\* The client never ends an order that still rests at the exchange: whatever
\* the order of answers, reports, retries and stale reads, an order it holds
\* as filled or cancelled is so at the exchange (CancelOrder,
\* updateOrderFromBinance, handleOrderUpdate).
EndedMeansEnded ==
    \A o \in Known :
        orders[o].status \in Final => ConvertBinanceOrder(exch[o]).status = orders[o].status

\* A report is dropped as unknown only if the answer to the creation was lost:
\* PlaceOrder keeps the mutex from the request to the mapping, so the report
\* of an order that filled at once waits for the mapping (PlaceOrder,
\* handleOrderUpdate).
DroppedOnlyUnanswered == dropped \subseteq unanswered

\* The client never counts more than the exchange executed, and records the
\* fill of a filled order once (updateOrderFromBinance, handleOrderFilled).
NeverAhead ==
    \A o \in Known :
        /\ orders[o].filled <= exch[o].filled
        /\ Len(fills[o]) <= 1
        /\ fills[o] # <<>> => exch[o].status = "FILLED" /\ fills[o][1] <= exch[o].filled

\* When no report is under way, the client's order is the exchange's unless a
\* report was lost with the stream, a lost cancel answer is still to be
\* reported, or a GetOrder answer overtook a later report: there is no other
\* way to be wrong at rest.  An expired order is one the code has no name for.
AgreesAtRest ==
    (wire = <<>> /\ lock = NoCaller) =>
        \A o \in Known \ (missed \cup overtaken) :
            orders[o] = Updated(orders[o], exch[o])

\* A filled or cancelled order becomes open again only through something older
\* than its end: the answer of a GetOrder read before it, or a report that was
\* on the wire when CancelOrder returned and is followed by the one of the end
\* (GetOrder writes after releasing the lock; CancelOrder does not wait for the
\* stream).
ReopenedOnlyByOlderNews ==
    [][\A o \in Known :
          orders[o].status \in Final /\ orders'[o].status \notin Final =>
             \/ o \in overtaken' \cup missed'
             \/ \E i \in DOMAIN wire' : wire'[i].o = o /\ wire'[i].x = exch[o]]_vars

\* Without errors and lost reports, an order that is over here is over in the
\* database as well, although GetOrder writes no row: the report of the end
\* follows on the stream (CancelOrder, handleOrderUpdate, GetOrder).
RowKnowsTheEnd ==
    (faults = 0 /\ wire = <<>> /\ lock = NoCaller) =>
        \A o \in Known \ missed :
            orders[o].status \in Final => row[o] = orders[o].status
=============================================================================
