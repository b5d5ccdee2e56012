---------------------------- MODULE OrderService ----------------------------
(***************************************************************************)
(* The order executor in paper trading: the MCP server of                  *)
(* cmd/mcp-servers/order-executor, the exchange service it drives          *)
(* (internal/exchange/service.go), the simulated exchange (mock.go), the   *)
(* breaker in front of it (internal/risk/circuit_breaker.go over the       *)
(* gobreaker library, which is external) and the rows of the orders,       *)
(* trades and trading_sessions tables.                                     *)
(*                                                                         *)
(* Requests are read from stdin one at a time, so a request is a sequence  *)
(* of steps nothing interrupts but a crash of the process.  The position   *)
(* manager is used through what NetPosition promises of it.  Every         *)
(* database statement may fail, or be done and still return an error.      *)
(***************************************************************************)
EXTENDS Integers, Sequences, Functions, FiniteSets

CONSTANTS
    Symbols,       \* trading pairs
    Orders,        \* order ids
    Sessions,      \* ids of trading_sessions rows
    NoSession,     \* the nil session
    MaxQty,        \* bound: largest quantity of an order
    MinRequests,   \* ExchangeMinRequests
    HalfOpenMax,   \* ExchangeHalfOpenMaxReqs
    MaxRequests,   \* bound: requests the breaker counts in one interval
    MaxFaults,     \* bound: database errors
    MaxCrashes     \* bound: restarts of the process

\* What the constants are; the states of a booking are no sessions.
ServiceAssumption ==
    /\ NoSession \notin Sessions
    /\ Sessions \cap {"unused", "no", "refused"} = {}
    /\ MaxQty \in Nat \ {0} /\ MaxFaults \in Nat /\ MaxCrashes \in Nat
    /\ MinRequests \in Nat \ {0} /\ HalfOpenMax \in Nat \ {0}
    /\ MaxRequests \in Nat

VARIABLES
    session,     \* currentSessionID of the exchange
    pmSession,   \* currentSession of the position manager
    net,         \* its net position per symbol
    result,      \* its last answer
    orders,      \* m.orders and m.fills; NotHeld when not in memory
    rows,        \* the orders table, with the quantity of the order's trades
    sessions,    \* trading_sessions: "none", "active" or "stopped"
    breaker,     \* the exchange circuit breaker
    req,         \* the request being served
    faults, crashes,
    booked,      \* history: per order, the session its fills were booked under
    unsure,      \* history: orders with a database statement that failed
    strayed,     \* history: a load or a booking of this session failed
    lostStop,    \* history: sessions stopped in the database only
    late         \* history: sessions with an order placed after their stop

service == <<session, pmSession, net, result, strayed>>
history == <<booked, unsure, lostStop, late>>
vars == <<service, orders, rows, sessions, breaker, req, faults, crashes, history>>

NotHeld == [status |-> "none"]
Idle == [op |-> "idle"]
Used == {o \in Orders : booked[o] # "unused"}
Signed(side, q) == IF side = "buy" THEN q ELSE -q

PM == INSTANCE NetPosition WITH
          MaxFill <- MaxQty, active <- pmSession # NoSession

TypeOK ==
    /\ {session, pmSession} \subseteq Sessions \cup {NoSession}
    /\ net \in [Symbols -> Int] /\ result \in {"none", "ok", "error"}
    /\ \A o \in Orders :
         /\ orders[o].status \in {"none", "pending", "open", "filled", "cancelled"}
         /\ rows[o].status \in {"none", "NEW", "PARTIALLY_FILLED", "FILLED", "CANCELED"}
         /\ rows[o].traded \in 0 .. MaxQty
    /\ sessions \in [Sessions -> {"none", "active", "stopped"}]
    /\ breaker.state \in {"closed", "open", "half_open"}
    /\ req.op \in {"idle", "new", "placed"}

Closed == [state |-> "closed", requests |-> 0, failures |-> 0, successes |-> 0]

Start ==
    /\ session = NoSession /\ pmSession = NoSession
    /\ net = [s \in Symbols |-> 0] /\ result = "none" /\ strayed = FALSE
    /\ orders = [o \in Orders |-> NotHeld]
    /\ breaker = Closed

Init ==
    /\ Start
    /\ rows = [o \in Orders |-> [status |-> "none", session |-> NoSession, traded |-> 0]]
    /\ sessions = [s \in Sessions |-> "none"]
    /\ req = Idle /\ faults = 0 /\ crashes = 0
    /\ booked = [o \in Orders |-> "unused"] /\ unsure = {} /\ lostStop = {} /\ late = {}

-----------------------------------------------------------------------------
(* The breaker: gobreaker's counters with the thresholds of                *)
(* NewCircuitBreakerManagerWithSettings.  Calls come one at a time.        *)

Admits(b) ==
    b.state = "closed" \/ (b.state = "half_open" /\ b.requests < HalfOpenMax)

\* ReadyToTrip: at least MinRequests, of which 60% failed.
ReadyToTrip(b) == b.requests >= MinRequests /\ 5 * b.failures >= 3 * b.requests

After(b, ok) ==
    LET c == [b EXCEPT !.requests = @ + 1,
                       !.failures = IF ok THEN @ ELSE @ + 1,
                       !.successes = IF ok THEN @ + 1 ELSE 0]
    IN  CASE b.state = "closed" /\ ~ ok /\ ReadyToTrip(c)            -> [Closed EXCEPT !.state = "open"]
          [] b.state = "half_open" /\ ~ ok                           -> [Closed EXCEPT !.state = "open"]
          [] b.state = "half_open" /\ ok /\ c.successes >= HalfOpenMax -> Closed
          [] OTHER                                                   -> c

\* CountInterval clears the counts of a closed breaker, OpenTimeout half-opens.
BreakerTimer ==
    /\ breaker.state \in {"closed", "open"} /\ breaker # Closed
    /\ breaker' = IF breaker.state = "closed" THEN Closed
                  ELSE [Closed EXCEPT !.state = "half_open"]
    /\ UNCHANGED <<service, orders, rows, sessions, req, faults, crashes, history>>

-----------------------------------------------------------------------------
(* The statements of internal/db/orders.go and sessions.go.                *)

\* ConvertOrderStatus: an open order is stored as partially filled.
ConvertOrderStatus(s) ==
    CASE s = "pending"   -> "NEW"
      [] s = "open"      -> "PARTIALLY_FILLED"
      [] s = "filled"    -> "FILLED"
      [] s = "cancelled" -> "CANCELED"

InsertOrder(o) ==
    [rows EXCEPT ![o] = [status |-> "NEW", session |-> session, traded |-> 0]]

UpdateOrderStatus(tab, o, s) ==
    IF tab[o].status = "none" THEN tab
    ELSE [tab EXCEPT ![o].status = ConvertOrderStatus(s)]

\* trades.order_id references orders.
InsertTrade(tab, o, q) ==
    IF tab[o].status = "none" THEN tab ELSE [tab EXCEPT ![o].traded = @ + q]

\* The orders table becomes one of good, or a statement failed and it is one
\* of bad.  The caller logs the error and goes on.
Write(o, good, bad) ==
    \/ rows' \in good /\ UNCHANGED <<faults, unsure>>
    \/ /\ faults < MaxFaults /\ faults' = faults + 1
       /\ rows' \in bad
       /\ unsure' = unsure \cup {o}

-----------------------------------------------------------------------------
(* PlaceMarketOrder and PlaceLimitOrder.  Arguments that fail the checks   *)
(* in front of the breaker change nothing and are left out.                *)

\* PlaceOrder of the mock: the order is stored as pending and inserted.
PlaceOrder(o, type, symbol, side, q) ==
    /\ req = Idle /\ o \notin Used
    /\ Admits(breaker) /\ breaker.requests < MaxRequests
    /\ orders' = [orders EXCEPT ![o] = [status |-> "pending", type |-> type, symbol |-> symbol,
                                        side |-> side, qty |-> q, fills |-> <<>>]]
    /\ booked' = [booked EXCEPT ![o] = "no"]
    /\ Write(o, {InsertOrder(o)}, {rows, InsertOrder(o)})
    /\ late' = late \cup {s \in Sessions : s = session /\ sessions[s] = "stopped"}
    /\ req' = [op |-> "new", o |-> o]
    /\ UNCHANGED <<service, sessions, breaker, crashes, lostStop>>

PlaceMarketOrder(o) ==
    \E y \in Symbols, side \in {"buy", "sell"}, q \in 1 .. MaxQty :
        PlaceOrder(o, "market", y, side, q)

\* A limit order rests, whatever its side and quantity.
PlaceLimitOrder(o) == \E y \in Symbols : PlaceOrder(o, "limit", y, "buy", 1)

\* simulatePartialFills: up to five fills that add up to the quantity.
Splits(q) == {<<q>>} \cup {<<i, q - i>> : i \in 1 .. q - 1}

\* simulateMarketFill: the fills, their trades, the status.
SimulateMarketFill(o) ==
    \E f \in Splits(orders[o].qty) :
        LET traded == {InsertTrade(rows, o, q) : q \in 0 .. orders[o].qty}
        IN  /\ orders' = [orders EXCEPT ![o].status = "filled", ![o].fills = f]
            /\ Write(o, {UpdateOrderStatus(InsertTrade(rows, o, orders[o].qty), o, "filled")},
                        traded \cup {UpdateOrderStatus(t, o, "filled") : t \in traded})

RestOrder(o) ==
    /\ orders' = [orders EXCEPT ![o].status = "open"]
    /\ Write(o, {UpdateOrderStatus(rows, o, "open")}, {rows, UpdateOrderStatus(rows, o, "open")})

FillOrRest ==
    /\ req.op = "new"
    /\ IF orders[req.o].type = "market" THEN SimulateMarketFill(req.o) ELSE RestOrder(req.o)
    /\ breaker' = After(breaker, TRUE)
    /\ req' = [req EXCEPT !.op = "placed"]
    /\ UNCHANGED <<service, sessions, crashes, booked, lostStop, late>>

\* The breaker after GetOrder and, for a filled order, GetOrderFills; refused
\* when it does not admit one of them.
AfterGet == After(breaker, TRUE)
Bookable(o) == orders[o].status = "filled" /\ Admits(breaker) /\ Admits(AfterGet)

\* GetOrder, GetOrderFills and OnOrderFilled: the position manager adds up
\* the fills.  A breaker that refuses a read ends the request without an error.
QtyOf(fills) == SumFunction(fills)

BookOrder ==
    /\ req.op = "placed"
    /\ UNCHANGED <<session, pmSession, orders, rows, sessions, crashes, unsure, lostStop, late>>
    /\ LET o == req.o
           q == Signed(orders[o].side, QtyOf(orders[o].fills))
       IN  IF ~ Bookable(o)
           THEN /\ breaker' = IF Admits(breaker) THEN AfterGet ELSE breaker
                /\ UNCHANGED <<net, result, strayed, faults, booked>>
           ELSE /\ breaker' = After(AfterGet, TRUE)
                /\ \/ /\ PM!Acknowledge(orders[o].symbol, q)
                      /\ booked' = [booked EXCEPT ![o] = pmSession]
                      /\ UNCHANGED <<strayed, faults>>
                   \/ /\ PM!Fail(orders[o].symbol, q)
                      /\ faults < MaxFaults /\ faults' = faults + 1
                      /\ booked' = [booked EXCEPT ![o] = "refused"]
                      /\ strayed' = TRUE
                   \/ /\ PM!Refuse
                      /\ booked' = [booked EXCEPT ![o] = "refused"]
                      /\ UNCHANGED <<strayed, faults>>
    /\ req' = Idle

-----------------------------------------------------------------------------
(* CancelOrder and GetOrderStatus.  An order that is unknown, or not open,  *)
(* is an error of the caller; the breaker counts it as one of the exchange. *)

Cancellable(o) == orders[o].status \in {"open", "pending"}

CancelOrder(o) ==
    /\ req = Idle /\ Admits(breaker) /\ breaker.requests < MaxRequests
    /\ LET ok == Cancellable(o)
       IN  /\ breaker' = After(breaker, ok)
           /\ IF ok
              THEN /\ orders' = [orders EXCEPT ![o].status = "cancelled"]
                   /\ Write(o, {UpdateOrderStatus(rows, o, "cancelled")},
                               {rows, UpdateOrderStatus(rows, o, "cancelled")})
              ELSE UNCHANGED <<orders, rows, faults, unsure>>
    /\ UNCHANGED <<service, sessions, req, crashes, booked, lostStop, late>>

GetOrderStatus(o) ==
    /\ req = Idle /\ Admits(breaker) /\ breaker.requests < MaxRequests
    /\ LET b == After(breaker, orders[o] # NotHeld)
       IN  breaker' = IF orders[o] # NotHeld /\ Admits(b) THEN After(b, TRUE) ELSE b
    /\ UNCHANGED <<service, orders, rows, sessions, req, faults, crashes, history>>

-----------------------------------------------------------------------------
(* Sessions.                                                               *)

\* StartSession: a row of its own each time, whatever session is active, and
\* the positions of the session: none, unless the load fails and those of the
\* session before stay (SetSession of the position manager).
StartSession(s) ==
    /\ req = Idle /\ sessions[s] = "none"
    /\ sessions' = [sessions EXCEPT ![s] = "active"]
    /\ session' = s /\ pmSession' = s /\ result' = "none"
    /\ \/ net' = [y \in Symbols |-> 0] /\ strayed' = FALSE /\ UNCHANGED faults
       \/ faults < MaxFaults /\ faults' = faults + 1 /\ strayed' = TRUE /\ UNCHANGED net
    /\ UNCHANGED <<orders, rows, breaker, req, crashes, history>>

\* CreateSession returns an error, with or without having written the row.
StartSessionFails(s) ==
    /\ req = Idle /\ sessions[s] = "none"
    /\ faults < MaxFaults /\ faults' = faults + 1
    /\ sessions' \in {sessions, [sessions EXCEPT ![s] = "active"]}
    /\ UNCHANGED <<service, orders, rows, breaker, req, crashes, history>>

\* Mutant: the positions stay in memory.
ForgetSessionOnly ==
    /\ session' = NoSession /\ pmSession' = NoSession
    /\ UNCHANGED <<net, result, strayed>>

ForgetSession ==
    /\ session' = NoSession /\ pmSession' = NoSession
    /\ net' = [y \in Symbols |-> 0] /\ result' = "none" /\ strayed' = FALSE

\* StopSession: the row first ("stopped_at IS NULL"), then the memory.
StopSession ==
    /\ req = Idle /\ session # NoSession /\ sessions[session] = "active"
    /\ sessions' = [sessions EXCEPT ![session] = "stopped"]
    /\ ForgetSession
    /\ UNCHANGED <<orders, rows, breaker, req, faults, crashes, history>>

\* The statement fails, or the row is stopped and the answer is lost: the
\* executor stays in a session that can never be stopped again.
StopSessionFails ==
    /\ req = Idle /\ session # NoSession /\ sessions[session] = "active"
    /\ faults < MaxFaults /\ faults' = faults + 1
    /\ \/ UNCHANGED <<sessions, lostStop>>
       \/ /\ sessions' = [sessions EXCEPT ![session] = "stopped"]
          /\ lostStop' = lostStop \cup {session}
    /\ UNCHANGED <<service, orders, rows, breaker, req, crashes, booked, unsure, late>>

\* The process dies, between two requests or in the middle of one, and is
\* started again: the database is all that is left.
Crash ==
    /\ crashes < MaxCrashes /\ crashes' = crashes + 1
    /\ session' = NoSession /\ pmSession' = NoSession
    /\ net' = [s \in Symbols |-> 0] /\ result' = "none" /\ strayed' = FALSE
    /\ orders' = [o \in Orders |-> NotHeld]
    /\ breaker' = Closed /\ req' = Idle
    /\ UNCHANGED <<rows, sessions, faults, history>>

Next ==
    \/ \E o \in Orders : PlaceMarketOrder(o) \/ PlaceLimitOrder(o)
    \/ FillOrRest \/ BookOrder
    \/ \E o \in Orders : CancelOrder(o) \/ GetOrderStatus(o)
    \/ \E s \in Sessions : StartSession(s) \/ StartSessionFails(s)
    \/ StopSession \/ StopSessionFails
    \/ BreakerTimer \/ Crash

Spec == Init /\ [][Next]_vars

-----------------------------------------------------------------------------
(* Properties.                                                             *)

\* Every order the executor filled reaches the position manager: the breaker
\* never opens between the placement and the two reads that lead to
\* OnOrderFilled, because it opens on failures only, requests are served one
\* at a time and the simulated reads of a placed order succeed
\* (PlaceMarketOrder, NewCircuitBreakerManagerWithSettings).
FillsReachPositions ==
    req = Idle => \A o \in Orders : orders[o].status = "filled" => booked[o] # "no"

\* What each order is worth to a position, and the orders of a symbol that were
\* booked under the current session.
Lots == [o \in Orders |-> IF orders[o] = NotHeld THEN 0 ELSE Signed(orders[o].side, orders[o].qty)]
BookedNow(y) ==
    {o \in Orders : /\ pmSession # NoSession /\ booked[o] = pmSession
                    /\ orders[o] # NotHeld /\ orders[o].symbol = y}

\* The position the executor trades on is what was filled in the session, no
\* more and no less, also after crashes and restarts, when the positions of
\* the session that crashed stay in the database under its own id
\* (StartSession, SetSession, OnOrderFilled).
NetIsSessionFills ==
    ~ strayed => \A y \in Symbols : net[y] = SumFunctionOnSet(Lots, BookedNow(y))

\* The rows of an order tell what the executor knows of it, once the request
\* is over and if no statement of it failed: status, and trades that add up to
\* the quantity (InsertOrder, UpdateOrderStatus, InsertTrade,
\* simulatePartialFills).
RowsTellTheOrder ==
    \A o \in Orders \ unsure :
        (orders[o] # NotHeld /\ ~ (req # Idle /\ req.o = o)) =>
            /\ rows[o].status = ConvertOrderStatus(orders[o].status)
            /\ rows[o].traded = QtyOf(orders[o].fills)

\* The exchange and the position manager work for the same session, whose row
\* is active; the exception is a stop that was done and answered with an error
\* (StartSession, StopSession).
OneSession ==
    /\ session = pmSession
    /\ session # NoSession => sessions[session] = "active" \/ session \in lostStop

\* No order is placed under a session that is over, but for that exception.
NoLateOrder == late \subseteq lostStop

\* A row that names a filled or cancelled order is final, and so is a stopped
\* session, through crashes, restarts and failed statements.
EndsAreFinal ==
    [][/\ \A o \in Orders : rows[o].status \in {"FILLED", "CANCELED"} =>
             rows'[o].status = rows[o].status
       /\ \A s \in Sessions : sessions[s] = "stopped" => sessions'[s] = "stopped"]_vars
=============================================================================
