--------------------------- MODULE PositionManager ---------------------------
(***************************************************************************)
(* The position manager of internal/exchange: the open position of every   *)
(* symbol, held in memory, and the rows of the positions table it writes   *)
(* through internal/db/positions.go.                                       *)
(*                                                                         *)
(* OnOrderFilled runs under the manager's mutex, so a fill is one action;  *)
(* what makes it hard is that it is several database statements with no    *)
(* transaction around them, each of which may fail, or may be applied and  *)
(* still return an error (the 30 second context of the request expires).   *)
(* Prices and P&L are left out.  Quantities are whole lots.                *)
(***************************************************************************)
EXTENDS Integers, TLC

CONSTANTS
    Symbols,     \* trading pairs
    Sessions,    \* trading sessions, rows of trading_sessions
    NoSession,   \* the nil *uuid.UUID
    MaxFill,     \* bound: largest quantity of one filled order
    MaxQty,      \* bound: largest quantity of a position
    MaxIds,      \* bound: rows ever written to the positions table
    MaxFaults    \* bound: database statements that return an error

ASSUME BoundsAssumption ==
    /\ MaxFill \in Nat \ {0}
    /\ MaxQty \in Nat \ {0}
    /\ MaxIds \in Nat
    /\ MaxFaults \in Nat

ASSUME SessionAssumption == NoSession \notin Sessions

VARIABLES
    session,     \* currentSessionID
    open,        \* openPositions; NoPosition for a symbol that has no entry
    rows,        \* the positions table, by id
    nextId,      \* the next fresh uuid
    ret,         \* what the last OnOrderFilled returned
    faults,      \* database statements that returned an error
    stale,       \* history: symbols a fill of which returned an error since the
                 \* last load, all of them after a load that failed
    several      \* history: symbols of which the last load found several open rows

vars == <<session, open, rows, nextId, ret, faults, stale, several>>

Ids == 1 .. MaxIds
Sides == {"LONG", "SHORT"}

NoPosition == [id |-> 0, side |-> "LONG", qty |-> 0]
Position == [id : Ids, side : Sides, qty : 1 .. MaxQty]

\* A row is missing, open (exit_time IS NULL), closed by the manager or closed
\* by hand, which exit_reason tells apart.  "entry" stands for entry_time: the
\* id of the row that opened the position, which the row of a closed part copies.
NoRow == [status |-> "missing"]
Row == [session : Sessions, symbol : Symbols, side : Sides, qty : 1 .. MaxQty,
        entry : Ids, status : {"open", "closed", "byHand"}]

TypeOK ==
    /\ session \in Sessions \cup {NoSession}
    /\ open \in [Symbols -> Position \cup {NoPosition}]
    /\ rows \in [Ids -> Row \cup {NoRow}]
    /\ nextId \in 1 .. MaxIds + 1
    /\ ret \in {"none", "ok", "error"}
    /\ faults \in 0 .. MaxFaults
    /\ stale \subseteq Symbols
    /\ several \subseteq Symbols

Init ==
    /\ session = NoSession
    /\ open = [s \in Symbols |-> NoPosition]
    /\ rows = [i \in Ids |-> NoRow]
    /\ nextId = 1
    /\ ret = "none"
    /\ faults = 0
    /\ stale = {}
    /\ several = {}

-----------------------------------------------------------------------------
(* The statements of internal/db/positions.go.  Each yields the set of its *)
(* outcomes: whether it returned nil, the table it leaves, and the number  *)
(* of database errors it took.  A failed SELECT in front of a write is the *)
(* outcome "failed" of that write.                                         *)

Refused(tab) == {[ok |-> FALSE, tab |-> tab, faults |-> 0]}

\* One INSERT or UPDATE: done, failed, or done with the answer lost.
Write(before, after) ==
    {[ok |-> TRUE, tab |-> after, faults |-> 0],
     [ok |-> FALSE, tab |-> before, faults |-> 1],
     [ok |-> FALSE, tab |-> after, faults |-> 1]}

\* The INSERT names neither exit_time nor exit_price, so the row is open
\* whatever position the caller passes.
CreatePosition(tab, id, row) ==
    Write(tab, [tab EXCEPT ![id] = [row EXCEPT !.status = "open"]])

DBClosePosition(tab, id, reason) ==
    IF tab[id].status = "open"
    THEN Write(tab, [tab EXCEPT ![id].status = reason])
    ELSE Refused(tab)

\* Mutant: an UPDATE without "AND exit_time IS NULL".
SetQuantityOfAnyRow(tab, id, qty) ==
    IF tab[id].status # "missing"
    THEN Write(tab, [tab EXCEPT ![id].qty = qty])
    ELSE Refused(tab)

SetQuantity(tab, id, qty) ==
    IF tab[id].status = "open"
    THEN Write(tab, [tab EXCEPT ![id].qty = qty])
    ELSE Refused(tab)

\* UpdatePositionQuantity and UpdatePositionAveraging differ in the price only.
UpdatePositionQuantity(tab, id, qty) == SetQuantity(tab, id, qty)
UpdatePositionAveraging(tab, id, qty) == SetQuantity(tab, id, qty)

\* Mutant: no check of the quantity against the row.
PartialCloseUnchecked(tab, id, partId, qty) ==
    IF tab[id].status # "open"
    THEN Refused(tab)
    ELSE LET part == [tab[id] EXCEPT !.qty = qty, !.status = "closed"]
             inserted == CreatePosition(tab, partId, part)
         IN  {r \in inserted : ~ r.ok} \cup
             UNION {UpdatePositionQuantity(r.tab, id, tab[id].qty - qty)
                      : r \in {i \in inserted : i.ok}}

\* Insert the closed part, then reduce the original: two statements.
PartialClosePosition(tab, id, partId, qty) ==
    IF tab[id].status # "open" \/ qty >= tab[id].qty
    THEN Refused(tab)
    ELSE LET part == [tab[id] EXCEPT !.qty = qty, !.status = "closed"]
             inserted == CreatePosition(tab, partId, part)
         IN  {r \in inserted : ~ r.ok} \cup
             UNION {UpdatePositionQuantity(r.tab, id, tab[id].qty - qty)
                      : r \in {i \in inserted : i.ok}}

GetOpenPositions(tab, sess) ==
    {i \in Ids : tab[i].status = "open" /\ tab[i].session = sess}

-----------------------------------------------------------------------------
(* The position manager.                                                   *)

\* Take outcome r of the database statements of a handler.
Take(r) ==
    /\ faults + r.faults <= MaxFaults
    /\ rows' = r.tab
    /\ faults' = faults + r.faults

\* OnOrderFilled returns r's verdict; an error leaves symbol s stale.
Return(r, s) ==
    /\ ret' = IF r.ok THEN "ok" ELSE "error"
    /\ stale' = IF r.ok THEN stale ELSE stale \cup {s}

\* The side a buy or a sell opens.
Opens(order) == IF order = "buy" THEN "LONG" ELSE "SHORT"

NewRow(s, side, qty) ==
    [session |-> session, symbol |-> s, side |-> side, qty |-> qty,
     entry |-> nextId, status |-> "open"]

\* openPosition: memory first, then the row; memory stays if the row fails.
OpenPosition(tab, s, side, qty) ==
    /\ qty <= MaxQty
    /\ open' = [open EXCEPT ![s] = [id |-> nextId, side |-> side, qty |-> qty]]
    /\ nextId' = nextId + 1
    /\ \E r \in CreatePosition(tab.tab, nextId, NewRow(s, side, qty)) :
          LET both == [r EXCEPT !.faults = r.faults + tab.faults]
          IN  Take(both) /\ Return(both, s)

\* averagePosition: memory is rolled back if the row is not updated.
AveragePosition(s, qty) ==
    LET pos == open[s]
        total == pos.qty + qty
    IN  /\ total <= MaxQty
        /\ \E r \in UpdatePositionAveraging(rows, pos.id, total) :
              /\ Take(r) /\ Return(r, s)
              /\ open' = IF r.ok THEN [open EXCEPT ![s].qty = total] ELSE open
        /\ UNCHANGED nextId

\* partialClosePosition: memory follows only when both statements succeed.
PartiallyClose(s, qty) ==
    /\ \E r \in PartialClosePosition(rows, open[s].id, nextId, qty) :
          /\ Take(r) /\ Return(r, s)
          /\ open' = IF r.ok THEN [open EXCEPT ![s].qty = @ - qty] ELSE open
    /\ nextId' = nextId + 1

\* Mutant: the new position replaces the old one, whose row is not closed.
ReplaceWithoutClosing(s, side, qty) ==
    LET pos == open[s]
        untouched == [ok |-> TRUE, tab |-> rows, faults |-> 0]
    IN  IF qty > pos.qty
        THEN OpenPosition(untouched, s, side, qty - pos.qty)
        ELSE \E r \in DBClosePosition(rows, pos.id, "closed") :
               /\ Take(r) /\ Return(r, s)
               /\ open' = [open EXCEPT ![s] = NoPosition]
               /\ UNCHANGED nextId

\* Mutant: the whole order is opened, not what is left of it.
CloseAndReopenWhole(s, side, qty) ==
    LET pos == open[s]
    IN  \E r \in DBClosePosition(rows, pos.id, "closed") :
          IF r.ok /\ qty > pos.qty
          THEN OpenPosition(r, s, side, qty)
          ELSE /\ Take(r) /\ Return(r, s)
               /\ open' = [open EXCEPT ![s] = NoPosition]
               /\ UNCHANGED nextId

\* closePosition takes the entry out of memory before the row is closed, and
\* an error returns before what is left of the order is opened.
CloseAndReopen(s, side, qty) ==
    LET pos == open[s]
    IN  \E r \in DBClosePosition(rows, pos.id, "closed") :
          IF r.ok /\ qty > pos.qty
          THEN OpenPosition(r, s, side, qty - pos.qty)
          ELSE /\ Take(r) /\ Return(r, s)
               /\ open' = [open EXCEPT ![s] = NoPosition]
               /\ UNCHANGED nextId

OnOrderFilled(s, order, qty) ==
    /\ nextId <= MaxIds
    /\ session # NoSession
    /\ \/ /\ open[s] = NoPosition
          /\ OpenPosition([tab |-> rows, faults |-> 0], s, Opens(order), qty)
       \/ /\ open[s] # NoPosition /\ open[s].side = Opens(order)
          /\ AveragePosition(s, qty)
       \/ /\ open[s] # NoPosition /\ open[s].side # Opens(order)
          /\ qty < open[s].qty
          /\ PartiallyClose(s, qty)
       \/ /\ open[s] # NoPosition /\ open[s].side # Opens(order)
          /\ qty >= open[s].qty
          /\ CloseAndReopen(s, Opens(order), qty)
    /\ UNCHANGED <<session, several>>

\* "no active session": nothing is recorded.
FillWithoutSession ==
    /\ session = NoSession
    /\ ret' = "error"
    /\ UNCHANGED <<session, open, rows, nextId, faults, stale, several>>

\* Several open rows of a symbol collapse to one entry of the map: the last
\* of ORDER BY entry_time DESC, any of them among equal times.
LastLoaded(mine, s) ==
    {i \in mine : /\ rows[i].symbol = s
                  /\ \A j \in mine : rows[j].symbol = s => rows[i].entry <= rows[j].entry}

\* SetSession(&id) and the load that succeeds.
SetSession(sess) ==
    LET mine == GetOpenPositions(rows, sess)
        RowsOf(s) == {i \in mine : rows[i].symbol = s}
    IN  /\ session' = sess
        /\ \E chosen \in [Symbols -> Ids \cup {0}] :
             /\ \A s \in Symbols : IF RowsOf(s) = {} THEN chosen[s] = 0
                                   ELSE chosen[s] \in LastLoaded(mine, s)
             /\ open' = [s \in Symbols |->
                  IF chosen[s] = 0 THEN NoPosition
                  ELSE [id |-> chosen[s], side |-> rows[chosen[s]].side,
                        qty |-> rows[chosen[s]].qty]]
        /\ stale' = {}
        /\ several' = {s \in Symbols : \E i, j \in RowsOf(s) : i # j}
        /\ ret' = "none"
        /\ UNCHANGED <<rows, nextId, faults>>

\* SetSession(&id) whose load fails: the map of the session before is kept.
SetSessionLoadFails(sess) ==
    /\ faults < MaxFaults
    /\ session' = sess
    /\ faults' = faults + 1
    /\ stale' = Symbols
    /\ ret' = "none"
    /\ UNCHANGED <<open, rows, nextId, several>>

\* SetSession(nil), and what a restart of the process leaves.
ClearSession ==
    /\ session' = NoSession
    /\ open' = [s \in Symbols |-> NoPosition]
    /\ ret' = "none"
    /\ stale' = {}
    /\ several' = {}
    /\ UNCHANGED <<rows, nextId, faults>>

\* Service.ClosePositionBySymbol closes the row and leaves the map alone.
ClosePositionBySymbol(s) ==
    /\ open[s] # NoPosition
    /\ \E r \in DBClosePosition(rows, open[s].id, "byHand") : Take(r)
    /\ UNCHANGED <<session, open, nextId, ret, stale, several>>

Next ==
    \/ \E s \in Symbols, order \in {"buy", "sell"}, qty \in 1 .. MaxFill :
          OnOrderFilled(s, order, qty)
    \/ FillWithoutSession
    \/ \E sess \in Sessions : SetSession(sess)
    \/ \E sess \in Sessions : SetSessionLoadFails(sess)
    \/ ClearSession
    \/ \E s \in Symbols : ClosePositionBySymbol(s)

Spec == Init /\ [][Next]_vars

-----------------------------------------------------------------------------
(* Properties.                                                             *)

\* A position in memory has a row of its own in the positions table, equal in
\* session, symbol, side and quantity: what the API and the risk checks read is
\* what the executor trades on (closePosition, averagePosition,
\* partialClosePosition).  The row is open, unless ClosePositionBySymbol closed
\* it: that tells the manager nothing.  Excepted are the symbols of `stale': a
\* fill returned an error, or the last load failed.
RowOfPosition ==
    \A s \in Symbols \ stale :
        open[s] # NoPosition =>
            /\ rows[open[s].id].status \in {"open", "byHand"}
            /\ rows[open[s].id].session = session
            /\ rows[open[s].id].symbol = s
            /\ rows[open[s].id].side = open[s].side
            /\ rows[open[s].id].qty = open[s].qty

\* An open row that opened a position is the row of the position in memory:
\* a close, by hand too, or a close and reopen in the other direction leaves no
\* row behind, and a load misses none (OnOrderFilled, loadOpenPositions).
\* Excepted besides `stale' are the symbols of `several': a load that finds
\* more than one open row, as partial closes leave them, keeps one of them.
NoOrphanRow ==
    \A s \in Symbols \ (stale \cup several), i \in Ids :
        /\ rows[i].status = "open"
        /\ rows[i].session = session
        /\ rows[i].symbol = s
        /\ rows[i].entry = i
        => open[s] # NoPosition /\ open[s].id = i

\* Memory and the rows of the session agree, in both directions, with the
\* exceptions of the two parts.
RowsAgree == RowOfPosition /\ NoOrphanRow

\* Rows are written under fresh ids only, and the row of a position is of its
\* symbol, even when a failed statement left the two different.
RowIdentity ==
    /\ \A i \in Ids : i >= nextId => rows[i] = NoRow
    /\ \A i \in Ids : rows[i] # NoRow => rows[i].entry <= i
    /\ \A s \in Symbols : open[s] # NoPosition =>
          /\ open[s].id < nextId
          /\ rows[open[s].id] # NoRow => rows[open[s].id].symbol = s

\* A closed row is final: neither an order nor a close changes its quantity
\* or opens it again, in whatever order closes by hand, orders, failures and
\* reloads come (the exit_time checks of ClosePosition,
\* UpdatePositionQuantity, UpdatePositionAveraging, PartialClosePosition).
ClosedRowsAreFinal ==
    [][\A i \in Ids : rows[i].status \in {"closed", "byHand"} => rows'[i] = rows[i]]_vars

\* The position manager implements NetPosition: an acknowledged fill moves
\* the net position by exactly its quantity, also through a close and reopen,
\* and an error leaves one of the few positions the code can leave.
SignedQty(pos) == IF pos.side = "LONG" THEN pos.qty ELSE -pos.qty
Net == INSTANCE NetPosition WITH
          active <- session # NoSession,
          net <- [s \in Symbols |-> SignedQty(open[s])],
          result <- ret
ImplementsNetPosition == Net!Spec

\* The comments and tests of the code: the part a partial close cuts off is
\* recorded as a closed position, so the open rows of a symbol are exactly
\* the position in memory (PartialClosePosition).
OpenRowsAreThePosition ==
    \A s \in Symbols \ (stale \cup several), i \in Ids :
        (rows[i].status = "open" /\ rows[i].session = session /\ rows[i].symbol = s)
            => open[s] # NoPosition /\ open[s].id = i

\* Symbols and sessions are alike (for TLC).
Symmetry == Permutations(Symbols) \cup Permutations(Sessions)

=============================================================================
