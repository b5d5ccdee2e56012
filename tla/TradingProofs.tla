----------------------------- MODULE TradingProofs -----------------------------
(***************************************************************************)
(* Proofs about the two exchanges of MCTrading, for any number of callers, *)
(* orders, symbols, sessions, retries, errors and interruptions.           *)
(*                                                                         *)
(* Live (BinanceOrders): everything the client learns of an order, by      *)
(* whichever way, is a past of what the order is at the exchange, and an   *)
(* end has no future (Past).  What it has not learned yet is still under   *)
(* way or lost for good (Told).  The inductive invariant IInv says so of   *)
(* every call, every report and every entry of the table; the mutex that   *)
(* PlaceOrder holds from the request to the mapping makes a placed order   *)
(* known before its first report.                                          *)
(*                                                                         *)
(* Paper (OrderService): while a request is served the breaker is never    *)
(* open, because a half-open one that is Sound closes at the call it would *)
(* refuse after; so what is filled is booked.  The net position is a sum   *)
(* over the orders booked under the session, and SumAdd moves the two by   *)
(* the same amount.  PInv is the inductive invariant.                      *)
(***************************************************************************)
EXTENDS MCTrading, TLAPS, SequenceTheorems, FiniteSetTheorems, WellFoundedInduction, Functions

ExchOrder == [status : ExchStatus, filled : Nat]
Order == [status : Status, filled : Nat]
Report == [o : Orders, x : ExchOrder, last : Nat]

PlaceCall == [op : {"place"}, tries : Nat]
PlacedCall == [op : {"placed"}, o : Orders, x : ExchOrder]
CancelCall == [op : {"cancel"}, o : Orders, tries : Nat]
GetCall == [op : {"get"}, o : Orders]
GotCall == [op : {"got"}, o : Orders, x : ExchOrder]
Call == {Idle} \cup PlaceCall \cup PlacedCall \cup CancelCall \cup GetCall \cup GotCall

\* What an order at the exchange was before it was y.
Past(x, y) == x.filled <= y.filled /\ (x.status \notin Live => y = x)

\* The end of order o, or its latest news, is on the wire.
News(o) == \E i \in 1 .. Len(wire) : wire[i].o = o /\ wire[i].x = exch[o]
Told(o) == o \in missed \/ News(o)

Typed ==
    /\ exch \in [Orders -> ExchOrder \cup {NoOrder}]
    /\ orders \in [Orders -> Order \cup {NoOrder}]
    /\ fills \in [Orders -> Seq(Nat)]
    /\ row \in [Orders -> Status \cup {"none"}]
    /\ call \in [Callers -> Call]
    /\ wire \in Seq(Report)
    /\ faults \in Nat

CallOK(c) ==
    /\ call[c].op \in {"place", "placed", "cancel"} => lock = c
    /\ call[c].op \in {"cancel", "get", "got"} => call[c].o \in Known
    /\ call[c].op \in {"placed", "got"} =>
          exch[call[c].o] # NoOrder /\ Past(call[c].x, exch[call[c].o])
    /\ call[c].op = "placed" =>
          call[c].o \notin Known /\ (call[c].x # exch[call[c].o] => Told(call[c].o))

WireOK(i) ==
    LET o == wire[i].o
        x == wire[i].x
    IN  /\ exch[o] # NoOrder /\ Past(x, exch[o]) /\ wire[i].last <= x.filled
        /\ x # exch[o] =>
              o \in missed \/ \E j \in i + 1 .. Len(wire) : wire[j].o = o /\ wire[j].x = exch[o]
        /\ x.status = "FILLED" =>
              /\ fills[o] = <<>>
              /\ \A j \in 1 .. Len(wire) : wire[j].o = o /\ wire[j].x.status = "FILLED" => j = i

\* The table against the exchange.
TableOK(o) ==
    o \in Known =>
        /\ exch[o] # NoOrder /\ orders[o].filled <= exch[o].filled
        /\ orders[o].status = "filled" => exch[o].status = "FILLED"
        /\ orders[o].status = "cancelled" => exch[o].status = "CANCELED"
        /\ o \notin overtaken => orders[o] = Updated(orders[o], exch[o]) \/ Told(o)

KnownOK(o) ==
    exch[o] # NoOrder =>
        o \in Known \cup unanswered \/ \E c \in Callers : call[c].op = "placed" /\ call[c].o = o

FillsOK(o) ==
    fills[o] # <<>> =>
        /\ Len(fills[o]) = 1
        /\ exch[o] # NoOrder /\ exch[o].status = "FILLED" /\ fills[o][1] <= exch[o].filled

RowOK(o) ==
    (faults = 0 /\ o \in Known) =>
        /\ row[o] # "none"
        /\ exch[o].status \in {"FILLED", "CANCELED"} =>
              row[o] = ConvertBinanceOrder(exch[o]).status \/ Told(o)

IInv ==
    /\ Typed
    /\ \A c \in Callers : CallOK(c)
    /\ \A i \in 1 .. Len(wire) : WireOK(i)
    /\ \A o \in Orders : TableOK(o) /\ KnownOK(o) /\ FillsOK(o) /\ RowOK(o)
    /\ dropped \subseteq unanswered
-----------------------------------------------------------------------------
(* Data.                                                                   *)

LEMMA ConvertData ==
    ASSUME NEW x \in ExchOrder
    PROVE  /\ ConvertBinanceOrder(x) \in Order
           /\ ConvertBinanceOrder(x).filled = x.filled
           /\ ConvertBinanceOrder(x).status =
                CASE x.status \in Live       -> "open"
                  [] x.status = "FILLED"     -> "filled"
                  [] x.status = "CANCELED"   -> "cancelled"
                  [] OTHER                   -> "pending"
<1>1. x.status \in ExchStatus /\ x.filled \in Nat
  BY DEF ExchOrder
<1> QED
  BY <1>1 DEF ConvertBinanceOrder, Order, ExchStatus, Status, Live

\* The status of an entry written from x, and what writing x twice does.
LEMMA UpdatedData ==
    ASSUME NEW order \in Order, NEW x \in ExchOrder
    PROVE  /\ Updated(order, x) \in Order
           /\ Updated(order, x).filled = x.filled
           /\ x.status \in Live => Updated(order, x).status = "open"
           /\ x.status = "FILLED" => Updated(order, x).status = "filled"
           /\ x.status = "CANCELED" => Updated(order, x).status = "cancelled"
           /\ x.status = "EXPIRED" => Updated(order, x).status = order.status
           /\ Updated(Updated(order, x), x) = Updated(order, x)
           /\ Updated(ConvertBinanceOrder(x), x) = ConvertBinanceOrder(x)
<1>1. x.status \in ExchStatus /\ x.filled \in Nat
  BY DEF ExchOrder
<1>2. CASE x.status \in Live \cup {"FILLED", "CANCELED"}
  BY <1>1, <1>2, ConvertData DEF Updated, Live
<1>3. CASE x.status = "EXPIRED"
  <2>1. Updated(order, x) = [order EXCEPT !.filled = x.filled]
    BY <1>3 DEF Updated, Live
  <2>2. [order EXCEPT !.filled = x.filled] \in Order
        /\ [order EXCEPT !.filled = x.filled].filled = x.filled
        /\ [order EXCEPT !.filled = x.filled].status = order.status
    BY <1>1 DEF Order
  <2>3. ASSUME NEW r \in Order, r.filled = x.filled PROVE Updated(r, x) = r
    BY <1>3, <2>3 DEF Updated, Live, Order
  <2> QED
    BY <1>3, <2>1, <2>2, <2>3, ConvertData DEF Live
<1> QED
  BY <1>1, <1>2, <1>3 DEF ExchStatus, Live

LEMMA PastOf ==
    ASSUME NEW x, NEW y, NEW z, x.filled \in Nat, y.filled \in Nat, z.filled \in Nat,
           Past(x, y), Past(y, z)
    PROVE  Past(x, z)
BY DEF Past

LEMMA KindsOfCall ==
    ASSUME NEW r \in Call
    PROVE  /\ r.op = "place" => r \in PlaceCall
           /\ r.op = "placed" => r \in PlacedCall /\ r.o \in Orders /\ r.x \in ExchOrder
           /\ r.op = "cancel" => r \in CancelCall /\ r.o \in Orders
           /\ r.op = "get" => r \in GetCall /\ r.o \in Orders
           /\ r.op = "got" => r \in GotCall /\ r.o \in Orders /\ r.x \in ExchOrder
BY DEF Call, Idle, PlaceCall, PlacedCall, CancelCall, GetCall, GotCall

LEMMA NoOrderIsNone ==
    ASSUME BinanceAssumption PROVE NoOrder \notin ExchOrder /\ NoOrder \notin Order
BY DEF BinanceAssumption, ExchOrder, Order

\* What the entries of the table and the exchange are.
LEMMA Entries ==
    ASSUME BinanceAssumption, Typed, NEW o \in Orders
    PROVE  /\ exch[o] # NoOrder => exch[o] \in ExchOrder /\ exch[o].filled \in Nat
                                   /\ exch[o].status \in ExchStatus
           /\ o \in Known => orders[o] \in Order /\ orders[o] # NoOrder
           /\ o \in Known <=> orders[o] # NoOrder
           /\ Qty[o] \in Nat \ {0}
BY DEF Typed, Known, BinanceAssumption, ExchOrder

\* One more attempt, or the end of the call.
LEMMA Retrying ==
    ASSUME Typed, NEW c \in Callers, call[c].op \in {"place", "cancel"}, RetryWithBackoff(c)
    PROVE  /\ call' \in [Callers -> Call]
           /\ \A d \in Callers \ {c} : call'[d] = call[d]
           /\ \/ /\ lock' = lock /\ call'[c].op = call[c].op
                 /\ call[c].op = "cancel" => call'[c].o = call[c].o
              \/ lock' = NoCaller /\ call'[c] = Idle
           /\ faults' \in Nat /\ faults' # 0
<1>1. faults' \in Nat /\ faults' # 0
  BY DEF RetryWithBackoff, Typed
<1>2. CASE call' = [call EXCEPT ![c].tries = @ + 1] /\ UNCHANGED lock
  <2>1. call'[c] = [call[c] EXCEPT !.tries = call[c].tries + 1]
        /\ \A d \in Callers \ {c} : call'[d] = call[d]
    BY <1>2 DEF Typed
  <2>2. CASE call[c].op = "place"
    <3>1. call[c] \in PlaceCall
      BY <2>2, KindsOfCall DEF Typed
    <3>2. call'[c] \in PlaceCall /\ call'[c].op = "place"
      BY <2>1, <3>1 DEF PlaceCall
    <3> QED
      BY <1>1, <1>2, <2>1, <2>2, <3>2 DEF Typed, Call
  <2>3. CASE call[c].op = "cancel"
    <3>1. call[c] \in CancelCall
      BY <2>3, KindsOfCall DEF Typed
    <3>2. call'[c] \in CancelCall /\ call'[c].op = "cancel" /\ call'[c].o = call[c].o
      BY <2>1, <3>1 DEF CancelCall
    <3> QED
      BY <1>1, <1>2, <2>1, <2>3, <3>2 DEF Typed, Call
  <2> QED
    BY <2>2, <2>3
<1>3. CASE ReleaseAndReturn(c)
  BY <1>1, <1>3 DEF ReleaseAndReturn, Typed, Call
<1> QED
  BY <1>2, <1>3 DEF RetryWithBackoff

-----------------------------------------------------------------------------
(* What happens at the exchange.                                           *)

\* Orders at the exchange only go on, and what is not known of it stays so or
\* comes to be told.
Grown ==
    \A p \in Orders :
        /\ exch[p] # NoOrder => exch'[p] # NoOrder /\ Past(exch[p], exch'[p])
        /\ Told(p) => Told(p)'
        /\ exch[p] # NoOrder /\ exch'[p] # exch[p] => Told(p)'

LEMMA NothingWritten ==
    ASSUME BinanceAssumption, Typed, UNCHANGED <<exch, wire, missed>> PROVE Grown
<1> SUFFICES ASSUME NEW p \in Orders, exch[p] # NoOrder PROVE Past(exch[p], exch[p])
  BY DEF Grown, Told, News
<1> QED
  BY Entries DEF Past

\* What an entry says stays true while its order goes on.
LEMMA TableStays ==
    ASSUME BinanceAssumption, Typed, exch' \in [Orders -> ExchOrder \cup {NoOrder}],
           Grown, NEW o \in Orders, TableOK(o),
           orders'[o] = orders[o], o \in overtaken => o \in overtaken'
    PROVE  TableOK(o)'
<1> SUFFICES ASSUME orders[o] # NoOrder PROVE TableOK(o)'
  BY DEF TableOK, Known
<1>1. /\ o \in Known /\ orders[o] \in Order
      /\ exch[o] # NoOrder /\ exch'[o] # NoOrder /\ Past(exch[o], exch'[o])
      /\ Told(o) => Told(o)'
      /\ exch'[o] # exch[o] => Told(o)'
  BY Entries DEF TableOK, Grown
<1>2. orders[o].filled \in Nat /\ exch[o].filled \in Nat /\ exch'[o].filled \in Nat
  BY <1>1, Entries DEF Order, ExchOrder
<1> QED
  BY <1>1, <1>2 DEF TableOK, Past, Live, Known

LEMMA FillsStay ==
    ASSUME Grown, NEW o \in Orders, FillsOK(o), fills'[o] = fills[o] PROVE FillsOK(o)'
BY DEF FillsOK, Grown, Past, Live

LEMMA RowStays ==
    ASSUME BinanceAssumption, Typed, Grown, NEW o \in Orders, TableOK(o), RowOK(o),
           orders'[o] = orders[o], row'[o] = row[o], faults' = 0 => faults = 0
    PROVE  RowOK(o)'
<1> SUFFICES ASSUME faults = 0, orders[o] # NoOrder PROVE RowOK(o)'
  BY DEF RowOK, Known
<1>1. o \in Known /\ row[o] # "none" /\ exch[o] # NoOrder
      /\ (Told(o) => Told(o)') /\ (exch'[o] # exch[o] => Told(o)')
  BY DEF RowOK, TableOK, Known, Grown
<1> QED
  BY <1>1 DEF RowOK

\* The calls of the others.
LEMMA CallStays ==
    ASSUME BinanceAssumption, Typed, exch' \in [Orders -> ExchOrder \cup {NoOrder}], Grown,
           NEW d \in Callers, CallOK(d), call'[d] = call[d],
           lock' = lock \/ lock # d,
           Known \subseteq Known', call[d].op = "placed" => call[d].o \notin Known'
    PROVE  CallOK(d)'
<1>1. call[d].op \in {"cancel", "get", "got", "placed"} => call[d].o \in Orders
  BY KindsOfCall DEF Typed
<1>2. ASSUME call[d].op \in {"placed", "got"}
      PROVE  exch'[call[d].o] # NoOrder /\ Past(call[d].x, exch'[call[d].o])
  <2>1. /\ call[d].o \in Orders /\ call[d].x \in ExchOrder
        /\ exch[call[d].o] # NoOrder /\ exch'[call[d].o] # NoOrder
        /\ Past(call[d].x, exch[call[d].o]) /\ Past(exch[call[d].o], exch'[call[d].o])
    BY <1>2, KindsOfCall DEF Typed, CallOK, Grown
  <2>2. call[d].x.filled \in Nat /\ exch[call[d].o].filled \in Nat /\ exch'[call[d].o].filled \in Nat
    BY <2>1, Entries DEF ExchOrder
  <2> QED
    BY <2>1, <2>2, PastOf
<1>3. ASSUME call[d].op = "placed", call[d].x # exch'[call[d].o] PROVE Told(call[d].o)'
  BY <1>1, <1>3 DEF CallOK, Grown
<1>4. call[d].op \in {"place", "placed", "cancel"} => lock' = d
  BY DEF CallOK
<1>5. call[d].op \in {"cancel", "get", "got"} => call[d].o \in Known'
  BY DEF CallOK
<1>6. call[d].op = "placed" => call[d].o \notin Known'
  OBVIOUS
<1> QED
  BY <1>2, <1>3, <1>4, <1>5, <1>6 DEF CallOK

\* The exchange writes an order that it did not have, or that still rested.
LEMMA Writing ==
    ASSUME BinanceAssumption, IInv, NEW o \in Orders, NEW z \in ExchOrder, NEW last \in Nat,
           last <= z.filled,
           exch[o] = NoOrder \/ (exch[o] # NoOrder /\ exch[o].status \in Live /\ exch[o].filled <= z.filled),
           ExchangeWrites(o, z, last), fills' = fills
    PROVE  /\ exch' \in [Orders -> ExchOrder \cup {NoOrder}] /\ exch'[o] = z
           /\ \A p \in Orders \ {o} : exch'[p] = exch[p]
           /\ wire' \in Seq(Report)
           /\ Grown /\ Told(o)'
           /\ \A i \in 1 .. Len(wire') : WireOK(i)'
<1> DEFINE e == [o |-> o, x |-> z, last |-> last]
<1>1. Typed /\ wire \in Seq(Report) /\ missed \subseteq missed'
  BY DEF IInv, Typed, ExchangeWrites
<1>2. exch' \in [Orders -> ExchOrder \cup {NoOrder}] /\ exch'[o] = z /\ z # NoOrder
      /\ \A p \in Orders \ {o} : exch'[p] = exch[p]
  BY <1>1, NoOrderIsNone DEF ExchangeWrites, Typed
<1>3. e \in Report /\ e.o = o /\ e.x = z /\ e.last = last
  BY DEF Report
<1> HIDE DEF e
<1>4. \/ /\ wire' = Append(wire, e) /\ wire' \in Seq(Report) /\ Len(wire') = Len(wire) + 1
         /\ wire'[Len(wire) + 1] = e
         /\ \A i \in 1 .. Len(wire) : wire'[i] = wire[i]
      \/ wire' = wire /\ o \in missed'
  BY <1>1, <1>3 DEF ExchangeWrites, e
<1>5. wire' \in Seq(Report) /\ Len(wire) \in Nat /\ Len(wire') \in Nat
      /\ Len(wire) <= Len(wire') /\ \A i \in 1 .. Len(wire) : wire'[i] = wire[i]
  BY <1>1, <1>4
<1>6. Told(o)'
  BY <1>2, <1>3, <1>4, <1>5 DEF Told, News
<1>7. exch[o] # NoOrder => exch[o] \in ExchOrder /\ exch[o].filled \in Nat /\ Past(exch[o], z)
  BY <1>1, Entries DEF Past
<1>8. Grown
  <2> SUFFICES ASSUME NEW p \in Orders
               PROVE  /\ exch[p] # NoOrder => exch'[p] # NoOrder /\ Past(exch[p], exch'[p])
                      /\ Told(p) => Told(p)'
                      /\ exch[p] # NoOrder /\ exch'[p] # exch[p] => Told(p)'
    BY DEF Grown
  <2>1. CASE p = o
    BY <1>2, <1>6, <1>7, <2>1
  <2>2. CASE p # o
    <3>1. exch[p] # NoOrder => Past(exch[p], exch[p])
      BY <1>1, Entries DEF Past
    <3>2. Told(p) => Told(p)'
      BY <1>1, <1>2, <1>5, <2>2 DEF Told, News
    <3> QED
      BY <1>2, <2>2, <3>1, <3>2
  <2> QED
    BY <2>1, <2>2
<1>9. \A i \in 1 .. Len(wire) : wire[i] \in Report /\ wire[i].o \in Orders /\ wire[i].x \in ExchOrder
                               /\ wire[i].x.filled \in Nat
  <2> SUFFICES ASSUME NEW i \in 1 .. Len(wire) PROVE wire[i] \in Report
    BY DEF Report, ExchOrder
  <2> QED
    BY <1>1
<1>10. \A i \in 1 .. Len(wire) : WireOK(i)
  BY DEF IInv
<1>11. \A i \in 1 .. Len(wire) : wire[i].o = o =>
          exch[o] # NoOrder /\ exch[o].status \in Live /\ wire[i].x.status \in Live
  BY <1>10 DEF WireOK, Past
<1>12. ASSUME NEW i \in 1 .. Len(wire), wire[i].o = o PROVE WireOK(i)'
  <2>1. /\ wire'[i] = wire[i] /\ exch'[wire'[i].o] = z
        /\ exch[o] # NoOrder /\ Past(wire[i].x, exch[o]) /\ wire[i].last <= wire[i].x.filled
        /\ wire[i].x.status \in Live
    BY <1>2, <1>5, <1>10, <1>11, <1>12 DEF WireOK
  <2>2. Past(wire[i].x, z)
    BY <1>7, <1>9, <2>1, PastOf DEF ExchOrder
  <2>3. o \in missed' \/ \E j \in i + 1 .. Len(wire') : wire'[j].o = o /\ wire'[j].x = exch'[o]
    BY <1>2, <1>3, <1>4, <1>5
  <2> QED
    BY <1>2, <1>12, <2>1, <2>2, <2>3 DEF WireOK, Live
<1>13. ASSUME NEW i \in 1 .. Len(wire), wire[i].o # o PROVE WireOK(i)'
  <2>1. wire'[i] = wire[i] /\ exch'[wire'[i].o] = exch[wire[i].o] /\ WireOK(i)
    BY <1>2, <1>5, <1>9, <1>10, <1>13
  <2>2. \A j \in i + 1 .. Len(wire) : j \in 1 .. Len(wire) /\ j \in i + 1 .. Len(wire')
    BY <1>5
  <2>3. \A j \in 1 .. Len(wire') : wire'[j].o = wire[i].o => j \in 1 .. Len(wire)
    BY <1>3, <1>4, <1>5, <1>13
  <2> QED
    BY <1>1, <1>5, <2>1, <2>2, <2>3 DEF WireOK
<1>14. ASSUME NEW i \in 1 .. Len(wire'), i \notin 1 .. Len(wire) PROVE WireOK(i)'
  <2>1. i = Len(wire) + 1 /\ wire'[i] = e /\ Len(wire') = Len(wire) + 1
    BY <1>4, <1>5, <1>14
  <2>2. z.status = "FILLED" => fills[o] = <<>>
    BY DEF IInv, FillsOK, Live
  <2>3. \A j \in 1 .. Len(wire') : wire'[j].o = o /\ wire'[j].x.status = "FILLED" => j = i
    BY <1>5, <1>11, <2>1 DEF Live
  <2>4. Past(z, z)
    BY DEF Past, ExchOrder
  <2> QED
    BY <1>2, <1>3, <2>1, <2>2, <2>3, <2>4 DEF WireOK
<1>15. \A i \in 1 .. Len(wire') : WireOK(i)'
  BY <1>12, <1>13, <1>14
<1> QED
  BY <1>2, <1>5, <1>6, <1>8, <1>15

\* Reports stay as they are when nothing is written.
LEMMA WireKept ==
    ASSUME IInv, UNCHANGED <<exch, wire, missed, fills>>
    PROVE  \A i \in 1 .. Len(wire') : WireOK(i)'
BY DEF IInv, WireOK

\* A step that leaves the table alone, whatever it does at the exchange.
LEMMA TableKept ==
    ASSUME BinanceAssumption, IInv, exch' \in [Orders -> ExchOrder \cup {NoOrder}], Grown,
           UNCHANGED <<orders, fills, row, overtaken, dropped>>, unanswered \subseteq unanswered',
           faults' = 0 => faults = 0
    PROVE  /\ \A o \in Orders : TableOK(o)' /\ FillsOK(o)' /\ RowOK(o)'
           /\ dropped' \subseteq unanswered'
           /\ Known' = Known
BY TableStays, FillsStay, RowStays DEF IInv, Known

\* An order that is not new, and whose call goes on, stays known.
LEMMA KnownStays ==
    ASSUME NEW o \in Orders, KnownOK(o), exch'[o] # NoOrder => exch[o] # NoOrder,
           Known \subseteq Known', unanswered \subseteq unanswered',
           \A d \in Callers : call[d].op = "placed" => call'[d] = call[d]
    PROVE  KnownOK(o)'
BY DEF KnownOK

\* The calls of all callers but the one that takes the step.
LEMMA OthersStay ==
    ASSUME BinanceAssumption, IInv, exch' \in [Orders -> ExchOrder \cup {NoOrder}], Grown,
           NEW c \in Callers, \A d \in Callers \ {c} : call'[d] = call[d],
           lock \in {c, NoCaller} \/ lock' = lock,
           Known \subseteq Known', Known' = Known \/ lock = c
    PROVE  \A d \in Callers \ {c} : CallOK(d)'
<1> SUFFICES ASSUME NEW d \in Callers \ {c} PROVE CallOK(d)'
  OBVIOUS
<1>1. d \in Callers /\ CallOK(d) /\ Typed /\ NoCaller \notin Callers
  BY DEF IInv, BinanceAssumption
<1>2. lock' = lock \/ lock # d
  BY <1>1
<1>3. call[d].op = "placed" => call[d].o \notin Known'
  BY <1>1 DEF CallOK
<1> QED
  BY <1>1, <1>2, <1>3, CallStays

\* A step at which nothing happens at the exchange, in the table or to placed orders.
LEMMA OnlyCalls ==
    ASSUME BinanceAssumption, IInv, NEW c \in Callers,
           UNCHANGED <<exch, orders, fills, row, wire, missed, overtaken, dropped, unanswered>>,
           call' \in [Callers -> Call], \A d \in Callers \ {c} : call'[d] = call[d],
           call[c].op # "placed", faults' \in Nat, faults' = 0 => faults = 0,
           lock \in {c, NoCaller} \/ lock' = lock, CallOK(c)'
    PROVE  IInv'
<1>1. Typed /\ exch' \in [Orders -> ExchOrder \cup {NoOrder}] /\ Known' = Known
  BY DEF IInv, Typed, Known
<1>2. Grown
  BY <1>1, NothingWritten
<1>3. Typed'
  BY <1>1 DEF Typed
<1>4. \A i \in 1 .. Len(wire') : WireOK(i)'
  BY WireKept
<1>5. \A d \in Callers : CallOK(d)'
  BY <1>1, <1>2, OthersStay
<1>6. \A o \in Orders : TableOK(o)' /\ FillsOK(o)' /\ RowOK(o)'
  BY <1>1, <1>2, TableKept
<1>7. \A o \in Orders : KnownOK(o)'
  BY <1>1, KnownStays DEF IInv
<1>8. dropped' \subseteq unanswered'
  BY DEF IInv
<1> QED
  BY <1>3, <1>4, <1>5, <1>6, <1>7, <1>8 DEF IInv

-----------------------------------------------------------------------------
(* The steps.                                                              *)

LEMMA PlaceOrderKeeps ==
    ASSUME BinanceAssumption, IInv, NEW c \in Callers, PlaceOrder(c) PROVE IInv'
<1> DEFINE r == [op |-> "place", tries |-> 0]
<1>1. r \in PlaceCall /\ r.op = "place"
  BY DEF PlaceCall
<1> HIDE DEF r
<1>2. call'[c] = r /\ call' \in [Callers -> Call] /\ \A d \in Callers \ {c} : call'[d] = call[d]
  BY <1>1 DEF PlaceOrder, IInv, Typed, Call, r
<1>3. CallOK(c)'
  BY <1>1, <1>2 DEF PlaceOrder, CallOK
<1>4. call[c].op # "placed" /\ faults \in Nat
  BY DEF PlaceOrder, Idle, IInv, Typed
<1> QED
  BY <1>2, <1>3, <1>4, OnlyCalls DEF PlaceOrder

LEMMA CreateFailsKeeps ==
    ASSUME BinanceAssumption, IInv, NEW c \in Callers, CreateFails(c) PROVE IInv'
<1>1. call[c].op = "place" /\ Typed /\ lock = c /\ RetryWithBackoff(c)
  BY DEF CreateFails, IInv, CallOK
<1>2. CallOK(c)'
  BY <1>1, Retrying DEF CallOK, Idle
<1> QED
  BY <1>1, <1>2, Retrying, OnlyCalls DEF CreateFails

LEMMA CancelOrderKeeps ==
    ASSUME BinanceAssumption, IInv, NEW c \in Callers, CancelOrder(c) PROVE IInv'
<1>1. PICK o \in Known : call' = [call EXCEPT ![c] = [op |-> "cancel", o |-> o, tries |-> 0]]
  BY DEF CancelOrder
<1> DEFINE r == [op |-> "cancel", o |-> o, tries |-> 0]
<1>2. r \in CancelCall /\ r.op = "cancel" /\ r.o = o
  BY DEF CancelCall, Known
<1> HIDE DEF r
<1>3. call'[c] = r /\ call' \in [Callers -> Call] /\ \A d \in Callers \ {c} : call'[d] = call[d]
  BY <1>1, <1>2 DEF IInv, Typed, Call, r
<1>4. CallOK(c)'
  BY <1>2, <1>3 DEF CancelOrder, CallOK, Known
<1>5. call[c].op # "placed" /\ faults \in Nat
  BY DEF CancelOrder, Idle, IInv, Typed
<1> QED
  BY <1>3, <1>4, <1>5, OnlyCalls DEF CancelOrder

LEMMA CancelTooLateKeeps ==
    ASSUME BinanceAssumption, IInv, NEW c \in Callers, CancelTooLate(c) PROVE IInv'
<1>1. call'[c] = Idle /\ call' \in [Callers -> Call] /\ \A d \in Callers \ {c} : call'[d] = call[d]
  BY DEF CancelTooLate, ReleaseAndReturn, IInv, Typed, Call
<1>2. CallOK(c)'
  BY <1>1 DEF CallOK, Idle
<1>3. call[c].op = "cancel" /\ lock = c /\ faults \in Nat
  BY DEF CancelTooLate, IInv, CallOK, Typed
<1> QED
  BY <1>1, <1>2, <1>3, OnlyCalls DEF CancelTooLate

LEMMA GetOrderKeeps ==
    ASSUME BinanceAssumption, IInv, NEW c \in Callers, GetOrder(c) PROVE IInv'
<1>1. PICK o \in Known : call' = [call EXCEPT ![c] = [op |-> "get", o |-> o]]
  BY DEF GetOrder
<1> DEFINE r == [op |-> "get", o |-> o]
<1>2. r \in GetCall /\ r.op = "get" /\ r.o = o
  BY DEF GetCall, Known
<1> HIDE DEF r
<1>3. call'[c] = r /\ call' \in [Callers -> Call] /\ \A d \in Callers \ {c} : call'[d] = call[d]
  BY <1>1, <1>2 DEF IInv, Typed, Call, r
<1>4. CallOK(c)'
  BY <1>2, <1>3 DEF GetOrder, CallOK, Known
<1>5. call[c].op # "placed" /\ faults \in Nat
  BY DEF GetOrder, Idle, IInv, Typed
<1> QED
  BY <1>3, <1>4, <1>5, OnlyCalls DEF GetOrder

LEMMA GetAnsweredKeeps ==
    ASSUME BinanceAssumption, IInv, NEW c \in Callers, GetAnswered(c) PROVE IInv'
<1> DEFINE o == call[c].o
           r == [op |-> "got", o |-> o, x |-> exch[o]]
<1>1. /\ Typed /\ call[c].op = "get" /\ o \in Orders /\ o \in Known
      /\ exch[o] # NoOrder /\ exch[o] \in ExchOrder /\ exch[o].filled \in Nat
  BY KindsOfCall, Entries DEF GetAnswered, IInv, Typed, CallOK, TableOK
<1>2. CASE call' = [call EXCEPT ![c] = r] /\ UNCHANGED faults
  <2>1. r \in GotCall /\ r.op = "got" /\ r.o = o /\ r.x = exch[o]
    BY <1>1 DEF GotCall
  <2> HIDE DEF r
  <2>2. call'[c] = r /\ call' \in [Callers -> Call] /\ \A d \in Callers \ {c} : call'[d] = call[d]
    BY <1>1, <1>2, <2>1 DEF Typed, Call
  <2>3. Past(exch[o], exch[o])
    BY <1>1 DEF Past
  <2>4. CallOK(c)'
    BY <1>1, <2>1, <2>2, <2>3 DEF GetAnswered, CallOK, Known
  <2> QED
    BY <1>1, <1>2, <2>2, <2>4, OnlyCalls DEF GetAnswered, Typed
<1>3. CASE faults' = faults + 1 /\ call' = [call EXCEPT ![c] = Idle]
  <2>1. call'[c] = Idle /\ call' \in [Callers -> Call] /\ \A d \in Callers \ {c} : call'[d] = call[d]
    BY <1>1, <1>3 DEF Typed, Call
  <2>2. CallOK(c)'
    BY <2>1 DEF CallOK, Idle
  <2>3. faults' \in Nat /\ faults' # 0 /\ call[c].op # "placed"
    BY <1>1, <1>3 DEF Typed
  <2>4. UNCHANGED <<exch, orders, fills, row, lock, wire, missed, overtaken, dropped, unanswered>>
    BY DEF GetAnswered
  <2> QED
    BY <2>1, <2>2, <2>3, <2>4, OnlyCalls
<1> QED
  BY <1>2, <1>3 DEF GetAnswered

\* An attempt that reaches the exchange.
LEMMA CreateOrderKeeps ==
    ASSUME BinanceAssumption, IInv, NEW c \in Callers, CreateOrder(c) PROVE IInv'
<1>1. PICK o \in Orders, s \in {"NEW", "FILLED", "EXPIRED"} :
         /\ exch[o] = NoOrder
         /\ LET x == [status |-> s, filled |-> IF s = "FILLED" THEN Qty[o] ELSE 0]
            IN  /\ ExchangeWrites(o, x, x.filled)
                /\ \/ /\ call' = [call EXCEPT ![c] = [op |-> "placed", o |-> o, x |-> x]]
                      /\ UNCHANGED <<lock, faults, unanswered>>
                   \/ /\ RetryWithBackoff(c)
                      /\ unanswered' = unanswered \cup {o}
  BY DEF CreateOrder
<1> DEFINE x == [status |-> s, filled |-> IF s = "FILLED" THEN Qty[o] ELSE 0]
           r == [op |-> "placed", o |-> o, x |-> x]
<1>2. Typed /\ call[c].op = "place" /\ lock = c /\ Qty[o] \in Nat /\ o \notin Known
      /\ UNCHANGED <<orders, fills, row, overtaken, dropped>>
  BY <1>1, Entries DEF CreateOrder, IInv, CallOK, TableOK
<1>3. x \in ExchOrder /\ x.filled \in Nat /\ Past(x, x)
  BY <1>2 DEF ExchOrder, ExchStatus, Past
<1> HIDE DEF x
<1>4. ExchangeWrites(o, x, x.filled)
  BY <1>1 DEF x
<1>5. /\ exch' \in [Orders -> ExchOrder \cup {NoOrder}] /\ exch'[o] = x
      /\ \A p \in Orders \ {o} : exch'[p] = exch[p]
      /\ wire' \in Seq(Report) /\ Grown
      /\ \A i \in 1 .. Len(wire') : WireOK(i)'
  BY <1>1, <1>2, <1>3, <1>4, Writing
<1>6. /\ call' \in [Callers -> Call] /\ \A d \in Callers \ {c} : call'[d] = call[d]
      /\ CallOK(c)' /\ faults' \in Nat /\ (faults' = 0 => faults = 0) /\ unanswered \subseteq unanswered'
      /\ o \in unanswered' \/ (call'[c].op = "placed" /\ call'[c].o = o)
  <2>1. CASE call' = [call EXCEPT ![c] = r] /\ UNCHANGED <<lock, faults, unanswered>>
    <3>1. r \in PlacedCall /\ r.op = "placed" /\ r.o = o /\ r.x = x
      BY <1>3 DEF PlacedCall
    <3> HIDE DEF r
    <3>2. call'[c] = r /\ call' \in [Callers -> Call] /\ \A d \in Callers \ {c} : call'[d] = call[d]
      BY <1>2, <2>1, <3>1 DEF Typed, Call
    <3>3. x # NoOrder /\ o \notin Known'
      BY <1>2, <1>3, NoOrderIsNone DEF Known
    <3>4. CallOK(c)'
      BY <1>2, <1>3, <1>5, <2>1, <3>1, <3>2, <3>3 DEF CallOK
    <3> QED
      BY <1>2, <2>1, <3>1, <3>2, <3>4 DEF Typed
  <2>2. CASE RetryWithBackoff(c) /\ unanswered' = unanswered \cup {o}
    <3>1. CallOK(c)'
      BY <1>2, <2>2, Retrying DEF CallOK, Idle
    <3>2. call[c].op \in {"place", "cancel"} /\ Typed
      BY <1>2
    <3>3. /\ call' \in [Callers -> Call] /\ \A d \in Callers \ {c} : call'[d] = call[d]
          /\ faults' \in Nat /\ faults' # 0
      BY <2>2, <3>2, Retrying
    <3>4. unanswered \subseteq unanswered' /\ o \in unanswered'
      BY <2>2
    <3> HIDE DEF r
    <3> QED
      BY <3>1, <3>3, <3>4
  <2> QED
    BY <1>1, <2>1, <2>2 DEF x
<1>7. Typed'
  BY <1>2, <1>5, <1>6 DEF Typed
<1>8. Known' = Known /\ dropped' \subseteq unanswered'
      /\ \A p \in Orders : TableOK(p)' /\ FillsOK(p)' /\ RowOK(p)'
  BY <1>2, <1>5, <1>6, TableKept
<1>9. \A d \in Callers : CallOK(d)'
  BY <1>2, <1>5, <1>6, <1>8, OthersStay
<1>10. ASSUME NEW p \in Orders PROVE KnownOK(p)'
  <2>1. CASE p = o
    BY <1>6, <2>1 DEF KnownOK
  <2>2. CASE p # o
    BY <1>2, <1>5, <1>6, <1>8, <2>2, KnownStays DEF IInv
  <2> QED
    BY <2>1, <2>2
<1> QED
  BY <1>5, <1>7, <1>8, <1>9, <1>10 DEF IInv

\* The answer is older than nothing the table knows, and the mutex kept every
\* report of the order waiting.
LEMMA StoreOrderKeeps ==
    ASSUME BinanceAssumption, IInv, NEW c \in Callers, StoreOrder(c) PROVE IInv'
<1>0. PICK o, x : o = call[c].o /\ x = call[c].x
  OBVIOUS
<1>1. /\ Typed /\ call[c].op = "placed" /\ lock = c /\ o \in Orders /\ x \in ExchOrder
      /\ o \notin Known /\ exch[o] # NoOrder /\ exch[o] \in ExchOrder /\ Past(x, exch[o])
      /\ x # exch[o] => Told(o)
  BY <1>0, KindsOfCall, Entries DEF StoreOrder, IInv, Typed, CallOK
<1>2. /\ ConvertBinanceOrder(x) \in Order /\ ConvertBinanceOrder(x) # NoOrder
      /\ Updated(ConvertBinanceOrder(x), x) = ConvertBinanceOrder(x)
  BY <1>1, ConvertData, UpdatedData, NoOrderIsNone
<1>3. /\ orders'[o] = ConvertBinanceOrder(x) /\ orders' \in [Orders -> Order \cup {NoOrder}]
      /\ \A p \in Orders \ {o} : orders'[p] = orders[p]
      /\ Known' = Known \cup {o}
  BY <1>0, <1>1, <1>2 DEF StoreOrder, Typed, Known
<1>4. /\ faults' \in Nat /\ (faults' = 0 => faults = 0)
      /\ faults' = 0 => row'[o] = ConvertBinanceOrder(x).status
      /\ \A p \in Orders \ {o} : row'[p] = row[p]
      /\ row' \in [Orders -> Status \cup {"none"}]
  <2>1. ConvertBinanceOrder(x).status \in Status
    BY <1>2 DEF Order
  <2>2. InsertRow(o, ConvertBinanceOrder(x).status)
    BY <1>0 DEF StoreOrder
  <2>3. faults + 1 # 0 /\ faults + 1 \in Nat
    BY <1>1 DEF Typed
  <2> QED
    BY <1>1, <2>1, <2>2, <2>3 DEF InsertRow, Typed
<1>5. UNCHANGED <<exch, wire, missed, fills>> /\ Grown
  BY <1>1, NothingWritten DEF StoreOrder
<1>6. call'[c] = Idle /\ call' \in [Callers -> Call] /\ \A d \in Callers \ {c} : call'[d] = call[d]
  BY <1>1 DEF StoreOrder, ReleaseAndReturn, Typed, Call
<1>7. Typed'
  BY <1>1, <1>3, <1>4, <1>5, <1>6 DEF Typed
<1>8. \A d \in Callers : CallOK(d)'
  <2>1. CallOK(c)'
    BY <1>6 DEF CallOK, Idle
  <2>2. exch' \in [Orders -> ExchOrder \cup {NoOrder}]
    BY <1>7 DEF Typed
  <2> QED
    BY <1>1, <1>3, <1>5, <1>6, <2>1, <2>2, OthersStay
<1>9. \A i \in 1 .. Len(wire') : WireOK(i)'
  BY <1>5, WireKept
<1>10. Told(o) => Told(o)'
  BY <1>1, <1>5 DEF Grown
<1>11. TableOK(o)'
  <2>1. x.status \in ExchStatus
    BY <1>1 DEF ExchOrder
  <2> QED
    BY <1>1, <1>2, <1>3, <1>5, <1>10, <2>1, ConvertData DEF TableOK, Past, Live, ExchStatus
<1>12. RowOK(o)'
  <2>1. ConvertBinanceOrder(x).status # "none"
    BY <1>2 DEF Order, Status
  <2> QED
    BY <1>1, <1>4, <1>5, <1>10, <2>1 DEF RowOK
<1>13. KnownOK(o)'
  BY <1>3 DEF KnownOK
<1>14. ASSUME NEW p \in Orders, p # o PROVE TableOK(p)' /\ RowOK(p)' /\ KnownOK(p)'
  <2>1. TableOK(p)'
    BY <1>1, <1>3, <1>5, <1>7, <1>14, TableStays DEF IInv, Typed, StoreOrder
  <2>2. RowOK(p)'
    BY <1>1, <1>3, <1>4, <1>5, <1>14, RowStays DEF IInv
  <2>3. KnownOK(p)'
    BY <1>0, <1>1, <1>3, <1>5, <1>6, <1>14 DEF IInv, KnownOK, StoreOrder
  <2> QED
    BY <2>1, <2>2, <2>3
<1>15. \A p \in Orders : FillsOK(p)'
  BY <1>5, FillsStay DEF IInv
<1>16. dropped' \subseteq unanswered'
  BY DEF StoreOrder, IInv
<1> QED
  BY <1>7, <1>8, <1>9, <1>11, <1>12, <1>13, <1>14, <1>15, <1>16 DEF IInv

\* The statuses an order is given keep it in the table.
LEMMA SetStatus ==
    ASSUME NEW r \in Order, NEW s \in Status
    PROVE  /\ [r EXCEPT !.status = s] \in Order
           /\ [r EXCEPT !.status = s].status = s /\ [r EXCEPT !.status = s].filled = r.filled
BY DEF Order

LEMMA SetExchStatus ==
    ASSUME NEW r \in ExchOrder, NEW s \in ExchStatus
    PROVE  /\ [r EXCEPT !.status = s] \in ExchOrder
           /\ [r EXCEPT !.status = s].status = s /\ [r EXCEPT !.status = s].filled = r.filled
           /\ r.filled \in Nat
BY DEF ExchOrder

\* A row that is written: no error and a row before, or an error to remember.
LEMMA RowWritten ==
    ASSUME Typed, NEW o \in Orders, NEW s \in Status, UpdateRow(o, s)
    PROVE  /\ row' \in [Orders -> Status \cup {"none"}] /\ faults' \in Nat
           /\ faults' = 0 => faults = 0
           /\ \A p \in Orders \ {o} : row'[p] = row[p]
           /\ faults' = 0 /\ row[o] # "none" => row'[o] = s
<1>1. CASE row[o] = "none"
  BY <1>1 DEF UpdateRow, Typed
<1>2. CASE row[o] # "none"
  <2>1. faults + 1 # 0 /\ faults + 1 \in Nat
    BY DEF Typed
  <2> QED
    BY <1>2, <2>1 DEF UpdateRow, InsertRow, Typed
<1> QED
  BY <1>1, <1>2

LEMMA CancelAcknowledgedKeeps ==
    ASSUME BinanceAssumption, IInv, NEW c \in Callers, CancelAcknowledged(c) PROVE IInv'
<1>0. PICK o : o = call[c].o
  OBVIOUS
<1> DEFINE z == [exch[o] EXCEPT !.status = "CANCELED"]
<1>1. /\ Typed /\ call[c].op = "cancel" /\ lock = c /\ o \in Orders /\ o \in Known
      /\ exch[o] # NoOrder /\ exch[o] \in ExchOrder /\ exch[o].status \in Live /\ TableOK(o)
      /\ orders[o] \in Order /\ UNCHANGED <<fills, unanswered, overtaken, dropped>>
  BY <1>0, KindsOfCall, Entries DEF CancelAcknowledged, IInv, Typed, CallOK, TableOK
<1>2. z \in ExchOrder /\ z.status = "CANCELED" /\ z.filled = exch[o].filled /\ z.filled \in Nat
  BY <1>1, SetExchStatus DEF ExchStatus
<1> HIDE DEF z
<1>3. ExchangeWrites(o, z, 0)
  BY <1>0 DEF CancelAcknowledged, z
<1>4. /\ exch' \in [Orders -> ExchOrder \cup {NoOrder}] /\ exch'[o] = z
      /\ \A p \in Orders \ {o} : exch'[p] = exch[p]
      /\ wire' \in Seq(Report) /\ Grown /\ Told(o)'
      /\ \A i \in 1 .. Len(wire') : WireOK(i)'
  <2>1. 0 \in Nat /\ 0 <= z.filled /\ exch[o].filled <= z.filled
    BY <1>2
  <2> QED
    BY <1>1, <1>2, <1>3, <2>1, Writing
<1>5. /\ orders'[o] \in Order /\ orders'[o] # NoOrder
      /\ orders'[o].status = "cancelled" /\ orders'[o].filled = orders[o].filled
      /\ \A p \in Orders \ {o} : orders'[p] = orders[p]
      /\ orders' \in [Orders -> Order \cup {NoOrder}]
  <2>1. orders' = [orders EXCEPT ![o].status = "cancelled"]
    BY <1>0 DEF CancelAcknowledged
  <2>2. orders'[o] = [orders[o] EXCEPT !.status = "cancelled"]
        /\ \A p \in Orders \ {o} : orders'[p] = orders[p]
    BY <1>1, <2>1 DEF Typed
  <2>3. orders'[o] \in Order /\ orders'[o].status = "cancelled" /\ orders'[o].filled = orders[o].filled
    <3>1. "cancelled" \in Status
      BY DEF Status
    <3> QED
      BY <1>1, <2>2, <3>1, SetStatus
  <2>4. orders' \in [Orders -> Order \cup {NoOrder}]
    BY <1>1, <2>1, <2>2, <2>3 DEF Typed
  <2> QED
    BY <2>2, <2>3, <2>4, NoOrderIsNone
<1>6. Known' = Known
  BY <1>1, <1>5 DEF Known
<1>7. /\ row' \in [Orders -> Status \cup {"none"}] /\ faults' \in Nat
      /\ faults' = 0 => faults = 0
      /\ \A p \in Orders \ {o} : row'[p] = row[p]
      /\ faults' = 0 /\ row[o] # "none" => row'[o] = "cancelled"
  BY <1>0, <1>1, RowWritten DEF CancelAcknowledged, Status
<1>8. call'[c] = Idle /\ call' \in [Callers -> Call] /\ \A d \in Callers \ {c} : call'[d] = call[d]
  BY <1>1 DEF CancelAcknowledged, ReleaseAndReturn, Typed, Call
<1>9. Typed'
  BY <1>1, <1>4, <1>5, <1>7, <1>8 DEF Typed
<1>10. \A d \in Callers : CallOK(d)'
  <2>1. CallOK(c)'
    BY <1>8 DEF CallOK, Idle
  <2> QED
    BY <1>1, <1>4, <1>6, <1>8, <2>1, OthersStay
<1>11. TableOK(o)'
  <2>1. orders[o].filled <= exch[o].filled
    BY <1>1 DEF TableOK
  <2> QED
    BY <1>2, <1>4, <1>5, <2>1, NoOrderIsNone DEF TableOK
<1>12. RowOK(o)'
  <2>1. faults = 0 => row[o] # "none"
    BY <1>1 DEF IInv, RowOK
  <2> QED
    BY <1>4, <1>7, <2>1 DEF RowOK
<1>13. ASSUME NEW p \in Orders, p # o PROVE TableOK(p)' /\ RowOK(p)'
  <2>1. TableOK(p)'
    BY <1>1, <1>4, <1>5, <1>13, TableStays DEF IInv
  <2> QED
    BY <1>1, <1>4, <1>5, <1>7, <1>13, <2>1, RowStays DEF IInv
<1>14. \A p \in Orders : FillsOK(p)' /\ KnownOK(p)'
  <2>1. \A d \in Callers : call[d].op = "placed" => call'[d] = call[d]
    BY <1>1, <1>8
  <2> QED
    BY <1>1, <1>4, <1>6, <2>1, FillsStay, KnownStays DEF IInv
<1>15. dropped' \subseteq unanswered'
  BY <1>1 DEF IInv
<1> QED
  BY <1>4, <1>9, <1>10, <1>11, <1>12, <1>13, <1>14, <1>15 DEF IInv

\* What the exchange does while a caller waits, or by itself.
LEMMA WrittenKeeps ==
    ASSUME BinanceAssumption, IInv, NEW o \in Orders, NEW z \in ExchOrder, NEW last \in Nat,
           last <= z.filled, exch[o] # NoOrder, exch[o].status \in Live, exch[o].filled <= z.filled,
           ExchangeWrites(o, z, last),
           UNCHANGED <<orders, fills, row, overtaken, dropped, unanswered>>,
           call' \in [Callers -> Call], faults' \in Nat, faults' = 0 => faults = 0,
           \A d \in Callers : \/ call'[d] = call[d] /\ (lock' = lock \/ lock # d)
                              \/ CallOK(d)' /\ call[d].op # "placed"
    PROVE  IInv'
<1>1. /\ exch' \in [Orders -> ExchOrder \cup {NoOrder}] /\ exch'[o] = z
      /\ \A p \in Orders \ {o} : exch'[p] = exch[p]
      /\ wire' \in Seq(Report) /\ Grown
      /\ \A i \in 1 .. Len(wire') : WireOK(i)'
  BY Writing
<1>2. Known' = Known /\ dropped' \subseteq unanswered'
      /\ \A p \in Orders : TableOK(p)' /\ FillsOK(p)' /\ RowOK(p)'
  BY <1>1, TableKept
<1>3. Typed /\ Typed'
  BY <1>1 DEF IInv, Typed
<1>4. ASSUME NEW d \in Callers PROVE CallOK(d)'
  <2>1. SUFFICES ASSUME call'[d] = call[d], lock' = lock \/ lock # d PROVE CallOK(d)'
    OBVIOUS
  <2>2. CallOK(d) /\ (call[d].op = "placed" => call[d].o \notin Known')
    BY <1>2 DEF IInv, CallOK
  <2> QED
    BY <1>1, <1>2, <1>3, <2>1, <2>2, CallStays
<1>5. \A p \in Orders : KnownOK(p)'
  BY <1>1, <1>2, KnownStays DEF IInv
<1> QED
  BY <1>1, <1>2, <1>3, <1>4, <1>5 DEF IInv

LEMMA CancelUnansweredKeeps ==
    ASSUME BinanceAssumption, IInv, NEW c \in Callers, CancelUnanswered(c) PROVE IInv'
<1>0. PICK o : o = call[c].o
  OBVIOUS
<1>1. /\ Typed /\ call[c].op = "cancel" /\ lock = c /\ o \in Orders /\ o \in Known
      /\ exch[o] # NoOrder /\ exch[o] \in ExchOrder /\ RetryWithBackoff(c)
      /\ UNCHANGED <<orders, fills, row, overtaken, dropped, unanswered>>
  BY <1>0, KindsOfCall, Entries DEF CancelUnanswered, IInv, Typed, CallOK, TableOK
<1>2. /\ call' \in [Callers -> Call] /\ \A d \in Callers \ {c} : call'[d] = call[d]
      /\ faults' \in Nat /\ faults' # 0
      /\ \/ lock' = lock /\ call'[c].op = "cancel" /\ call'[c].o = o
         \/ lock' = NoCaller /\ call'[c] = Idle
  BY <1>0, <1>1, Retrying
<1>3. CallOK(c)'
  <2>1. Known' = Known
    BY <1>1 DEF Known
  <2> QED
    BY <1>1, <1>2, <2>1 DEF CallOK, Idle
<1>4. CASE exch[o].status \in Live /\ ExchangeWrites(o, [exch[o] EXCEPT !.status = "CANCELED"], 0)
  <2> DEFINE z == [exch[o] EXCEPT !.status = "CANCELED"]
  <2>1. z \in ExchOrder /\ 0 <= z.filled /\ exch[o].filled <= z.filled /\ 0 \in Nat
    <3>1. "CANCELED" \in ExchStatus
      BY DEF ExchStatus
    <3>2. z \in ExchOrder /\ z.filled = exch[o].filled /\ exch[o].filled \in Nat
      BY <1>1, <3>1, SetExchStatus
    <3> QED
      BY <3>2
  <2> HIDE DEF z
  <2>2. ExchangeWrites(o, z, 0)
    BY <1>4 DEF z
  <2>3. \A d \in Callers : \/ call'[d] = call[d] /\ (lock' = lock \/ lock # d)
                           \/ CallOK(d)' /\ call[d].op # "placed"
    BY <1>1, <1>2, <1>3
  <2> QED
    BY <1>1, <1>2, <1>4, <2>1, <2>2, <2>3, WrittenKeeps
<1>5. CASE UNCHANGED <<exch, wire, missed>>
  BY <1>1, <1>2, <1>3, <1>5, OnlyCalls
<1> QED
  BY <1>0, <1>4, <1>5 DEF CancelUnanswered

LEMMA TradeKeeps ==
    ASSUME BinanceAssumption, IInv, NEW o \in Orders, NEW q \in 1 .. Qty[o], Trade(o, q) PROVE IInv'
<1> DEFINE sum == exch[o].filled + q
           z == [status |-> IF sum = Qty[o] THEN "FILLED" ELSE "PARTIALLY_FILLED", filled |-> sum]
<1>1. /\ Typed /\ exch[o] # NoOrder /\ exch[o].status \in Live /\ exch[o].filled \in Nat /\ q \in Nat
      /\ UNCHANGED <<orders, fills, row, overtaken, dropped, unanswered, lock, call, faults>>
  BY Entries DEF Trade, IInv
<1>2. z \in ExchOrder /\ q <= z.filled /\ exch[o].filled <= z.filled
  BY <1>1 DEF ExchOrder, ExchStatus
<1>3. ExchangeWrites(o, z, q)
  BY DEF Trade
<1> HIDE DEF z, sum
<1>4. call' \in [Callers -> Call] /\ faults' \in Nat
  BY <1>1 DEF Typed
<1> QED
  BY <1>1, <1>2, <1>3, <1>4, WrittenKeeps

\* The stream goes down: everything that was under way is missed.
LEMMA StreamDownKeeps == ASSUME BinanceAssumption, IInv, StreamDown PROVE IInv'
<1>1. /\ Typed /\ wire' = <<>> /\ exch' = exch /\ missed \subseteq missed'
      /\ UNCHANGED <<orders, fills, row, lock, call, faults, unanswered, overtaken, dropped>>
  BY DEF StreamDown, IInv
<1>2. \A i \in 1 .. Len(wire) : wire[i].o \in missed'
  BY <1>1 DEF StreamDown, Typed
<1>3. Grown
  <2> SUFFICES ASSUME NEW p \in Orders
               PROVE (exch[p] # NoOrder => Past(exch[p], exch[p])) /\ (Told(p) => Told(p)')
    BY <1>1 DEF Grown
  <2>1. exch[p] # NoOrder => Past(exch[p], exch[p])
    BY <1>1, Entries DEF Past
  <2>2. Told(p) => Told(p)'
    BY <1>1, <1>2 DEF Told, News
  <2> QED
    BY <2>1, <2>2
<1>4. wire' \in Seq(Report) /\ Len(wire') = 0
  BY <1>1
<1>5. Typed'
  BY <1>1, <1>4 DEF Typed
<1>6. Known' = Known /\ dropped' \subseteq unanswered'
      /\ \A p \in Orders : TableOK(p)' /\ FillsOK(p)' /\ RowOK(p)'
  BY <1>1, <1>3, TableKept DEF Typed
<1>7. ASSUME NEW d \in Callers PROVE CallOK(d)'
  <2>1. CallOK(d) /\ (call[d].op = "placed" => call[d].o \notin Known')
    BY <1>6 DEF IInv, CallOK
  <2> QED
    BY <1>1, <1>3, <1>6, <2>1, CallStays DEF Typed
<1>8. \A p \in Orders : KnownOK(p)'
  BY <1>1, <1>6, KnownStays DEF IInv
<1>9. \A i \in 1 .. Len(wire') : WireOK(i)'
  BY <1>4
<1> QED
  BY <1>5, <1>6, <1>7, <1>8, <1>9 DEF IInv

\* The answer of a GetOrder may be old, and then the order is remembered as overtaken.
LEMMA GetAppliedKeeps ==
    ASSUME BinanceAssumption, IInv, NEW c \in Callers, GetApplied(c) PROVE IInv'
<1>0. PICK o, x : o = call[c].o /\ x = call[c].x
  OBVIOUS
<1>1. /\ Typed /\ call[c].op = "got" /\ o \in Orders /\ x \in ExchOrder /\ o \in Known
      /\ exch[o] # NoOrder /\ exch[o] \in ExchOrder /\ Past(x, exch[o]) /\ orders[o] \in Order
      /\ TableOK(o)
      /\ UNCHANGED <<exch, fills, row, lock, wire, missed, faults, unanswered, dropped>>
  BY <1>0, KindsOfCall, Entries DEF GetApplied, IInv, Typed, CallOK
<1>2. /\ Updated(orders[o], x) \in Order /\ Updated(orders[o], x) # NoOrder
      /\ Updated(orders[o], x).filled = x.filled
      /\ Updated(Updated(orders[o], x), x) = Updated(orders[o], x)
  BY <1>1, UpdatedData, NoOrderIsNone
<1>3. /\ orders'[o] = Updated(orders[o], x) /\ orders' \in [Orders -> Order \cup {NoOrder}]
      /\ \A p \in Orders \ {o} : orders'[p] = orders[p]
      /\ overtaken \ {o} \subseteq overtaken' /\ (o \notin overtaken' => x = exch[o])
  BY <1>0, <1>1, <1>2 DEF GetApplied, Typed
<1>4. Known' = Known
  BY <1>1, <1>2, <1>3 DEF Known
<1>5. Grown
  BY <1>1, NothingWritten
<1>6. call'[c] = Idle /\ call' \in [Callers -> Call] /\ \A d \in Callers \ {c} : call'[d] = call[d]
  BY <1>1 DEF GetApplied, Typed, Call
<1>7. Typed'
  BY <1>1, <1>3, <1>6 DEF Typed
<1>8. \A d \in Callers : CallOK(d)'
  <2>1. CallOK(c)'
    BY <1>6 DEF CallOK, Idle
  <2> QED
    BY <1>1, <1>4, <1>5, <1>6, <2>1, OthersStay DEF Typed
<1>9. \A i \in 1 .. Len(wire') : WireOK(i)'
  BY <1>1, WireKept
<1>10. TableOK(o)'
  <2>1. x.status \in ExchStatus
    BY <1>1 DEF ExchOrder
  <2>2. x.status = "FILLED" => exch[o].status = "FILLED" /\ x = exch[o]
    BY <1>1 DEF Past, Live
  <2>3. x.status = "CANCELED" => exch[o].status = "CANCELED" /\ x = exch[o]
    BY <1>1 DEF Past, Live
  <2>4. orders'[o].filled <= exch[o].filled
    BY <1>1, <1>2, <1>3 DEF Past
  <2>5. orders'[o].status = "filled" => exch[o].status = "FILLED"
    BY <1>1, <1>3, <2>1, <2>2, <2>3, UpdatedData DEF TableOK, ExchStatus, Live
  <2>6. orders'[o].status = "cancelled" => exch[o].status = "CANCELED"
    BY <1>1, <1>3, <2>1, <2>2, <2>3, UpdatedData DEF TableOK, ExchStatus, Live
  <2>7. o \notin overtaken' => orders'[o] = Updated(orders'[o], exch[o])
    BY <1>2, <1>3
  <2> QED
    BY <1>1, <2>4, <2>5, <2>6, <2>7 DEF TableOK
<1>11. ASSUME NEW p \in Orders, p # o PROVE TableOK(p)'
  BY <1>1, <1>3, <1>5, <1>11, TableStays DEF IInv, Typed
<1>12. ASSUME NEW p \in Orders PROVE RowOK(p)' /\ FillsOK(p)' /\ KnownOK(p)'
  <2>1. RowOK(p)'
    BY <1>1, <1>4 DEF IInv, RowOK, Told, News
  <2>2. FillsOK(p)'
    BY <1>1, <1>5, FillsStay DEF IInv
  <2>3. KnownOK(p)'
    BY <1>1, <1>4, <1>6, KnownStays DEF IInv
  <2> QED
    BY <2>1, <2>2, <2>3
<1>13. dropped' \subseteq unanswered'
  BY <1>1 DEF IInv
<1> QED
  BY <1>7, <1>8, <1>9, <1>10, <1>11, <1>12, <1>13 DEF IInv

\* A report comes in: one of an order nobody knows was never answered for, one
\* of a known order brings the table up to it.
LEMMA HandleKeeps == ASSUME BinanceAssumption, IInv, HandleOrderUpdate PROVE IInv'
<1>0. PICK e : e = wire[1]
  OBVIOUS
<1> DEFINE o == e.o
           x == e.x
<1>1. /\ Typed /\ wire # <<>> /\ lock = NoCaller /\ Handle(e) /\ wire' = Tail(wire)
      /\ UNCHANGED <<exch, lock, call, unanswered, missed>>
  BY <1>0 DEF HandleOrderUpdate, IInv
<1>2. /\ wire' \in Seq(Report) /\ Len(wire) \in Nat /\ 1 \in 1 .. Len(wire)
      /\ Len(wire') = Len(wire) - 1 /\ e \in Report
      /\ \A i \in 1 .. Len(wire') : i + 1 \in 1 .. Len(wire) /\ wire'[i] = wire[i + 1]
      /\ \A j \in 2 .. Len(wire) : j - 1 \in 1 .. Len(wire') /\ wire'[j - 1] = wire[j]
  BY <1>0, <1>1 DEF Typed
<1>3. o \in Orders /\ x \in ExchOrder /\ e.last \in Nat /\ x.filled \in Nat /\ x.status \in ExchStatus
  BY <1>2 DEF Report, ExchOrder
<1>4. WireOK(1) /\ TableOK(o) /\ RowOK(o) /\ KnownOK(o) /\ FillsOK(o)
  BY <1>2, <1>3 DEF IInv
<1>5. /\ exch[o] # NoOrder /\ exch[o] \in ExchOrder /\ Past(x, exch[o]) /\ e.last <= x.filled
      /\ x.status = "FILLED" => fills[o] = <<>>
      /\ x.status = "FILLED" =>
            \A j \in 1 .. Len(wire) : wire[j].o = o /\ wire[j].x.status = "FILLED" => j = 1
  BY <1>0, <1>1, <1>3, <1>4, Entries DEF WireOK
<1>6. x # exch[o] => Told(o)'
  <2> SUFFICES ASSUME x # exch[o], o \notin missed
               PROVE  \E i \in 1 .. Len(wire') : wire'[i].o = o /\ wire'[i].x = exch[o]
    BY <1>1 DEF Told, News
  <2>1. PICK j \in 1 + 1 .. Len(wire) : wire[j].o = o /\ wire[j].x = exch[o]
    BY <1>0, <1>4 DEF WireOK
  <2>2. j - 1 \in 1 .. Len(wire') /\ wire'[j - 1] = wire[j]
    BY <1>2, <2>1
  <2> QED
    BY <2>1, <2>2
<1>7. \A p \in Orders \ {o} : Told(p) => Told(p)'
  <2> SUFFICES ASSUME NEW p \in Orders \ {o}, News(p) PROVE News(p)'
    BY <1>1 DEF Told
  <2>1. PICK j \in 1 .. Len(wire) : wire[j].o = p /\ wire[j].x = exch[p]
    BY DEF News
  <2>2. j \in 2 .. Len(wire)
    BY <1>0, <1>2, <2>1
  <2>3. j - 1 \in 1 .. Len(wire') /\ wire'[j - 1] = wire[j]
    BY <1>2, <2>2
  <2> QED
    BY <1>1, <2>1, <2>3 DEF News
<1>8. \A c \in Callers : call[c].op \notin {"place", "placed", "cancel"}
  BY <1>1 DEF IInv, CallOK, BinanceAssumption
<1>9. /\ \A p \in Orders \ {o} : orders'[p] = orders[p] /\ fills'[p] = fills[p] /\ row'[p] = row[p]
      /\ \A p \in Orders \ {o} : p \in overtaken => p \in overtaken'
      /\ orders' \in [Orders -> Order \cup {NoOrder}] /\ fills' \in [Orders -> Seq(Nat)]
      /\ row' \in [Orders -> Status \cup {"none"}] /\ faults' \in Nat /\ (faults' = 0 => faults = 0)
      /\ x.status # "FILLED" => fills'[o] = fills[o]
      /\ Known' = Known /\ dropped' \subseteq unanswered'
      /\ TableOK(o)' /\ RowOK(o)' /\ FillsOK(o)'
  <2>1. CASE o \notin Known
    <3>1. /\ dropped' = dropped \cup {o} /\ UNCHANGED <<orders, fills, row, faults, overtaken>>
      BY <1>1, <2>1 DEF Handle
    <3>2. o \in unanswered
      BY <1>4, <1>5, <1>8, <2>1 DEF KnownOK
    <3>3. o \notin Known'
      BY <2>1, <3>1 DEF Known
    <3>4. TableOK(o)' /\ RowOK(o)' /\ FillsOK(o)'
      BY <1>1, <1>4, <3>1, <3>3 DEF TableOK, RowOK, FillsOK
    <3>5. Known' = Known /\ dropped' \subseteq unanswered'
      BY <1>1, <3>1, <3>2 DEF Known, IInv
    <3> QED
      BY <1>1, <3>1, <3>4, <3>5 DEF Typed
  <2>2. CASE o \in Known
    <3> DEFINE u == Updated(orders[o], x)
    <3>1. /\ orders' = [orders EXCEPT ![o] = u]
          /\ fills' = IF x.status = "FILLED" THEN HandleOrderFilled(o, e.last) ELSE fills
          /\ UpdateRow(o, u.status) /\ overtaken' = overtaken \ {o} /\ dropped' = dropped
      BY <1>1, <2>2 DEF Handle
    <3>2. /\ orders[o] \in Order /\ u \in Order /\ u # NoOrder /\ u.filled = x.filled
          /\ Updated(u, x) = u /\ u.status \in Status
          /\ x.status \in Live => u.status = "open"
          /\ x.status = "FILLED" => u.status = "filled"
          /\ x.status = "CANCELED" => u.status = "cancelled"
          /\ x.status = "EXPIRED" => u.status = orders[o].status
      BY <1>1, <1>3, <2>2, Entries, UpdatedData, NoOrderIsNone DEF Order
    <3> HIDE DEF u
    <3>3. /\ orders'[o] = u /\ orders' \in [Orders -> Order \cup {NoOrder}]
          /\ \A p \in Orders \ {o} : orders'[p] = orders[p]
      BY <1>1, <1>3, <3>1, <3>2 DEF Typed
    <3>4. Known' = Known
      BY <1>3, <2>2, <3>2, <3>3 DEF Known
    <3>5. /\ row' \in [Orders -> Status \cup {"none"}] /\ faults' \in Nat
          /\ faults' = 0 => faults = 0
          /\ \A p \in Orders \ {o} : row'[p] = row[p]
          /\ faults' = 0 /\ row[o] # "none" => row'[o] = u.status
      BY <1>1, <1>3, <3>1, <3>2, RowWritten
    <3>6. /\ fills' \in [Orders -> Seq(Nat)] /\ \A p \in Orders \ {o} : fills'[p] = fills[p]
          /\ x.status # "FILLED" => fills'[o] = fills[o]
          /\ x.status = "FILLED" => fills'[o] = <<>> \/ fills'[o] = <<e.last>>
      <4>1. CASE x.status # "FILLED"
        BY <1>1, <3>1, <4>1 DEF Typed
      <4>2. CASE x.status = "FILLED" /\ e.last > 0
        <5>1. fills' = [fills EXCEPT ![o] = Append(fills[o], e.last)]
          BY <3>1, <4>2 DEF HandleOrderFilled
        <5>2. fills[o] = <<>>
          BY <1>5, <4>2
        <5>3. Append(<<>>, e.last) = <<e.last>> /\ <<e.last>> \in Seq(Nat)
          BY <1>3
        <5> QED
          BY <1>1, <1>3, <4>2, <5>1, <5>2, <5>3 DEF Typed
      <4>3. CASE x.status = "FILLED" /\ ~ (e.last > 0)
        BY <1>1, <1>5, <3>1, <4>3 DEF HandleOrderFilled, Typed
      <4> QED
        BY <4>1, <4>2, <4>3
    <3>7. x.status \notin Live => x = exch[o]
      BY <1>5 DEF Past
    <3>8. TableOK(o)'
      <4>1. u.filled <= exch[o].filled
        BY <1>5, <3>2 DEF Past
      <4>2. u.status = "filled" => exch[o].status = "FILLED"
        BY <1>3, <1>4, <2>2, <3>2, <3>7 DEF TableOK, ExchStatus, Live
      <4>3. u.status = "cancelled" => exch[o].status = "CANCELED"
        BY <1>3, <1>4, <2>2, <3>2, <3>7 DEF TableOK, ExchStatus, Live
      <4>4. u = Updated(u, exch[o]) \/ Told(o)'
        BY <1>6, <3>2
      <4> QED
        BY <1>1, <1>5, <3>3, <4>1, <4>2, <4>3, <4>4 DEF TableOK
    <3>9. RowOK(o)'
      <4> SUFFICES ASSUME faults' = 0
                   PROVE  /\ row'[o] # "none"
                          /\ exch[o].status \in {"FILLED", "CANCELED"} =>
                                row'[o] = ConvertBinanceOrder(exch[o]).status \/ Told(o)'
        BY <1>1 DEF RowOK
      <4>1. row'[o] = u.status
        BY <1>4, <2>2, <3>5 DEF RowOK
      <4>2. ASSUME exch[o].status \in {"FILLED", "CANCELED"}, x = exch[o]
            PROVE  u.status = ConvertBinanceOrder(exch[o]).status
        BY <1>5, <3>2, <4>2, ConvertData DEF Live
      <4> QED
        BY <1>6, <3>2, <4>1, <4>2 DEF Status
    <3>10. FillsOK(o)'
      <4>1. CASE x.status # "FILLED"
        BY <1>1, <1>4, <3>6, <4>1 DEF FillsOK
      <4>2. CASE x.status = "FILLED"
        <5>1. exch[o].status = "FILLED" /\ x = exch[o]
          BY <3>7, <4>2 DEF Live
        <5>2. ASSUME fills'[o] # <<>>
              PROVE  Len(fills'[o]) = 1 /\ fills'[o][1] <= exch[o].filled
          <6>1. fills'[o] = <<e.last>>
            BY <3>6, <4>2, <5>2
          <6>2. Len(<<e.last>>) = 1 /\ <<e.last>>[1] = e.last
            BY <1>3
          <6> QED
            BY <1>5, <5>1, <6>1, <6>2
        <5> QED
          BY <1>1, <1>5, <5>1, <5>2 DEF FillsOK
      <4> QED
        BY <4>1, <4>2
    <3>11. dropped' \subseteq unanswered'
      BY <1>1, <3>1 DEF IInv
    <3> QED
      BY <3>1, <3>3, <3>4, <3>5, <3>6, <3>8, <3>9, <3>10, <3>11
  <2> QED
    BY <2>1, <2>2
<1>10. Typed'
  BY <1>1, <1>2, <1>9 DEF Typed
<1>11. \A c \in Callers : CallOK(c)'
  BY <1>1, <1>8, <1>9 DEF IInv, CallOK
<1>12. ASSUME NEW i \in 1 .. Len(wire') PROVE WireOK(i)'
  <2>1. i + 1 \in 1 .. Len(wire) /\ wire'[i] = wire[i + 1] /\ WireOK(i + 1)
    BY <1>2 DEF IInv
  <2>2. wire[i + 1] \in Report /\ wire[i + 1].o \in Orders
    <3>1. wire[i + 1] \in Report
      BY <1>1, <2>1 DEF Typed
    <3> QED
      BY <3>1 DEF Report
  <2>3. PICK p, y : p = wire[i + 1].o /\ y = wire[i + 1].x
    OBVIOUS
  <2>4. /\ exch[p] # NoOrder /\ Past(y, exch[p]) /\ wire[i + 1].last <= y.filled
        /\ y # exch[p] => \/ p \in missed
                          \/ \E j \in i + 2 .. Len(wire) : wire[j].o = p /\ wire[j].x = exch[p]
        /\ y.status = "FILLED" =>
              /\ fills[p] = <<>>
              /\ \A j \in 1 .. Len(wire) : wire[j].o = p /\ wire[j].x.status = "FILLED" => j = i + 1
    BY <2>1, <2>3 DEF WireOK
  <2>5. y # exch[p] => \/ p \in missed
                       \/ \E j \in i + 1 .. Len(wire') : wire'[j].o = p /\ wire'[j].x = exch[p]
    <3> SUFFICES ASSUME NEW j \in i + 2 .. Len(wire), wire[j].o = p, wire[j].x = exch[p]
                 PROVE  \E k \in i + 1 .. Len(wire') : wire'[k].o = p /\ wire'[k].x = exch[p]
      BY <2>4
    <3>1. j - 1 \in i + 1 .. Len(wire') /\ wire'[j - 1] = wire[j]
      BY <1>2
    <3> QED
      BY <3>1
  <2>6. ASSUME y.status = "FILLED"
        PROVE  /\ fills'[p] = <<>>
               /\ \A j \in 1 .. Len(wire') : wire'[j].o = p /\ wire'[j].x.status = "FILLED" => j = i
    <3>1. ~ (e.o = p /\ x.status = "FILLED")
      BY <1>0, <1>2, <2>1, <2>4, <2>6
    <3>2. fills'[p] = <<>>
      BY <1>9, <2>2, <2>3, <2>4, <2>6, <3>1
    <3>3. ASSUME NEW j \in 1 .. Len(wire'), wire'[j].o = p, wire'[j].x.status = "FILLED" PROVE j = i
      <4>1. wire'[j] = wire[j + 1] /\ j + 1 \in 1 .. Len(wire)
        BY <1>2
      <4>2. j + 1 = i + 1
        BY <2>4, <2>6, <3>3, <4>1
      <4> QED
        BY <1>2, <4>2
    <3> QED
      BY <3>2, <3>3
  <2> QED
    BY <1>1, <2>1, <2>3, <2>4, <2>5, <2>6 DEF WireOK
<1>13. ASSUME NEW p \in Orders, p # o PROVE TableOK(p)' /\ RowOK(p)' /\ FillsOK(p)'
  BY <1>1, <1>7, <1>9, <1>13 DEF IInv, TableOK, RowOK, FillsOK
<1>14. \A p \in Orders : KnownOK(p)'
  BY <1>1, <1>9 DEF IInv, KnownOK
<1> QED
  BY <1>9, <1>10, <1>11, <1>12, <1>13, <1>14 DEF IInv

LEMMA UnchangedKeeps ==
    ASSUME IInv, UNCHANGED <<exch, orders, fills, row, lock, call, wire, faults,
                             unanswered, missed, overtaken, dropped>>
    PROVE  IInv'
<1>1. Known' = Known /\ \A o \in Orders : Told(o)' <=> Told(o)
  BY DEF Known, Told, News
<1>2. Typed' /\ dropped' \subseteq unanswered'
  BY DEF IInv, Typed
<1>3. ASSUME NEW c \in Callers PROVE CallOK(c)'
  <2>1. CallOK(c) /\ (call[c].op = "placed" => call[c].o \in Orders)
    BY KindsOfCall DEF IInv, Typed
  <2> QED
    BY <1>1, <2>1 DEF CallOK
<1>4. \A i \in 1 .. Len(wire') : WireOK(i)'
  BY DEF IInv, WireOK
<1>5. ASSUME NEW o \in Orders PROVE TableOK(o)' /\ KnownOK(o)' /\ FillsOK(o)' /\ RowOK(o)'
  <2>1. TableOK(o) /\ KnownOK(o) /\ FillsOK(o) /\ RowOK(o)
    BY DEF IInv
  <2> QED
    BY <1>1, <2>1 DEF TableOK, KnownOK, FillsOK, RowOK
<1> QED
  BY <1>2, <1>3, <1>4, <1>5 DEF IInv

LEMMA StartsSound == ASSUME BinanceAssumption, Init PROVE IInv
<1>1. Typed
  BY DEF Init, Typed, Call
<1>2. \A c \in Callers : CallOK(c)
  BY DEF Init, CallOK, Idle
<1>3. Len(wire) = 0 /\ Known = {}
  BY DEF Init, Known
<1>4. \A o \in Orders : TableOK(o) /\ KnownOK(o) /\ FillsOK(o) /\ RowOK(o)
  BY <1>3 DEF Init, TableOK, KnownOK, FillsOK, RowOK
<1> QED
  BY <1>1, <1>2, <1>3, <1>4 DEF Init, IInv

LEMMA StepsKeep == ASSUME BinanceAssumption, IInv, [Next]_vars PROVE IInv'
<1>1. ASSUME NEW c \in Callers, PlaceOrder(c) PROVE IInv'
  BY <1>1, PlaceOrderKeeps
<1>2. ASSUME NEW c \in Callers, CreateOrder(c) PROVE IInv'
  BY <1>2, CreateOrderKeeps
<1>3. ASSUME NEW c \in Callers, CreateFails(c) PROVE IInv'
  BY <1>3, CreateFailsKeeps
<1>4. ASSUME NEW c \in Callers, StoreOrder(c) PROVE IInv'
  BY <1>4, StoreOrderKeeps
<1>5. ASSUME NEW c \in Callers, CancelOrder(c) PROVE IInv'
  BY <1>5, CancelOrderKeeps
<1>6. ASSUME NEW c \in Callers, CancelAcknowledged(c) PROVE IInv'
  BY <1>6, CancelAcknowledgedKeeps
<1>7. ASSUME NEW c \in Callers, CancelUnanswered(c) PROVE IInv'
  BY <1>7, CancelUnansweredKeeps
<1>8. ASSUME NEW c \in Callers, CancelTooLate(c) PROVE IInv'
  BY <1>8, CancelTooLateKeeps
<1>9. ASSUME NEW c \in Callers, GetOrder(c) PROVE IInv'
  BY <1>9, GetOrderKeeps
<1>10. ASSUME NEW c \in Callers, GetAnswered(c) PROVE IInv'
  BY <1>10, GetAnsweredKeeps
<1>11. ASSUME NEW c \in Callers, GetApplied(c) PROVE IInv'
  BY <1>11, GetAppliedKeeps
<1>12. ASSUME NEW o \in Orders, NEW q \in 1 .. Qty[o], Trade(o, q) PROVE IInv'
  BY <1>12, TradeKeeps
<1>13. CASE StreamUp
  BY <1>13, UnchangedKeeps DEF StreamUp
<1>14. CASE StreamDown
  BY <1>14, StreamDownKeeps
<1>15. CASE HandleOrderUpdate
  BY <1>15, HandleKeeps
<1>16. CASE UNCHANGED vars
  BY <1>16, UnchangedKeeps DEF vars
<1> QED
  BY <1>1, <1>2, <1>3, <1>4, <1>5, <1>6, <1>7, <1>8, <1>9, <1>10, <1>11, <1>12, <1>13,
     <1>14, <1>15, <1>16 DEF Next

\* What the client's table, its calls and the reports under way know of an order
\* stays a past of the order (PlaceOrder, CancelOrder, GetOrder, handleOrderUpdate).
THEOREM KnowledgeIsPast == ASSUME BinanceAssumption PROVE Spec => []IInv
<1>1. Init => IInv
  BY StartsSound
<1>2. IInv /\ [Next]_vars => IInv'
  BY StepsKeep
<1> QED
  BY <1>1, <1>2, PTL DEF Spec

-----------------------------------------------------------------------------
(* What follows from it.                                                   *)

LEMMA IInvEnds == ASSUME BinanceAssumption, IInv PROVE EndedMeansEnded
<1> SUFFICES ASSUME NEW o \in Known, orders[o].status \in Final
             PROVE  ConvertBinanceOrder(exch[o]).status = orders[o].status
  BY DEF EndedMeansEnded
<1>1. o \in Orders /\ Typed /\ TableOK(o)
  BY DEF Known, IInv
<1>2. exch[o] \in ExchOrder
  BY <1>1, Entries DEF TableOK
<1> QED
  BY <1>1, <1>2, ConvertData DEF TableOK, Final, Live

\* An order the client holds as ended has ended at the exchange, in the same
\* way, under any interleaving of callers, answers, reports and retries.
THEOREM EndsAreReal == ASSUME BinanceAssumption PROVE Spec => []EndedMeansEnded
BY KnowledgeIsPast, IInvEnds, PTL

\* A report the client drops is one of an order whose creation nobody answered:
\* the mutex is held from the request to the mapping (PlaceOrder, handleOrderUpdate).
THEOREM DropsAreExplained == ASSUME BinanceAssumption PROVE Spec => []DroppedOnlyUnanswered
<1>1. IInv => DroppedOnlyUnanswered
  BY DEF IInv, DroppedOnlyUnanswered
<1> QED
  BY <1>1, KnowledgeIsPast, PTL

\* The client counts no lot and no fill the exchange did not execute, and each
\* order's fill once (updateOrderFromBinance, handleOrderFilled).
THEOREM StaysBehind == ASSUME BinanceAssumption PROVE Spec => []NeverAhead
<1>1. ASSUME IInv PROVE NeverAhead
  <2> SUFFICES ASSUME NEW o \in Known
               PROVE  /\ orders[o].filled <= exch[o].filled
                      /\ Len(fills[o]) <= 1
                      /\ fills[o] # <<>> => exch[o].status = "FILLED"
                                            /\ fills[o][1] <= exch[o].filled
    BY DEF NeverAhead
  <2>1. o \in Orders /\ TableOK(o) /\ FillsOK(o)
    BY <1>1 DEF Known, IInv
  <2>2. CASE fills[o] = <<>>
    <3>1. Len(fills[o]) = 0
      BY <2>2
    <3> QED
      BY <2>1, <2>2, <3>1 DEF TableOK
  <2>3. CASE fills[o] # <<>>
    <3>1. Len(fills[o]) = 1
      BY <2>1, <2>3 DEF FillsOK
    <3>2. Len(fills[o]) <= 1
      BY <3>1
    <3> QED
      BY <2>1, <2>3, <3>2 DEF TableOK, FillsOK
  <2> QED
    BY <2>2, <2>3
<1> QED
  BY <1>1, KnowledgeIsPast, PTL

\* With nothing under way, the client's order is the exchange's, but for a lost
\* report and a GetOrder answer that overtook one (handleOrderUpdate, GetOrder).
THEOREM RestsInAgreement == ASSUME BinanceAssumption PROVE Spec => []AgreesAtRest
<1>1. ASSUME IInv PROVE AgreesAtRest
  <2> SUFFICES ASSUME wire = <<>>, NEW o \in Known \ (missed \cup overtaken)
               PROVE  orders[o] = Updated(orders[o], exch[o])
    BY DEF AgreesAtRest
  <2>1. TableOK(o) /\ ~ Told(o)
    BY <1>1 DEF Known, IInv, Told, News
  <2> QED
    BY <2>1 DEF TableOK
<1> QED
  BY <1>1, KnowledgeIsPast, PTL

\* Without errors and lost reports the database knows of every end the client
\* knows of, once no report is under way (CancelOrder, handleOrderUpdate).
THEOREM RowsEndToo == ASSUME BinanceAssumption PROVE Spec => []RowKnowsTheEnd
<1>1. ASSUME BinanceAssumption, IInv PROVE RowKnowsTheEnd
  <2> SUFFICES ASSUME faults = 0, wire = <<>>, NEW o \in Known \ missed,
                      orders[o].status \in Final
               PROVE  row[o] = orders[o].status
    BY DEF RowKnowsTheEnd
  <2>1. /\ o \in Orders /\ RowOK(o) /\ TableOK(o) /\ ~ Told(o)
    BY <1>1 DEF Known, IInv, Told, News
  <2>2. ConvertBinanceOrder(exch[o]).status = orders[o].status
    BY <1>1, IInvEnds DEF EndedMeansEnded
  <2> QED
    BY <2>1, <2>2 DEF RowOK, TableOK, Final
<1> QED
  BY <1>1, KnowledgeIsPast, PTL

-----------------------------------------------------------------------------
(* Ended orders that become open again.                                    *)

Reopened(o) == orders[o].status \in Final /\ orders'[o].status \notin Final
OlderNews(o) ==
    \/ o \in overtaken' \cup missed'
    \/ \E i \in DOMAIN wire' : wire'[i].o = o /\ wire'[i].x = exch[o]

\* An entry written from the order as it is now, after it ended, is ended.
LEMMA EndsStayEnded ==
    ASSUME BinanceAssumption, IInv, NEW o \in Known, orders[o].status \in Final
    PROVE  Updated(orders[o], exch[o]).status \in Final
<1>1. o \in Orders /\ Typed /\ TableOK(o)
  BY DEF Known, IInv
<1>2. exch[o] \in ExchOrder /\ orders[o] \in Order
  BY <1>1, Entries DEF TableOK
<1> QED
  BY <1>1, <1>2, UpdatedData DEF TableOK, Final

LEMMA AppliedOlder ==
    ASSUME BinanceAssumption, IInv, NEW c \in Callers, GetApplied(c),
           NEW o \in Known, Reopened(o)
    PROVE  OlderNews(o)
<1>1. o \in Orders /\ orders \in [Orders -> Order \cup {NoOrder}]
  BY DEF Known, IInv, Typed
<1>2. o = call[c].o /\ orders'[o] = Updated(orders[o], call[c].x)
  BY <1>1 DEF GetApplied, Reopened
<1>3. call[c].x # exch[o]
  BY <1>2, EndsStayEnded DEF Reopened
<1> QED
  BY <1>2, <1>3 DEF GetApplied, OlderNews

LEMMA HandledOlder ==
    ASSUME BinanceAssumption, IInv, HandleOrderUpdate, NEW o \in Known, Reopened(o)
    PROVE  OlderNews(o)
<1>1. /\ Typed /\ o \in Orders /\ orders \in [Orders -> Order \cup {NoOrder}]
      /\ wire \in Seq(Report) /\ wire # <<>> /\ wire' = Tail(wire) /\ Handle(wire[1])
      /\ UNCHANGED <<exch, missed>>
  BY DEF Known, IInv, Typed, HandleOrderUpdate
<1>2. /\ Len(wire) \in Nat /\ 1 \in 1 .. Len(wire) /\ DOMAIN wire' = 1 .. Len(wire')
      /\ \A j \in 2 .. Len(wire) : j - 1 \in 1 .. Len(wire') /\ wire'[j - 1] = wire[j]
  BY <1>1
<1>3. wire[1].o \in Known
  BY <1>1 DEF Handle, Reopened
<1>4. orders' = [orders EXCEPT ![wire[1].o] = Updated(orders[wire[1].o], wire[1].x)]
  BY <1>1, <1>3 DEF Handle
<1>5. o = wire[1].o /\ orders'[o] = Updated(orders[o], wire[1].x)
  BY <1>1, <1>4 DEF Reopened
<1>6. wire[1].x # exch[o]
  BY <1>5, EndsStayEnded DEF Reopened
<1>7. WireOK(1)
  BY <1>2 DEF IInv
<1>8. o \in missed \/ \E j \in 2 .. Len(wire) : wire[j].o = o /\ wire[j].x = exch[o]
  BY <1>5, <1>6, <1>7 DEF WireOK
<1> QED
  BY <1>1, <1>2, <1>8 DEF OlderNews

LEMMA StoredUnknown ==
    ASSUME IInv, NEW c \in Callers, StoreOrder(c), NEW o \in Known PROVE ~ Reopened(o)
<1>1. /\ call[c].o \notin Known /\ orders' = [orders EXCEPT ![call[c].o] = ConvertBinanceOrder(call[c].x)]
      /\ orders \in [Orders -> Order \cup {NoOrder}] /\ o \in Orders
  BY DEF StoreOrder, IInv, CallOK, Typed, Known
<1> QED
  BY <1>1 DEF Reopened

LEMMA CancelledEnds ==
    ASSUME BinanceAssumption, IInv, NEW c \in Callers, CancelAcknowledged(c), NEW o \in Known
    PROVE  ~ Reopened(o)
<1>1. /\ orders' = [orders EXCEPT ![call[c].o].status = "cancelled"] /\ Typed
      /\ orders \in [Orders -> Order \cup {NoOrder}] /\ o \in Orders
  BY DEF CancelAcknowledged, IInv, Typed, Known
<1>2. orders[o] \in Order
  BY <1>1, Entries
<1>3. orders'[o] = orders[o] \/ orders'[o] = [orders[o] EXCEPT !.status = "cancelled"]
  BY <1>1
<1> QED
  BY <1>2, <1>3, SetStatus DEF Reopened, Final, Status

\* A filled or cancelled order becomes open again only through something older
\* than its end: a GetOrder answer or a report that precedes the one of the end.
THEOREM ReopensByOlderNews ==
    ASSUME BinanceAssumption PROVE Spec => ReopenedOnlyByOlderNews
<1>1. ASSUME BinanceAssumption, IInv, [Next]_vars, NEW o \in Known, Reopened(o)
      PROVE  OlderNews(o)
  <2>1. orders' # orders
    BY <1>1 DEF Reopened
  <2>2. \/ \E c \in Callers : StoreOrder(c) \/ CancelAcknowledged(c) \/ GetApplied(c)
        \/ HandleOrderUpdate
    BY <1>1, <2>1 DEF Next, vars, PlaceOrder, CreateOrder, CreateFails, CancelOrder,
       CancelUnanswered, CancelTooLate, GetOrder, GetAnswered, Trade, StreamUp, StreamDown
  <2> QED
    BY <1>1, <2>2, StoredUnknown, CancelledEnds, AppliedOlder, HandledOlder
<1>2. ASSUME BinanceAssumption, IInv, [Next]_vars
      PROVE  [\A o \in Known :
                 orders[o].status \in Final /\ orders'[o].status \notin Final =>
                    \/ o \in overtaken' \cup missed'
                    \/ \E i \in DOMAIN wire' : wire'[i].o = o /\ wire'[i].x = exch[o]]_vars
  BY <1>1, <1>2 DEF Reopened, OlderNews
<1>3. Spec => []IInv
  BY KnowledgeIsPast
<1> QED
  BY <1>2, <1>3, PTL DEF Spec, ReopenedOnlyByOlderNews
-----------------------------------------------------------------------------
(* The live part of the run.                                               *)

\* A behaviour of the run is one of BinanceOrders.
LEMMA LivePart == MCSpec => Spec
<1>1. MCInit => Init
  BY DEF MCInit
<1>2. [MCNext]_<<part, vars, paper>> => [Next]_vars
  BY DEF MCNext
<1> QED
  BY <1>1, <1>2, PTL DEF MCSpec, Spec

\* No order fills for more than it is for, and no fill is empty.
Bounded ==
    /\ lock \in Callers \cup {NoCaller} /\ up \in BOOLEAN
    /\ \A o \in Orders : /\ exch[o] # NoOrder => exch[o].filled <= Qty[o]
                         /\ fills[o] # <<>> => fills[o][1] > 0

LEMMA StaysBounded ==
    ASSUME BinanceAssumption
    PROVE  Spec => []Bounded
<1>1. BinanceAssumption
  OBVIOUS
<1>2. Init => Bounded
  BY DEF Init, Bounded
<1>3. ASSUME IInv, Bounded, [Next]_vars PROVE Bounded'
  <2>0. exch \in [Orders -> ExchOrder \cup {NoOrder}] /\ fills \in [Orders -> Seq(Nat)]
        /\ wire \in Seq(Report) /\ \A o \in Orders : Qty[o] \in Nat
    BY <1>1, <1>3 DEF IInv, Typed, BinanceAssumption
  <2>1. lock' \in Callers \cup {NoCaller} /\ up' \in BOOLEAN
    <3>1. lock \in Callers \cup {NoCaller} /\ up \in BOOLEAN
      BY <1>3 DEF Bounded
    <3>2. ASSUME NEW c \in Callers, PlaceOrder(c) \/ CancelOrder(c)
          PROVE  lock' = c /\ up' = up
      BY <3>2 DEF PlaceOrder, CancelOrder
    <3>3. ASSUME NEW c \in Callers,
                 \/ CreateOrder(c) \/ CreateFails(c) \/ StoreOrder(c)
                 \/ CancelAcknowledged(c) \/ CancelUnanswered(c) \/ CancelTooLate(c)
          PROVE  lock' \in {lock, NoCaller} /\ up' = up
      BY <3>3 DEF CreateOrder, CreateFails, StoreOrder, CancelAcknowledged, CancelUnanswered, CancelTooLate,
         RetryWithBackoff, ReleaseAndReturn
    <3>4. ASSUME NEW c \in Callers, GetOrder(c) \/ GetAnswered(c) \/ GetApplied(c)
          PROVE  lock' = lock /\ up' = up
      BY <3>4 DEF GetOrder, GetAnswered, GetApplied
    <3>5. ASSUME NEW o \in Orders, NEW q \in 1 .. Qty[o], Trade(o, q) PROVE lock' = lock /\ up' = up
      BY <3>5 DEF Trade
    <3>6. StreamUp \/ StreamDown \/ HandleOrderUpdate \/ UNCHANGED vars
          => lock' = lock /\ up' \in {up, TRUE, FALSE}
      BY DEF StreamUp, StreamDown, HandleOrderUpdate, vars
    <3> QED
      BY <1>3, <3>1, <3>2, <3>3, <3>4, <3>5, <3>6 DEF Next
  <2>2. ASSUME NEW o \in Orders, exch'[o] # NoOrder PROVE exch'[o].filled <= Qty[o]
    <3>1. CASE exch' = exch
      BY <1>3, <2>2, <3>1 DEF Bounded
    <3>2. CASE exch' # exch
      <4>1. \/ \E c \in Callers : CreateOrder(c) \/ CancelAcknowledged(c) \/ CancelUnanswered(c)
            \/ \E p \in Orders : \E q \in 1 .. Qty[p] : Trade(p, q)
        BY <1>3, <3>2 DEF Next, vars, PlaceOrder, CreateFails, StoreOrder, CancelOrder, CancelTooLate,
           GetOrder, GetAnswered, GetApplied, StreamUp, StreamDown, HandleOrderUpdate
      <4>2. PICK p \in Orders : \E x : exch' = [exch EXCEPT ![p] = x] /\ x.filled <= Qty[p]
        <5>1. ASSUME NEW c \in Callers, CreateOrder(c)
              PROVE  \E p \in Orders : \E x : exch' = [exch EXCEPT ![p] = x] /\ x.filled <= Qty[p]
          <6>1. PICK p \in Orders, s \in {"NEW", "FILLED", "EXPIRED"} :
                   exch' = [exch EXCEPT ![p] = [status |-> s, filled |-> IF s = "FILLED" THEN Qty[p] ELSE 0]]
            BY <5>1 DEF CreateOrder, ExchangeWrites
          <6>2. [status |-> s, filled |-> IF s = "FILLED" THEN Qty[p] ELSE 0].filled <= Qty[p]
            BY <2>0
          <6> QED
            BY <6>1, <6>2
        <5>2. ASSUME NEW c \in Callers, CancelAcknowledged(c) \/ CancelUnanswered(c)
              PROVE  \E p \in Orders : \E x : exch' = [exch EXCEPT ![p] = x] /\ x.filled <= Qty[p]
          <6>1. PICK p : p = call[c].o
            OBVIOUS
          <6>2. exch[p].status \in Live /\ exch' = [exch EXCEPT ![p] = [exch[p] EXCEPT !.status = "CANCELED"]]
            BY <3>2, <5>2, <6>1 DEF CancelAcknowledged, CancelUnanswered, ExchangeWrites
          <6>3. p \in Orders /\ exch[p] \in ExchOrder /\ exch[p] # NoOrder
            <7>1. call[c].op = "cancel" /\ CallOK(c)
              BY <1>3, <5>2 DEF IInv, CancelAcknowledged, CancelUnanswered
            <7>2. p \in Known
              BY <6>1, <7>1 DEF CallOK
            <7>3. p \in Orders /\ TableOK(p)
              BY <1>3, <7>2 DEF IInv, Known
            <7> QED
              BY <2>0, <7>2, <7>3 DEF TableOK
          <6>4. [exch[p] EXCEPT !.status = "CANCELED"].filled = exch[p].filled
            BY <6>3 DEF ExchOrder
          <6> QED
            BY <1>3, <6>2, <6>3, <6>4 DEF Bounded
        <5>3. ASSUME NEW p \in Orders, NEW q \in 1 .. Qty[p], Trade(p, q)
              PROVE  \E x : exch' = [exch EXCEPT ![p] = x] /\ x.filled <= Qty[p]
          <6>1. PICK s, n : /\ exch' = [exch EXCEPT ![p] = [status |-> s, filled |-> n]]
                            /\ n = exch[p].filled + q /\ exch[p].filled + q <= Qty[p]
            BY <5>3 DEF Trade, ExchangeWrites
          <6>2. [status |-> s, filled |-> n].filled <= Qty[p]
            BY <6>1
          <6> QED
            BY <6>1, <6>2
        <5> QED
          BY <4>1, <5>1, <5>2, <5>3
      <4> QED
        BY <1>3, <2>0, <2>2, <4>2 DEF Bounded
    <3> QED
      BY <3>1, <3>2
  <2>3. ASSUME NEW o \in Orders, fills'[o] # <<>> PROVE fills'[o][1] > 0
    <3>1. CASE fills' = fills
      BY <1>3, <2>3, <3>1 DEF Bounded
    <3>2. CASE fills' # fills
      <4>1. HandleOrderUpdate
        BY <1>3, <3>2 DEF Next, vars, PlaceOrder, CreateOrder, CreateFails, StoreOrder, CancelOrder,
           CancelAcknowledged, CancelUnanswered, CancelTooLate, GetOrder, GetAnswered, GetApplied, Trade,
           StreamUp, StreamDown
      <4>2. PICK e : e = Head(wire)
        OBVIOUS
      <4>3. e.o \in Orders /\ e.last \in Nat /\ e = wire[1] /\ Len(wire) \in Nat /\ 1 \in 1 .. Len(wire)
        <5>1. wire # <<>> /\ wire \in Seq(Report)
          BY <2>0, <4>1 DEF HandleOrderUpdate
        <5>2. e = wire[1] /\ Len(wire) \in Nat /\ 1 \in 1 .. Len(wire)
          BY <4>2, <5>1
        <5>3. e \in Report
          BY <5>1, <5>2
        <5> QED
          BY <5>2, <5>3 DEF Report
      <4>4. e.x.status = "FILLED" /\ e.last > 0 /\ fills' = [fills EXCEPT ![e.o] = Append(fills[e.o], e.last)]
        BY <3>2, <4>1, <4>2 DEF HandleOrderUpdate, Handle, HandleOrderFilled
      <4>5. fills[e.o] = <<>>
        BY <1>3, <4>3, <4>4 DEF IInv, WireOK
      <4>6. Append(fills[e.o], e.last) = <<e.last>> /\ <<e.last>>[1] = e.last
        BY <4>5
      <4> QED
        BY <1>3, <2>0, <2>3, <4>3, <4>4, <4>6 DEF Bounded
    <3> QED
      BY <3>1, <3>2
  <2> QED
    BY <2>1, <2>2, <2>3 DEF Bounded
<1> QED
  BY <1>1, <1>2, <1>3, KnowledgeIsPast, PTL DEF Spec

LEMMA LiveTyped ==
    ASSUME BinanceAssumption, IInv, Bounded
    PROVE  TypeOK
<1>1. ASSUME NEW o \in Orders
      PROVE  /\ exch[o] \in [status : ExchStatus, filled : Filled(o)] \cup {NoOrder}
             /\ orders[o] \in [status : Status, filled : Filled(o)] \cup {NoOrder}
             /\ \A i \in DOMAIN fills[o] : fills[o][i] \in 1 .. Qty[o]
  <2>0. /\ exch[o] \in ExchOrder \cup {NoOrder} /\ orders[o] \in Order \cup {NoOrder}
        /\ fills[o] \in Seq(Nat) /\ Qty[o] \in Nat
        /\ exch[o] # NoOrder => exch[o].filled <= Qty[o]
        /\ TableOK(o) /\ FillsOK(o)
    BY DEF IInv, Typed, BinanceAssumption, Bounded
  <2>1. exch[o] \in [status : ExchStatus, filled : Filled(o)] \cup {NoOrder}
    BY <2>0 DEF ExchOrder, Filled
  <2>2. ASSUME orders[o] # NoOrder PROVE orders[o] \in [status : Status, filled : Filled(o)]
    <3>1. /\ exch[o] # NoOrder /\ orders[o].filled <= exch[o].filled
      BY <2>0, <2>2 DEF TableOK, Known
    <3>2. orders[o] \in Order /\ exch[o] \in ExchOrder /\ exch[o].filled <= Qty[o]
      BY <2>0, <2>2, <3>1
    <3>3. orders[o].filled \in 0 .. Qty[o]
      BY <2>0, <3>1, <3>2 DEF Order, ExchOrder
    <3>4. ASSUME NEW r \in Order, r.filled \in 0 .. Qty[o] PROVE r \in [status : Status, filled : Filled(o)]
      BY <3>4 DEF Order, Filled
    <3> QED
      BY <3>2, <3>3, <3>4
  <2>3. \A i \in DOMAIN fills[o] : fills[o][i] \in 1 .. Qty[o]
    <3>1. CASE fills[o] = <<>>
      BY <3>1
    <3>2. CASE fills[o] # <<>>
      <4>1. /\ Len(fills[o]) = 1 /\ exch[o] # NoOrder /\ fills[o][1] <= exch[o].filled
            /\ exch[o].filled <= Qty[o] /\ fills[o][1] > 0
        BY <2>0, <3>2 DEF FillsOK, Bounded
      <4>2. DOMAIN fills[o] = {1} /\ fills[o][1] \in Nat /\ exch[o].filled \in Nat
        BY <2>0, <4>1 DEF ExchOrder
      <4> QED
        BY <2>0, <4>1, <4>2
    <3> QED
      BY <3>1, <3>2
  <2> QED
    BY <2>1, <2>2, <2>3
<1>2. row \in [Orders -> Status \cup {"none"}] /\ \A i \in DOMAIN wire : wire[i].o \in Orders
  <2>1. row \in [Orders -> Status \cup {"none"}] /\ wire \in Seq(Report)
    BY DEF IInv, Typed
  <2>2. \A i \in DOMAIN wire : wire[i] \in Report
    BY <2>1
  <2> QED
    BY <2>1, <2>2 DEF Report
<1> QED
  BY <1>1, <1>2 DEF TypeOK, Bounded

\* TableFollowsExchange: the client's table and the rows of the database follow
\* the exchange, for any number of callers, orders, retries and lost reports.
THEOREM TableFollows ==
    ASSUME TradingAssumption
    PROVE  MCSpec => []TableFollowsExchange
<1>1. BinanceAssumption
  BY DEF TradingAssumption
<1>2. IInv /\ Bounded => TypeOK
  BY <1>1, LiveTyped
<1>3. Spec => []TypeOK
  BY <1>1, <1>2, KnowledgeIsPast, StaysBounded, PTL
<1> QED
  BY <1>1, <1>3, LivePart, EndsAreReal, DropsAreExplained, StaysBehind, RestsInAgreement, RowsEndToo,
     PTL DEF TableFollowsExchange
-----------------------------------------------------------------------------
(* Sums of a function over a finite set.                                   *)

\* g adds up w over the subsets of S, in any order.
Additive(g, w, S) ==
    /\ g \in [SUBSET S -> Int]
    /\ g[{}] = 0
    /\ \A T \in SUBSET S : \A x \in S \ T : g[T \cup {x}] = w[x] + g[T]

\* A set of natural numbers has a least element.
LEMMA Least ==
    ASSUME NEW N \in SUBSET Nat, N # {}
    PROVE  \E n \in N : \A m \in N : ~ (m < n)
<1>1. \E n \in N : \A m \in N : ~ (<<m, n>> \in OpToRel(<, Nat))
  BY NatLessThanWellFounded, WFMin
<1>2. \A m, n \in Nat : <<m, n>> \in OpToRel(<, Nat) <=> m < n
  BY DEF OpToRel
<1> QED
  BY <1>1, <1>2

LEMMA AdditiveExists ==
    ASSUME NEW S, IsFiniteSet(S), NEW w, \A x \in S : w[x] \in Int
    PROVE  \E g : Additive(g, w, S)
<1> DEFINE Bad == {n \in Nat : \E T \in SUBSET S : Cardinality(T) = n /\ ~ \E g : Additive(g, w, T)}
<1> SUFFICES ASSUME ~ \E g : Additive(g, w, S) PROVE FALSE
  OBVIOUS
<1>1. Cardinality(S) \in Bad
  BY FS_CardinalityType
<1>2. PICK n \in Bad : \A m \in Bad : ~ (m < n)
  <2>1. Bad \in SUBSET Nat /\ Bad # {}
    BY <1>1
  <2> HIDE DEF Bad
  <2> QED
    BY <2>1, Least
<1>3. PICK T \in SUBSET S : Cardinality(T) = n /\ ~ \E g : Additive(g, w, T)
  BY <1>2
<1>4. IsFiniteSet(T)
  BY FS_Subset
<1>5. CASE T = {}
  <2>1. Additive([s \in SUBSET {} |-> 0], w, {})
    BY DEF Additive
  <2> QED
    BY <1>3, <1>5, <2>1
<1>6. CASE T # {}
  <2>1. PICK a : a \in T
    BY <1>6
  <2>2. Cardinality(T \ {a}) = n - 1 /\ n - 1 \in Nat /\ n - 1 < n
    <3>1. Cardinality(T \ {a}) = Cardinality(T) - 1 /\ IsFiniteSet(T \ {a})
      BY <1>4, <2>1, FS_RemoveElement
    <3> QED
      BY <1>3, <3>1, FS_CardinalityType
  <2>3. PICK g0 : Additive(g0, w, T \ {a})
    BY <2>2, <1>2
  <2> DEFINE g == [s \in SUBSET T |-> IF a \in s THEN w[a] + g0[s \ {a}] ELSE g0[s]]
  <2>4. w[a] \in Int
    BY <2>1
  <2>5. \A s \in SUBSET (T \ {a}) : g0[s] \in Int
    BY <2>3 DEF Additive
  <2>6. \A s \in SUBSET T : s \ {a} \in SUBSET (T \ {a}) /\ (a \notin s => s \in SUBSET (T \ {a}))
    OBVIOUS
  <2>7. g \in [SUBSET T -> Int]
    BY <2>4, <2>5, <2>6
  <2>8. g[{}] = 0
    BY <2>3 DEF Additive
  <2>9. ASSUME NEW s \in SUBSET T, NEW x \in T \ s PROVE g[s \cup {x}] = w[x] + g[s]
    <3>0. s \cup {x} \in SUBSET T
      OBVIOUS
    <3>1. CASE x = a
      <4>1. (s \cup {a}) \ {a} = s
        BY <2>9, <3>1
      <4> QED
        BY <3>0, <3>1, <4>1, <2>9
    <3>2. CASE x # a /\ a \in s
      <4>1. (s \cup {x}) \ {a} = (s \ {a}) \cup {x}
        BY <3>2
      <4>2. g0[(s \ {a}) \cup {x}] = w[x] + g0[s \ {a}]
        BY <2>3, <2>6, <2>9, <3>2 DEF Additive
      <4>3. w[x] \in Int /\ g0[s \ {a}] \in Int
        BY <2>5, <2>6
      <4>4. g[s \cup {x}] = w[a] + g0[(s \cup {x}) \ {a}] /\ g[s] = w[a] + g0[s \ {a}]
        BY <3>0, <3>2
      <4> HIDE DEF g
      <4> QED
        <5>1. g[s \cup {x}] = w[a] + (w[x] + g0[s \ {a}])
          BY <4>1, <4>2, <4>4
        <5>2. \A i, j, k \in Int : i + (j + k) = j + (i + k)
          OBVIOUS
        <5> QED
          BY <5>1, <5>2, <4>3, <4>4, <2>4
    <3>3. CASE x # a /\ a \notin s
      <4>1. g0[s \cup {x}] = w[x] + g0[s]
        BY <2>3, <2>6, <2>9, <3>3 DEF Additive
      <4> QED
        BY <3>0, <3>3, <4>1
    <3> QED
      BY <3>1, <3>2, <3>3
  <2>10. Additive(g, w, T)
    BY <2>7, <2>8, <2>9 DEF Additive
  <2> QED
    BY <1>3, <2>10
<1> QED
  BY <1>5, <1>6

\* The fold of the community modules is that sum.
LEMMA SumIsAdditive ==
    ASSUME NEW S, IsFiniteSet(S), NEW w, NEW g, Additive(g, w, S)
    PROVE  SumFunctionOnSet(w, S) = g[S]
<1> DEFINE c(s) == CHOOSE x \in s : TRUE
           E(f) == [s \in SUBSET S |-> IF s = {} THEN 0 ELSE w[c(s)] + f[s \ {c(s)}]]
           it == CHOOSE f : f = E(f)
<1>1. SumFunctionOnSet(w, S) = it[S]
  BY DEF SumFunctionOnSet, FoldFunctionOnSet, MapThenFoldSet
<1>2. \A s \in SUBSET S : s # {} => c(s) \in s /\ (s \ {c(s)}) \cup {c(s)} = s /\ s \ {c(s)} \in SUBSET S
  OBVIOUS
<1>3. g = E(g)
  <2>1. ASSUME NEW s \in SUBSET S, s # {} PROVE g[s] = w[c(s)] + g[s \ {c(s)}]
    <3>1. c(s) \in s /\ (s \ {c(s)}) \cup {c(s)} = s /\ s \ {c(s)} \in SUBSET S /\ c(s) \in S \ (s \ {c(s)})
      BY <1>2, <2>1
    <3> HIDE DEF c
    <3> QED
      BY <3>1 DEF Additive
  <2>2. g = [s \in SUBSET S |-> g[s]] /\ g[{}] = 0
    BY DEF Additive
  <2> HIDE DEF c
  <2> QED
    BY <2>1, <2>2
<1>4. it = E(it)
  BY <1>3
<1> HIDE DEF it, c
<1>5. \A s \in SUBSET S : it[s] = IF s = {} THEN 0 ELSE w[c(s)] + it[s \ {c(s)}]
  BY <1>4
<1>6. \A s \in SUBSET S : g[s] = IF s = {} THEN 0 ELSE w[c(s)] + g[s \ {c(s)}]
  BY <1>3
<1> HIDE DEF E
<1>7. SUFFICES ASSUME it[S] # g[S] PROVE FALSE
  BY <1>1
<1> DEFINE Bad == {n \in Nat : \E s \in SUBSET S : Cardinality(s) = n /\ it[s] # g[s]}
<1>8. Cardinality(S) \in Bad
  BY <1>7, FS_CardinalityType
<1>9. PICK n \in Bad : \A m \in Bad : ~ (m < n)
  <2>1. Bad \in SUBSET Nat /\ Bad # {}
    BY <1>8
  <2> HIDE DEF Bad
  <2> QED
    BY <2>1, Least
<1>10. PICK s \in SUBSET S : Cardinality(s) = n /\ it[s] # g[s]
  BY <1>9
<1>11. s # {}
  BY <1>5, <1>6, <1>10
<1>12. Cardinality(s \ {c(s)}) = n - 1 /\ n - 1 \in Nat /\ n - 1 < n
  <2>1. c(s) \in s /\ IsFiniteSet(s)
    BY <1>2, <1>11, FS_Subset
  <2>2. Cardinality(s \ {c(s)}) = Cardinality(s) - 1 /\ IsFiniteSet(s \ {c(s)})
    BY <2>1, FS_RemoveElement
  <2> QED
    BY <1>10, <2>1, <2>2, FS_CardinalityType
<1>13. it[s \ {c(s)}] = g[s \ {c(s)}]
  BY <1>2, <1>9, <1>11, <1>12
<1> QED
  BY <1>5, <1>6, <1>10, <1>11, <1>13

LEMMA SumEmpty == ASSUME NEW w PROVE SumFunctionOnSet(w, {}) = 0
<1>1. Additive([s \in SUBSET {} |-> 0], w, {})
  BY DEF Additive
<1> QED
  BY <1>1, SumIsAdditive, FS_EmptySet

LEMMA SumAdd ==
    ASSUME NEW S, IsFiniteSet(S), NEW a, a \notin S, NEW w, \A x \in S \cup {a} : w[x] \in Int
    PROVE  SumFunctionOnSet(w, S \cup {a}) = w[a] + SumFunctionOnSet(w, S)
<1>1. IsFiniteSet(S \cup {a})
  BY FS_AddElement
<1>2. PICK g : Additive(g, w, S \cup {a})
  BY <1>1, AdditiveExists
<1> DEFINE h == [s \in SUBSET S |-> g[s]]
<1>3. Additive(h, w, S)
  <2>1. SUBSET S \subseteq SUBSET (S \cup {a})
    OBVIOUS
  <2>2. h \in [SUBSET S -> Int] /\ h[{}] = 0
    BY <1>2, <2>1 DEF Additive
  <2>3. ASSUME NEW T \in SUBSET S, NEW x \in S \ T PROVE h[T \cup {x}] = w[x] + h[T]
    <3>1. T \cup {x} \in SUBSET S /\ x \in (S \cup {a}) \ T /\ T \in SUBSET (S \cup {a})
      OBVIOUS
    <3>2. g[T \cup {x}] = w[x] + g[T]
      BY <1>2, <3>1 DEF Additive
    <3> QED
      BY <3>1, <3>2
  <2> QED
    BY <2>2, <2>3 DEF Additive
<1>4. SumFunctionOnSet(w, S) = g[S]
  BY <1>3, SumIsAdditive
<1>5. SumFunctionOnSet(w, S \cup {a}) = g[S \cup {a}]
  BY <1>1, <1>2, SumIsAdditive
<1>6. g[S \cup {a}] = w[a] + g[S]
  BY <1>2 DEF Additive
<1> QED
  BY <1>4, <1>5, <1>6

LEMMA SumAgree ==
    ASSUME NEW S, IsFiniteSet(S), NEW w, NEW v, \A x \in S : w[x] \in Int /\ v[x] = w[x]
    PROVE  SumFunctionOnSet(v, S) = SumFunctionOnSet(w, S)
<1>1. PICK g : Additive(g, w, S)
  BY AdditiveExists
<1>2. Additive(g, v, S)
  BY <1>1 DEF Additive
<1> QED
  BY <1>1, <1>2, SumIsAdditive
-----------------------------------------------------------------------------
(* The inductive invariant of the paper exchange.                          *)

PaperOrder == [status : {"pending", "open", "filled", "cancelled"}, type : {"market", "limit"},
               symbol : Symbols, side : {"buy", "sell"}, qty : 1 .. MaxQty, fills : Seq(Nat)]
Row == [status : {"none", "NEW", "PARTIALLY_FILLED", "FILLED", "CANCELED"},
        session : Sessions \cup {NoSession}, traded : 0 .. MaxQty]
Breaker == [state : {"closed", "open", "half_open"}, requests : Nat, failures : Nat, successes : Nat]
Request == {Paper!Idle} \cup [op : {"new", "placed"}, o : PaperOrders]

PaperTyped ==
    /\ {session, pmSession} \subseteq Sessions \cup {NoSession}
    /\ net \in [Symbols -> Int] /\ result \in {"none", "ok", "error"} /\ strayed \in BOOLEAN
    /\ paperOrders \in [PaperOrders -> PaperOrder \cup {Paper!NotHeld}]
    /\ rows \in [PaperOrders -> Row]
    /\ sessions \in [Sessions -> {"none", "active", "stopped"}]
    /\ breaker \in Breaker /\ req \in Request
    /\ booked \in [PaperOrders -> {"unused", "no", "refused"} \cup Sessions]
    /\ IsFiniteSet(Paper!Used)

\* A half-open breaker counts successes only, fewer than it needs to close.
Sound(b) ==
    b.state = "half_open" => b.requests = b.successes /\ b.requests < HalfOpenMax
\* It is never open while a request is served.
BreakerOK == Sound(breaker) /\ (req # Paper!Idle => breaker.state # "open")

\* The order being served is in memory and not booked yet.
RequestOK ==
    req # Paper!Idle =>
        /\ paperOrders[req.o] # Paper!NotHeld /\ booked[req.o] = "no"
        /\ req.op = "new" =>
              /\ paperOrders[req.o].status = "pending" /\ paperOrders[req.o].fills = <<>>
              /\ rows[req.o].status \in {"none", "NEW"} /\ rows[req.o].traded = 0

\* A filled order has its fills and, once its request is over, is booked; a row
\* is final only if the order is, or is forgotten; the row of an order in memory
\* follows it unless a statement failed.
OrderOK(o) ==
    /\ booked[o] = "unused" =>
          paperOrders[o] = Paper!NotHeld /\ rows[o].status = "none" /\ rows[o].traded = 0
    /\ booked[o] \in Sessions => sessions[booked[o]] # "none"
    /\ paperOrders[o].status = "filled" =>
          /\ Paper!QtyOf(paperOrders[o].fills) = paperOrders[o].qty
          /\ booked[o] # "no" \/ (req # Paper!Idle /\ req.o = o)
    /\ rows[o].status = "FILLED" => paperOrders[o].status \in {"none", "filled"}
    /\ rows[o].status = "CANCELED" => paperOrders[o].status \in {"none", "cancelled"}
    /\ (paperOrders[o] # Paper!NotHeld /\ o \notin unsure) =>
          /\ rows[o].status = Paper!ConvertOrderStatus(paperOrders[o].status)
          /\ rows[o].traded = Paper!QtyOf(paperOrders[o].fills)

\* One session at a time, and a stop whose answer was lost is a stop.
SessionOK ==
    /\ Paper!OneSession /\ Paper!NoLateOrder
    /\ \A s \in lostStop : s \in Sessions /\ sessions[s] = "stopped"

PInv ==
    /\ PaperTyped /\ BreakerOK /\ RequestOK /\ (\A o \in PaperOrders : OrderOK(o))
    /\ SessionOK /\ Paper!NetIsSessionFills
-----------------------------------------------------------------------------
(* Data of the paper exchange.                                             *)

LEMMA PaperSum ==
    ASSUME NEW w, NEW S
    PROVE  Paper!SumFunctionOnSet(w, S) = SumFunctionOnSet(w, S)
BY DEF Paper!SumFunctionOnSet, Paper!FoldFunctionOnSet, Paper!MapThenFoldSet,
       SumFunctionOnSet, FoldFunctionOnSet, MapThenFoldSet

\* No fills add up to nothing, and those of an order to its quantity
\* (simulatePartialFills, OnOrderFilled).
LEMMA QtyOfNothing == Paper!QtyOf(<<>>) = 0
<1>1. DOMAIN <<>> = {}
  OBVIOUS
<1> QED
  BY <1>1, PaperSum, SumEmpty DEF Paper!QtyOf, Paper!SumFunction

LEMMA QtyOfSplit ==
    ASSUME NEW q \in 1 .. MaxQty, NEW f \in Paper!Splits(q), Paper!ServiceAssumption
    PROVE  Paper!QtyOf(f) = q /\ f \in Seq(Nat)
<1>0. q \in Nat
  BY DEF Paper!ServiceAssumption
<1>1. Paper!QtyOf(f) = SumFunctionOnSet(f, DOMAIN f)
  BY PaperSum DEF Paper!QtyOf, Paper!SumFunction
<1>2. SumFunctionOnSet(f, {}) = 0 /\ IsFiniteSet({}) /\ IsFiniteSet({1})
  BY SumEmpty, FS_EmptySet, FS_Singleton
<1>3. ASSUME f[1] \in Int, 1 \in DOMAIN f PROVE SumFunctionOnSet(f, {1}) = f[1]
  <2>1. {} \cup {1} = {1}
    OBVIOUS
  <2>2. SumFunctionOnSet(f, {} \cup {1}) = f[1] + SumFunctionOnSet(f, {})
    BY <1>2, <1>3, SumAdd
  <2> QED
    BY <1>2, <1>3, <2>1, <2>2
<1>4. CASE f = <<q>>
  <2>1. DOMAIN f = {1} /\ f[1] = q
    BY <1>4
  <2> QED
    BY <1>0, <1>1, <1>3, <1>4, <2>1
<1>5. CASE \E i \in 1 .. q - 1 : f = <<i, q - i>>
  <2>1. PICK i \in 1 .. q - 1 : f = <<i, q - i>>
    BY <1>5
  <2>2. DOMAIN f = {1, 2} /\ f[1] = i /\ f[2] = q - i /\ i \in Nat /\ q - i \in Nat
    BY <1>0, <2>1
  <2>3. {1, 2} = {1} \cup {2} /\ 2 \notin {1}
    OBVIOUS
  <2>4. \A x \in {1} \cup {2} : f[x] \in Int
    BY <2>2
  <2>5. ASSUME NEW S, S = {1} PROVE SumFunctionOnSet(f, S \cup {2}) = f[2] + SumFunctionOnSet(f, S)
    <3>1. IsFiniteSet(S) /\ 2 \notin S /\ \A x \in S \cup {2} : f[x] \in Int
      BY <1>2, <2>4, <2>5
    <3> QED
      BY <3>1, SumAdd
  <2>6. f \in Seq(Nat)
    BY <2>1, <2>2
  <2> QED
    <3>1. SumFunctionOnSet(f, {1}) = i /\ SumFunctionOnSet(f, {1} \cup {2}) = f[2] + SumFunctionOnSet(f, {1})
      BY <1>3, <2>2, <2>5
    <3>2. Paper!QtyOf(f) = (q - i) + i
      BY <1>1, <2>2, <2>3, <3>1
    <3> QED
      BY <1>0, <2>2, <2>6, <3>2
<1> QED
  BY <1>4, <1>5 DEF Paper!Splits

\* The breaker after one more call: a half-open one counts successes only and
\* closes at the last of them, so that it admits a call whenever it is not open
\* (NewCircuitBreakerManagerWithSettings).
LEMMA Counting ==
    ASSUME NEW b \in Breaker
    PROVE  /\ [b EXCEPT !.requests = @ + 1] \in Breaker
           /\ [b EXCEPT !.failures = @] \in Breaker /\ [b EXCEPT !.failures = @ + 1] \in Breaker
           /\ [b EXCEPT !.successes = @ + 1] \in Breaker /\ [b EXCEPT !.successes = 0] \in Breaker
BY DEF Breaker

LEMMA ClosedIsSound ==
    /\ Paper!Closed \in Breaker /\ Sound(Paper!Closed) /\ Paper!Closed.state = "closed"
    /\ [Paper!Closed EXCEPT !.state = "open"] \in Breaker
    /\ [Paper!Closed EXCEPT !.state = "open"].state = "open"
BY DEF Paper!Closed, Breaker, Sound

LEMMA SoundAdmits ==
    ASSUME NEW b \in Breaker, Sound(b)
    PROVE  Paper!Admits(b) <=> b.state # "open"
BY DEF Paper!Admits, Sound, Breaker

LEMMA SoundAfterSuccess ==
    ASSUME NEW b \in Breaker, Sound(b), b.state # "open", Paper!ServiceAssumption
    PROVE  /\ Paper!After(b, TRUE) \in Breaker /\ Sound(Paper!After(b, TRUE))
           /\ Paper!After(b, TRUE).state # "open"
<1> DEFINE c == [b EXCEPT !.requests = @ + 1, !.failures = @, !.successes = @ + 1]
<1>1. /\ b.state \in {"closed", "open", "half_open"} /\ b.requests \in Nat /\ b.failures \in Nat
      /\ b.successes \in Nat /\ HalfOpenMax \in Nat
  BY DEF Breaker, Paper!ServiceAssumption
<1>2. /\ c \in Breaker /\ c.state = b.state /\ c.requests = b.requests + 1
      /\ c.successes = b.successes + 1
  <2>1. [[[b EXCEPT !.requests = @ + 1] EXCEPT !.failures = @] EXCEPT !.successes = @ + 1] \in Breaker
    BY Counting
  <2>2. c = [[[b EXCEPT !.requests = @ + 1] EXCEPT !.failures = @] EXCEPT !.successes = @ + 1]
    OBVIOUS
  <2>3. c.state = b.state /\ c.requests = b.requests + 1 /\ c.successes = b.successes + 1
    BY DEF Breaker
  <2> QED
    BY <2>1, <2>2, <2>3
<1>3. Paper!After(b, TRUE) = IF b.state = "half_open" /\ c.successes >= HalfOpenMax THEN Paper!Closed ELSE c
  BY DEF Paper!After
<1> HIDE DEF c
<1>4. CASE b.state = "half_open" /\ c.successes >= HalfOpenMax
  BY <1>3, <1>4, ClosedIsSound
<1>5. CASE ~ (b.state = "half_open" /\ c.successes >= HalfOpenMax)
  <2>1. b.state = "half_open" => c.requests = c.successes /\ c.requests < HalfOpenMax
    BY <1>1, <1>2, <1>5 DEF Sound
  <2> QED
    BY <1>2, <1>3, <1>5, <2>1 DEF Sound
<1> QED
  BY <1>4, <1>5

LEMMA SoundAfterFailure ==
    ASSUME NEW b \in Breaker, Sound(b), b.state # "open"
    PROVE  Paper!After(b, FALSE) \in Breaker /\ Sound(Paper!After(b, FALSE))
<1> DEFINE c == [b EXCEPT !.requests = @ + 1, !.failures = @ + 1, !.successes = 0]
<1>1. /\ b.state \in {"closed", "half_open"} /\ b.requests \in Nat /\ b.failures \in Nat
      /\ b.successes \in Nat
  BY DEF Breaker
<1>2. c \in Breaker /\ c.state = b.state
  <2>1. [[[b EXCEPT !.requests = @ + 1] EXCEPT !.failures = @ + 1] EXCEPT !.successes = 0] \in Breaker
    BY Counting
  <2>2. c = [[[b EXCEPT !.requests = @ + 1] EXCEPT !.failures = @ + 1] EXCEPT !.successes = 0]
    OBVIOUS
  <2>3. c.state = b.state
    BY DEF Breaker
  <2> QED
    BY <2>1, <2>2, <2>3
<1>3. Paper!After(b, FALSE) \in {c, [Paper!Closed EXCEPT !.state = "open"]}
      /\ (b.state = "half_open" => Paper!After(b, FALSE) = [Paper!Closed EXCEPT !.state = "open"])
  BY <1>1 DEF Paper!After
<1> HIDE DEF c
<1> QED
  BY <1>1, <1>2, <1>3, ClosedIsSound DEF Sound
-----------------------------------------------------------------------------
(* The net position.                                                       *)

LEMMA HeldOrders ==
    ASSUME PaperTyped, Paper!ServiceAssumption, NEW o \in PaperOrders
    PROVE  /\ paperOrders[o] # Paper!NotHeld <=> paperOrders[o] \in PaperOrder
           /\ paperOrders[o] # Paper!NotHeld <=> paperOrders[o].status # "none"
           /\ Paper!Lots[o] \in Int
           /\ paperOrders[o] # Paper!NotHeld =>
                 /\ paperOrders[o].symbol \in Symbols
                 /\ Paper!Lots[o] = Paper!Signed(paperOrders[o].side, paperOrders[o].qty)
<1>1. paperOrders[o] \in PaperOrder => paperOrders[o] # Paper!NotHeld /\ paperOrders[o].status # "none"
  BY DEF PaperOrder, Paper!NotHeld
<1>2. paperOrders[o] \in PaperOrder \cup {Paper!NotHeld} /\ Paper!NotHeld.status = "none"
  BY DEF PaperTyped, Paper!NotHeld
<1>3. paperOrders[o] \in PaperOrder =>
        paperOrders[o].qty \in Int /\ - paperOrders[o].qty \in Int /\ paperOrders[o].symbol \in Symbols
  BY DEF PaperOrder, Paper!ServiceAssumption
<1>4. Paper!Lots[o] = IF paperOrders[o] = Paper!NotHeld THEN 0
                      ELSE Paper!Signed(paperOrders[o].side, paperOrders[o].qty)
  BY DEF Paper!Lots
<1> QED
  BY <1>1, <1>2, <1>3, <1>4 DEF Paper!Signed

LEMMA BookedOrders ==
    ASSUME PaperTyped, Paper!ServiceAssumption, NEW y \in Symbols
    PROVE  /\ IsFiniteSet(Paper!BookedNow(y)) /\ Paper!BookedNow(y) \subseteq PaperOrders
           /\ \A o \in Paper!BookedNow(y) : Paper!Lots[o] \in Int
<1>1. Paper!BookedNow(y) \subseteq Paper!Used
  BY DEF Paper!BookedNow, Paper!Used, PaperTyped, Paper!ServiceAssumption
<1>2. IsFiniteSet(Paper!BookedNow(y))
  BY <1>1, FS_Subset DEF PaperTyped
<1> QED
  BY <1>2, HeldOrders DEF Paper!BookedNow

\* The net position agrees with the fills as long as neither changes.
LEMMA NetKept ==
    ASSUME PaperTyped, Paper!ServiceAssumption, Paper!NetIsSessionFills,
           net' = net, ~ strayed' => ~ strayed,
           \A y \in Symbols :
               /\ Paper!BookedNow(y)' = Paper!BookedNow(y)
               /\ \A o \in Paper!BookedNow(y) : Paper!Lots'[o] = Paper!Lots[o]
    PROVE  Paper!NetIsSessionFills'
<1>1. ASSUME NEW y \in Symbols
      PROVE  SumFunctionOnSet(Paper!Lots', Paper!BookedNow(y)') = SumFunctionOnSet(Paper!Lots, Paper!BookedNow(y))
  <2>1. PICK S : S = Paper!BookedNow(y)
    OBVIOUS
  <2>2. IsFiniteSet(S) /\ \A o \in S : Paper!Lots[o] \in Int /\ Paper!Lots'[o] = Paper!Lots[o]
    BY <2>1, BookedOrders
  <2>3. SumFunctionOnSet(Paper!Lots', S) = SumFunctionOnSet(Paper!Lots, S)
    BY <2>2, SumAgree
  <2> QED
    BY <2>1, <2>3
<1> QED
  BY <1>1, PaperSum DEF Paper!NetIsSessionFills

\* Nothing is booked and nothing is held.
LEMMA NetFlat ==
    ASSUME net' = [y \in Symbols |-> 0], \A y \in Symbols : Paper!BookedNow(y)' = {}
    PROVE  Paper!NetIsSessionFills'
BY PaperSum, SumEmpty DEF Paper!NetIsSessionFills

\* One more order is booked, and the net position moves by its fills.
LEMMA NetMoves ==
    ASSUME PaperTyped, Paper!ServiceAssumption, Paper!NetIsSessionFills, ~ strayed,
           NEW o \in PaperOrders, NEW q \in Int,
           paperOrders' = paperOrders, paperOrders[o] # Paper!NotHeld, q = Paper!Lots[o],
           net' = [net EXCEPT ![paperOrders[o].symbol] = @ + q],
           \A y \in Symbols : o \notin Paper!BookedNow(y),
           \A y \in Symbols :
               Paper!BookedNow(y)' = IF y = paperOrders[o].symbol THEN Paper!BookedNow(y) \cup {o}
                                     ELSE Paper!BookedNow(y)
    PROVE  Paper!NetIsSessionFills'
<1>1. Paper!Lots' = Paper!Lots
  BY DEF Paper!Lots
<1>2. ASSUME NEW y \in Symbols
      PROVE  net'[y] = SumFunctionOnSet(Paper!Lots, Paper!BookedNow(y)')
  <2>1. net[y] = SumFunctionOnSet(Paper!Lots, Paper!BookedNow(y)) /\ net[y] \in Int
    BY PaperSum DEF Paper!NetIsSessionFills, PaperTyped
  <2>2. CASE y = paperOrders[o].symbol
    <3>1. PICK S : S = Paper!BookedNow(y)
      OBVIOUS
    <3>2. IsFiniteSet(S) /\ o \notin S /\ \A x \in S \cup {o} : Paper!Lots[x] \in Int
      BY <3>1, BookedOrders, HeldOrders
    <3>3. SumFunctionOnSet(Paper!Lots, S \cup {o}) = q + SumFunctionOnSet(Paper!Lots, S)
      BY <3>2, SumAdd
    <3>4. net'[y] = net[y] + q
      BY <2>2 DEF PaperTyped
    <3>5. Paper!BookedNow(y)' = S \cup {o} /\ SumFunctionOnSet(Paper!Lots, S) = net[y]
      BY <2>1, <2>2, <3>1
    <3>6. SumFunctionOnSet(Paper!Lots, S \cup {o}) = q + net[y]
      BY <3>3, <3>5
    <3>7. net[y] + q = q + net[y]
      BY <2>1
    <3> QED
      BY <3>4, <3>5, <3>6, <3>7
  <2>3. CASE y # paperOrders[o].symbol
    BY <2>1, <2>3 DEF PaperTyped
  <2> QED
    BY <2>2, <2>3
<1> QED
  BY <1>1, <1>2, PaperSum DEF Paper!NetIsSessionFills
-----------------------------------------------------------------------------
(* The steps of a request.                                                 *)

LEMMA PaperPlaceKeeps ==
    ASSUME Paper!ServiceAssumption, PInv, NEW o \in PaperOrders, NEW type \in {"market", "limit"},
           NEW y \in Symbols, NEW side \in {"buy", "sell"}, NEW q \in 1 .. MaxQty,
           Paper!PlaceOrder(o, type, y, side, q)
    PROVE  PInv'
<1> DEFINE new == [status |-> "pending", type |-> type, symbol |-> y, side |-> side, qty |-> q,
                   fills |-> <<>>]
           inserted == [status |-> "NEW", session |-> session, traded |-> 0]
<1>1. /\ req = Paper!Idle /\ booked[o] = "unused" /\ paperOrders[o] = Paper!NotHeld
      /\ rows[o].status = "none" /\ rows[o].traded = 0
  BY DEF PInv, PaperTyped, OrderOK, Paper!PlaceOrder, Paper!Used
<1>2. /\ paperOrders' = [paperOrders EXCEPT ![o] = new]
      /\ booked' = [booked EXCEPT ![o] = "no"]
      /\ req' = [op |-> "new", o |-> o]
      /\ UNCHANGED <<session, pmSession, net, result, strayed, sessions, breaker, crashes, lostStop>>
      /\ late' = late \cup {s \in Sessions : s = session /\ sessions[s] = "stopped"}
  BY DEF Paper!PlaceOrder, Paper!service
<1>3. /\ rows' = rows \/ rows' = [rows EXCEPT ![o] = inserted]
      /\ unsure \subseteq unsure' /\ (o \notin unsure' => rows' = [rows EXCEPT ![o] = inserted])
      /\ \A p \in PaperOrders \ {o} : p \in unsure' => p \in unsure
  BY DEF Paper!PlaceOrder, Paper!Write, Paper!InsertOrder
<1>4. new \in PaperOrder /\ new # Paper!NotHeld /\ inserted \in Row
  <2>1. <<>> \in Seq(Nat) /\ 0 \in 0 .. MaxQty
    BY DEF Paper!ServiceAssumption
  <2>2. new.status # Paper!NotHeld.status
    BY DEF Paper!NotHeld
  <2> QED
    BY <2>1, <2>2 DEF PaperOrder, Row, PInv, PaperTyped
<1>5. /\ paperOrders'[o] = new /\ booked'[o] = "no"
      /\ rows'[o].status \in {"none", "NEW"} /\ rows'[o].traded = 0
      /\ o \notin unsure' => rows'[o].status = "NEW"
      /\ \A p \in PaperOrders \ {o} :
            paperOrders'[p] = paperOrders[p] /\ booked'[p] = booked[p] /\ rows'[p] = rows[p]
  BY <1>1, <1>2, <1>3 DEF PInv, PaperTyped
<1>6. PaperTyped'
  <2>1. Paper!Used' = Paper!Used \cup {o}
    BY <1>1, <1>5 DEF Paper!Used
  <2>2. IsFiniteSet(Paper!Used')
    BY <2>1, FS_AddElement DEF PInv, PaperTyped
  <2>3. paperOrders' \in [PaperOrders -> PaperOrder \cup {Paper!NotHeld}]
    BY <1>2, <1>4 DEF PInv, PaperTyped
  <2>4. rows' \in [PaperOrders -> Row]
    BY <1>3, <1>4 DEF PInv, PaperTyped
  <2>5. req' \in Request
    BY <1>2 DEF Request
  <2> QED
    BY <1>2, <2>2, <2>3, <2>4, <2>5 DEF PInv, PaperTyped
<1>7. BreakerOK'
  <2>1. Paper!Admits(breaker)
    BY DEF Paper!PlaceOrder
  <2> QED
    BY <1>2, <2>1, SoundAdmits DEF PInv, PaperTyped, BreakerOK, Sound
<1>8. RequestOK'
  <2>1. req'.o = o
    BY <1>2
  <2> QED
    BY <1>4, <1>5, <2>1 DEF RequestOK
<1>9. ASSUME NEW p \in PaperOrders PROVE OrderOK(p)'
  <2>1. CASE p = o
    <3>1. "NEW" = Paper!ConvertOrderStatus("pending") /\ Paper!QtyOf(<<>>) = 0
      BY QtyOfNothing DEF Paper!ConvertOrderStatus
    <3>2. "no" \notin Sessions
      BY DEF Paper!ServiceAssumption
    <3> QED
      BY <1>5, <2>1, <3>1, <3>2 DEF OrderOK
  <2>2. CASE p # o
    <3>1. OrderOK(p) /\ p \in PaperOrders \ {o}
      BY <2>2 DEF PInv
    <3>2. /\ paperOrders'[p] = paperOrders[p] /\ booked'[p] = booked[p] /\ rows'[p] = rows[p]
          /\ p \in unsure => p \in unsure'
      BY <1>3, <1>5, <3>1
    <3> QED
      BY <1>1, <1>2, <3>1, <3>2 DEF OrderOK
  <2> QED
    BY <2>1, <2>2
<1>10. SessionOK'
  <2>1. Paper!OneSession'
    BY <1>2 DEF PInv, SessionOK, Paper!OneSession
  <2>2. Paper!NoLateOrder'
    BY <1>2 DEF PInv, SessionOK, PaperTyped, Paper!NoLateOrder, Paper!OneSession, Paper!ServiceAssumption
  <2> QED
    BY <1>2, <2>1, <2>2 DEF PInv, SessionOK
<1>11. Paper!NetIsSessionFills'
  <2>1. ASSUME NEW z \in Symbols PROVE Paper!BookedNow(z)' = Paper!BookedNow(z)
    <3>1. ASSUME NEW p \in PaperOrders PROVE p \in Paper!BookedNow(z)' <=> p \in Paper!BookedNow(z)
      <4>1. CASE p = o
        <5>1. booked[o] \notin Sessions /\ booked'[o] \notin Sessions
          BY <1>1, <1>5 DEF Paper!ServiceAssumption
        <5> QED
          BY <1>2, <4>1, <5>1 DEF Paper!BookedNow, PInv, PaperTyped
      <4>2. CASE p # o
        BY <1>2, <1>5, <4>2 DEF Paper!BookedNow
      <4> QED
        BY <4>1, <4>2
    <3> QED
      BY <3>1 DEF Paper!BookedNow
  <2>2. ASSUME NEW z \in Symbols, NEW p \in Paper!BookedNow(z) PROVE Paper!Lots'[p] = Paper!Lots[p]
    <3>1. p \in PaperOrders /\ p # o
      BY <1>1 DEF Paper!BookedNow
    <3> QED
      BY <1>5, <3>1 DEF Paper!Lots
  <2> QED
    BY <1>2, <2>1, <2>2, NetKept DEF PInv
<1> QED
  BY <1>6, <1>7, <1>8, <1>9, <1>10, <1>11 DEF PInv

\* A step that moves no order between symbols, sessions or sides.
LEMMA NetUntouched ==
    ASSUME PaperTyped, Paper!ServiceAssumption, Paper!NetIsSessionFills,
           UNCHANGED <<net, strayed, pmSession, booked>>,
           \A p \in PaperOrders :
               /\ paperOrders'[p] # Paper!NotHeld <=> paperOrders[p] # Paper!NotHeld
               /\ paperOrders[p] # Paper!NotHeld =>
                     /\ paperOrders'[p].symbol = paperOrders[p].symbol
                     /\ paperOrders'[p].side = paperOrders[p].side
                     /\ paperOrders'[p].qty = paperOrders[p].qty
    PROVE  Paper!NetIsSessionFills'
<1>1. ASSUME NEW y \in Symbols PROVE Paper!BookedNow(y)' = Paper!BookedNow(y)
  <2>1. \A p \in PaperOrders : p \in Paper!BookedNow(y)' <=> p \in Paper!BookedNow(y)
    BY DEF Paper!BookedNow
  <2> QED
    BY <2>1 DEF Paper!BookedNow
<1>2. ASSUME NEW y \in Symbols, NEW p \in Paper!BookedNow(y) PROVE Paper!Lots'[p] = Paper!Lots[p]
  <2>1. p \in PaperOrders
    BY DEF Paper!BookedNow
  <2> QED
    BY <2>1 DEF Paper!Lots
<1> QED
  BY <1>1, <1>2, NetKept

LEMMA WriteEffect ==
    ASSUME NEW o \in PaperOrders, NEW good, NEW bad, Paper!Write(o, good, bad)
    PROVE  /\ rows' \in good \cup bad
           /\ unsure \subseteq unsure' /\ unsure' \subseteq unsure \cup {o}
           /\ o \notin unsure' => rows' \in good
BY DEF Paper!Write

\* One field of an order in memory changes.
LEMMA StatusChanges ==
    ASSUME NEW r \in PaperOrder, NEW s \in {"pending", "open", "filled", "cancelled"},
           NEW x, x = [r EXCEPT !.status = s]
    PROVE  /\ x \in PaperOrder /\ x.status = s /\ x.fills = r.fills
           /\ x.symbol = r.symbol /\ x.side = r.side /\ x.qty = r.qty
BY DEF PaperOrder

LEMMA FillsChange ==
    ASSUME NEW r \in PaperOrder, NEW f \in Seq(Nat), NEW x, x = [r EXCEPT !.fills = f]
    PROVE  /\ x \in PaperOrder /\ x.status = r.status /\ x.fills = f
           /\ x.symbol = r.symbol /\ x.side = r.side /\ x.qty = r.qty
BY DEF PaperOrder

\* A row after the statements of internal/db/orders.go.
LEMMA TradeInserted ==
    ASSUME PaperTyped, Paper!ServiceAssumption, NEW o \in PaperOrders, rows[o].traded = 0,
           NEW t \in 0 .. MaxQty, NEW tab, tab = Paper!InsertTrade(rows, o, t)
    PROVE  /\ tab \in [PaperOrders -> Row] /\ tab[o].status = rows[o].status
           /\ rows[o].status # "none" => tab[o].traded = t
           /\ \A p \in PaperOrders \ {o} : tab[p] = rows[p]
<1>1. 0 + t = t /\ t \in Nat /\ rows[o] \in Row
  BY DEF Paper!ServiceAssumption, PaperTyped
<1>2. PICK r : r = [rows[o] EXCEPT !.traded = rows[o].traded + t]
  OBVIOUS
<1>3. r \in Row /\ r.status = rows[o].status /\ r.traded = t
  BY <1>1, <1>2 DEF Row
<1>4. CASE rows[o].status = "none"
  BY <1>1, <1>4 DEF Paper!InsertTrade, PaperTyped
<1>5. CASE rows[o].status # "none"
  <2>1. tab = [rows EXCEPT ![o] = r]
    BY <1>2, <1>5 DEF Paper!InsertTrade
  <2> QED
    BY <1>3, <2>1 DEF PaperTyped
<1> QED
  BY <1>4, <1>5

LEMMA StatusWritten ==
    ASSUME NEW o \in PaperOrders, NEW s \in {"filled", "open", "cancelled"},
           NEW tab \in [PaperOrders -> Row], NEW upd, upd = Paper!UpdateOrderStatus(tab, o, s)
    PROVE  /\ upd \in [PaperOrders -> Row] /\ upd[o].traded = tab[o].traded
           /\ upd[o].status = IF tab[o].status = "none" THEN "none" ELSE Paper!ConvertOrderStatus(s)
           /\ \A p \in PaperOrders \ {o} : upd[p] = tab[p]
<1>0. Paper!ConvertOrderStatus(s) \in {"FILLED", "PARTIALLY_FILLED", "CANCELED"}
  BY DEF Paper!ConvertOrderStatus
<1>1. PICK r : r = [tab[o] EXCEPT !.status = Paper!ConvertOrderStatus(s)]
  OBVIOUS
<1>2. r \in Row /\ r.status = Paper!ConvertOrderStatus(s) /\ r.traded = tab[o].traded
  BY <1>0, <1>1 DEF Row
<1>3. CASE tab[o].status = "none"
  BY <1>3 DEF Paper!UpdateOrderStatus
<1>4. CASE tab[o].status # "none"
  <2>1. upd = [tab EXCEPT ![o] = r]
    BY <1>1, <1>4 DEF Paper!UpdateOrderStatus
  <2> QED
    BY <1>2, <1>4, <2>1
<1> QED
  BY <1>3, <1>4

\* What the two outcomes of a placement have in common: the status becomes
\* final or open, the row follows unless a statement failed.
LEMMA OutcomeKeeps ==
    ASSUME Paper!ServiceAssumption, PInv, NEW o \in PaperOrders, req.op = "new", req.o = o,
           NEW s \in {"filled", "open"}, NEW f \in Seq(Nat),
           paperOrders' = [paperOrders EXCEPT ![o].status = s, ![o].fills = f],
           s = "filled" => Paper!QtyOf(f) = paperOrders[o].qty,
           UNCHANGED <<session, pmSession, net, result, strayed, sessions, booked, lostStop, late>>,
           breaker' = Paper!After(breaker, TRUE), req' = [req EXCEPT !.op = "placed"],
           rows' \in [PaperOrders -> Row], \A p \in PaperOrders \ {o} : rows'[p] = rows[p],
           rows'[o].status \in {"none", "NEW", Paper!ConvertOrderStatus(s)},
           unsure \subseteq unsure', unsure' \subseteq unsure \cup {o},
           o \notin unsure' =>
               rows'[o].status = Paper!ConvertOrderStatus(s) /\ rows'[o].traded = Paper!QtyOf(f)
    PROVE  PInv'
<1>1. /\ paperOrders[o] # Paper!NotHeld /\ booked[o] = "no" /\ req # Paper!Idle
      /\ paperOrders[o] \in PaperOrder
  BY HeldOrders DEF PInv, RequestOK, Paper!Idle
<1>2. /\ paperOrders'[o] \in PaperOrder /\ paperOrders'[o] # Paper!NotHeld
      /\ paperOrders'[o].status = s /\ paperOrders'[o].fills = f
      /\ paperOrders'[o].symbol = paperOrders[o].symbol /\ paperOrders'[o].side = paperOrders[o].side
      /\ paperOrders'[o].qty = paperOrders[o].qty
      /\ \A p \in PaperOrders \ {o} : paperOrders'[p] = paperOrders[p]
  <2>1. paperOrders'[o] = [paperOrders[o] EXCEPT !.status = s, !.fills = f]
        /\ \A p \in PaperOrders \ {o} : paperOrders'[p] = paperOrders[p]
    BY DEF PInv, PaperTyped
  <2>2. PICK r : r = [paperOrders[o] EXCEPT !.status = s]
    OBVIOUS
  <2>3. /\ r \in PaperOrder /\ r.symbol = paperOrders[o].symbol /\ r.side = paperOrders[o].side
        /\ r.qty = paperOrders[o].qty /\ r.status = s
    BY <1>1, <2>2, StatusChanges
  <2>4. paperOrders'[o] = [r EXCEPT !.fills = f]
    BY <2>1, <2>2
  <2>5. /\ paperOrders'[o] \in PaperOrder /\ paperOrders'[o].status = s /\ paperOrders'[o].fills = f
        /\ paperOrders'[o].symbol = r.symbol /\ paperOrders'[o].side = r.side
        /\ paperOrders'[o].qty = r.qty
    BY <2>3, <2>4, FillsChange
  <2>6. \A x \in PaperOrder : x # Paper!NotHeld
    BY DEF PaperOrder, Paper!NotHeld
  <2> QED
    BY <2>1, <2>3, <2>5, <2>6
<1>3. req' \in [op : {"new", "placed"}, o : PaperOrders] /\ req'.op = "placed" /\ req'.o = o
  <2>1. req \in [op : {"new", "placed"}, o : PaperOrders]
    BY <1>1 DEF PInv, PaperTyped, Request
  <2> QED
    BY <2>1
<1>4. PaperTyped'
  <2>1. paperOrders' \in [PaperOrders -> PaperOrder \cup {Paper!NotHeld}]
    <3>1. \A p \in PaperOrders : paperOrders'[p] \in PaperOrder \cup {Paper!NotHeld}
      BY <1>2 DEF PInv, PaperTyped
    <3>2. paperOrders' = [p \in PaperOrders |-> paperOrders'[p]]
      BY DEF PInv, PaperTyped
    <3> QED
      BY <3>1, <3>2
  <2>2. Paper!Used' = Paper!Used
    BY DEF Paper!Used
  <2>3. breaker' \in Breaker
    BY <1>1, SoundAfterSuccess DEF PInv, PaperTyped, BreakerOK
  <2>4. req' \in Request
    BY <1>3 DEF Request
  <2> QED
    BY <2>1, <2>2, <2>3, <2>4 DEF PInv, PaperTyped
<1>5. BreakerOK'
  <2>1. Sound(breaker') /\ breaker'.state # "open"
    BY <1>1, SoundAfterSuccess DEF PInv, PaperTyped, BreakerOK
  <2> QED
    BY <2>1 DEF BreakerOK, Sound
<1>6. RequestOK'
  BY <1>1, <1>2, <1>3 DEF RequestOK
<1>7. ASSUME NEW p \in PaperOrders PROVE OrderOK(p)'
  <2>1. CASE p = o
    <3>1. Paper!ConvertOrderStatus(s) \in {"FILLED", "PARTIALLY_FILLED"}
          /\ (Paper!ConvertOrderStatus(s) = "FILLED" => s = "filled")
      BY DEF Paper!ConvertOrderStatus
    <3>2. "no" \notin Sessions /\ req' # Paper!Idle
      BY <1>3 DEF Paper!ServiceAssumption, Paper!Idle
    <3> QED
      BY <1>1, <1>2, <1>3, <2>1, <3>1, <3>2 DEF OrderOK
  <2>2. CASE p # o
    <3>1. OrderOK(p) /\ p \in PaperOrders \ {o}
      BY <2>2 DEF PInv
    <3>2. req'.o = req.o /\ req # Paper!Idle /\ p # req.o
      BY <1>1, <1>3, <2>2
    <3> QED
      BY <1>2, <3>1, <3>2 DEF OrderOK
  <2> QED
    BY <2>1, <2>2
<1>8. SessionOK'
  BY DEF PInv, SessionOK, Paper!OneSession, Paper!NoLateOrder
<1>9. Paper!NetIsSessionFills'
  <2>1. \A p \in PaperOrders :
           /\ paperOrders'[p] # Paper!NotHeld <=> paperOrders[p] # Paper!NotHeld
           /\ paperOrders[p] # Paper!NotHeld =>
                 /\ paperOrders'[p].symbol = paperOrders[p].symbol
                 /\ paperOrders'[p].side = paperOrders[p].side
                 /\ paperOrders'[p].qty = paperOrders[p].qty
    BY <1>1, <1>2
  <2> QED
    BY <2>1, NetUntouched DEF PInv
<1> QED
  BY <1>4, <1>5, <1>6, <1>7, <1>8, <1>9 DEF PInv

LEMMA FillOrRestKeeps ==
    ASSUME Paper!ServiceAssumption, PInv, Paper!FillOrRest
    PROVE  PInv'
<1>1. PICK o : o = req.o
  OBVIOUS
<1>2. /\ req.op = "new" /\ o \in PaperOrders /\ req # Paper!Idle
      /\ paperOrders[o] \in PaperOrder /\ paperOrders[o].fills = <<>> /\ paperOrders[o].status = "pending"
      /\ rows[o].status \in {"none", "NEW"} /\ rows[o].traded = 0 /\ rows[o] \in Row
  <2>1. req.op = "new" /\ req # Paper!Idle
    BY DEF Paper!FillOrRest, Paper!Idle
  <2>2. o \in PaperOrders
    BY <1>1, <2>1 DEF PInv, PaperTyped, Request
  <2> QED
    BY <1>1, <2>1, <2>2, HeldOrders DEF PInv, RequestOK, PaperTyped
<1>3. /\ UNCHANGED <<session, pmSession, net, result, strayed, sessions, booked, lostStop, late>>
      /\ breaker' = Paper!After(breaker, TRUE) /\ req' = [req EXCEPT !.op = "placed"]
  BY DEF Paper!FillOrRest, Paper!service
<1>4. o \notin unsure => rows[o].status = "NEW"
  <2>1. Paper!ConvertOrderStatus("pending") = "NEW" /\ paperOrders[o] # Paper!NotHeld
    BY <1>2, HeldOrders DEF Paper!ConvertOrderStatus, PInv
  <2> QED
    BY <1>2, <2>1 DEF PInv, OrderOK
<1>6. CASE paperOrders[o].type = "market"
  <2> DEFINE n == paperOrders[o].qty
  <2>1. n \in 1 .. MaxQty /\ 0 .. n \subseteq 0 .. MaxQty /\ n \in 0 .. MaxQty
    BY <1>2 DEF PaperOrder, Paper!ServiceAssumption
  <2>2. PICK f \in Paper!Splits(n) :
          /\ paperOrders' = [paperOrders EXCEPT ![o].status = "filled", ![o].fills = f]
          /\ Paper!Write(o, {Paper!UpdateOrderStatus(Paper!InsertTrade(rows, o, n), o, "filled")},
                         {Paper!InsertTrade(rows, o, t) : t \in 0 .. n} \cup
                         {Paper!UpdateOrderStatus(u, o, "filled") :
                             u \in {Paper!InsertTrade(rows, o, t) : t \in 0 .. n}})
    <3>1. Paper!SimulateMarketFill(o)
      BY <1>1, <1>6 DEF Paper!FillOrRest
    <3> QED
      BY <3>1 DEF Paper!SimulateMarketFill
  <2>3. Paper!QtyOf(f) = n /\ f \in Seq(Nat)
    BY <2>1, <2>2, QtyOfSplit
  <2>5. Paper!ConvertOrderStatus("filled") = "FILLED"
    BY DEF Paper!ConvertOrderStatus
  <2>6. ASSUME NEW t \in 0 .. n
        PROVE  /\ Paper!InsertTrade(rows, o, t) \in [PaperOrders -> Row]
               /\ \A p \in PaperOrders \ {o} : Paper!InsertTrade(rows, o, t)[p] = rows[p]
               /\ Paper!InsertTrade(rows, o, t)[o].status \in {"none", "NEW"}
               /\ Paper!UpdateOrderStatus(Paper!InsertTrade(rows, o, t), o, "filled") \in [PaperOrders -> Row]
               /\ \A p \in PaperOrders \ {o} :
                     Paper!UpdateOrderStatus(Paper!InsertTrade(rows, o, t), o, "filled")[p] = rows[p]
               /\ Paper!UpdateOrderStatus(Paper!InsertTrade(rows, o, t), o, "filled")[o].status
                     \in {"none", "FILLED"}
    <3>1. PICK tab : tab = Paper!InsertTrade(rows, o, t)
      OBVIOUS
    <3>2. PICK upd : upd = Paper!UpdateOrderStatus(tab, o, "filled")
      OBVIOUS
    <3>3. /\ tab \in [PaperOrders -> Row] /\ tab[o].status = rows[o].status
          /\ \A p \in PaperOrders \ {o} : tab[p] = rows[p]
      BY <1>2, <2>1, <3>1, TradeInserted DEF PInv
    <3>4. /\ upd \in [PaperOrders -> Row] /\ \A p \in PaperOrders \ {o} : upd[p] = tab[p]
          /\ upd[o].status = IF tab[o].status = "none" THEN "none" ELSE "FILLED"
      BY <1>2, <2>5, <3>2, <3>3, StatusWritten
    <3> QED
      BY <1>2, <3>1, <3>2, <3>3, <3>4
  <2>7. /\ rows' \in [PaperOrders -> Row] /\ \A p \in PaperOrders \ {o} : rows'[p] = rows[p]
        /\ rows'[o].status \in {"none", "NEW", "FILLED"}
        /\ unsure \subseteq unsure' /\ unsure' \subseteq unsure \cup {o}
        /\ o \notin unsure' => rows' = Paper!UpdateOrderStatus(Paper!InsertTrade(rows, o, n), o, "filled")
    <3>1. /\ rows' \in {Paper!UpdateOrderStatus(Paper!InsertTrade(rows, o, n), o, "filled")} \cup
                       ({Paper!InsertTrade(rows, o, t) : t \in 0 .. n} \cup
                        {Paper!UpdateOrderStatus(u, o, "filled") :
                             u \in {Paper!InsertTrade(rows, o, t) : t \in 0 .. n}})
          /\ unsure \subseteq unsure' /\ unsure' \subseteq unsure \cup {o}
          /\ o \notin unsure' => rows' \in {Paper!UpdateOrderStatus(Paper!InsertTrade(rows, o, n), o, "filled")}
      BY <1>2, <2>2, WriteEffect
    <3>2. n \in 0 .. n
      BY <2>1 DEF Paper!ServiceAssumption
    <3>3. \E t \in 0 .. n : \/ rows' = Paper!InsertTrade(rows, o, t)
                            \/ rows' = Paper!UpdateOrderStatus(Paper!InsertTrade(rows, o, t), o, "filled")
      BY <3>1, <3>2
    <3> QED
      BY <2>6, <3>1, <3>3
  <2>8. o \notin unsure' => rows'[o].status = "FILLED" /\ rows'[o].traded = n
    <3>1. SUFFICES ASSUME o \notin unsure' PROVE rows'[o].status = "FILLED" /\ rows'[o].traded = n
      OBVIOUS
    <3>2. rows[o].status = "NEW"
      BY <1>4, <2>7, <3>1
    <3>3. PICK tab : tab = Paper!InsertTrade(rows, o, n)
      OBVIOUS
    <3>4. tab \in [PaperOrders -> Row] /\ tab[o].status = "NEW" /\ tab[o].traded = n
      BY <1>2, <2>1, <3>2, <3>3, TradeInserted DEF PInv
    <3>5. rows' = Paper!UpdateOrderStatus(tab, o, "filled")
      BY <2>7, <3>1, <3>3
    <3> QED
      BY <1>2, <2>5, <3>4, <3>5, StatusWritten
  <2> QED
    BY <1>1, <1>2, <1>3, <2>2, <2>3, <2>5, <2>7, <2>8, OutcomeKeeps
<1>7. CASE paperOrders[o].type # "market"
  <2>1. /\ paperOrders' = [paperOrders EXCEPT ![o].status = "open"]
        /\ Paper!Write(o, {Paper!UpdateOrderStatus(rows, o, "open")},
                       {rows, Paper!UpdateOrderStatus(rows, o, "open")})
    BY <1>1, <1>7 DEF Paper!FillOrRest, Paper!RestOrder
  <2>2. paperOrders' = [paperOrders EXCEPT ![o].status = "open", ![o].fills = <<>>]
    <3>1. [paperOrders[o] EXCEPT !.status = "open"] = [paperOrders[o] EXCEPT !.status = "open", !.fills = <<>>]
      BY <1>2 DEF PaperOrder
    <3>2. paperOrders' = [paperOrders EXCEPT ![o] = [paperOrders[o] EXCEPT !.status = "open"]]
      BY <2>1
    <3> QED
      BY <3>1, <3>2
  <2>3. /\ rows' \in {rows, Paper!UpdateOrderStatus(rows, o, "open")}
        /\ unsure \subseteq unsure' /\ unsure' \subseteq unsure \cup {o}
        /\ o \notin unsure' => rows' = Paper!UpdateOrderStatus(rows, o, "open")
    BY <1>2, <2>1, WriteEffect
  <2>4. 0 \in 0 .. MaxQty /\ <<>> \in Seq(Nat) /\ Paper!QtyOf(<<>>) = 0
        /\ Paper!ConvertOrderStatus("open") = "PARTIALLY_FILLED"
    BY QtyOfNothing DEF Paper!ServiceAssumption, Paper!ConvertOrderStatus
  <2>5. PICK upd : upd = Paper!UpdateOrderStatus(rows, o, "open")
    OBVIOUS
  <2>6. /\ upd \in [PaperOrders -> Row] /\ upd[o].traded = 0
        /\ \A p \in PaperOrders \ {o} : upd[p] = rows[p]
        /\ upd[o].status = IF rows[o].status = "none" THEN "none" ELSE "PARTIALLY_FILLED"
    BY <1>2, <2>4, <2>5, StatusWritten DEF PInv, PaperTyped
  <2>7. /\ rows' \in [PaperOrders -> Row] /\ \A p \in PaperOrders \ {o} : rows'[p] = rows[p]
        /\ rows'[o].status \in {"none", "NEW", "PARTIALLY_FILLED"}
        /\ o \notin unsure' => rows'[o].status = "PARTIALLY_FILLED" /\ rows'[o].traded = 0
    BY <1>2, <1>4, <2>3, <2>5, <2>6 DEF PInv, PaperTyped
  <2> QED
    BY <1>1, <1>2, <1>3, <2>2, <2>3, <2>4, <2>7, OutcomeKeeps
<1> QED
  BY <1>6, <1>7

\* The request is over: what was filled is booked, unless the position manager
\* refused it.
LEMMA BookingKeeps ==
    ASSUME Paper!ServiceAssumption, PInv, NEW o \in PaperOrders, req # Paper!Idle, req.o = o,
           NEW b \in {"no", "refused"} \cup Sessions,
           booked' = [booked EXCEPT ![o] = b],
           paperOrders[o].status = "filled" => b # "no",
           b \in Sessions => sessions[b] # "none",
           breaker' \in Breaker, Sound(breaker'), req' = Paper!Idle,
           net' \in [Symbols -> Int], result' \in {"none", "ok", "error"}, strayed' \in BOOLEAN,
           UNCHANGED <<session, pmSession, paperOrders, rows, sessions, unsure, lostStop, late>>,
           Paper!NetIsSessionFills'
    PROVE  PInv'
<1>1. paperOrders[o] # Paper!NotHeld /\ booked[o] = "no" /\ b # "unused"
  BY DEF PInv, RequestOK, Paper!ServiceAssumption
<1>2. booked'[o] = b /\ \A p \in PaperOrders \ {o} : booked'[p] = booked[p]
  BY DEF PInv, PaperTyped
<1>3. Paper!Used' = Paper!Used
  BY <1>1, <1>2 DEF Paper!Used
<1>4. PaperTyped'
  BY <1>3 DEF PInv, PaperTyped, Request
<1>5. BreakerOK' /\ RequestOK'
  BY DEF BreakerOK, RequestOK, Sound
<1>6. ASSUME NEW p \in PaperOrders PROVE OrderOK(p)'
  <2>1. CASE p = o
    <3>1. OrderOK(p)
      BY DEF PInv
    <3> QED
      BY <1>1, <1>2, <2>1, <3>1 DEF OrderOK
  <2>2. CASE p # o
    <3>1. OrderOK(p) /\ booked'[p] = booked[p]
      BY <1>2, <2>2 DEF PInv
    <3> QED
      BY <2>2, <3>1 DEF OrderOK
  <2> QED
    BY <2>1, <2>2
<1>7. SessionOK'
  BY DEF PInv, SessionOK, Paper!OneSession, Paper!NoLateOrder
<1> QED
  BY <1>4, <1>5, <1>6, <1>7 DEF PInv

LEMMA BookOrderKeeps ==
    ASSUME Paper!ServiceAssumption, PInv, Paper!BookOrder
    PROVE  PInv'
<1>1. PICK o : o = req.o
  OBVIOUS
<1>2. PICK q : q = Paper!Signed(paperOrders[o].side, Paper!QtyOf(paperOrders[o].fills))
  OBVIOUS
<1>3. /\ req.op = "placed" /\ req' = Paper!Idle
      /\ UNCHANGED <<session, pmSession, paperOrders, rows, sessions, unsure, lostStop, late>>
  BY DEF Paper!BookOrder
<1>4. /\ req # Paper!Idle /\ o \in PaperOrders
      /\ paperOrders[o] # Paper!NotHeld /\ booked[o] = "no"
  <2>1. req # Paper!Idle
    BY <1>3 DEF Paper!Idle
  <2> QED
    BY <1>1, <2>1 DEF PInv, PaperTyped, Request, RequestOK
<1>5. /\ Paper!Admits(breaker) /\ Paper!AfterGet \in Breaker /\ Sound(Paper!AfterGet)
      /\ Paper!AfterGet.state # "open" /\ Paper!Admits(Paper!AfterGet)
      /\ Paper!After(Paper!AfterGet, TRUE) \in Breaker /\ Sound(Paper!After(Paper!AfterGet, TRUE))
  <2>1. breaker \in Breaker /\ Sound(breaker) /\ breaker.state # "open"
    BY <1>4 DEF PInv, PaperTyped, BreakerOK
  <2>2. Paper!AfterGet \in Breaker /\ Sound(Paper!AfterGet) /\ Paper!AfterGet.state # "open"
    BY <2>1, SoundAfterSuccess DEF Paper!AfterGet
  <2>3. PICK b : b = Paper!AfterGet
    OBVIOUS
  <2>4. Paper!Admits(b) /\ Paper!After(b, TRUE) \in Breaker /\ Sound(Paper!After(b, TRUE))
    BY <2>2, <2>3, SoundAdmits, SoundAfterSuccess
  <2> QED
    BY <2>1, <2>2, <2>3, <2>4, SoundAdmits
<1>6. CASE paperOrders[o].status # "filled"
  <2>1. /\ breaker' = Paper!AfterGet /\ UNCHANGED <<net, result, strayed, booked>>
    BY <1>1, <1>5, <1>6 DEF Paper!BookOrder, Paper!Bookable
  <2>2. booked' = [booked EXCEPT ![o] = "no"]
    BY <1>4, <2>1 DEF PInv, PaperTyped
  <2>3. Paper!NetIsSessionFills'
    BY <1>3, <2>1, NetUntouched DEF PInv
  <2>4. "no" \notin Sessions
    BY DEF Paper!ServiceAssumption
  <2> QED
    BY <1>1, <1>3, <1>4, <1>5, <1>6, <2>1, <2>2, <2>3, <2>4, BookingKeeps DEF PInv, PaperTyped
<1>7. CASE paperOrders[o].status = "filled"
  <2>1. q \in Int /\ q = Paper!Lots[o] /\ paperOrders[o].symbol \in Symbols
    <3>1. OrderOK(o)
      BY <1>4 DEF PInv
    <3>2. q = Paper!Signed(paperOrders[o].side, paperOrders[o].qty)
      BY <1>2, <1>7, <3>1 DEF OrderOK
    <3> QED
      BY <1>4, <3>2, HeldOrders DEF PInv
  <2>2. /\ breaker' = Paper!After(Paper!AfterGet, TRUE)
        /\ \/ /\ Paper!PM!Acknowledge(paperOrders[o].symbol, q)
              /\ booked' = [booked EXCEPT ![o] = pmSession]
              /\ UNCHANGED strayed
           \/ /\ Paper!PM!Fail(paperOrders[o].symbol, q)
              /\ booked' = [booked EXCEPT ![o] = "refused"] /\ strayed' = TRUE
           \/ /\ Paper!PM!Refuse
              /\ booked' = [booked EXCEPT ![o] = "refused"] /\ UNCHANGED strayed
    BY <1>1, <1>2, <1>5, <1>7 DEF Paper!BookOrder, Paper!Bookable
  <2>3. CASE /\ Paper!PM!Acknowledge(paperOrders[o].symbol, q)
             /\ booked' = [booked EXCEPT ![o] = pmSession]
             /\ UNCHANGED strayed
    <3>1. /\ pmSession # NoSession /\ net' = [net EXCEPT ![paperOrders[o].symbol] = @ + q]
          /\ result' = "ok"
      BY <2>3 DEF Paper!PM!Acknowledge
    <3>2. pmSession \in Sessions /\ sessions[pmSession] # "none" /\ pmSession # "no"
      BY <3>1 DEF PInv, PaperTyped, SessionOK, Paper!OneSession, Paper!ServiceAssumption
    <3>3. net' \in [Symbols -> Int]
      BY <2>1, <3>1 DEF PInv, PaperTyped
    <3>4. booked'[o] = pmSession /\ \A p \in PaperOrders \ {o} : booked'[p] = booked[p]
      BY <1>4, <2>3 DEF PInv, PaperTyped
    <3>5. Paper!NetIsSessionFills'
      <4>1. CASE strayed
        BY <2>3, <4>1 DEF Paper!NetIsSessionFills
      <4>2. CASE ~ strayed
        <5>1. ASSUME NEW y \in Symbols
              PROVE  /\ o \notin Paper!BookedNow(y)
                     /\ Paper!BookedNow(y)' = IF y = paperOrders[o].symbol
                                              THEN Paper!BookedNow(y) \cup {o} ELSE Paper!BookedNow(y)
          <6>1. o \notin Paper!BookedNow(y)
            BY <1>4, <3>2 DEF Paper!BookedNow
          <6>2. ASSUME NEW p \in PaperOrders \ {o}
                PROVE  p \in Paper!BookedNow(y)' <=> p \in Paper!BookedNow(y)
            BY <1>3, <3>4 DEF Paper!BookedNow
          <6>3. o \in Paper!BookedNow(y)' <=> y = paperOrders[o].symbol
            BY <1>3, <1>4, <3>1, <3>4 DEF Paper!BookedNow
          <6>4. Paper!BookedNow(y)' \subseteq PaperOrders /\ Paper!BookedNow(y) \subseteq PaperOrders
            BY DEF Paper!BookedNow
          <6> QED
            BY <6>1, <6>2, <6>3, <6>4
        <5> QED
          BY <1>3, <1>4, <2>1, <3>1, <4>2, <5>1, NetMoves DEF PInv
      <4> QED
        BY <4>1, <4>2
    <3> QED
      BY <1>1, <1>3, <1>4, <1>5, <2>2, <2>3, <3>1, <3>2, <3>3, <3>5, BookingKeeps DEF PInv, PaperTyped
  <2>4. CASE /\ Paper!PM!Fail(paperOrders[o].symbol, q)
             /\ booked' = [booked EXCEPT ![o] = "refused"] /\ strayed' = TRUE
    <3>1. /\ \E n \in Paper!PM!AfterError(net[paperOrders[o].symbol], q) :
                net' = [net EXCEPT ![paperOrders[o].symbol] = n]
          /\ result' = "error"
      BY <2>4 DEF Paper!PM!Fail
    <3>2. \A n \in Paper!PM!AfterError(net[paperOrders[o].symbol], q) : n \in Int
      BY <2>1 DEF PInv, PaperTyped, Paper!PM!AfterError
    <3>3. net' \in [Symbols -> Int]
      BY <3>1, <3>2 DEF PInv, PaperTyped
    <3>4. Paper!NetIsSessionFills'
      BY <2>4 DEF Paper!NetIsSessionFills
    <3>5. "refused" \notin Sessions
      BY DEF Paper!ServiceAssumption
    <3> QED
      BY <1>1, <1>3, <1>4, <1>5, <2>2, <2>4, <3>1, <3>3, <3>4, <3>5, BookingKeeps
  <2>5. CASE /\ Paper!PM!Refuse
             /\ booked' = [booked EXCEPT ![o] = "refused"] /\ UNCHANGED strayed
    <3>1. pmSession = NoSession /\ net' = net /\ result' = "error"
      BY <2>5 DEF Paper!PM!Refuse
    <3>2. ASSUME NEW y \in Symbols PROVE Paper!BookedNow(y)' = Paper!BookedNow(y)
      BY <1>3, <3>1 DEF Paper!BookedNow
    <3>3. Paper!Lots' = Paper!Lots
      BY <1>3 DEF Paper!Lots
    <3>4. Paper!NetIsSessionFills'
      BY <2>5, <3>1, <3>2, <3>3, NetKept DEF PInv
    <3>5. "refused" \notin Sessions
      BY DEF Paper!ServiceAssumption
    <3> QED
      BY <1>1, <1>3, <1>4, <1>5, <2>2, <2>5, <3>1, <3>4, <3>5, BookingKeeps DEF PInv, PaperTyped
  <2> QED
    BY <2>2, <2>3, <2>4, <2>5
<1> QED
  BY <1>6, <1>7
-----------------------------------------------------------------------------
(* Calls that place nothing.                                               *)

\* The breaker counts a call between two requests.
LEMMA BreakerMoves ==
    ASSUME Paper!ServiceAssumption, PInv, req = Paper!Idle,
           breaker' \in Breaker, Sound(breaker'),
           UNCHANGED <<session, pmSession, net, result, strayed, paperOrders, rows, sessions, req,
                       booked, unsure, lostStop, late>>
    PROVE  PInv'
<1>1. PaperTyped'
  <2>1. Paper!Used' = Paper!Used
    BY DEF Paper!Used
  <2> QED
    BY <2>1 DEF PInv, PaperTyped
<1>2. BreakerOK' /\ RequestOK'
  BY DEF BreakerOK, RequestOK, Sound
<1>3. ASSUME NEW p \in PaperOrders PROVE OrderOK(p)'
  BY DEF PInv, OrderOK
<1>4. SessionOK'
  BY DEF PInv, SessionOK, Paper!OneSession, Paper!NoLateOrder
<1>5. Paper!NetIsSessionFills'
  BY NetUntouched DEF PInv
<1> QED
  BY <1>1, <1>2, <1>3, <1>4, <1>5 DEF PInv

LEMMA AdmittedIsSound ==
    ASSUME PInv, Paper!Admits(breaker)
    PROVE  breaker \in Breaker /\ Sound(breaker) /\ breaker.state # "open"
BY SoundAdmits DEF PInv, PaperTyped, BreakerOK

LEMMA GetOrderStatusKeeps ==
    ASSUME Paper!ServiceAssumption, PInv, NEW o \in PaperOrders, Paper!GetOrderStatus(o)
    PROVE  PInv'
<1>1. /\ req = Paper!Idle /\ Paper!Admits(breaker)
      /\ UNCHANGED <<session, pmSession, net, result, strayed, paperOrders, rows, sessions, req,
                     booked, unsure, lostStop, late>>
  BY DEF Paper!GetOrderStatus, Paper!service, Paper!history
<1>2. breaker' \in Breaker /\ Sound(breaker')
  <2>1. breaker \in Breaker /\ Sound(breaker) /\ breaker.state # "open"
    BY <1>1, AdmittedIsSound
  <2>2. CASE paperOrders[o] # Paper!NotHeld
    <3>1. (paperOrders[o] # Paper!NotHeld) = TRUE
      BY <2>2
    <3>2. PICK b : b = Paper!After(breaker, TRUE)
      OBVIOUS
    <3>3. b \in Breaker /\ Sound(b) /\ b.state # "open" /\ Paper!After(b, TRUE) \in Breaker
          /\ Sound(Paper!After(b, TRUE))
      BY <2>1, <3>2, SoundAfterSuccess
    <3>4. breaker' \in {b, Paper!After(b, TRUE)}
      BY <2>2, <3>1, <3>2 DEF Paper!GetOrderStatus
    <3> QED
      BY <3>3, <3>4
  <2>3. CASE paperOrders[o] = Paper!NotHeld
    <3>1. (paperOrders[o] # Paper!NotHeld) = FALSE
      BY <2>3
    <3>2. breaker' = Paper!After(breaker, FALSE)
      BY <2>3, <3>1 DEF Paper!GetOrderStatus
    <3> QED
      BY <2>1, <3>2, SoundAfterFailure
  <2> QED
    BY <2>2, <2>3
<1> QED
  BY <1>1, <1>2, BreakerMoves

LEMMA BreakerTimerKeeps ==
    ASSUME Paper!ServiceAssumption, PInv, Paper!BreakerTimer
    PROVE  PInv'
<1>1. [Paper!Closed EXCEPT !.state = "half_open"] \in Breaker
      /\ Sound([Paper!Closed EXCEPT !.state = "half_open"])
      /\ [Paper!Closed EXCEPT !.state = "half_open"].state = "half_open"
  BY DEF Paper!Closed, Breaker, Sound, Paper!ServiceAssumption
<1>2. breaker' \in {Paper!Closed, [Paper!Closed EXCEPT !.state = "half_open"]}
  BY DEF Paper!BreakerTimer
<1>3. breaker' \in Breaker /\ Sound(breaker') /\ breaker'.state # "open"
  BY <1>1, <1>2, ClosedIsSound
<1>4. UNCHANGED <<session, pmSession, net, result, strayed, paperOrders, rows, sessions, req,
                  booked, unsure, lostStop, late>>
  BY DEF Paper!BreakerTimer, Paper!service, Paper!history
<1>5. PaperTyped'
  <2>1. Paper!Used' = Paper!Used
    BY <1>4 DEF Paper!Used
  <2> QED
    BY <1>3, <1>4, <2>1 DEF PInv, PaperTyped
<1>6. BreakerOK' /\ RequestOK'
  <2>1. BreakerOK'
    BY <1>3 DEF BreakerOK, Sound
  <2>2. RequestOK'
    BY <1>4 DEF PInv, RequestOK
  <2> QED
    BY <2>1, <2>2
<1>7. ASSUME NEW p \in PaperOrders PROVE OrderOK(p)'
  BY <1>4 DEF PInv, OrderOK
<1>8. SessionOK'
  BY <1>4 DEF PInv, SessionOK, Paper!OneSession, Paper!NoLateOrder
<1>9. Paper!NetIsSessionFills'
  BY <1>4, NetUntouched DEF PInv
<1> QED
  BY <1>5, <1>6, <1>7, <1>8, <1>9 DEF PInv

LEMMA PaperCancelKeeps ==
    ASSUME Paper!ServiceAssumption, PInv, NEW o \in PaperOrders, Paper!CancelOrder(o)
    PROVE  PInv'
<1>1. /\ req = Paper!Idle /\ Paper!Admits(breaker)
      /\ UNCHANGED <<session, pmSession, net, result, strayed, sessions, req, booked, lostStop, late>>
  BY DEF Paper!CancelOrder, Paper!service
<1>2. breaker \in Breaker /\ Sound(breaker) /\ breaker.state # "open"
  BY <1>1, AdmittedIsSound
<1>3. CASE ~ Paper!Cancellable(o)
  <2>1. Paper!Cancellable(o) = FALSE
    BY <1>3 DEF Paper!Cancellable
  <2>2. breaker' = Paper!After(breaker, FALSE) /\ UNCHANGED <<paperOrders, rows, unsure>>
    BY <2>1 DEF Paper!CancelOrder
  <2> QED
    BY <1>1, <1>2, <2>2, SoundAfterFailure, BreakerMoves
<1>4. CASE Paper!Cancellable(o)
  <2>1. Paper!Cancellable(o) = TRUE
    BY <1>4 DEF Paper!Cancellable
  <2>2. /\ breaker' = Paper!After(breaker, TRUE)
        /\ paperOrders' = [paperOrders EXCEPT ![o].status = "cancelled"]
        /\ Paper!Write(o, {Paper!UpdateOrderStatus(rows, o, "cancelled")},
                       {rows, Paper!UpdateOrderStatus(rows, o, "cancelled")})
    BY <2>1 DEF Paper!CancelOrder
  <2>3. PICK upd : upd = Paper!UpdateOrderStatus(rows, o, "cancelled")
    OBVIOUS
  <2>4. /\ rows' \in {rows, upd} /\ unsure \subseteq unsure' /\ unsure' \subseteq unsure \cup {o}
        /\ o \notin unsure' => rows' = upd
    BY <2>2, <2>3, WriteEffect
  <2>5. /\ upd \in [PaperOrders -> Row] /\ upd[o].traded = rows[o].traded
        /\ upd[o].status = IF rows[o].status = "none" THEN "none" ELSE "CANCELED"
        /\ \A p \in PaperOrders \ {o} : upd[p] = rows[p]
    <3>1. Paper!ConvertOrderStatus("cancelled") = "CANCELED"
      BY DEF Paper!ConvertOrderStatus
    <3> QED
      BY <2>3, <3>1, StatusWritten DEF PInv, PaperTyped
  <2>6. /\ paperOrders[o] \in PaperOrder /\ paperOrders[o] # Paper!NotHeld
        /\ paperOrders[o].status \in {"open", "pending"}
    BY <1>4, HeldOrders DEF PInv, Paper!Cancellable
  <2>7. /\ paperOrders'[o] \in PaperOrder /\ paperOrders'[o] # Paper!NotHeld
        /\ paperOrders'[o].status = "cancelled" /\ paperOrders'[o].fills = paperOrders[o].fills
        /\ paperOrders'[o].symbol = paperOrders[o].symbol /\ paperOrders'[o].side = paperOrders[o].side
        /\ paperOrders'[o].qty = paperOrders[o].qty
        /\ \A p \in PaperOrders \ {o} : paperOrders'[p] = paperOrders[p]
    <3>1. PICK r : r = [paperOrders[o] EXCEPT !.status = "cancelled"]
      OBVIOUS
    <3>2. paperOrders'[o] = r /\ \A p \in PaperOrders \ {o} : paperOrders'[p] = paperOrders[p]
      BY <2>2, <3>1 DEF PInv, PaperTyped
    <3>3. /\ r \in PaperOrder /\ r.status = "cancelled" /\ r.fills = paperOrders[o].fills
          /\ r.symbol = paperOrders[o].symbol /\ r.side = paperOrders[o].side
          /\ r.qty = paperOrders[o].qty
      BY <2>6, <3>1, StatusChanges
    <3>4. \A x \in PaperOrder : x # Paper!NotHeld
      BY DEF PaperOrder, Paper!NotHeld
    <3> QED
      BY <3>2, <3>3, <3>4
  <2>8. PaperTyped'
    <3>1. paperOrders' \in [PaperOrders -> PaperOrder \cup {Paper!NotHeld}]
      <4>1. \A p \in PaperOrders : paperOrders'[p] \in PaperOrder \cup {Paper!NotHeld}
        BY <2>7 DEF PInv, PaperTyped
      <4>2. paperOrders' = [p \in PaperOrders |-> paperOrders'[p]]
        BY <2>2 DEF PInv, PaperTyped
      <4> QED
        BY <4>1, <4>2
    <3>2. Paper!Used' = Paper!Used
      BY <1>1 DEF Paper!Used
    <3>3. breaker' \in Breaker
      BY <1>2, <2>2, SoundAfterSuccess
    <3>4. rows' \in [PaperOrders -> Row]
      BY <2>4, <2>5 DEF PInv, PaperTyped
    <3> QED
      BY <1>1, <3>1, <3>2, <3>3, <3>4 DEF PInv, PaperTyped
  <2>9. BreakerOK' /\ RequestOK'
    <3>1. Sound(breaker')
      BY <1>2, <2>2, SoundAfterSuccess
    <3> QED
      BY <1>1, <3>1 DEF BreakerOK, RequestOK, Sound
  <2>10. ASSUME NEW p \in PaperOrders PROVE OrderOK(p)'
    <3>1. OrderOK(p) /\ Paper!ConvertOrderStatus("cancelled") = "CANCELED"
      BY DEF PInv, Paper!ConvertOrderStatus
    <3>2. CASE p = o
      <4>1. /\ rows[o].status # "FILLED" /\ rows'[o].traded = rows[o].traded
            /\ rows'[o].status \in {rows[o].status, "CANCELED", "none"}
        BY <2>4, <2>5, <2>6, <3>1, <3>2 DEF OrderOK
      <4>2. o \notin unsure' => /\ rows[o].status # "none" /\ rows'[o].status = "CANCELED"
                                /\ rows[o].traded = Paper!QtyOf(paperOrders[o].fills)
        <5>1. Paper!ConvertOrderStatus(paperOrders[o].status) # "none"
          BY <2>6 DEF Paper!ConvertOrderStatus
        <5> QED
          BY <2>4, <2>5, <2>6, <3>1, <3>2, <5>1 DEF OrderOK
      <4> QED
        BY <1>1, <2>7, <3>1, <3>2, <4>1, <4>2, <2>6 DEF OrderOK
    <3>3. CASE p # o
      <4>1. paperOrders'[p] = paperOrders[p] /\ rows'[p] = rows[p] /\ (p \notin unsure' => p \notin unsure)
        BY <2>4, <2>5, <2>7, <3>3
      <4> QED
        BY <1>1, <3>1, <4>1 DEF OrderOK
    <3> QED
      BY <3>2, <3>3
  <2>11. SessionOK'
    BY <1>1 DEF PInv, SessionOK, Paper!OneSession, Paper!NoLateOrder
  <2>12. Paper!NetIsSessionFills'
    BY <1>1, <2>6, <2>7, NetUntouched DEF PInv
  <2> QED
    BY <2>8, <2>9, <2>10, <2>11, <2>12 DEF PInv
<1> QED
  BY <1>3, <1>4
-----------------------------------------------------------------------------
(* Sessions and restarts.                                                  *)

\* The rest of the state when a session begins or ends between two requests.
LEMMA SessionMoves ==
    ASSUME Paper!ServiceAssumption, PInv, req = Paper!Idle,
           UNCHANGED <<paperOrders, rows, breaker, req, booked, unsure, late>>,
           {session', pmSession'} \subseteq Sessions \cup {NoSession},
           net' \in [Symbols -> Int], result' \in {"none", "ok", "error"}, strayed' \in BOOLEAN,
           sessions' \in [Sessions -> {"none", "active", "stopped"}],
           \A s \in Sessions : sessions[s] # "none" => sessions'[s] # "none",
           \A s \in Sessions : sessions[s] = "stopped" => sessions'[s] = "stopped",
           session' = pmSession', session' # NoSession => sessions'[session'] = "active" \/ session' \in lostStop',
           lostStop \subseteq lostStop', \A s \in lostStop' : s \in lostStop \/ (s \in Sessions /\ sessions'[s] = "stopped"),
           Paper!NetIsSessionFills'
    PROVE  PInv'
<1>1. PaperTyped'
  <2>1. Paper!Used' = Paper!Used
    BY DEF Paper!Used
  <2> QED
    BY <2>1 DEF PInv, PaperTyped
<1>2. BreakerOK' /\ RequestOK'
  BY DEF PInv, BreakerOK, RequestOK, Sound
<1>3. ASSUME NEW p \in PaperOrders PROVE OrderOK(p)'
  BY DEF PInv, OrderOK
<1>4. SessionOK'
  BY DEF PInv, SessionOK, Paper!OneSession, Paper!NoLateOrder
<1> QED
  BY <1>1, <1>2, <1>3, <1>4 DEF PInv

LEMMA StartSessionKeeps ==
    ASSUME Paper!ServiceAssumption, PInv, NEW s \in Sessions, Paper!StartSession(s)
    PROVE  PInv'
<1>1. /\ req = Paper!Idle /\ sessions[s] = "none"
      /\ sessions' = [sessions EXCEPT ![s] = "active"]
      /\ session' = s /\ pmSession' = s /\ result' = "none"
      /\ UNCHANGED <<paperOrders, rows, breaker, req, booked, unsure, lostStop, late>>
      /\ \/ net' = [y \in Symbols |-> 0] /\ strayed' = FALSE
         \/ strayed' = TRUE /\ UNCHANGED net
  BY DEF Paper!StartSession, Paper!history
<1>2. Paper!NetIsSessionFills'
  <2>1. CASE strayed' = TRUE
    BY <2>1 DEF Paper!NetIsSessionFills
  <2>2. CASE net' = [y \in Symbols |-> 0]
    <3>1. ASSUME NEW y \in Symbols, NEW p \in PaperOrders PROVE p \notin Paper!BookedNow(y)'
      <4>1. OrderOK(p)
        BY DEF PInv
      <4> QED
        BY <1>1, <4>1 DEF Paper!BookedNow, OrderOK
    <3>2. ASSUME NEW y \in Symbols PROVE Paper!BookedNow(y)' = {}
      BY <3>1 DEF Paper!BookedNow
    <3> QED
      BY <2>2, <3>2, NetFlat
  <2> QED
    BY <1>1, <2>1, <2>2
<1>3. net' \in [Symbols -> Int] /\ strayed' \in BOOLEAN
  <2>1. [y \in Symbols |-> 0] \in [Symbols -> Int]
    OBVIOUS
  <2> QED
    BY <1>1, <2>1 DEF PInv, PaperTyped
<1>4. \A t \in lostStop : t \in Sessions /\ sessions[t] = "stopped" /\ t # s
  BY <1>1 DEF PInv, SessionOK
<1>5. /\ sessions' \in [Sessions -> {"none", "active", "stopped"}] /\ sessions'[s] = "active"
      /\ \A t \in Sessions \ {s} : sessions'[t] = sessions[t]
  BY <1>1 DEF PInv, PaperTyped
<1> QED
  BY <1>1, <1>2, <1>3, <1>4, <1>5, SessionMoves

LEMMA StartSessionFailsKeeps ==
    ASSUME Paper!ServiceAssumption, PInv, NEW s \in Sessions, Paper!StartSessionFails(s)
    PROVE  PInv'
<1>1. /\ req = Paper!Idle /\ sessions[s] = "none"
      /\ sessions' \in {sessions, [sessions EXCEPT ![s] = "active"]}
      /\ UNCHANGED <<session, pmSession, net, result, strayed>>
      /\ UNCHANGED <<paperOrders, rows, breaker, req, booked, unsure, lostStop, late>>
  BY DEF Paper!StartSessionFails, Paper!history, Paper!service
<1>2. Paper!NetIsSessionFills'
  BY <1>1, NetUntouched DEF PInv
<1>3. /\ sessions' \in [Sessions -> {"none", "active", "stopped"}]
      /\ sessions'[s] \in {"none", "active"} /\ \A t \in Sessions \ {s} : sessions'[t] = sessions[t]
  BY <1>1 DEF PInv, PaperTyped
<1>4. session' = pmSession' /\ (session' # NoSession => sessions'[session'] = "active" \/ session' \in lostStop')
  BY <1>1, <1>3 DEF PInv, PaperTyped, SessionOK, Paper!OneSession
<1>5. {session', pmSession'} \subseteq Sessions \cup {NoSession} /\ net' \in [Symbols -> Int]
      /\ result' \in {"none", "ok", "error"} /\ strayed' \in BOOLEAN
  BY <1>1 DEF PInv, PaperTyped
<1> QED
  BY <1>1, <1>2, <1>3, <1>4, <1>5, SessionMoves

LEMMA StopSessionKeeps ==
    ASSUME Paper!ServiceAssumption, PInv, Paper!StopSession
    PROVE  PInv'
<1>1. /\ req = Paper!Idle /\ session \in Sessions /\ sessions[session] = "active"
      /\ sessions' = [sessions EXCEPT ![session] = "stopped"]
      /\ session' = NoSession /\ pmSession' = NoSession
      /\ net' = [y \in Symbols |-> 0] /\ result' = "none" /\ strayed' = FALSE
      /\ UNCHANGED <<paperOrders, rows, breaker, req, booked, unsure, lostStop, late>>
  BY DEF Paper!StopSession, Paper!ForgetSession, Paper!history, PInv, PaperTyped
<1>2. Paper!NetIsSessionFills'
  <2>1. ASSUME NEW y \in Symbols PROVE Paper!BookedNow(y)' = {}
    BY <1>1 DEF Paper!BookedNow
  <2> QED
    BY <1>1, <2>1, NetFlat
<1>3. /\ sessions' \in [Sessions -> {"none", "active", "stopped"}]
      /\ sessions'[session] = "stopped" /\ \A t \in Sessions \ {session} : sessions'[t] = sessions[t]
  BY <1>1 DEF PInv, PaperTyped
<1>4. net' \in [Symbols -> Int]
  BY <1>1
<1> QED
  BY <1>1, <1>2, <1>3, <1>4, SessionMoves

LEMMA StopSessionFailsKeeps ==
    ASSUME Paper!ServiceAssumption, PInv, Paper!StopSessionFails
    PROVE  PInv'
<1>1. /\ req = Paper!Idle /\ session \in Sessions /\ sessions[session] = "active"
      /\ UNCHANGED <<session, pmSession, net, result, strayed>>
      /\ UNCHANGED <<paperOrders, rows, breaker, req, booked, unsure, late>>
      /\ \/ UNCHANGED <<sessions, lostStop>>
         \/ /\ sessions' = [sessions EXCEPT ![session] = "stopped"]
            /\ lostStop' = lostStop \cup {session}
  BY DEF Paper!StopSessionFails, Paper!service, PInv, PaperTyped
<1>2. Paper!NetIsSessionFills'
  BY <1>1, NetUntouched DEF PInv
<1>3. /\ sessions' \in [Sessions -> {"none", "active", "stopped"}]
      /\ sessions'[session] \in {"active", "stopped"}
      /\ \A t \in Sessions \ {session} : sessions'[t] = sessions[t]
      /\ {session', pmSession'} \subseteq Sessions \cup {NoSession} /\ net' \in [Symbols -> Int]
      /\ result' \in {"none", "ok", "error"} /\ strayed' \in BOOLEAN
  BY <1>1 DEF PInv, PaperTyped
<1>4. /\ sessions'[session] = "active" \/ session \in lostStop'
      /\ lostStop \subseteq lostStop' /\ session' = pmSession'
      /\ \A s \in lostStop' : s \in lostStop \/ (s \in Sessions /\ sessions'[s] = "stopped")
  BY <1>1 DEF PInv, PaperTyped, SessionOK, Paper!OneSession
<1> QED
  BY <1>1, <1>2, <1>3, <1>4, SessionMoves

LEMMA CrashKeeps ==
    ASSUME Paper!ServiceAssumption, PInv, Paper!Crash
    PROVE  PInv'
<1>1. /\ session' = NoSession /\ pmSession' = NoSession
      /\ net' = [y \in Symbols |-> 0] /\ result' = "none" /\ strayed' = FALSE
      /\ paperOrders' = [o \in PaperOrders |-> Paper!NotHeld]
      /\ breaker' = Paper!Closed /\ req' = Paper!Idle
      /\ UNCHANGED <<rows, sessions, booked, unsure, lostStop, late>>
  BY DEF Paper!Crash, Paper!history
<1>2. PaperTyped'
  <2>1. Paper!Used' = Paper!Used
    BY <1>1 DEF Paper!Used
  <2>2. req' \in Request
    BY <1>1 DEF Request
  <2>3. net' \in [Symbols -> Int] /\ paperOrders' \in [PaperOrders -> PaperOrder \cup {Paper!NotHeld}]
    BY <1>1
  <2> QED
    BY <1>1, <2>1, <2>2, <2>3, ClosedIsSound DEF PInv, PaperTyped
<1>3. BreakerOK' /\ RequestOK'
  <2>1. Sound(breaker')
    BY <1>1, ClosedIsSound
  <2> QED
    BY <1>1, <2>1 DEF BreakerOK, RequestOK, Sound
<1>4. ASSUME NEW p \in PaperOrders PROVE OrderOK(p)'
  <2>1. OrderOK(p) /\ paperOrders'[p] = Paper!NotHeld /\ paperOrders'[p].status = "none"
    BY <1>1 DEF PInv, Paper!NotHeld
  <2> QED
    BY <1>1, <2>1 DEF OrderOK
<1>5. SessionOK'
  BY <1>1 DEF PInv, SessionOK, Paper!OneSession, Paper!NoLateOrder
<1>6. Paper!NetIsSessionFills'
  <2>1. ASSUME NEW y \in Symbols PROVE Paper!BookedNow(y)' = {}
    BY <1>1 DEF Paper!BookedNow
  <2> QED
    BY <1>1, <2>1, NetFlat
<1> QED
  BY <1>2, <1>3, <1>4, <1>5, <1>6 DEF PInv

-----------------------------------------------------------------------------
(* The paper part of the run.                                              *)

LEMMA PaperBegins ==
    ASSUME Paper!ServiceAssumption, Paper!Init
    PROVE  PInv
<1>1. /\ session = NoSession /\ pmSession = NoSession
      /\ net = [y \in Symbols |-> 0] /\ result = "none" /\ strayed = FALSE
      /\ paperOrders = [o \in PaperOrders |-> Paper!NotHeld]
      /\ breaker = Paper!Closed /\ req = Paper!Idle
      /\ rows = [o \in PaperOrders |-> [status |-> "none", session |-> NoSession, traded |-> 0]]
      /\ sessions = [s \in Sessions |-> "none"]
      /\ booked = [o \in PaperOrders |-> "unused"] /\ lostStop = {} /\ late = {}
  BY DEF Paper!Init, Paper!Start
<1>2. PaperTyped
  <2>1. Paper!Used = {}
    BY <1>1 DEF Paper!Used
  <2>2. [status |-> "none", session |-> NoSession, traded |-> 0] \in Row
    BY DEF Row, Paper!ServiceAssumption
  <2>3. rows \in [PaperOrders -> Row] /\ req \in Request
    BY <1>1, <2>2 DEF Request
  <2>4. /\ net \in [Symbols -> Int] /\ paperOrders \in [PaperOrders -> PaperOrder \cup {Paper!NotHeld}]
        /\ sessions \in [Sessions -> {"none", "active", "stopped"}]
        /\ booked \in [PaperOrders -> {"unused", "no", "refused"} \cup Sessions]
    BY <1>1
  <2> QED
    BY <1>1, <2>1, <2>3, <2>4, FS_EmptySet, ClosedIsSound DEF PaperTyped
<1>3. BreakerOK /\ RequestOK
  BY <1>1, ClosedIsSound DEF BreakerOK, RequestOK
<1>4. ASSUME NEW p \in PaperOrders PROVE OrderOK(p)
  <2>1. paperOrders[p] = Paper!NotHeld /\ paperOrders[p].status = "none" /\ "unused" \notin Sessions
    BY <1>1 DEF Paper!NotHeld, Paper!ServiceAssumption
  <2>2. rows[p].status = "none" /\ rows[p].traded = 0 /\ booked[p] = "unused"
    BY <1>1
  <2> QED
    BY <2>1, <2>2 DEF OrderOK
<1>5. SessionOK
  BY <1>1 DEF SessionOK, Paper!OneSession, Paper!NoLateOrder
<1>6. Paper!NetIsSessionFills
  <2>1. ASSUME NEW y \in Symbols PROVE Paper!BookedNow(y) = {}
    BY <1>1 DEF Paper!BookedNow
  <2> QED
    BY <1>1, <2>1, PaperSum, SumEmpty DEF Paper!NetIsSessionFills
<1> QED
  BY <1>2, <1>3, <1>4, <1>5, <1>6 DEF PInv

LEMMA PaperUnchanged ==
    ASSUME PInv, UNCHANGED paper
    PROVE  PInv'
<1>1. UNCHANGED <<session, pmSession, net, result, paperOrders, rows, sessions, breaker, req,
                  booked, unsure, strayed, lostStop, late>>
  BY DEF paper
<1>2. PaperTyped'
  BY <1>1 DEF PInv, PaperTyped, Paper!Used
<1>3. BreakerOK' /\ RequestOK'
  BY <1>1 DEF PInv, BreakerOK, RequestOK, Sound
<1>4. ASSUME NEW p \in PaperOrders PROVE OrderOK(p)'
  BY <1>1 DEF PInv, OrderOK
<1>5. SessionOK'
  BY <1>1 DEF PInv, SessionOK, Paper!OneSession, Paper!NoLateOrder
<1>6. Paper!NetIsSessionFills'
  BY <1>1 DEF PInv, Paper!NetIsSessionFills, Paper!Lots, Paper!BookedNow
<1> QED
  BY <1>2, <1>3, <1>4, <1>5, <1>6 DEF PInv

LEMMA PaperStep ==
    ASSUME Paper!ServiceAssumption, PInv, Paper!Next
    PROVE  PInv'
<1>1. CASE \E o \in PaperOrders : Paper!PlaceMarketOrder(o) \/ Paper!PlaceLimitOrder(o)
  <2>1. 1 \in 1 .. MaxQty
    BY DEF Paper!ServiceAssumption
  <2> QED
    BY <1>1, <2>1, PaperPlaceKeeps DEF Paper!PlaceMarketOrder, Paper!PlaceLimitOrder
<1>2. CASE \E o \in PaperOrders : Paper!CancelOrder(o) \/ Paper!GetOrderStatus(o)
  BY <1>2, PaperCancelKeeps, GetOrderStatusKeeps
<1>3. CASE \E s \in Sessions : Paper!StartSession(s) \/ Paper!StartSessionFails(s)
  BY <1>3, StartSessionKeeps, StartSessionFailsKeeps
<1> QED
  BY <1>1, <1>2, <1>3, FillOrRestKeeps, BookOrderKeeps, StopSessionKeeps, StopSessionFailsKeeps,
     BreakerTimerKeeps, CrashKeeps DEF Paper!Next

LEMMA PaperInvariant ==
    ASSUME TradingAssumption
    PROVE  MCSpec => []PInv
<1>1. MCInit => PInv
  BY PaperBegins DEF MCInit, TradingAssumption
<1>2. PInv /\ [MCNext]_<<part, vars, paper>> => PInv'
  BY PaperStep, PaperUnchanged DEF MCNext, TradingAssumption
<1> QED
  BY <1>1, <1>2, PTL DEF MCSpec

\* FillsAreBooked: what the executor filled on paper reached the positions of
\* the session it was filled in, exactly once, and the rows and sessions tell
\* so, for any number of orders, symbols, sessions, failures and restarts.
THEOREM FillsBooked ==
    ASSUME TradingAssumption
    PROVE  MCSpec => []FillsAreBooked
<1>1. PInv => FillsAreBooked
  <2> SUFFICES ASSUME PInv PROVE FillsAreBooked
    OBVIOUS
  <2>1. Paper!TypeOK
    <3>1. \A o \in PaperOrders : paperOrders[o].status \in {"none", "pending", "open", "filled", "cancelled"}
      BY DEF PInv, PaperTyped, PaperOrder, Paper!NotHeld
    <3>2. \A o \in PaperOrders : /\ rows[o].status \in {"none", "NEW", "PARTIALLY_FILLED", "FILLED", "CANCELED"}
                                 /\ rows[o].traded \in 0 .. MaxQty
      BY DEF PInv, PaperTyped, Row
    <3>3. breaker.state \in {"closed", "open", "half_open"} /\ req.op \in {"idle", "new", "placed"}
      BY DEF PInv, PaperTyped, Breaker, Request, Paper!Idle
    <3> QED
      BY <3>1, <3>2, <3>3 DEF PInv, PaperTyped, Paper!TypeOK
  <2>2. Paper!FillsReachPositions
    BY DEF PInv, OrderOK, Paper!FillsReachPositions
  <2>3. Paper!RowsTellTheOrder
    BY DEF PInv, OrderOK, Paper!RowsTellTheOrder
  <2> QED
    BY <2>1, <2>2, <2>3 DEF PInv, SessionOK, FillsAreBooked
<1> QED
  BY <1>1, PaperInvariant, PTL

\* A final row stays as it is, and so does a stopped session: an order that
\* became final in memory is written no more, and a row left behind by a crash
\* belongs to an order the executor no longer knows.
LEMMA PaperEnds ==
    ASSUME Paper!ServiceAssumption, PInv, Paper!Next
    PROVE  /\ \A o \in PaperOrders : rows[o].status \in {"FILLED", "CANCELED"} =>
                 rows'[o].status = rows[o].status
           /\ \A s \in Sessions : sessions[s] = "stopped" => sessions'[s] = "stopped"
<1> DEFINE RowsEnd == \A o \in PaperOrders : rows[o].status \in {"FILLED", "CANCELED"} =>
                         rows'[o].status = rows[o].status
           SessionsEnd == \A s \in Sessions : sessions[s] = "stopped" => sessions'[s] = "stopped"
<1>1. ASSUME NEW o \in PaperOrders, Paper!PlaceMarketOrder(o) \/ Paper!PlaceLimitOrder(o)
      PROVE  RowsEnd /\ SessionsEnd
  <2>1. o \notin Paper!Used /\ rows' \in {rows, Paper!InsertOrder(o)} /\ sessions' = sessions
    BY <1>1 DEF Paper!PlaceMarketOrder, Paper!PlaceLimitOrder, Paper!PlaceOrder, Paper!Write
  <2>2. rows[o].status = "none"
    BY <2>1 DEF PInv, OrderOK, Paper!Used
  <2> QED
    BY <2>1, <2>2 DEF Paper!InsertOrder, PInv, PaperTyped
<1>2. ASSUME Paper!FillOrRest PROVE RowsEnd /\ SessionsEnd
  <2>1. PICK o \in PaperOrders : /\ o = req.o /\ rows[o].status \in {"none", "NEW"}
                                 /\ \A p \in PaperOrders \ {o} : rows'[p] = rows[p]
    <3>1. req.op = "new" /\ req # Paper!Idle
      BY <1>2 DEF Paper!FillOrRest, Paper!Idle
    <3>2. PICK o \in PaperOrders : o = req.o
      BY <3>1 DEF PInv, PaperTyped, Request
    <3>3. rows[o].status \in {"none", "NEW"} /\ rows[o].traded = 0
      BY <3>1, <3>2 DEF PInv, RequestOK
    <3>4. Paper!SimulateMarketFill(o) \/ Paper!RestOrder(o)
      BY <1>2, <3>2 DEF Paper!FillOrRest
    <3>5. PICK tab \in [PaperOrders -> Row] :
             /\ \E s \in {"filled", "open"} : rows' = tab \/ rows' = Paper!UpdateOrderStatus(tab, o, s)
             /\ \A p \in PaperOrders \ {o} : tab[p] = rows[p]
      <4>1. CASE Paper!SimulateMarketFill(o)
        <5>1. \E t \in 0 .. paperOrders[o].qty :
                 \/ rows' = Paper!InsertTrade(rows, o, t)
                 \/ rows' = Paper!UpdateOrderStatus(Paper!InsertTrade(rows, o, t), o, "filled")
          <6>1. paperOrders[o].qty \in 0 .. paperOrders[o].qty
            BY <3>1, <3>2, HeldOrders DEF PInv, RequestOK, PaperOrder, Paper!ServiceAssumption
          <6> QED
            BY <4>1, <6>1 DEF Paper!SimulateMarketFill, Paper!Write
        <5>2. PICK t \in 0 .. paperOrders[o].qty :
                 \/ rows' = Paper!InsertTrade(rows, o, t)
                 \/ rows' = Paper!UpdateOrderStatus(Paper!InsertTrade(rows, o, t), o, "filled")
          BY <5>1
        <5>3. t \in 0 .. MaxQty
          BY <3>1, <3>2, HeldOrders DEF PInv, RequestOK, PaperOrder, Paper!ServiceAssumption
        <5>4. PICK tab : tab = Paper!InsertTrade(rows, o, t)
          OBVIOUS
        <5>5. tab \in [PaperOrders -> Row] /\ \A p \in PaperOrders \ {o} : tab[p] = rows[p]
          BY <3>3, <5>3, <5>4, TradeInserted DEF PInv
        <5> QED
          BY <5>2, <5>4, <5>5
      <4>2. CASE Paper!RestOrder(o)
        BY <4>2 DEF Paper!RestOrder, Paper!Write, PInv, PaperTyped
      <4> QED
        BY <3>4, <4>1, <4>2
    <3>6. \A p \in PaperOrders \ {o} : rows'[p] = rows[p]
      BY <3>5, StatusWritten
    <3> QED
      BY <3>2, <3>3, <3>6
  <2>2. sessions' = sessions
    BY <1>2 DEF Paper!FillOrRest
  <2> QED
    BY <2>1, <2>2
<1>3. ASSUME NEW o \in PaperOrders, Paper!CancelOrder(o) PROVE RowsEnd /\ SessionsEnd
  <2>1. sessions' = sessions
    BY <1>3 DEF Paper!CancelOrder
  <2>2. CASE ~ Paper!Cancellable(o)
    BY <1>3, <2>1, <2>2 DEF Paper!CancelOrder
  <2>3. CASE Paper!Cancellable(o)
    <3>1. rows' \in {rows, Paper!UpdateOrderStatus(rows, o, "cancelled")}
      BY <1>3, <2>3 DEF Paper!CancelOrder, Paper!Write
    <3>2. rows[o].status \notin {"FILLED", "CANCELED"}
      BY <2>3 DEF Paper!Cancellable, PInv, OrderOK
    <3>3. PICK upd : upd = Paper!UpdateOrderStatus(rows, o, "cancelled")
      OBVIOUS
    <3>4. \A p \in PaperOrders \ {o} : upd[p] = rows[p]
      BY <3>3, StatusWritten DEF PInv, PaperTyped
    <3> QED
      BY <2>1, <3>1, <3>2, <3>3, <3>4
  <2> QED
    BY <2>2, <2>3
<1>4. ASSUME Paper!BookOrder \/ (\E o \in PaperOrders : Paper!GetOrderStatus(o)) \/ Paper!BreakerTimer
             \/ Paper!Crash
      PROVE  RowsEnd /\ SessionsEnd
  BY <1>4 DEF Paper!BookOrder, Paper!GetOrderStatus, Paper!BreakerTimer, Paper!Crash
<1>5. ASSUME (\E s \in Sessions : Paper!StartSession(s) \/ Paper!StartSessionFails(s))
             \/ Paper!StopSession \/ Paper!StopSessionFails
      PROVE  RowsEnd /\ SessionsEnd
  BY <1>5 DEF Paper!StartSession, Paper!StartSessionFails, Paper!StopSession, Paper!StopSessionFails,
     PInv, PaperTyped
<1> QED
  BY <1>1, <1>2, <1>3, <1>4, <1>5 DEF Paper!Next

\* EndsAreKept: on paper an order that has ended and a session that is over
\* stay so, through restarts and failed statements; a live order is reopened
\* only by news older than its end.
THEOREM EndsKept ==
    ASSUME TradingAssumption
    PROVE  MCSpec => EndsAreKept
<1>1. TradingAssumption
  OBVIOUS
<1>2. ASSUME PInv, [MCNext]_<<part, vars, paper>>
      PROVE  [/\ \A o \in PaperOrders : rows[o].status \in {"FILLED", "CANCELED"} =>
                    rows'[o].status = rows[o].status
              /\ \A s \in Sessions : sessions[s] = "stopped" => sessions'[s] = "stopped"]_(Paper!vars)
  <2>1. CASE Paper!Next
    BY <1>1, <1>2, <2>1, PaperEnds DEF TradingAssumption
  <2>2. CASE UNCHANGED paper
    BY <2>2 DEF paper, Paper!vars, Paper!service, Paper!history
  <2> QED
    BY <1>2, <2>1, <2>2 DEF MCNext
<1>3. MCSpec => Paper!EndsAreFinal
  BY <1>1, <1>2, PaperInvariant, PTL DEF MCSpec, Paper!EndsAreFinal
<1>4. MCSpec => ReopenedOnlyByOlderNews
  BY <1>1, LivePart, ReopensByOlderNews DEF TradingAssumption
<1> QED
  BY <1>3, <1>4 DEF EndsAreKept
=============================================================================
