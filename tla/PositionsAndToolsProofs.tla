------------------------ MODULE PositionsAndToolsProofs ------------------------
(***************************************************************************)
(* Theorems about two parts that share no state: the position manager      *)
(* (PositionManager), for every set of symbols and sessions and all        *)
(* bounds; and the tool servers with what is behind them (MCTools), for    *)
(* any returns, levels, prices, bars and periods, any number of requests,  *)
(* of goroutines that ask for a price, and any times to live.              *)
(*                                                                         *)
(* ToolsInv follows each request to its answer, each price to when it was  *)
(* fetched, and says of a tool that answered that the answer is what it    *)
(* computes of its arguments; what the tools promise of their answers is   *)
(* then a matter of arithmetic, along a series where they smooth (Gather). *)
(***************************************************************************)
EXTENDS PositionManager, MCTools, TLAPS, FiniteSetTheorems, SequenceTheorems, WellFoundedInduction


Table == [Ids -> Row \cup {NoRow}]

\* What any database statement may return: a verdict, a table, a fault count.
Outcome == [ok : BOOLEAN, tab : Table, faults : Nat]

-----------------------------------------------------------------------------
(* The statements of the positions table keep the table well formed and    *)
(* touch the rows they name, no other.                                     *)

LEMMA WriteOutcome ==
    ASSUME NEW before \in Table, NEW after \in Table, NEW r \in Write(before, after)
    PROVE  r \in Outcome /\ r.tab \in {before, after} /\ (r.ok => r.tab = after)
  <1>1. CASE r = [ok |-> TRUE, tab |-> after, faults |-> 0]
    BY <1>1 DEF Outcome
  <1>2. CASE r = [ok |-> FALSE, tab |-> before, faults |-> 1]
    BY <1>2 DEF Outcome
  <1>3. CASE r = [ok |-> FALSE, tab |-> after, faults |-> 1]
    BY <1>3 DEF Outcome
  <1> QED
    BY <1>1, <1>2, <1>3 DEF Write

LEMMA RefusedOutcome ==
    ASSUME NEW tab \in Table, NEW r \in Refused(tab)
    PROVE  r \in Outcome /\ r.tab = tab /\ ~ r.ok
  <1>1. r = [ok |-> FALSE, tab |-> tab, faults |-> 0]
    BY DEF Refused
  <1> QED
    BY <1>1 DEF Outcome

LEMMA CreateOutcome ==
    ASSUME NEW tab \in Table, NEW id \in Ids, NEW row \in Row,
           NEW r \in CreatePosition(tab, id, row)
    PROVE  /\ r \in Outcome
           /\ \A i \in Ids : i # id => r.tab[i] = tab[i]
           /\ r.tab[id] \in {tab[id], [row EXCEPT !.status = "open"]}
           /\ r.ok => r.tab[id] = [row EXCEPT !.status = "open"]
  <1> DEFINE made == [row EXCEPT !.status = "open"]
  <1>1. made \in Row
    BY DEF Row
  <1> DEFINE after == [tab EXCEPT ![id] = made]
  <1>2. after \in Table
    BY <1>1 DEF Table
  <1>3. r \in Write(tab, after)
    BY DEF CreatePosition
  <1>4. r \in Outcome /\ r.tab \in {tab, after} /\ (r.ok => r.tab = after)
    <2> HIDE DEF after
    <2> QED
      BY <1>2, <1>3, WriteOutcome
  <1>5. after[id] = made /\ \A i \in Ids : i # id => after[i] = tab[i]
    BY DEF Table
  <1> QED
    BY <1>4, <1>5

\* Who closes a row: the manager or a close by hand.
Reasons == {"closed", "byHand"}

LEMMA CloseOutcome ==
    ASSUME NEW tab \in Table, NEW id \in Ids, NEW reason \in Reasons,
           NEW r \in DBClosePosition(tab, id, reason)
    PROVE  /\ r \in Outcome
           /\ \A i \in Ids : i # id => r.tab[i] = tab[i]
           /\ r.tab[id] # tab[id] =>
                 tab[id].status = "open" /\ r.tab[id] = [tab[id] EXCEPT !.status = reason]
           /\ r.ok => /\ tab[id].status = "open"
                      /\ r.tab[id] = [tab[id] EXCEPT !.status = reason]
  <1>1. CASE tab[id].status = "open"
    <2>1. tab[id] \in Row
      BY <1>1 DEF Table, NoRow
    <2>2. [tab[id] EXCEPT !.status = reason] \in Row
      BY <2>1 DEF Row, Reasons
    <2> DEFINE after == [tab EXCEPT ![id].status = reason]
    <2>3. after \in Table
      BY <2>2 DEF Table
    <2>4. r \in Write(tab, after)
      BY <1>1 DEF DBClosePosition
    <2>5. r \in Outcome /\ r.tab \in {tab, after} /\ (r.ok => r.tab = after)
      <3> HIDE DEF after
      <3> QED
        BY <2>3, <2>4, WriteOutcome
    <2>6. /\ after[id] = [tab[id] EXCEPT !.status = reason]
          /\ \A i \in Ids : i # id => after[i] = tab[i]
      BY DEF Table
    <2> QED
      BY <1>1, <2>5, <2>6
  <1>2. CASE tab[id].status # "open"
    <2>1. r \in Refused(tab)
      BY <1>2 DEF DBClosePosition
    <2> QED
      BY <2>1, RefusedOutcome
  <1> QED
    BY <1>1, <1>2

LEMMA SetQuantityOutcome ==
    ASSUME NEW tab \in Table, NEW id \in Ids, NEW qty \in 1 .. MaxQty,
           NEW r \in SetQuantity(tab, id, qty)
    PROVE  /\ r \in Outcome
           /\ \A i \in Ids : i # id => r.tab[i] = tab[i]
           /\ r.tab[id] # tab[id] =>
                 tab[id].status = "open" /\ r.tab[id] = [tab[id] EXCEPT !.qty = qty]
           /\ r.ok => /\ tab[id].status = "open"
                      /\ r.tab[id] = [tab[id] EXCEPT !.qty = qty]
  <1>1. CASE tab[id].status = "open"
    <2>1. tab[id] \in Row
      BY <1>1 DEF Table, NoRow
    <2>2. [tab[id] EXCEPT !.qty = qty] \in Row
      BY <2>1 DEF Row
    <2> DEFINE after == [tab EXCEPT ![id].qty = qty]
    <2>3. after \in Table
      BY <2>2 DEF Table
    <2>4. r \in Write(tab, after)
      BY <1>1 DEF SetQuantity
    <2>5. r \in Outcome /\ r.tab \in {tab, after} /\ (r.ok => r.tab = after)
      <3> HIDE DEF after
      <3> QED
        BY <2>3, <2>4, WriteOutcome
    <2>6. /\ after[id] = [tab[id] EXCEPT !.qty = qty]
          /\ \A i \in Ids : i # id => after[i] = tab[i]
      BY DEF Table
    <2> QED
      BY <1>1, <2>5, <2>6
  <1>2. CASE tab[id].status # "open"
    <2>1. r \in Refused(tab)
      BY <1>2 DEF SetQuantity
    <2> QED
      BY <2>1, RefusedOutcome
  <1> QED
    BY <1>1, <1>2

\* The row a partial close leaves, and the row of the part it cuts off.
Reduced(row, qty) == [row EXCEPT !.qty = row.qty - qty]
Part(row, qty) == [row EXCEPT !.qty = qty, !.status = "open"]

\* A partial close changes the row it names and the row of the closed part.
LEMMA PartialOutcome ==
    ASSUME NEW tab \in Table, NEW id \in Ids, NEW partId \in Ids,
           NEW qty \in 1 .. MaxQty, id # partId,
           NEW r \in PartialClosePosition(tab, id, partId, qty)
    PROVE  /\ r \in Outcome
           /\ \A i \in Ids : i \notin {id, partId} => r.tab[i] = tab[i]
           /\ r.tab # tab => tab[id].status = "open"
           /\ r.tab[id] \in {tab[id], Reduced(tab[id], qty)}
           /\ r.tab[partId] \in {tab[partId], Part(tab[id], qty)}
           /\ r.ok => /\ tab[id].status = "open"
                      /\ r.tab[id] = Reduced(tab[id], qty)
  <1>1. CASE tab[id].status # "open" \/ qty >= tab[id].qty
    <2>1. r \in Refused(tab)
      BY <1>1 DEF PartialClosePosition
    <2> QED
      BY <2>1, RefusedOutcome
  <1>2. CASE ~ (tab[id].status # "open" \/ qty >= tab[id].qty)
    <2> DEFINE cut == [tab[id] EXCEPT !.qty = qty, !.status = "closed"]
               rest == tab[id].qty - qty
               inserted == CreatePosition(tab, partId, cut)
    <2>1. tab[id] \in Row /\ tab[id].qty \in 1 .. MaxQty
      BY <1>2 DEF Table, NoRow, Row
    <2>2. cut \in Row /\ rest \in 1 .. MaxQty
      <3>1. cut \in Row
        BY <2>1 DEF Row
      <3>2. \A n \in 1 .. MaxQty : ~ (qty >= n) => n - qty \in 1 .. MaxQty
        BY BoundsAssumption
      <3> QED
        BY <1>2, <2>1, <3>1, <3>2
    <2>3. [cut EXCEPT !.status = "open"] = Part(tab[id], qty)
      BY <2>1 DEF Row, Part
    <2>4. \/ r \in inserted /\ ~ r.ok
          \/ \E c \in inserted : c.ok /\ r \in UpdatePositionQuantity(c.tab, id, rest)
      BY <1>2 DEF PartialClosePosition
    <2>5. CASE r \in inserted /\ ~ r.ok
      <3> HIDE DEF cut, rest
      <3> QED
        BY <1>2, <2>2, <2>3, <2>5, CreateOutcome
    <2>6. CASE \E c \in inserted : c.ok /\ r \in UpdatePositionQuantity(c.tab, id, rest)
      <3>1. PICK c \in inserted : c.ok /\ r \in SetQuantity(c.tab, id, rest)
        BY <2>6 DEF UpdatePositionQuantity
      <3> HIDE DEF cut, rest
      <3>2. /\ c \in Outcome
            /\ \A i \in Ids : i # partId => c.tab[i] = tab[i]
            /\ c.tab[partId] = [cut EXCEPT !.status = "open"]
        BY <2>2, <3>1, CreateOutcome
      <3>3. c.tab \in Table /\ c.tab[id] = tab[id]
        BY <3>2 DEF Outcome
      <3>4. /\ r \in Outcome
            /\ \A i \in Ids : i # id => r.tab[i] = c.tab[i]
            /\ r.tab[id] # c.tab[id] => r.tab[id] = [c.tab[id] EXCEPT !.qty = rest]
            /\ r.ok => r.tab[id] = [c.tab[id] EXCEPT !.qty = rest]
        BY <2>2, <3>1, <3>3, SetQuantityOutcome
      <3> QED
        BY <1>2, <2>3, <3>2, <3>3, <3>4 DEF rest, Reduced
    <2> QED
      BY <2>4, <2>5, <2>6
  <1> QED
    BY <1>1, <1>2

-----------------------------------------------------------------------------
(* Type correctness.                                                       *)

LEMMA InitTypeOK == Init => TypeOK
  BY BoundsAssumption DEF Init, TypeOK

LEMMA TakeTypeOK ==
    ASSUME TypeOK, NEW r \in Outcome, Take(r)
    PROVE  rows' \in Table /\ faults' \in 0 .. MaxFaults
  BY BoundsAssumption DEF TypeOK, Outcome, Take

LEMMA ReturnTypeOK ==
    ASSUME TypeOK, NEW r, NEW s \in Symbols, Return(r, s)
    PROVE  ret' \in {"none", "ok", "error"} /\ stale' \subseteq Symbols
  BY DEF TypeOK, Return

\* openPosition, after statements whose outcome is done: the new entry and
\* its row, which may be missing.
LEMMA OpenPositionEffect ==
    ASSUME TypeOK, NEW done \in Outcome, NEW s \in Symbols, NEW side \in Sides,
           NEW qty \in Nat \ {0}, nextId \in Ids, session \in Sessions,
           OpenPosition(done, s, side, qty)
    PROVE  \E r \in Outcome :
             /\ Take(r) /\ Return(r, s)
             /\ qty \in 1 .. MaxQty
             /\ open' = [open EXCEPT ![s] = [id |-> nextId, side |-> side, qty |-> qty]]
             /\ nextId' = nextId + 1
             /\ \A i \in Ids : i # nextId => r.tab[i] = done.tab[i]
             /\ r.tab[nextId] \in {done.tab[nextId], NewRow(s, side, qty)}
             /\ r.ok => r.tab[nextId] = NewRow(s, side, qty)
  <1>1. qty \in 1 .. MaxQty
    BY BoundsAssumption DEF OpenPosition
  <1>2. NewRow(s, side, qty) \in Row /\ NewRow(s, side, qty).status = "open"
    BY <1>1 DEF NewRow, Row
  <1>3. [NewRow(s, side, qty) EXCEPT !.status = "open"] = NewRow(s, side, qty)
    BY <1>2 DEF Row
  <1>4. PICK c \in CreatePosition(done.tab, nextId, NewRow(s, side, qty)) :
          LET both == [c EXCEPT !.faults = c.faults + done.faults]
          IN  Take(both) /\ Return(both, s)
    BY DEF OpenPosition
  <1>5. done.tab \in Table /\ done.faults \in Nat
    BY DEF Outcome
  <1>6. /\ c \in Outcome
        /\ \A i \in Ids : i # nextId => c.tab[i] = done.tab[i]
        /\ c.tab[nextId] \in {done.tab[nextId], NewRow(s, side, qty)}
        /\ c.ok => c.tab[nextId] = NewRow(s, side, qty)
    BY <1>2, <1>3, <1>4, <1>5, CreateOutcome
  <1> DEFINE r == [c EXCEPT !.faults = c.faults + done.faults]
  <1>7. r \in Outcome /\ r.tab = c.tab /\ r.ok = c.ok
    BY <1>5, <1>6 DEF Outcome
  <1>8. Take(r) /\ Return(r, s)
    BY <1>4
  <1> HIDE DEF r
  <1> QED
    BY <1>1, <1>6, <1>7, <1>8 DEF OpenPosition

-----------------------------------------------------------------------------
(* The inductive invariant.  RowOfPosition and NoOrphanRow speak of the    *)
(* symbols no error left behind; RowIdentity holds for all of them, which  *)
(* is what keeps a handler for one symbol away from the rows of another.   *)

IInv == TypeOK /\ RowIdentity /\ RowOfPosition /\ NoOrphanRow

\* The two properties for one symbol.
RowAgrees(s) ==
    open[s] # NoPosition =>
        /\ rows[open[s].id].status \in {"open", "byHand"}
        /\ rows[open[s].id].session = session
        /\ rows[open[s].id].symbol = s
        /\ rows[open[s].id].side = open[s].side
        /\ rows[open[s].id].qty = open[s].qty

OwnsRows(s) ==
    s \notin several => \A i \in Ids :
        /\ rows[i].status = "open"
        /\ rows[i].session = session
        /\ rows[i].symbol = s
        /\ rows[i].entry = i
        => open[s] # NoPosition /\ open[s].id = i

\* What a fill of symbol s does to memory and to the table.
FillEffect(s, ok) ==
    /\ rows' \in Table
    /\ open' \in [Symbols -> Position \cup {NoPosition}]
    /\ nextId' \in {nextId, nextId + 1}
    /\ faults' \in 0 .. MaxFaults
    /\ ret' \in {"none", "ok", "error"}
    /\ session' = session
    /\ stale' = IF ok THEN stale ELSE stale \cup {s}
    /\ several' = several
    /\ \A t \in Symbols \ {s} : open'[t] = open[t]
    /\ open'[s] # NoPosition =>
          \/ open[s] # NoPosition /\ open'[s].id = open[s].id
          \/ open'[s].id = nextId /\ nextId' = nextId + 1
    /\ \A i \in Ids : rows'[i] # rows[i] =>
          /\ rows'[i] # NoRow /\ rows'[i].symbol = s /\ rows'[i].entry <= i
          /\ i < nextId'
          /\ i = nextId \/ (rows[i].status = "open" /\ rows[i].symbol = s)
    /\ ok /\ s \notin stale => RowAgrees(s)' /\ OwnsRows(s)'

LEMMA FillKeepsInvariant ==
    ASSUME IInv, nextId' <= MaxIds + 1, NEW s \in Symbols, NEW ok \in BOOLEAN,
           FillEffect(s, ok)
    PROVE  IInv'
  <1> USE DEF IInv
  <1>1. TypeOK'
    BY BoundsAssumption DEF FillEffect, TypeOK, Table, Ids
  <1>2. RowIdentity'
    <2>1. \A i \in Ids : i >= nextId' => rows'[i] = NoRow
      BY DEF FillEffect, RowIdentity, TypeOK, Ids
    <2>2. \A i \in Ids : rows'[i] # NoRow => rows'[i].entry <= i
      BY DEF FillEffect, RowIdentity, TypeOK
    <2>3. ASSUME NEW t \in Symbols, open'[t] # NoPosition
          PROVE  /\ open'[t].id < nextId'
                 /\ rows'[open'[t].id] # NoRow => rows'[open'[t].id].symbol = t
      <3>1. open'[t].id \in Ids
        BY <2>3 DEF FillEffect, Position
      <3>2. CASE t # s
        <4>1. open'[t] = open[t] /\ open[t].id < nextId /\ nextId <= nextId'
          BY <2>3, <3>2 DEF FillEffect, RowIdentity, TypeOK, Ids
        <4>2. CASE rows'[open[t].id] = rows[open[t].id]
          BY <2>3, <3>1, <4>1, <4>2 DEF RowIdentity, TypeOK, Ids, FillEffect
        <4>3. CASE rows'[open[t].id] # rows[open[t].id]
          BY <2>3, <3>1, <3>2, <4>1, <4>3 DEF FillEffect, RowIdentity, TypeOK, Ids, NoRow
        <4> QED
          BY <4>2, <4>3
      <3>3. CASE t = s
        BY <2>3, <3>1, <3>3 DEF FillEffect, RowIdentity, TypeOK, Ids
      <3> QED
        BY <3>2, <3>3
    <2> QED
      BY <2>1, <2>2, <2>3 DEF RowIdentity
  <1>3. ASSUME NEW t \in Symbols \ stale'
        PROVE  RowAgrees(t)' /\ OwnsRows(t)'
    <2>1. CASE t = s
      BY <1>3, <2>1 DEF FillEffect
    <2>2. CASE t # s
      <3>1. /\ t \in Symbols \ stale /\ open'[t] = open[t] /\ session' = session
            /\ several' = several
        BY <1>3, <2>2 DEF FillEffect
      <3>2. RowAgrees(t) /\ OwnsRows(t)
        BY <3>1 DEF RowOfPosition, NoOrphanRow, RowAgrees, OwnsRows
      <3>3. ASSUME NEW i \in Ids,
                   \/ rows[i] # NoRow /\ rows[i].symbol = t
                   \/ rows'[i] # NoRow /\ rows'[i].symbol = t
            PROVE  rows'[i] = rows[i]
        <4>1. SUFFICES ASSUME rows'[i] # rows[i] PROVE FALSE
          OBVIOUS
        <4>2. rows'[i] # NoRow /\ rows'[i].symbol = s
          BY <4>1 DEF FillEffect
        <4>3. i = nextId \/ (rows[i].status = "open" /\ rows[i].symbol = s)
          BY <4>1 DEF FillEffect
        <4>4. rows[i] # NoRow /\ rows[i].symbol = t
          BY <2>2, <3>3, <4>2
        <4>5. i # nextId
          BY <4>4 DEF RowIdentity, TypeOK, Ids
        <4> QED
          BY <2>2, <4>3, <4>4, <4>5
      <3>4. open[t] # NoPosition => open[t].id \in Ids
        BY DEF TypeOK, Position
      <3>5. RowAgrees(t)'
        BY <3>1, <3>2, <3>3, <3>4 DEF RowAgrees, NoRow
      <3>6. OwnsRows(t)'
        BY <3>1, <3>2, <3>3 DEF OwnsRows, NoRow
      <3> QED
        BY <3>5, <3>6
    <2> QED
      BY <2>1, <2>2
  <1> QED
    BY <1>1, <1>2, <1>3 DEF RowOfPosition, NoOrphanRow, RowAgrees, OwnsRows

-----------------------------------------------------------------------------
(* Every alternative of OnOrderFilled has that effect.                     *)

LEMMA OpenFromFlat ==
    ASSUME IInv, NEW s \in Symbols, NEW side \in Sides, NEW qty \in Nat \ {0},
           nextId \in Ids, session \in Sessions, session' = session, several' = several,
           open[s] = NoPosition,
           OpenPosition([tab |-> rows, faults |-> 0], s, side, qty)
    PROVE  \E ok \in BOOLEAN : FillEffect(s, ok)
  <1> DEFINE done == [ok |-> TRUE, tab |-> rows, faults |-> 0]
             pos == [id |-> nextId, side |-> side, qty |-> qty]
  <1>1. rows \in Table
    BY DEF IInv, TypeOK, Table
  <1>2. done \in Outcome /\ done.tab = rows
    BY <1>1 DEF Outcome
  <1>3. OpenPosition(done, s, side, qty)
    BY DEF OpenPosition
  <1> HIDE DEF done
  <1>4. PICK r \in Outcome :
          /\ Take(r) /\ Return(r, s)
          /\ qty \in 1 .. MaxQty
          /\ open' = [open EXCEPT ![s] = pos]
          /\ nextId' = nextId + 1
          /\ \A i \in Ids : i # nextId => r.tab[i] = rows[i]
          /\ r.tab[nextId] \in {rows[nextId], NewRow(s, side, qty)}
          /\ r.ok => r.tab[nextId] = NewRow(s, side, qty)
    BY <1>2, <1>3, OpenPositionEffect DEF IInv
  <1>5. rows' = r.tab /\ rows' \in Table /\ faults' \in 0 .. MaxFaults
    BY <1>4, TakeTypeOK DEF IInv, Take
  <1>6. /\ ret' \in {"none", "ok", "error"}
        /\ stale' = IF r.ok THEN stale ELSE stale \cup {s}
    BY <1>4 DEF Return
  <1>7. pos \in Position
    BY <1>4 DEF Position
  <1>8. /\ open' \in [Symbols -> Position \cup {NoPosition}]
        /\ \A t \in Symbols \ {s} : open'[t] = open[t]
        /\ open'[s] = pos
    BY <1>4, <1>7 DEF IInv, TypeOK
  <1>9. /\ NewRow(s, side, qty) \in Row
        /\ NewRow(s, side, qty).symbol = s /\ NewRow(s, side, qty).entry = nextId
        /\ NewRow(s, side, qty).side = side /\ NewRow(s, side, qty).qty = qty
        /\ NewRow(s, side, qty).session = session /\ NewRow(s, side, qty).status = "open"
    BY <1>4 DEF NewRow, Row
  <1>10. ASSUME NEW i \in Ids, rows'[i] # rows[i]
         PROVE  i = nextId /\ rows'[i] = NewRow(s, side, qty)
    BY <1>4, <1>5, <1>10
  <1>11. ASSUME NEW i \in Ids, rows'[i] # rows[i]
         PROVE  /\ rows'[i] # NoRow /\ rows'[i].symbol = s /\ rows'[i].entry <= i
                /\ i < nextId' /\ i = nextId
    BY <1>4, <1>9, <1>10, <1>11 DEF NoRow, Ids
  <1>12. ASSUME r.ok, s \notin stale
         PROVE  RowAgrees(s)' /\ OwnsRows(s)'
    <2>1. RowAgrees(s)'
      BY <1>4, <1>5, <1>8, <1>9, <1>12 DEF RowAgrees
    <2>2. OwnsRows(s)'
      <3> SUFFICES ASSUME s \notin several, NEW i \in Ids, rows'[i].status = "open", rows'[i].session = session,
                          rows'[i].symbol = s, rows'[i].entry = i
                   PROVE  i = nextId
        BY <1>7, <1>8 DEF OwnsRows, Position, NoPosition
      <3>1. CASE rows'[i] = rows[i]
        BY <1>12, <3>1 DEF IInv, NoOrphanRow
      <3>2. CASE rows'[i] # rows[i]
        BY <1>10, <3>2
      <3> QED
        BY <3>1, <3>2
    <2> QED
      BY <2>1, <2>2
  <1>13. r.ok \in BOOLEAN
    BY DEF Outcome
  <1>14. FillEffect(s, r.ok)
    BY <1>4, <1>5, <1>6, <1>8, <1>11, <1>12 DEF FillEffect
  <1> QED
    BY <1>13, <1>14

LEMMA AverageEffect ==
    ASSUME IInv, NEW s \in Symbols, NEW qty \in Nat \ {0},
           nextId \in Ids, session' = session, several' = several,
           open[s] # NoPosition, AveragePosition(s, qty)
    PROVE  \E ok \in BOOLEAN : FillEffect(s, ok)
  <1> DEFINE total == open[s].qty + qty
  <1>1. PICK r \in UpdatePositionAveraging(rows, open[s].id, total) :
            /\ Take(r) /\ Return(r, s)
            /\ open' = IF r.ok THEN [open EXCEPT ![s].qty = total] ELSE open
    BY DEF AveragePosition
  <1>2. open[s] \in Position /\ open[s].id \in Ids
    BY DEF IInv, TypeOK, Position
  <1>3. rows \in Table
    BY DEF IInv, TypeOK, Table
  <1>4. total \in 1 .. MaxQty
    BY <1>2, BoundsAssumption DEF AveragePosition, Position
  <1> HIDE DEF total
  <1>5. /\ r \in Outcome
        /\ \A i \in Ids : i # open[s].id => r.tab[i] = rows[i]
        /\ r.tab[open[s].id] # rows[open[s].id] =>
              /\ rows[open[s].id].status = "open"
              /\ r.tab[open[s].id] = [rows[open[s].id] EXCEPT !.qty = total]
        /\ r.ok => /\ rows[open[s].id].status = "open"
                   /\ r.tab[open[s].id] = [rows[open[s].id] EXCEPT !.qty = total]
    BY <1>1, <1>2, <1>3, <1>4, SetQuantityOutcome DEF UpdatePositionAveraging
  <1>6. rows' = r.tab /\ rows' \in Table /\ faults' \in 0 .. MaxFaults
    BY <1>1, <1>5, TakeTypeOK DEF IInv, Take
  <1>7. /\ ret' \in {"none", "ok", "error"}
        /\ stale' = IF r.ok THEN stale ELSE stale \cup {s}
    BY <1>1 DEF Return
  <1>8. /\ open' \in [Symbols -> Position \cup {NoPosition}]
        /\ \A t \in Symbols \ {s} : open'[t] = open[t]
        /\ open'[s] \in Position /\ open'[s].id = open[s].id
        /\ open'[s].side = open[s].side
        /\ r.ok => open'[s].qty = total
    BY <1>1, <1>2, <1>4 DEF IInv, TypeOK, Position
  <1>9. nextId' = nextId
    BY DEF AveragePosition
  <1>10. ASSUME NEW i \in Ids, rows'[i] # rows[i]
         PROVE  /\ i = open[s].id /\ rows[i].status = "open" /\ rows[i] \in Row
                /\ rows'[i] = [rows[i] EXCEPT !.qty = total]
    BY <1>2, <1>3, <1>5, <1>6, <1>10 DEF Table, NoRow
  <1>11. ASSUME NEW i \in Ids, rows'[i] # rows[i]
         PROVE  /\ rows'[i] # NoRow /\ rows'[i].symbol = s /\ rows'[i].entry <= i
                /\ i < nextId'
                /\ rows[i].status = "open" /\ rows[i].symbol = s
    <2>1. /\ i = open[s].id /\ rows[i].status = "open" /\ rows[i] \in Row
          /\ rows'[i] = [rows[i] EXCEPT !.qty = total]
      BY <1>10, <1>11
    <2>2. rows[i] # NoRow /\ rows[i].symbol = s /\ i < nextId /\ rows[i].entry <= i
      BY <2>1 DEF IInv, RowIdentity, NoRow
    <2>3. rows'[i] # NoRow /\ rows'[i].symbol = s /\ rows'[i].entry <= i
      BY <2>1, <2>2 DEF Row, NoRow
    <2> QED
      BY <1>9, <2>1, <2>2, <2>3
  <1>12. ASSUME r.ok, s \notin stale
         PROVE  RowAgrees(s)' /\ OwnsRows(s)'
    <2> DEFINE id == open[s].id
    <2>1. /\ rows[id] \in Row /\ rows[id].status = "open" /\ rows[id].session = session
          /\ rows[id].symbol = s /\ rows[id].side = open[s].side
      BY <1>2, <1>3, <1>5, <1>12 DEF IInv, RowOfPosition, Table, NoRow
    <2>2. rows'[id] = [rows[id] EXCEPT !.qty = total]
      BY <1>5, <1>6, <1>12
    <2>3. RowAgrees(s)'
      BY <1>8, <1>12, <2>1, <2>2 DEF RowAgrees, Row
    <2>4. OwnsRows(s)'
      <3> SUFFICES ASSUME s \notin several, NEW i \in Ids, rows'[i].status = "open", rows'[i].session = session,
                          rows'[i].symbol = s, rows'[i].entry = i
                   PROVE  i = id
        BY <1>8 DEF OwnsRows, Position, NoPosition
      <3>1. CASE rows'[i] = rows[i]
        BY <1>12, <3>1 DEF IInv, NoOrphanRow
      <3>2. CASE rows'[i] # rows[i]
        BY <1>10, <3>2
      <3> QED
        BY <3>1, <3>2
    <2> QED
      BY <2>3, <2>4
  <1>13. r.ok \in BOOLEAN
    BY <1>5 DEF Outcome
  <1>14. FillEffect(s, r.ok)
    BY <1>6, <1>7, <1>8, <1>9, <1>11, <1>12 DEF FillEffect
  <1> QED
    BY <1>13, <1>14

LEMMA PartialEffect ==
    ASSUME IInv, NEW s \in Symbols, NEW qty \in Nat \ {0},
           nextId \in Ids, session' = session, several' = several,
           open[s] # NoPosition, qty < open[s].qty, PartiallyClose(s, qty)
    PROVE  \E ok \in BOOLEAN : FillEffect(s, ok)
  <1> DEFINE id == open[s].id
  <1>1. PICK r \in PartialClosePosition(rows, id, nextId, qty) :
            /\ Take(r) /\ Return(r, s)
            /\ open' = IF r.ok THEN [open EXCEPT ![s].qty = @ - qty] ELSE open
    BY DEF PartiallyClose
  <1>2. /\ open[s] \in Position /\ id \in Ids /\ id < nextId
        /\ qty \in 1 .. MaxQty /\ open[s].qty - qty \in 1 .. MaxQty
    BY BoundsAssumption DEF IInv, TypeOK, Position, RowIdentity, Ids
  <1>3. rows \in Table
    BY DEF IInv, TypeOK, Table
  <1>4. /\ r \in Outcome
        /\ \A i \in Ids : i \notin {id, nextId} => r.tab[i] = rows[i]
        /\ r.tab # rows => rows[id].status = "open"
        /\ r.tab[id] \in {rows[id], Reduced(rows[id], qty)}
        /\ r.tab[nextId] \in {rows[nextId], Part(rows[id], qty)}
        /\ r.ok => /\ rows[id].status = "open"
                   /\ r.tab[id] = Reduced(rows[id], qty)
    <2>1. id # nextId
      BY <1>2 DEF Ids
    <2>2. r \in PartialClosePosition(rows, id, nextId, qty)
      BY <1>1
    <2> HIDE DEF id
    <2> QED
      BY <1>2, <1>3, <2>1, <2>2, PartialOutcome
  <1>5. rows' = r.tab /\ rows' \in Table /\ faults' \in 0 .. MaxFaults
    BY <1>1, <1>4, TakeTypeOK DEF IInv, Take
  <1>6. /\ ret' \in {"none", "ok", "error"}
        /\ stale' = IF r.ok THEN stale ELSE stale \cup {s}
    BY <1>1 DEF Return
  <1>7. /\ open' \in [Symbols -> Position \cup {NoPosition}]
        /\ \A t \in Symbols \ {s} : open'[t] = open[t]
        /\ open'[s] \in Position /\ open'[s].id = id
        /\ open'[s].side = open[s].side
        /\ r.ok => open'[s].qty = open[s].qty - qty
    BY <1>1, <1>2 DEF IInv, TypeOK, Position
  <1>8. nextId' = nextId + 1
    BY DEF PartiallyClose
  <1>9. rows' # rows =>
          /\ rows[id] \in Row /\ rows[id].status = "open"
          /\ rows[id].symbol = s /\ rows[id].entry <= id
    <2>1. rows' # rows => rows[id].status = "open"
      BY <1>4, <1>5
    <2> QED
      BY <2>1, <1>2, <1>3 DEF Table, NoRow, IInv, RowIdentity
  <1>10. ASSUME NEW i \in Ids, rows'[i] # rows[i]
         PROVE  \/ i = id /\ rows'[i] = Reduced(rows[id], qty)
                \/ i = nextId /\ rows'[i] = Part(rows[id], qty)
    BY <1>4, <1>5, <1>10
  <1>11. ASSUME NEW i \in Ids, rows'[i] # rows[i]
         PROVE  /\ rows'[i] # NoRow /\ rows'[i].symbol = s /\ rows'[i].entry <= i
                /\ i < nextId'
                /\ i = nextId \/ (rows[i].status = "open" /\ rows[i].symbol = s)
    <2>1. /\ rows[id] \in Row /\ rows[id].status = "open"
          /\ rows[id].symbol = s /\ rows[id].entry <= id
      BY <1>9, <1>11
    <2>2. CASE i = id /\ rows'[i] = Reduced(rows[id], qty)
      BY <1>2, <1>8, <2>1, <2>2 DEF Row, NoRow, Ids, Reduced
    <2>3. CASE i = nextId /\ rows'[i] = Part(rows[id], qty)
      <3>1. rows'[i] # NoRow /\ rows'[i].symbol = s /\ rows'[i].entry = rows[id].entry
        BY <2>1, <2>3 DEF Row, NoRow, Part
      <3>2. rows[id].entry \in Ids /\ id < nextId /\ nextId < nextId'
        BY <1>2, <1>8, <2>1 DEF Row, Ids
      <3>3. rows[id].entry <= nextId
        BY <1>2, <2>1, <3>2 DEF Ids
      <3> QED
        BY <2>3, <3>1, <3>2, <3>3
    <2> QED
      BY <1>10, <1>11, <2>2, <2>3
  <1>12. ASSUME r.ok, s \notin stale
         PROVE  RowAgrees(s)' /\ OwnsRows(s)'
    <2>1. /\ rows[id] \in Row /\ rows[id].status = "open" /\ rows[id].session = session
          /\ rows[id].symbol = s /\ rows[id].side = open[s].side
          /\ rows[id].qty = open[s].qty /\ rows[id].entry <= id
      BY <1>2, <1>3, <1>4, <1>12 DEF IInv, RowOfPosition, RowIdentity, Table, NoRow
    <2>2. rows'[id] = Reduced(rows[id], qty)
      BY <1>4, <1>5, <1>12
    <2>3. RowAgrees(s)'
      BY <1>7, <1>12, <2>1, <2>2 DEF RowAgrees, Row, Reduced
    <2>4. OwnsRows(s)'
      <3> SUFFICES ASSUME s \notin several, NEW i \in Ids, rows'[i].status = "open", rows'[i].session = session,
                          rows'[i].symbol = s, rows'[i].entry = i
                   PROVE  i = id
        BY <1>7 DEF OwnsRows, Position, NoPosition
      <3>1. CASE rows'[i] = rows[i]
        BY <1>12, <3>1 DEF IInv, NoOrphanRow
      <3>2. CASE i = nextId /\ rows'[i] = Part(rows[id], qty)
        <4>1. rows'[i].entry = rows[id].entry
          BY <2>1, <3>2 DEF Row, Part
        <4> QED
          BY <1>2, <2>1, <3>2, <4>1 DEF Ids, Row
      <3> QED
        BY <1>10, <3>1, <3>2
    <2> QED
      BY <2>3, <2>4
  <1>13. r.ok \in BOOLEAN
    BY <1>4 DEF Outcome
  <1>14. FillEffect(s, r.ok)
    BY <1>2, <1>5, <1>6, <1>7, <1>8, <1>11, <1>12 DEF FillEffect
  <1> QED
    BY <1>13, <1>14

\* Close, and in the other direction open what is left of the order.
LEMMA CloseEffect ==
    ASSUME IInv, NEW s \in Symbols, NEW side \in Sides, NEW qty \in Nat \ {0},
           nextId \in Ids, session \in Sessions, session' = session, several' = several,
           open[s] # NoPosition, CloseAndReopen(s, side, qty)
    PROVE  \E ok \in BOOLEAN : FillEffect(s, ok)
  <1> DEFINE id == open[s].id
             rest == qty - open[s].qty
  <1>1. PICK c \in DBClosePosition(rows, id, "closed") :
          IF c.ok /\ qty > open[s].qty
          THEN OpenPosition(c, s, side, rest)
          ELSE /\ Take(c) /\ Return(c, s)
               /\ open' = [open EXCEPT ![s] = NoPosition]
               /\ UNCHANGED nextId
    BY DEF CloseAndReopen
  <1>2. open[s] \in Position /\ id \in Ids /\ id < nextId
    BY DEF IInv, TypeOK, Position, RowIdentity
  <1>3. rows \in Table
    BY DEF IInv, TypeOK, Table
  <1>4. /\ c \in Outcome
        /\ \A i \in Ids : i # id => c.tab[i] = rows[i]
        /\ c.tab[id] # rows[id] =>
              rows[id].status = "open" /\ c.tab[id] = [rows[id] EXCEPT !.status = "closed"]
        /\ c.ok => /\ rows[id].status = "open"
                   /\ c.tab[id] = [rows[id] EXCEPT !.status = "closed"]
    <2> DEFINE how == "closed"
    <2>1. c \in DBClosePosition(rows, id, how)
      BY <1>1
    <2>3. how \in Reasons
      BY DEF Reasons
    <2>4. id \in Ids
      BY <1>2
    <2> HIDE DEF id, how
    <2>2. /\ c \in Outcome
          /\ \A i \in Ids : i # id => c.tab[i] = rows[i]
          /\ c.tab[id] # rows[id] =>
                rows[id].status = "open" /\ c.tab[id] = [rows[id] EXCEPT !.status = how]
          /\ c.ok => /\ rows[id].status = "open"
                     /\ c.tab[id] = [rows[id] EXCEPT !.status = how]
      BY <1>3, <2>1, <2>3, <2>4, CloseOutcome
    <2> QED
      BY <2>2 DEF how
  <1>5. c.ok \in BOOLEAN
    BY <1>4 DEF Outcome
  <1>6. c.tab[id] # rows[id] =>
          /\ c.tab[id] # NoRow /\ c.tab[id].symbol = s /\ c.tab[id].entry <= id
          /\ c.tab[id].status = "closed"
          /\ rows[id].status = "open" /\ rows[id].symbol = s
    <2> SUFFICES ASSUME c.tab[id] # rows[id]
                 PROVE  /\ c.tab[id] # NoRow /\ c.tab[id].symbol = s /\ c.tab[id].entry <= id
                        /\ c.tab[id].status = "closed"
                        /\ rows[id].status = "open" /\ rows[id].symbol = s
      OBVIOUS
    <2>1. rows[id].status = "open" /\ c.tab[id] = [rows[id] EXCEPT !.status = "closed"]
      BY <1>4
    <2>2. rows[id] \in Row /\ rows[id] # NoRow /\ rows[id].symbol = s /\ rows[id].entry <= id
      BY <2>1, <1>2, <1>3 DEF IInv, RowIdentity, Table, NoRow
    <2> QED
      BY <2>1, <2>2 DEF Row, NoRow
  \* Once the close has succeeded, no row is left that opened a position of s.
  <1>7. ASSUME c.ok, s \notin stale, s \notin several, NEW i \in Ids, c.tab[i].status = "open",
               c.tab[i].session = session, c.tab[i].symbol = s, c.tab[i].entry = i
        PROVE  FALSE
    <2>1. rows[id] \in Row
      BY <1>2, <1>3, <1>4, <1>7 DEF Table, NoRow
    <2>2. i # id
      BY <1>4, <1>7, <2>1 DEF Row
    <2>3. c.tab[i] = rows[i]
      BY <1>4, <2>2
    <2> QED
      BY <1>7, <2>2, <2>3 DEF IInv, NoOrphanRow
  <1>8. CASE ~ (c.ok /\ qty > open[s].qty)
    <2>1. /\ Take(c) /\ Return(c, s) /\ nextId' = nextId
          /\ open' = [open EXCEPT ![s] = NoPosition]
      BY <1>1, <1>8
    <2>2. rows' = c.tab /\ rows' \in Table /\ faults' \in 0 .. MaxFaults
      BY <1>4, <2>1, TakeTypeOK DEF IInv, Take
    <2>3. /\ ret' \in {"none", "ok", "error"}
          /\ stale' = IF c.ok THEN stale ELSE stale \cup {s}
      BY <2>1 DEF Return
    <2>4. /\ open' \in [Symbols -> Position \cup {NoPosition}]
          /\ \A t \in Symbols \ {s} : open'[t] = open[t]
          /\ open'[s] = NoPosition
      BY <2>1 DEF IInv, TypeOK
    <2>5. ASSUME NEW i \in Ids, rows'[i] # rows[i]
          PROVE  /\ rows'[i] # NoRow /\ rows'[i].symbol = s /\ rows'[i].entry <= i
                 /\ i < nextId' /\ rows[i].status = "open" /\ rows[i].symbol = s
      BY <1>2, <1>4, <1>6, <2>1, <2>2, <2>5
    <2>6. ASSUME c.ok, s \notin stale
          PROVE  RowAgrees(s)' /\ OwnsRows(s)'
      BY <1>7, <2>2, <2>4, <2>6 DEF RowAgrees, OwnsRows
    <2>7. FillEffect(s, c.ok)
      BY <2>1, <2>2, <2>3, <2>4, <2>5, <2>6 DEF FillEffect
    <2> QED
      BY <1>5, <2>7
  <1>9. CASE c.ok /\ qty > open[s].qty
    <2> DEFINE pos == [id |-> nextId, side |-> side, qty |-> rest]
               new == NewRow(s, side, rest)
    <2>1. rest \in Nat \ {0}
      BY <1>2, <1>9 DEF Position
    <2>2. OpenPosition(c, s, side, rest)
      BY <1>1, <1>9
    <2> HIDE DEF rest
    <2>3. PICK r \in Outcome :
            /\ Take(r) /\ Return(r, s)
            /\ rest \in 1 .. MaxQty
            /\ open' = [open EXCEPT ![s] = pos]
            /\ nextId' = nextId + 1
            /\ \A i \in Ids : i # nextId => r.tab[i] = c.tab[i]
            /\ r.tab[nextId] \in {c.tab[nextId], new}
            /\ r.ok => r.tab[nextId] = new
      BY <1>4, <2>1, <2>2, OpenPositionEffect DEF IInv
    <2>4. rows' = r.tab /\ rows' \in Table /\ faults' \in 0 .. MaxFaults
      BY <2>3, TakeTypeOK DEF IInv, Take
    <2>5. /\ ret' \in {"none", "ok", "error"}
          /\ stale' = IF r.ok THEN stale ELSE stale \cup {s}
      BY <2>3 DEF Return
    <2>6. pos \in Position
      BY <2>3 DEF Position
    <2>7. /\ open' \in [Symbols -> Position \cup {NoPosition}]
          /\ \A t \in Symbols \ {s} : open'[t] = open[t]
          /\ open'[s] = pos
      BY <2>3, <2>6 DEF IInv, TypeOK
    <2>8. /\ new \in Row /\ new.symbol = s /\ new.entry = nextId /\ new.side = side
          /\ new.qty = rest /\ new.session = session /\ new.status = "open"
      BY <2>3 DEF NewRow, Row
    <2>9. ASSUME NEW i \in Ids, rows'[i] # rows[i]
          PROVE  \/ i = nextId /\ rows'[i] = new
                 \/ i = id /\ rows'[i] = c.tab[id] /\ c.tab[id] # rows[id]
      BY <1>2, <1>4, <2>3, <2>4, <2>9
    <2>10. ASSUME NEW i \in Ids, rows'[i] # rows[i]
           PROVE  /\ rows'[i] # NoRow /\ rows'[i].symbol = s /\ rows'[i].entry <= i
                  /\ i < nextId'
                  /\ i = nextId \/ (rows[i].status = "open" /\ rows[i].symbol = s)
      BY <1>2, <1>6, <2>3, <2>8, <2>9, <2>10 DEF NoRow, Ids
    <2>11. ASSUME r.ok, s \notin stale
           PROVE  RowAgrees(s)' /\ OwnsRows(s)'
      <3>1. RowAgrees(s)'
        BY <2>3, <2>4, <2>7, <2>8, <2>11 DEF RowAgrees
      <3>2. OwnsRows(s)'
        <4> SUFFICES ASSUME s \notin several, NEW i \in Ids, rows'[i].status = "open", rows'[i].session = session,
                            rows'[i].symbol = s, rows'[i].entry = i
                     PROVE  i = nextId
          BY <2>6, <2>7 DEF OwnsRows, Position, NoPosition
        <4>1. CASE i # nextId
          BY <1>7, <1>9, <2>3, <2>4, <2>11, <4>1
        <4> QED
          BY <4>1
      <3> QED
        BY <3>1, <3>2
    <2>12. r.ok \in BOOLEAN
      BY DEF Outcome
    <2>13. FillEffect(s, r.ok)
      BY <2>3, <2>4, <2>5, <2>7, <2>10, <2>11 DEF FillEffect
    <2> QED
      BY <2>12, <2>13
  <1> QED
    BY <1>8, <1>9

-----------------------------------------------------------------------------
(* The invariant holds in every reachable state.                           *)

LEMMA InitInvariant == Init => IInv
  BY InitTypeOK DEF Init, IInv, RowIdentity, RowOfPosition, NoOrphanRow, NoRow, NoPosition, Ids

LEMMA FillHasEffect ==
    ASSUME IInv, NEW s \in Symbols, NEW order \in {"buy", "sell"}, NEW qty \in 1 .. MaxFill,
           OnOrderFilled(s, order, qty)
    PROVE  /\ nextId \in Ids
           /\ \E ok \in BOOLEAN : FillEffect(s, ok)
  <1>1. nextId \in Ids /\ session \in Sessions /\ session' = session /\ several' = several /\ qty \in Nat \ {0}
    BY BoundsAssumption DEF OnOrderFilled, IInv, TypeOK, Ids
  <1>2. Opens(order) \in Sides
    BY DEF Opens, Sides
  <1>3. \E ok \in BOOLEAN : FillEffect(s, ok)
    <2>1. CASE open[s] = NoPosition
      BY <1>1, <1>2, <2>1, OpenFromFlat DEF OnOrderFilled
    <2>2. CASE open[s] # NoPosition /\ open[s].side = Opens(order)
      BY <1>1, <2>2, AverageEffect DEF OnOrderFilled
    <2>3. CASE open[s] # NoPosition /\ open[s].side # Opens(order) /\ qty < open[s].qty
      <3>1. PartiallyClose(s, qty)
        BY <2>3, <1>1 DEF OnOrderFilled, IInv, TypeOK, Position
      <3> QED
        BY <1>1, <2>3, <3>1, PartialEffect
    <2>4. CASE open[s] # NoPosition /\ open[s].side # Opens(order) /\ ~ (qty < open[s].qty)
      <3>1. CloseAndReopen(s, Opens(order), qty)
        BY <2>4 DEF OnOrderFilled
      <3> QED
        BY <1>1, <1>2, <2>4, <3>1, CloseEffect
    <2> QED
      BY <2>1, <2>2, <2>3, <2>4
  <1> QED
    BY <1>1, <1>3

LEMMA FillInvariant ==
    ASSUME IInv, NEW s \in Symbols, NEW order \in {"buy", "sell"}, NEW qty \in 1 .. MaxFill,
           OnOrderFilled(s, order, qty)
    PROVE  IInv'
  <1>1. nextId \in Ids /\ \E ok \in BOOLEAN : FillEffect(s, ok)
    BY FillHasEffect
  <1>2. nextId' <= MaxIds + 1
    BY <1>1, BoundsAssumption DEF FillEffect, Ids
  <1> QED
    BY <1>1, <1>2, FillKeepsInvariant

\* A close by hand is a fill that buys nothing, as far as the table goes.
LEMMA CloseBySymbolHasEffect ==
    ASSUME IInv, NEW s \in Symbols, ClosePositionBySymbol(s)
    PROVE  /\ nextId' = nextId
           /\ FillEffect(s, TRUE)
  <1> DEFINE id == open[s].id
  <1>1. PICK r \in DBClosePosition(rows, id, "byHand") : Take(r)
    BY DEF ClosePositionBySymbol
  <1>2. /\ open[s] # NoPosition /\ id \in Ids /\ id < nextId
        /\ session' = session /\ open' = open /\ nextId' = nextId /\ ret' = ret
        /\ stale' = stale /\ several' = several
    BY DEF ClosePositionBySymbol, IInv, TypeOK, Position, RowIdentity
  <1>3. rows \in Table
    BY DEF IInv, TypeOK, Table
  <1>4. /\ r \in Outcome
        /\ \A i \in Ids : i # id => r.tab[i] = rows[i]
        /\ r.tab[id] # rows[id] =>
              rows[id].status = "open" /\ r.tab[id] = [rows[id] EXCEPT !.status = "byHand"]
    <2> DEFINE how == "byHand"
    <2>1. r \in DBClosePosition(rows, id, how)
      BY <1>1
    <2>3. how \in Reasons
      BY DEF Reasons
    <2>4. id \in Ids
      BY <1>2
    <2> HIDE DEF id, how
    <2>2. /\ r \in Outcome
          /\ \A i \in Ids : i # id => r.tab[i] = rows[i]
          /\ r.tab[id] # rows[id] =>
                rows[id].status = "open" /\ r.tab[id] = [rows[id] EXCEPT !.status = how]
      BY <1>3, <2>1, <2>3, <2>4, CloseOutcome
    <2> QED
      BY <2>2 DEF how
  <1>5. rows' = r.tab /\ rows' \in Table /\ faults' \in 0 .. MaxFaults
    BY <1>1, <1>4, TakeTypeOK DEF IInv, Take
  <1>6. ASSUME NEW i \in Ids, rows'[i] # rows[i]
        PROVE  /\ rows'[i] # NoRow /\ rows'[i].symbol = s /\ rows'[i].entry <= i
               /\ i < nextId' /\ rows[i].status = "open" /\ rows[i].symbol = s
    <2>1. i = id /\ rows[i].status = "open" /\ rows'[i] = [rows[i] EXCEPT !.status = "byHand"]
      BY <1>4, <1>5, <1>6
    <2>2. rows[i] \in Row /\ rows[i] # NoRow /\ rows[i].symbol = s /\ rows[i].entry <= i
      BY <2>1, <1>2, <1>3 DEF IInv, RowIdentity, Table, NoRow
    <2> QED
      BY <1>2, <2>1, <2>2 DEF Row, NoRow
  <1>7. ASSUME s \notin stale
        PROVE  RowAgrees(s)' /\ OwnsRows(s)'
    <2>1. /\ rows[id] \in Row /\ rows[id].session = session /\ rows[id].symbol = s
          /\ rows[id].side = open[s].side /\ rows[id].qty = open[s].qty
          /\ rows[id].status \in {"open", "byHand"}
      BY <1>2, <1>3, <1>7 DEF IInv, RowOfPosition, Table, NoRow
    <2>2. rows'[id] \in {rows[id], [rows[id] EXCEPT !.status = "byHand"]}
      BY <1>4, <1>5
    <2>3. RowAgrees(s)'
      BY <1>2, <2>1, <2>2 DEF RowAgrees, Row
    <2>4. OwnsRows(s)'
      <3> SUFFICES ASSUME s \notin several, NEW i \in Ids, rows'[i].status = "open",
                          rows'[i].session = session, rows'[i].symbol = s, rows'[i].entry = i
                   PROVE  i = id
        BY <1>2 DEF OwnsRows
      <3>1. CASE rows'[i] = rows[i]
        BY <1>2, <1>7, <3>1 DEF IInv, NoOrphanRow
      <3>2. CASE rows'[i] # rows[i]
        BY <1>4, <1>5, <3>2
      <3> QED
        BY <3>1, <3>2
    <2> QED
      BY <2>3, <2>4
  <1> QED
    BY <1>2, <1>5, <1>6, <1>7 DEF FillEffect, IInv, TypeOK

LEMMA CloseBySymbolInvariant ==
    ASSUME IInv, NEW s \in Symbols, ClosePositionBySymbol(s)
    PROVE  IInv'
  <1>1. nextId' = nextId /\ FillEffect(s, TRUE)
    BY CloseBySymbolHasEffect
  <1>2. nextId' <= MaxIds + 1
    BY <1>1, BoundsAssumption DEF IInv, TypeOK
  <1> QED
    BY <1>1, <1>2, FillKeepsInvariant

\* A load yields, for every symbol that has one open row, the position of
\* that row; of a symbol that has several, the position of one of them.
LEMMA SetSessionInvariant ==
    ASSUME IInv, NEW sess \in Sessions, SetSession(sess)
    PROVE  IInv'
  <1> DEFINE mine == GetOpenPositions(rows, sess)
             RowsOf(s) == {i \in mine : rows[i].symbol = s}
  <1>1. PICK chosen \in [Symbols -> Ids \cup {0}] :
          /\ \A s \in Symbols : IF RowsOf(s) = {} THEN chosen[s] = 0
                                ELSE chosen[s] \in LastLoaded(mine, s)
          /\ open' = [s \in Symbols |->
               IF chosen[s] = 0 THEN NoPosition
               ELSE [id |-> chosen[s], side |-> rows[chosen[s]].side,
                     qty |-> rows[chosen[s]].qty]]
    BY DEF SetSession
  <1>2. /\ stale' = {} /\ several' = {s \in Symbols : \E i, j \in RowsOf(s) : i # j}
        /\ session' = sess /\ ret' = "none"
        /\ rows' = rows /\ nextId' = nextId /\ faults' = faults
    BY DEF SetSession
  <1>3. rows \in Table
    BY DEF IInv, TypeOK, Table
  <1>4. ASSUME NEW s \in Symbols, chosen[s] # 0
        PROVE  /\ chosen[s] \in Ids /\ chosen[s] \in RowsOf(s)
               /\ rows[chosen[s]] \in Row /\ rows[chosen[s]] # NoRow
    <2>1. chosen[s] \in RowsOf(s)
      BY <1>1, <1>4 DEF LastLoaded
    <2>2. chosen[s] \in Ids /\ rows[chosen[s]].status = "open"
      BY <2>1 DEF GetOpenPositions
    <2> QED
      BY <1>3, <2>1, <2>2 DEF Table, NoRow
  <1>5. ASSUME NEW s \in Symbols, open'[s] # NoPosition
        PROVE  /\ chosen[s] # 0 /\ open'[s] \in Position /\ open'[s].id = chosen[s]
               /\ open'[s].side = rows[chosen[s]].side /\ open'[s].qty = rows[chosen[s]].qty
    <2>1. chosen[s] # 0
      BY <1>1, <1>5
    <2>2. chosen[s] \in Ids /\ rows[chosen[s]] \in Row
      BY <1>4, <2>1
    <2> QED
      BY <1>1, <2>1, <2>2 DEF Position, Row
  <1>6. TypeOK'
    BY <1>1, <1>2, <1>5 DEF IInv, TypeOK
  <1>7. RowIdentity'
    <2>1. ASSUME NEW s \in Symbols, open'[s] # NoPosition
          PROVE  open'[s].id < nextId /\ rows[open'[s].id].symbol = s
      BY <1>4, <1>5, <2>1 DEF IInv, RowIdentity, TypeOK, Ids
    <2> QED
      BY <1>2, <2>1 DEF IInv, RowIdentity
  <1>8. RowOfPosition'
    <2> SUFFICES ASSUME NEW s \in Symbols, open'[s] # NoPosition
                 PROVE  /\ rows[open'[s].id].status = "open"
                        /\ rows[open'[s].id].session = sess
                        /\ rows[open'[s].id].symbol = s
                        /\ rows[open'[s].id].side = open'[s].side
                        /\ rows[open'[s].id].qty = open'[s].qty
      BY <1>2 DEF RowOfPosition
    <2> QED
      BY <1>4, <1>5 DEF GetOpenPositions
  <1>9. NoOrphanRow'
    <2> SUFFICES ASSUME NEW s \in Symbols \ several', NEW i \in Ids,
                        rows[i].status = "open", rows[i].session = sess, rows[i].symbol = s
                 PROVE  open'[s] # NoPosition /\ open'[s].id = i
      BY <1>2 DEF NoOrphanRow
    <2>1. i \in RowsOf(s)
      BY DEF GetOpenPositions
    <2>2. chosen[s] \in LastLoaded(mine, s)
      BY <1>1, <2>1
    <2>3. chosen[s] = i /\ chosen[s] # 0
      BY <1>2, <2>1, <2>2 DEF LastLoaded, Ids
    <2>4. open'[s].id = i
      BY <1>1, <2>3
    <2> QED
      BY <2>3, <2>4 DEF NoPosition
  <1> QED
    BY <1>6, <1>7, <1>8, <1>9 DEF IInv

LEMMA NextInvariant == IInv /\ [Next]_vars => IInv'
  <1> SUFFICES ASSUME IInv, [Next]_vars PROVE IInv'
    OBVIOUS
  <1>1. ASSUME NEW s \in Symbols, NEW order \in {"buy", "sell"}, NEW qty \in 1 .. MaxFill,
               OnOrderFilled(s, order, qty)
        PROVE  IInv'
    BY <1>1, FillInvariant
  <1>2. CASE FillWithoutSession
    BY <1>2 DEF FillWithoutSession, IInv, TypeOK, RowIdentity, RowOfPosition, NoOrphanRow
  <1>3. ASSUME NEW sess \in Sessions, SetSession(sess) PROVE IInv'
    BY <1>3, SetSessionInvariant
  <1>4. ASSUME NEW sess \in Sessions, SetSessionLoadFails(sess) PROVE IInv'
    BY <1>4, BoundsAssumption
       DEF SetSessionLoadFails, IInv, TypeOK, RowIdentity, RowOfPosition, NoOrphanRow
  <1>5. CASE ClearSession
    <2>1. TypeOK' /\ RowIdentity' /\ RowOfPosition'
      BY <1>5 DEF ClearSession, IInv, TypeOK, RowIdentity, RowOfPosition
    <2>2. \A i \in Ids : rows[i].status = "open" => rows[i].session # NoSession
      BY SessionAssumption DEF IInv, TypeOK, Row, NoRow
    <2>3. NoOrphanRow'
      BY <1>5, <2>2 DEF ClearSession, NoOrphanRow
    <2> QED
      BY <2>1, <2>3 DEF IInv
  <1>6. ASSUME NEW s \in Symbols, ClosePositionBySymbol(s) PROVE IInv'
    BY <1>6, CloseBySymbolInvariant
  <1>7. CASE UNCHANGED vars
    BY <1>7 DEF vars, IInv, TypeOK, RowIdentity, RowOfPosition, NoOrphanRow
  <1> QED
    BY <1>1, <1>2, <1>3, <1>4, <1>5, <1>6, <1>7 DEF Next

\* Types, for every choice of the constants.
THEOREM TypeCorrect == Spec => []TypeOK
  <1>1. IInv => TypeOK
    BY DEF IInv
  <1> QED
    BY InitInvariant, NextInvariant, <1>1, PTL DEF Spec

\* What is traded on is what is stored: the position of a symbol agrees with
\* its row, which is open or was closed by hand.  Excepted are symbols a fill of
\* which returned an error since the last load, and all after a failed load.
THEOREM PositionsAgreeWithRows == Spec => []RowOfPosition
  <1>1. IInv => RowOfPosition
    BY DEF IInv
  <1> QED
    BY InitInvariant, NextInvariant, <1>1, PTL DEF Spec

\* No open row that opened a position is left without its position, but for the
\* same symbols and those of which the last load found several open rows.
THEOREM RowsAreOwned == Spec => []NoOrphanRow
  <1>1. IInv => NoOrphanRow
    BY DEF IInv
  <1> QED
    BY InitInvariant, NextInvariant, <1>1, PTL DEF Spec

\* Memory and rows agree in both directions, with the exceptions of the two.
THEOREM MemoryAgreesWithRows == Spec => []RowsAgree
  <1>1. IInv => RowsAgree
    BY DEF IInv, RowsAgree
  <1> QED
    BY InitInvariant, NextInvariant, <1>1, PTL DEF Spec

LEMMA EffectKeepsClosedRows ==
    ASSUME IInv, NEW s \in Symbols, NEW ok \in BOOLEAN, FillEffect(s, ok),
           NEW i \in Ids, rows[i].status \in {"closed", "byHand"}
    PROVE  rows'[i] = rows[i]
  BY DEF FillEffect, IInv, RowIdentity, TypeOK, Ids, NoRow

\* A closed row is never changed again.
THEOREM ClosedRowsStay == Spec => ClosedRowsAreFinal
  <1>1. ASSUME IInv, [Next]_vars
        PROVE  \A i \in Ids : rows[i].status \in {"closed", "byHand"} => rows'[i] = rows[i]
    <2> SUFFICES ASSUME NEW i \in Ids, rows[i].status \in {"closed", "byHand"}
                 PROVE  rows'[i] = rows[i]
      OBVIOUS
    <2>1. ASSUME NEW s \in Symbols, NEW order \in {"buy", "sell"}, NEW qty \in 1 .. MaxFill,
                 OnOrderFilled(s, order, qty)
          PROVE  rows'[i] = rows[i]
      BY <1>1, <2>1, FillHasEffect, EffectKeepsClosedRows
    <2>2. ASSUME NEW s \in Symbols, ClosePositionBySymbol(s) PROVE rows'[i] = rows[i]
      BY <1>1, <2>2, CloseBySymbolHasEffect, EffectKeepsClosedRows
    <2>3. ASSUME NEW sess \in Sessions, SetSession(sess) \/ SetSessionLoadFails(sess)
          PROVE  rows'[i] = rows[i]
      BY <2>3 DEF SetSession, SetSessionLoadFails
    <2>4. CASE FillWithoutSession \/ ClearSession \/ UNCHANGED vars
      BY <2>4 DEF FillWithoutSession, ClearSession, vars
    <2> QED
      BY <1>1, <2>1, <2>2, <2>3, <2>4 DEF Next
  <1> QED
    BY InitInvariant, NextInvariant, <1>1, PTL DEF Spec, ClosedRowsAreFinal

-----------------------------------------------------------------------------
(* The position manager implements NetPosition.                            *)

\* The net positions, and what a fill of side order and size qty adds.
NetOf == [s \in Symbols |-> SignedQty(open[s])]
SignedFill(order, qty) == IF order = "buy" THEN qty ELSE -qty

\* A step that gives symbol s the signed quantity n and answers r.
LEMMA NetAfter ==
    ASSUME NEW s \in Symbols, NEW n, NEW pos, SignedQty(pos) = n,
           open \in [Symbols -> Position \cup {NoPosition}],
           open' = [open EXCEPT ![s] = pos]
    PROVE  NetOf' = [NetOf EXCEPT ![s] = n]
  BY DEF NetOf

\* What a fill does to the net position of its symbol.
LEMMA FillNet ==
    ASSUME IInv, NEW s \in Symbols, NEW order \in {"buy", "sell"}, NEW qty \in 1 .. MaxFill,
           OnOrderFilled(s, order, qty)
    PROVE  LET q == SignedFill(order, qty)
               n == SignedQty(open[s])
           IN  \/ ret' = "ok" /\ NetOf' = [NetOf EXCEPT ![s] = n + q]
               \/ ret' = "error" /\ \E m \in Net!AfterError(n, q) :
                                       NetOf' = [NetOf EXCEPT ![s] = m]
  <1> DEFINE q == SignedFill(order, qty)
             n == SignedQty(open[s])
             side == Opens(order)
             Goal == \/ ret' = "ok" /\ NetOf' = [NetOf EXCEPT ![s] = n + q]
                     \/ ret' = "error" /\ \E m \in Net!AfterError(n, q) :
                                             NetOf' = [NetOf EXCEPT ![s] = m]
  <1>1. open \in [Symbols -> Position \cup {NoPosition}] /\ rows \in Table
    BY DEF IInv, TypeOK, Table
  <1>2. nextId \in Ids /\ session \in Sessions /\ qty \in Nat \ {0} /\ side \in Sides
    BY BoundsAssumption DEF OnOrderFilled, IInv, TypeOK, Ids, Opens, Sides
  <1>3. CASE open[s] = NoPosition
    <2> DEFINE done == [ok |-> TRUE, tab |-> rows, faults |-> 0]
               pos == [id |-> nextId, side |-> side, qty |-> qty]
    <2>1. OpenPosition(done, s, side, qty)
      <3>1. OpenPosition([tab |-> rows, faults |-> 0], s, side, qty)
        BY <1>3 DEF OnOrderFilled
      <3> QED
        BY <3>1 DEF OpenPosition
    <2>2. done \in Outcome
      BY <1>1 DEF Outcome
    <2> HIDE DEF done
    <2>3. PICK r \in Outcome : Return(r, s) /\ open' = [open EXCEPT ![s] = pos]
      BY <1>2, <2>1, <2>2, OpenPositionEffect DEF IInv
    <2>4. SignedQty(pos) = q /\ n = 0 /\ q \in Int
      BY <1>2, <1>3 DEF SignedQty, SignedFill, Opens, NoPosition
    <2>5. NetOf' = [NetOf EXCEPT ![s] = q]
      <3> HIDE DEF pos, q
      <3> QED
        BY <1>1, <2>3, <2>4, NetAfter
    <2>6. n + q = q /\ q \in Net!AfterError(n, q)
      BY <2>4 DEF Net!AfterError
    <2> QED
      BY <2>3, <2>5, <2>6 DEF Return
  <1>4. CASE open[s] # NoPosition /\ open[s].side = side
    <2> DEFINE pos == [open[s] EXCEPT !.qty = open[s].qty + qty]
    <2>1. AveragePosition(s, qty)
      BY <1>4 DEF OnOrderFilled
    <2>2. PICK r : Return(r, s) /\ open' = IF r.ok THEN [open EXCEPT ![s] = pos] ELSE open
      BY <1>1, <2>1 DEF AveragePosition
    <2>3. open[s] \in Position
      BY <1>1, <1>4
    <2>4. SignedQty(pos) = n + q /\ q \in Int /\ n \in Int /\ ~ Net!Crosses(n, q) /\ n # 0
      BY <1>2, <1>4, <2>3, BoundsAssumption
         DEF SignedQty, SignedFill, Opens, Position, Net!Crosses
    <2>5. CASE r.ok
      <3>1. NetOf' = [NetOf EXCEPT ![s] = n + q]
        <4>1. open' = [open EXCEPT ![s] = pos]
          BY <2>2, <2>5
        <4> HIDE DEF pos, q, n
        <4> QED
          BY <1>1, <2>4, <4>1, NetAfter
      <3> QED
        BY <2>2, <2>5, <3>1 DEF Return
    <2>6. CASE ~ r.ok
      <3>1. NetOf' = [NetOf EXCEPT ![s] = n]
        BY <1>1, <2>2, <2>6 DEF NetOf
      <3>2. n \in Net!AfterError(n, q)
        BY <2>4 DEF Net!AfterError
      <3> QED
        BY <2>2, <2>6, <3>1, <3>2 DEF Return
    <2> QED
      BY <2>5, <2>6
  <1>5. CASE open[s] # NoPosition /\ open[s].side # side /\ qty < open[s].qty
    <2> DEFINE pos == [open[s] EXCEPT !.qty = open[s].qty - qty]
    <2>1. PartiallyClose(s, qty)
      BY <1>5, <1>2, <1>1 DEF OnOrderFilled, Position
    <2>2. PICK r : Return(r, s) /\ open' = IF r.ok THEN [open EXCEPT ![s] = pos] ELSE open
      BY <1>1, <2>1 DEF PartiallyClose
    <2>3. open[s] \in Position
      BY <1>1, <1>5
    <2>4. SignedQty(pos) = n + q /\ q \in Int /\ n \in Int /\ ~ Net!Crosses(n, q) /\ n # 0
      BY <1>2, <1>5, <2>3, BoundsAssumption
         DEF SignedQty, SignedFill, Opens, Position, Sides, Net!Crosses
    <2>5. CASE r.ok
      <3>1. NetOf' = [NetOf EXCEPT ![s] = n + q]
        <4>1. open' = [open EXCEPT ![s] = pos]
          BY <2>2, <2>5
        <4> HIDE DEF pos, q, n
        <4> QED
          BY <1>1, <2>4, <4>1, NetAfter
      <3> QED
        BY <2>2, <2>5, <3>1 DEF Return
    <2>6. CASE ~ r.ok
      <3>1. NetOf' = [NetOf EXCEPT ![s] = n]
        BY <1>1, <2>2, <2>6 DEF NetOf
      <3>2. n \in Net!AfterError(n, q)
        BY <2>4 DEF Net!AfterError
      <3> QED
        BY <2>2, <2>6, <3>1, <3>2 DEF Return
    <2> QED
      BY <2>5, <2>6
  <1>6. CASE open[s] # NoPosition /\ open[s].side # side /\ ~ (qty < open[s].qty)
    <2>1. CloseAndReopen(s, side, qty)
      BY <1>6 DEF OnOrderFilled
    <2>2. open[s] \in Position /\ open[s].id \in Ids
      BY <1>1, <1>6 DEF Position
    <2>3. PICK c \in DBClosePosition(rows, open[s].id, "closed") :
            IF c.ok /\ qty > open[s].qty
            THEN OpenPosition(c, s, side, qty - open[s].qty)
            ELSE Return(c, s) /\ open' = [open EXCEPT ![s] = NoPosition]
      BY <2>1 DEF CloseAndReopen
    <2>4. q \in Int /\ n \in Int /\ Net!Crosses(n, q) /\ n # 0
      BY <1>2, <1>6, <2>2, BoundsAssumption
         DEF SignedQty, SignedFill, Opens, Position, Sides, Net!Crosses
    <2>5. Net!AfterError(n, q) = {0, n + q}
      BY <2>4 DEF Net!AfterError
    <2>6. CASE c.ok /\ qty > open[s].qty
      <3> DEFINE rest == qty - open[s].qty
                 pos == [id |-> nextId, side |-> side, qty |-> rest]
      <3>1. rest \in Nat \ {0}
        BY <1>2, <2>2, <2>6 DEF Position
      <3>2. c \in Outcome
        <4> DEFINE how == "closed"
                   id == open[s].id
        <4>1. c \in DBClosePosition(rows, id, how)
          BY <2>3
        <4>2. how \in Reasons
          BY DEF Reasons
        <4>3. id \in Ids
          BY <2>2
        <4> HIDE DEF how, id
        <4> QED
          BY <1>1, <4>1, <4>2, <4>3, CloseOutcome
      <3>3. OpenPosition(c, s, side, rest)
        BY <2>3, <2>6
      <3>4. SignedQty(pos) = n + q
        BY <1>2, <1>6, <2>2 DEF SignedQty, SignedFill, Opens, Position, Sides
      <3> HIDE DEF rest
      <3>5. PICK r \in Outcome : Return(r, s) /\ open' = [open EXCEPT ![s] = pos]
        BY <1>2, <3>1, <3>2, <3>3, OpenPositionEffect DEF IInv
      <3>6. NetOf' = [NetOf EXCEPT ![s] = n + q]
        <4> HIDE DEF pos, q, n
        <4> QED
          BY <1>1, <3>4, <3>5, NetAfter
      <3> QED
        BY <2>5, <3>5, <3>6 DEF Return
    <2>7. CASE ~ (c.ok /\ qty > open[s].qty)
      <3>1. Return(c, s) /\ open' = [open EXCEPT ![s] = NoPosition]
        BY <2>3, <2>7
      <3>2. NetOf' = [NetOf EXCEPT ![s] = 0]
        <4>1. SignedQty(NoPosition) = 0
          BY DEF SignedQty, NoPosition
        <4> QED
          BY <1>1, <3>1, <4>1, NetAfter
      <3>3. c.ok => n + q = 0
        BY <1>2, <1>6, <2>2, <2>7 DEF SignedQty, SignedFill, Opens, Position, Sides
      <3> QED
        BY <2>5, <3>1, <3>2, <3>3 DEF Return
    <2> QED
      BY <2>6, <2>7
  <1> QED
    BY <1>3, <1>4, <1>5, <1>6

\* An acknowledged fill moves the net position by exactly its quantity, and
\* an error by what NetPosition allows: every step of the position manager is
\* a step of NetPosition, or leaves its variables alone.
THEOREM Implementation == Spec => ImplementsNetPosition
  <1>1. Init => Net!Init
    BY SessionAssumption DEF Init, Net!Init, SignedQty, NoPosition
  <1>2. ASSUME IInv, [Next]_vars
        PROVE  [Net!Next]_<<session # NoSession, NetOf, ret>>
    <2>1. open \in [Symbols -> Position \cup {NoPosition}]
      BY <1>2 DEF IInv, TypeOK
    <2>2. ASSUME NEW s \in Symbols, NEW order \in {"buy", "sell"}, NEW qty \in 1 .. MaxFill,
                 OnOrderFilled(s, order, qty)
          PROVE  Net!Next
      <3> DEFINE q == SignedFill(order, qty)
                 n == SignedQty(open[s])
      <3>1. q \in Net!Signed \ {0}
        BY BoundsAssumption DEF SignedFill, Net!Signed
      <3>2. session # NoSession /\ session' = session
        BY <2>2 DEF OnOrderFilled
      <3>3. NetOf[s] = n
        BY DEF NetOf
      <3>4. \/ ret' = "ok" /\ NetOf' = [NetOf EXCEPT ![s] = n + q]
            \/ ret' = "error" /\ \E m \in Net!AfterError(n, q) : NetOf' = [NetOf EXCEPT ![s] = m]
        BY <1>2, <2>2, FillNet
      <3>5. Net!Acknowledge(s, q) \/ Net!Fail(s, q)
        <4> HIDE DEF q, n
        <4> QED
          BY <3>2, <3>3, <3>4 DEF Net!Acknowledge, Net!Fail, NetOf
      <3> QED
        BY <3>1, <3>5 DEF Net!Next
    <2>3. CASE FillWithoutSession
      BY <2>3 DEF FillWithoutSession, Net!Next, Net!Refuse, NetOf
    <2>4. ASSUME session' \in Sessions, ret' = "none",
                 open' \in [Symbols -> Position \cup {NoPosition}]
          PROVE  Net!Next
      <3>1. session' # NoSession
        BY <2>4, SessionAssumption
      <3>2. NetOf' \in [Symbols -> Int]
        BY <2>4, BoundsAssumption DEF NetOf, SignedQty, Position, NoPosition
      <3>3. Net!Switch
        BY <2>4, <3>1, <3>2 DEF Net!Switch, NetOf
      <3> QED
        BY <3>3 DEF Net!Next
    <2>5. ASSUME NEW sess \in Sessions, SetSession(sess) PROVE Net!Next
      <3>1. session' \in Sessions /\ ret' = "none"
        BY <2>5 DEF SetSession
      <3>2. TypeOK'
        BY <1>2, <2>5, SetSessionInvariant DEF IInv
      <3> QED
        BY <2>4, <3>1, <3>2 DEF TypeOK
    <2>6. ASSUME NEW sess \in Sessions, SetSessionLoadFails(sess) PROVE Net!Next
      BY <2>1, <2>4, <2>6 DEF SetSessionLoadFails
    <2>7. CASE ClearSession
      <3>1. ~ (session' # NoSession) /\ ret' = "none"
        BY <2>7 DEF ClearSession
      <3>2. NetOf' = [s \in Symbols |-> 0]
        BY <2>7 DEF ClearSession, NetOf, SignedQty, NoPosition
      <3>3. Net!Switch
        BY <3>1, <3>2 DEF Net!Switch, NetOf
      <3> QED
        BY <3>3 DEF Net!Next
    <2>8. ASSUME NEW s \in Symbols, ClosePositionBySymbol(s)
          PROVE  UNCHANGED <<session # NoSession, NetOf, ret>>
      BY <2>8 DEF ClosePositionBySymbol, NetOf
    <2>9. CASE UNCHANGED vars
      BY <2>9 DEF vars, NetOf
    <2> QED
      BY <1>2, <2>2, <2>3, <2>5, <2>6, <2>7, <2>8, <2>9 DEF Next
  <1> QED
    BY InitInvariant, NextInvariant, <1>1, <1>2, PTL
       DEF Spec, ImplementsNetPosition, Net!Spec, NetOf

-----------------------------------------------------------------------------
(* The tool servers.                                                       *)

Server == {"reads", "handles", "spins", "ended"}
Written == [request : Nat \ {0}, outcome : {"result", "error"}]

\* The requests that can be decoded, among the first n.
Fit(k, line) ==
    /\ line.method # "mistypedID" /\ line.method # "notJSON"
    /\ ~ (line.method = "tools/call" /\ line.mistyped /\ k \in {"risk", "executor"})
Fitting(k, s, n) == {i \in 1 .. n : Fit(k, s[i])}

InOrder(F, A, n, state, end) ==
    /\ \A i \in DOMAIN A : A[i].request \in F
    /\ \A i, j \in DOMAIN A : i < j => A[i].request < A[j].request
    /\ F \ {A[i].request : i \in DOMAIN A} \subseteq IF state \in {"handles", "ended"} THEN {n} ELSE {}
    /\ state = "handles" \/ (state = "ended" /\ ~ end) => F \ {A[i].request : i \in DOMAIN A} # {}

\* A result is of a tool that is listed and was given what the list requires.
ToldOf(listed, line) ==
    line.method = "tools/call" => line.tool \in DOMAIN listed /\ listed[line.tool] \subseteq line.given

ServerInv ==
    /\ kind \in Kinds /\ coins \in BOOLEAN /\ closed \in BOOLEAN /\ server \in Server
    /\ sent \in Seq(Lines) /\ read \in 0 .. Len(sent) /\ answers \in Seq(Written)
    /\ InOrder(Fitting(kind, sent, read), answers, read, server, closed)
    /\ \A i \in DOMAIN answers : answers[i].outcome = "result" => ToldOf(Listed, sent[answers[i].request])

LEMMA FitIs == \A line : Fit(kind, line) <=> ~ Undecodable(line) /\ line.method # "notJSON"
BY DEF Fit, Undecodable, TypedParams

LEMMA ServerShows == ServerInv => AnsweredInOrder /\ ToolsTellTheirArguments
<1> SUFFICES ASSUME ServerInv PROVE AnsweredInOrder /\ ToolsTellTheirArguments
  OBVIOUS
<1>1. Fitting(kind, sent, read) = {i \in 1 .. read : ~ Undecodable(sent[i]) /\ sent[i].method # "notJSON"}
  BY FitIs DEF Fitting
<1>2. AnsweredInOrder
  BY <1>1, Zenon DEF ServerInv, InOrder, AnsweredInOrder
<1>3. ToolsTellTheirArguments
  BY DEF ServerInv, ToldOf, ToolsTellTheirArguments
<1> QED
  BY <1>2, <1>3

LEMMA ServerBegins == ServerInit => ServerInv
<1> SUFFICES ASSUME ServerInit PROVE ServerInv
  OBVIOUS
<1>1. <<>> \in Seq(Lines) /\ <<>> \in Seq(Written) /\ Len(<<>>) = 0 /\ DOMAIN <<>> = {}
  OBVIOUS
<1>2. /\ kind \in Kinds /\ coins \in BOOLEAN /\ sent = <<>> /\ read = 0 /\ answers = <<>> /\ server = "reads"
      /\ closed = FALSE
  BY DEF ServerInit
<1>3. Fitting(kind, sent, read) = {}
  BY <1>2 DEF Fitting
<1>4. InOrder(Fitting(kind, sent, read), answers, read, server, closed)
  BY <1>1, <1>2, <1>3 DEF InOrder
<1>5. /\ kind \in Kinds /\ coins \in BOOLEAN /\ closed \in BOOLEAN /\ server \in Server
      /\ sent \in Seq(Lines) /\ answers \in Seq(Written)
  <2>1. closed \in BOOLEAN
    BY <1>2, Zenon
  <2>2. server \in Server
    BY <1>2 DEF Server
  <2> QED
    BY <1>1, <1>2, <2>1, <2>2, Zenon
<1>6. read \in 0 .. Len(sent) /\ \A i \in DOMAIN answers : FALSE
  BY <1>1, <1>2
<1> HIDE DEF InOrder, Fitting, Lines, Written
<1> QED
  BY <1>4, <1>5, <1>6 DEF ServerInv

\* Every tool asks for the arguments that the list requires.
LEMMA ListedAreNeeded == ASSUME kind \in Kinds, coins \in BOOLEAN, NEW tool \in DOMAIN Listed PROVE Listed[tool] \subseteq Needs(tool)
<1>1. CASE kind = "indicators"
  BY <1>1 DEF Listed, Needs, IndicatorsListed, IndicatorsNeed
<1>2. CASE kind = "risk"
  BY <1>2 DEF Listed, Needs, RiskListed, RiskNeeds
<1>3. CASE kind = "market"
  <2> DEFINE T == IF coins THEN {"get_market_chart", "get_coin_info"} ELSE {}
  <2>1. Listed = [t \in {"get_price", "get_ticker_24h", "get_order_book"} \cup T |->
                    IF t \in {"get_price", "get_ticker_24h", "get_order_book"} THEN {"symbol"} ELSE {"coin_id"}]
    BY <1>3 DEF Listed, MarketListed
  <2>2. T \subseteq {"get_market_chart", "get_coin_info"}
    BY DEF T
  <2>3. Needs(tool) = MarketNeeds(tool)
    BY <1>3 DEF Needs
  <2> QED
    BY <2>1, <2>2, <2>3 DEF MarketNeeds
<1>4. CASE kind = "executor"
  BY <1>4 DEF Listed, Needs, ExecutorListed, ExecutorNeeds
<1> QED
  BY <1>1, <1>2, <1>3, <1>4 DEF Kinds

LEMMA ResultsAreTold ==
    ASSUME kind \in Kinds, coins \in BOOLEAN, NEW line, "result" \in HandleRequest(line)
    PROVE  ToldOf(Listed, line)
<1>1. SUFFICES ASSUME line.method = "tools/call"
               PROVE  line.tool \in DOMAIN Listed /\ Listed[line.tool] \subseteq line.given
  BY DEF ToldOf
<1>2. HandleRequest(line) = IF line.mistyped THEN {"error"} ELSE CallTool(line.tool, line.given)
  BY <1>1 DEF HandleRequest
<1>3. "result" \in CallTool(line.tool, line.given)
  BY <1>2
<1>4. line.tool \in DOMAIN Listed /\ Needs(line.tool) \subseteq line.given
  BY <1>3 DEF CallTool
<1> QED
  BY <1>4, ListedAreNeeded

LEMMA OutcomesAre == \A line : HandleRequest(line) \subseteq {"result", "error", "unencodable"}
BY DEF HandleRequest, CallTool

\* What is listed, and what may be sent, is as the server was started.
LEMMA ListStays ==
    ASSUME kind' = kind, coins' = coins
    PROVE  Listed' = Listed /\ Lines' = Lines
<1>1. Listed' = Listed
  BY DEF Listed, MarketListed
<1>2. Calls' = Calls
  BY <1>1 DEF Calls
<1> QED
  BY <1>1, <1>2 DEF Lines

\* Lines that were read stay as they were read.
LEMMA SendKeeps ==
    ASSUME ServerInv, NEW line \in Lines, Send(line)
    PROVE  ServerInv'
<1>1. /\ kind' = kind /\ coins' = coins /\ read' = read /\ answers' = answers /\ server' = server
      /\ closed' = closed /\ sent' = Append(sent, line)
  BY DEF Send
<1>2. /\ kind \in Kinds /\ coins \in BOOLEAN /\ closed \in BOOLEAN /\ server \in Server
      /\ sent \in Seq(Lines) /\ read \in 0 .. Len(sent) /\ answers \in Seq(Written)
  BY DEF ServerInv
<1>3. Listed' = Listed /\ Lines' = Lines
  BY <1>1, ListStays
<1>4. sent' \in Seq(Lines) /\ Len(sent') = Len(sent) + 1 /\ \A i \in 1 .. Len(sent) : sent'[i] = sent[i]
  <2> HIDE DEF Lines
  <2> QED
    BY <1>1, <1>2
<1>5. \A i \in 1 .. read : sent'[i] = sent[i]
  BY <1>2, <1>4
<1>6. Fitting(kind, sent', read) = Fitting(kind, sent, read)
  BY <1>5 DEF Fitting
<1>7. \A i \in DOMAIN answers : sent'[answers[i].request] = sent[answers[i].request]
  BY <1>5 DEF ServerInv, InOrder, Fitting
<1>8. InOrder(Fitting(kind', sent', read'), answers', read', server', closed')
  BY <1>1, <1>6 DEF ServerInv
<1>9. \A i \in DOMAIN answers' : answers'[i].outcome = "result" => ToldOf(Listed', sent'[answers'[i].request])
  BY <1>1, <1>3, <1>7 DEF ServerInv
<1>10. sent' \in Seq(Lines') /\ read' \in 0 .. Len(sent')
  BY <1>1, <1>2, <1>3, <1>4
<1> QED
  BY <1>1, <1>2, <1>8, <1>9, <1>10 DEF ServerInv

LEMMA ReadKeeps == ASSUME ServerInv, ReadRequest PROVE ServerInv'
<1>1. /\ kind' = kind /\ coins' = coins /\ answers' = answers /\ closed' = closed /\ sent' = sent
      /\ server = "reads" /\ read < Len(sent) /\ read' = read + 1
  BY DEF ReadRequest
<1>2. /\ kind \in Kinds /\ coins \in BOOLEAN /\ closed \in BOOLEAN
      /\ sent \in Seq(Lines) /\ read \in 0 .. Len(sent) /\ answers \in Seq(Written)
  BY DEF ServerInv
<1>3. Listed' = Listed /\ Lines' = Lines
  BY <1>1, ListStays
<1>4. read \in Nat /\ read' \in 0 .. Len(sent)
  BY <1>1, <1>2
<1> DEFINE line == sent[read']
           F == Fitting(kind, sent, read)
           G == Fitting(kind, sent, read')
           D == {answers[i].request : i \in DOMAIN answers}
<1>5. server' = IF line.method = "notJSON" THEN "spins" ELSE IF Undecodable(line) THEN "reads" ELSE "handles"
  <2>1. server' = CASE line.method = "notJSON" -> "spins" [] Undecodable(line) -> "reads" [] OTHER -> "handles"
    BY Zenon DEF ReadRequest
  <2>2. ~ (line.method = "notJSON" /\ Undecodable(line))
    BY DEF Undecodable
  <2> HIDE DEF line
  <2> QED
    BY <2>1, <2>2
<1>6. server' \in Server /\ (server' = "handles" <=> Fit(kind, line)) /\ server' # "ended"
  BY <1>5, FitIs DEF Server
<1>7. G = IF Fit(kind, line) THEN F \cup {read'} ELSE F
  <2>1. 1 .. read' = (1 .. read) \cup {read'}
    BY <1>1, <1>4
  <2> QED
    BY <2>1 DEF Fitting
<1>8. /\ \A i \in DOMAIN answers : answers[i].request \in F
      /\ \A i, j \in DOMAIN answers : i < j => answers[i].request < answers[j].request
      /\ F \ D = {}
  BY <1>1 DEF ServerInv, InOrder
<1>9. D \subseteq F /\ read' \notin F
  BY <1>1, <1>4, <1>8 DEF Fitting
<1>10. G \ D = IF server' = "handles" THEN {read'} ELSE {}
  BY <1>6, <1>7, <1>8, <1>9
<1>11. InOrder(G, answers, read', server', closed)
  BY <1>6, <1>7, <1>8, <1>10 DEF InOrder
<1> HIDE DEF line, F, G, D
<1>12. InOrder(Fitting(kind', sent', read'), answers', read', server', closed')
  BY <1>1, <1>11 DEF G
<1>13. \A i \in DOMAIN answers' : answers'[i].outcome = "result" => ToldOf(Listed', sent'[answers'[i].request])
  BY <1>1, <1>3 DEF ServerInv
<1> QED
  BY <1>1, <1>2, <1>3, <1>4, <1>6, <1>12, <1>13 DEF ServerInv

LEMMA RespondKeeps == ASSUME ServerInv, Respond PROVE ServerInv'
<1>1. /\ kind' = kind /\ coins' = coins /\ closed' = closed /\ sent' = sent /\ read' = read /\ server = "handles"
  BY DEF Respond
<1>2. /\ kind \in Kinds /\ coins \in BOOLEAN /\ closed \in BOOLEAN
      /\ sent \in Seq(Lines) /\ read \in 0 .. Len(sent) /\ answers \in Seq(Written)
  BY DEF ServerInv
<1>3. Listed' = Listed /\ Lines' = Lines
  BY <1>1, ListStays
<1> DEFINE F == Fitting(kind, sent, read)
           D == {answers[i].request : i \in DOMAIN answers}
<1>4. /\ \A i \in DOMAIN answers : answers[i].request \in F
      /\ \A i, j \in DOMAIN answers : i < j => answers[i].request < answers[j].request
      /\ F \ D = {read} /\ F \subseteq 1 .. read
  BY <1>1 DEF ServerInv, InOrder, Fitting
<1>5. PICK outcome \in HandleRequest(sent[read]) :
         IF outcome = "unencodable" THEN server' = "ended" /\ answers' = answers
         ELSE /\ answers' = Append(answers, [request |-> read, outcome |-> outcome])
              /\ server' = "reads"
  BY DEF Respond
<1>6. CASE outcome = "unencodable"
  <2>1. InOrder(F, answers, read, "ended", closed)
    BY <1>4 DEF InOrder
  <2>2. InOrder(Fitting(kind', sent', read'), answers', read', server', closed')
    BY <1>1, <1>5, <1>6, <2>1
  <2>3. \A i \in DOMAIN answers' : answers'[i].outcome = "result" => ToldOf(Listed', sent'[answers'[i].request])
    BY <1>1, <1>3, <1>5, <1>6 DEF ServerInv
  <2> QED
    BY <1>1, <1>2, <1>3, <1>5, <1>6, <2>2, <2>3 DEF ServerInv, Server
<1>7. CASE outcome # "unencodable"
  <2> DEFINE new == [request |-> read, outcome |-> outcome]
             A == Append(answers, new)
  <2>1. answers' = A /\ server' = "reads"
    BY <1>5, <1>7
  <2>2. outcome \in {"result", "error"}
    BY <1>5, <1>7, OutcomesAre
  <2>3. read \in F /\ read \in Nat \ {0} /\ \A i \in DOMAIN answers : answers[i].request # read /\ answers[i].request < read
    <3>1. read \in F \ D
      BY <1>4
    <3>2. read \in Nat \ {0}
      BY <1>2, <1>4, <3>1
    <3>3. \A i \in DOMAIN answers : answers[i].request \in 1 .. read /\ answers[i].request # read
      BY <1>4, <3>1
    <3> QED
      BY <3>1, <3>2, <3>3
  <2>4. new \in Written /\ new.request = read /\ new.outcome = outcome
    BY <2>2, <2>3 DEF Written
  <2>5. PICK k \in Nat : k = Len(answers) /\ DOMAIN answers = 1 .. k
    BY <1>2
  <2> HIDE DEF new
  <2>6. A \in Seq(Written) /\ DOMAIN A = 1 .. k + 1 /\ A[k + 1] = new /\ \A i \in 1 .. k : A[i] = answers[i]
    BY <1>2, <2>4, <2>5
  <2> HIDE DEF A
  <2>7. \A i \in DOMAIN A : A[i].request \in F
    <3>1. \A i \in DOMAIN A : i \in 1 .. k \/ i = k + 1
      BY <2>6
    <3> QED
      BY <1>4, <2>3, <2>4, <2>5, <2>6, <3>1
  <2>8. \A i, j \in DOMAIN A : i < j => A[i].request < A[j].request
    <3>1. SUFFICES ASSUME NEW i \in DOMAIN A, NEW j \in DOMAIN A, i < j PROVE A[i].request < A[j].request
      OBVIOUS
    <3>2. i \in 1 .. k /\ (j \in 1 .. k \/ j = k + 1)
      BY <2>6, <3>1
    <3>3. CASE j \in 1 .. k
      BY <1>4, <2>5, <2>6, <3>1, <3>2, <3>3
    <3>4. CASE j = k + 1
      BY <2>3, <2>4, <2>5, <2>6, <3>2, <3>4
    <3> QED
      BY <3>2, <3>3, <3>4
  <2>9. F \ {A[i].request : i \in DOMAIN A} = {}
    <3>1. k + 1 \in DOMAIN A /\ A[k + 1].request = read
      BY <2>4, <2>6
    <3>2. \A i \in DOMAIN answers : i \in DOMAIN A /\ A[i].request = answers[i].request
      BY <2>5, <2>6
    <3> QED
      BY <1>4, <3>1, <3>2
  <2>10. InOrder(F, A, read, "reads", closed)
    BY <2>7, <2>8, <2>9 DEF InOrder
  <2>11. InOrder(Fitting(kind', sent', read'), answers', read', server', closed')
    BY <1>1, <2>1, <2>10
  <2>12. outcome = "result" => ToldOf(Listed, sent[read])
    BY <1>2, <1>5, ResultsAreTold
  <2>13. \A i \in DOMAIN A : A[i].outcome = "result" => ToldOf(Listed, sent[A[i].request])
    <3>1. \A i \in DOMAIN answers : answers[i].outcome = "result" => ToldOf(Listed, sent[answers[i].request])
      BY DEF ServerInv
    <3>2. \A i \in DOMAIN A : i = k + 1 \/ (i \in DOMAIN answers /\ A[i] = answers[i])
      BY <2>5, <2>6
    <3> QED
      BY <2>4, <2>6, <2>12, <3>1, <3>2
  <2>14. \A i \in DOMAIN answers' : answers'[i].outcome = "result" => ToldOf(Listed', sent'[answers'[i].request])
    BY <1>1, <1>3, <2>1, <2>13
  <2>15. answers' \in Seq(Written) /\ server' \in Server
    BY <2>1, <2>6 DEF Server
  <2> QED
    BY <1>1, <1>2, <1>3, <2>11, <2>14, <2>15 DEF ServerInv
<1> QED
  BY <1>6, <1>7

LEMMA ServerStep == ASSUME ServerInv, ServerNext \/ UNCHANGED server_vars PROVE ServerInv'
<1>1. CASE UNCHANGED server_vars \/ Close \/ EndOfInput
  <2>1. /\ kind' = kind /\ coins' = coins /\ sent' = sent /\ read' = read /\ answers' = answers
        /\ (server' = server \/ (server = "reads" /\ server' = "ended" /\ closed))
        /\ (closed' = closed \/ closed' = TRUE)
    BY <1>1 DEF server_vars, Close, EndOfInput
  <2>2. Listed' = Listed /\ Lines' = Lines
    BY <2>1, ListStays
  <2>3. closed' \in BOOLEAN /\ server' \in Server /\ (closed => closed')
    <3>1. closed \in BOOLEAN /\ server \in Server
      BY DEF ServerInv
    <3>2. server' \in Server
      BY <2>1, <3>1 DEF Server
    <3> QED
      BY <2>1, <3>1, <3>2, Zenon
  <2>4. InOrder(Fitting(kind, sent, read), answers, read, server', closed')
    BY <2>1, <2>3 DEF ServerInv, InOrder
  <2>5. InOrder(Fitting(kind', sent', read'), answers', read', server', closed')
    BY <2>1, <2>4
  <2> QED
    BY <2>1, <2>2, <2>3, <2>5 DEF ServerInv
<1> QED
  BY <1>1, SendKeeps, ReadKeeps, RespondKeeps DEF ServerNext

-----------------------------------------------------------------------------
(* The two price caches.                                                   *)

Kept == [price : 0 .. MaxTicks, expires : 1 .. MaxTicks + OuterTTL + InnerTTL] \cup {None}
AskedFor == [at : {"idle", "waits"}] \cup [at : {"done"}, got : {Failed} \cup 0 .. MaxTicks, when : 0 .. MaxTicks]
Starting == [at : {"fetches"}, leader : Askers]
Storing == [at : {"stores"}, leader : Askers, price : 0 .. MaxTicks]

FreshFor(entry, life) == entry # None => entry.expires <= entry.price + life

\* A price to be stored is younger than the inner lifetime, but for the tick that storing takes.
UnderWay ==
    /\ IF flight # None /\ flight.at = "stores" THEN now < flight.price + InnerTTL + since ELSE since = 0
    /\ flight # None => asker[flight.leader].at = "waits"
    /\ \A a \in Askers : asker[a].at = "waits" => flight # None

PriceInv ==
    /\ now \in 0 .. MaxTicks /\ outer \in Kept /\ inner \in Kept
    /\ asker \in [Askers -> AskedFor] /\ flight \in {None} \cup Starting \cup Storing
    /\ since \in {0, 1} /\ questions \in 0 .. MaxAsks /\ lastError \in BOOLEAN
    /\ FreshFor(inner, InnerTTL) /\ FreshFor(outer, InnerTTL + OuterTTL)
    /\ UnderWay /\ Market!PricesAreFresh

LEMMA PricesShow == PriceInv => Market!PriceTypeOK /\ Market!PricesAreFresh /\ Market!WaitingForACall
<1> SUFFICES ASSUME PriceInv PROVE Market!PriceTypeOK /\ Market!PricesAreFresh /\ Market!WaitingForACall
  OBVIOUS
<1>1. Market!PriceTypeOK
  <2>1. asker \in [Askers -> [at : {"idle", "waits"}] \cup
                     [at : {"done"}, got : {Failed} \cup 0 .. MaxTicks, when : 0 .. MaxTicks]]
    BY Zenon DEF PriceInv, AskedFor
  <2>2. /\ flight \in {None} \cup [at : {"fetches"}, leader : Askers] \cup
                        [at : {"stores"}, leader : Askers, price : 0 .. MaxTicks]
        /\ lastError \in BOOLEAN
    BY Zenon DEF PriceInv, Starting, Storing
  <2>3. now \in 0 .. MaxTicks /\ outer \in Market!Entry \cup {None} /\ inner \in Market!Entry \cup {None}
    BY Zenon DEF PriceInv, Kept, Market!Entry
  <2>4. since \in 0 .. 1 /\ questions \in 0 .. MaxAsks
    BY DEF PriceInv
  <2> QED
    BY <2>1, <2>2, <2>3, <2>4, Zenon DEF Market!PriceTypeOK
<1>2. Market!WaitingForACall
  <2>1. flight # None => flight.leader \in Askers
    BY DEF PriceInv, Starting, Storing
  <2>2. /\ flight # None => asker[flight.leader].at = "waits"
        /\ \A a \in Askers : asker[a].at = "waits" => flight # None
    BY Zenon DEF PriceInv, UnderWay
  <2> QED
    BY <2>1, <2>2, Zenon DEF Market!WaitingForACall
<1> QED
  BY <1>1, <1>2, Zenon DEF PriceInv

LEMMA PricesBegin == ASSUME Market!PriceAssumption, Market!PriceInit PROVE PriceInv
<1>1. /\ now = 0 /\ outer = None /\ inner = None /\ flight = None /\ since = 0 /\ questions = 0 /\ lastError = FALSE
      /\ asker = [a \in Askers |-> [at |-> "idle"]]
  BY Zenon DEF Market!PriceInit
<1>2. MaxTicks \in Nat /\ MaxAsks \in Nat
  BY Zenon DEF Market!PriceAssumption
<1>3. asker \in [Askers -> AskedFor] /\ \A a \in Askers : asker[a].at = "idle"
  BY <1>1 DEF AskedFor
<1>4. UnderWay /\ Market!PricesAreFresh
  BY <1>1, <1>3 DEF UnderWay, Market!PricesAreFresh
<1>5. now \in 0 .. MaxTicks /\ questions \in 0 .. MaxAsks /\ since \in {0, 1}
  BY <1>1, <1>2
<1>6. outer \in Kept /\ inner \in Kept /\ FreshFor(inner, InnerTTL) /\ FreshFor(outer, InnerTTL + OuterTTL)
  BY <1>1, Zenon DEF Kept, FreshFor
<1>7. flight \in {None} \cup Starting \cup Storing /\ lastError \in BOOLEAN
  BY <1>1, Zenon
<1> QED
  BY <1>3, <1>4, <1>5, <1>6, <1>7, Zenon DEF PriceInv

\* A cache takes a price for its lifetime, or keeps what it had.
LEMMA StoredIsFresh ==
    ASSUME NEW price \in 0 .. MaxTicks, NEW ttl \in Nat, NEW life \in Nat, NEW entry \in Kept, NEW new,
           now \in 0 .. MaxTicks, MaxTicks \in Nat, OuterTTL \in Nat \ {0}, InnerTTL \in Nat \ {0},
           Market!CacheSet(entry, new, price, ttl), FreshFor(entry, life),
           now + ttl <= price + life, ttl \in 1 .. OuterTTL + InnerTTL
    PROVE  new \in Kept /\ FreshFor(new, life)
<1>1. CASE new = entry
  BY <1>1, Zenon
<1>2. CASE new = [price |-> price, expires |-> now + ttl]
  <2>1. now + ttl \in 1 .. MaxTicks + OuterTTL + InnerTTL
    OBVIOUS
  <2>2. new \in [price : 0 .. MaxTicks, expires : 1 .. MaxTicks + OuterTTL + InnerTTL]
    BY <1>2, <2>1
  <2>3. new.expires = now + ttl /\ new.price = price
    BY <1>2
  <2> QED
    BY <2>2, <2>3 DEF Kept, FreshFor
<1> QED
  BY <1>1, <1>2 DEF Market!CacheSet

LEMMA GetPriceKeeps ==
    ASSUME PriceInv, Market!PriceAssumption, NEW a \in Askers, Market!GetPrice(a)
    PROVE  PriceInv'
<1>1. /\ asker[a].at = "idle" /\ questions < MaxAsks /\ questions' = questions + 1
      /\ now' = now /\ outer' = outer /\ inner' = inner /\ since' = since /\ lastError' = lastError
  BY Zenon DEF Market!GetPrice
<1>2. PriceInv /\ OuterTTL \in Nat \ {0} /\ InnerTTL \in Nat \ {0} /\ MaxAsks \in Nat /\ MaxTicks \in Nat
  BY Zenon DEF Market!PriceAssumption
<1>3. /\ now \in 0 .. MaxTicks /\ outer \in Kept /\ inner \in Kept /\ since \in {0, 1} /\ questions \in 0 .. MaxAsks
      /\ asker \in [Askers -> AskedFor] /\ flight \in {None} \cup Starting \cup Storing /\ lastError \in BOOLEAN
      /\ FreshFor(inner, InnerTTL) /\ FreshFor(outer, InnerTTL + OuterTTL)
      /\ UnderWay /\ Market!PricesAreFresh
  BY Zenon DEF PriceInv
<1>4. questions' \in 0 .. MaxAsks
  BY <1>1, <1>2, <1>3
<1>5. CASE Market!Hit(outer) /\ asker' = [asker EXCEPT ![a] = Market!Got(outer.price)] /\ flight' = flight
  <2>1. outer # None /\ now < outer.expires
    BY <1>5, Zenon DEF Market!Hit
  <2>2. PICK price \in 0 .. MaxTicks : price = outer.price /\ now < price + (InnerTTL + OuterTTL)
    BY <1>2, <1>3, <2>1 DEF Kept, FreshFor
  <2> DEFINE r == [at |-> "done", got |-> price, when |-> now]
  <2>3. asker' = [asker EXCEPT ![a] = r]
    BY <1>5, <2>2, Zenon DEF Market!Got
  <2>4. r \in AskedFor /\ r.at = "done" /\ r.got = price /\ r.when = now
    BY <1>3 DEF AskedFor
  <2> HIDE DEF r
  <2>5. asker' \in [Askers -> AskedFor] /\ \A b \in Askers : asker'[b] = IF b = a THEN r ELSE asker[b]
    BY <1>3, <2>3, <2>4
  <2>6. Market!PricesAreFresh'
    BY <1>2, <1>3, <2>2, <2>4, <2>5 DEF Market!PricesAreFresh
  <2>7. flight # None => flight.leader \in Askers /\ flight.leader # a
    BY <1>1, <1>3 DEF UnderWay, Starting, Storing
  <2>8. UnderWay'
    <3>1. flight' # None => asker'[flight'.leader].at = "waits"
      BY <1>3, <1>5, <2>5, <2>7 DEF UnderWay
    <3>2. \A b \in Askers : asker'[b].at = "waits" => flight' # None
      BY <1>3, <1>5, <2>4, <2>5 DEF UnderWay
    <3> QED
      BY <1>1, <1>3, <1>5, <3>1, <3>2 DEF UnderWay
  <2> QED
    BY <1>1, <1>3, <1>4, <1>5, <2>5, <2>6, <2>8 DEF PriceInv, FreshFor
<1>6. CASE /\ asker' = [asker EXCEPT ![a] = [at |-> "waits"]]
           /\ flight' = IF flight = None THEN [at |-> "fetches", leader |-> a] ELSE flight
  <2> DEFINE r == [at |-> "waits"]
             call == [at |-> "fetches", leader |-> a]
  <2>1. r \in AskedFor /\ r.at = "waits" /\ call \in Starting /\ call.leader = a /\ call.at = "fetches"
    BY DEF AskedFor, Starting
  <2>2. call # None
    BY <2>1 DEF Starting, Market!PriceAssumption
  <2>3. asker' = [asker EXCEPT ![a] = r] /\ flight' = IF flight = None THEN call ELSE flight
    BY <1>6
  <2> HIDE DEF r, call
  <2>4. asker' \in [Askers -> AskedFor] /\ \A b \in Askers : asker'[b] = IF b = a THEN r ELSE asker[b]
    BY <1>3, <2>1, <2>3
  <2>5. Market!PricesAreFresh'
    BY <1>2, <1>3, <2>1, <2>4 DEF Market!PricesAreFresh
  <2>6. flight' \in {None} \cup Starting \cup Storing /\ flight' # None
    BY <1>3, <2>1, <2>2, <2>3
  <2>7. UnderWay'
    <3>1. flight # None => flight.leader \in Askers /\ flight.leader # a
      BY <1>1, <1>3 DEF UnderWay, Starting, Storing
    <3>2. asker'[flight'.leader].at = "waits"
      BY <1>3, <2>1, <2>3, <2>4, <3>1 DEF UnderWay
    <3>3. IF flight' # None /\ flight'.at = "stores" THEN now < flight'.price + InnerTTL + since ELSE since = 0
      BY <1>3, <2>1, <2>3 DEF UnderWay
    <3> QED
      BY <1>1, <2>6, <3>2, <3>3 DEF UnderWay
  <2> QED
    BY <1>1, <1>3, <1>4, <2>4, <2>5, <2>6, <2>7 DEF PriceInv, FreshFor
<1> QED
  BY <1>5, <1>6, Zenon DEF Market!GetPrice

LEMMA LeaveKeeps ==
    ASSUME PriceInv, Market!PriceAssumption, NEW a \in Askers, Market!Leave(a)
    PROVE  PriceInv'
<1>1. /\ asker[a].at = "done" /\ asker' = [asker EXCEPT ![a] = [at |-> "idle"]] /\ questions' = questions
      /\ now' = now /\ outer' = outer /\ inner' = inner /\ since' = since /\ lastError' = lastError /\ flight' = flight
  BY Zenon DEF Market!Leave
<1>2. /\ now \in 0 .. MaxTicks /\ outer \in Kept /\ inner \in Kept /\ since \in {0, 1} /\ questions \in 0 .. MaxAsks
      /\ asker \in [Askers -> AskedFor] /\ flight \in {None} \cup Starting \cup Storing /\ lastError \in BOOLEAN
      /\ FreshFor(inner, InnerTTL) /\ FreshFor(outer, InnerTTL + OuterTTL)
      /\ UnderWay /\ Market!PricesAreFresh
  BY Zenon DEF PriceInv
<1> DEFINE r == [at |-> "idle"]
<1>3. r \in AskedFor /\ r.at = "idle" /\ asker' = [asker EXCEPT ![a] = r]
  BY <1>1 DEF AskedFor
<1> HIDE DEF r
<1>4. asker' \in [Askers -> AskedFor] /\ \A b \in Askers : asker'[b] = IF b = a THEN r ELSE asker[b]
  BY <1>2, <1>3
<1>5. Market!PricesAreFresh'
  BY <1>2, <1>3, <1>4 DEF Market!PricesAreFresh
<1>6. flight # None => flight.leader \in Askers /\ flight.leader # a
  BY <1>1, <1>2 DEF UnderWay, Starting, Storing
<1>7. UnderWay'
  <2>1. flight' # None => asker'[flight'.leader].at = "waits"
    BY <1>1, <1>2, <1>4, <1>6 DEF UnderWay
  <2>2. \A b \in Askers : asker'[b].at = "waits" => flight' # None
    BY <1>1, <1>2, <1>3, <1>4 DEF UnderWay
  <2> QED
    BY <1>1, <1>2, <2>1, <2>2 DEF UnderWay
<1> QED
  BY <1>1, <1>2, <1>4, <1>5, <1>7 DEF PriceInv, FreshFor

\* All who wait get the same answer, and none waits any longer.
LEMMA AllAreAnswered ==
    ASSUME PriceInv, Market!PriceAssumption, NEW x \in {Failed} \cup 0 .. MaxTicks, Market!Answer(x),
           flight' = None, since' = 0, now' = now,
           x # Failed => x + OuterTTL + InnerTTL > now
    PROVE  asker' \in [Askers -> AskedFor] /\ UnderWay' /\ Market!PricesAreFresh'
<1> DEFINE r == [at |-> "done", got |-> x, when |-> now]
<1>1. /\ now \in 0 .. MaxTicks /\ asker \in [Askers -> AskedFor] /\ Market!PricesAreFresh
  BY Zenon DEF PriceInv
<1>2. r \in AskedFor /\ r.at = "done" /\ r.got = x /\ r.when = now
  BY <1>1 DEF AskedFor
<1>3. asker' = [a \in Askers |-> IF asker[a].at = "waits" THEN r ELSE asker[a]]
  BY Zenon DEF Market!Answer, Market!Got
<1> HIDE DEF r
<1>4. asker' \in [Askers -> AskedFor] /\ \A a \in Askers : asker'[a] = IF asker[a].at = "waits" THEN r ELSE asker[a]
  BY <1>1, <1>2, <1>3
<1>5. UnderWay'
  BY <1>2, <1>4 DEF UnderWay
<1>6. Market!PricesAreFresh'
  BY <1>1, <1>2, <1>4 DEF Market!PricesAreFresh
<1> QED
  BY <1>4, <1>5, <1>6

\* The inner cache may be given a price at any time, or lose it.
LEMMA InnerKeeps ==
    ASSUME PriceInv, Market!PriceAssumption, inner' = None \/ Market!CacheSet(inner, inner', now, InnerTTL)
    PROVE  inner' \in Kept /\ FreshFor(inner', InnerTTL)
<1>1. /\ now \in 0 .. MaxTicks /\ inner \in Kept /\ FreshFor(inner, InnerTTL)
      /\ OuterTTL \in Nat \ {0} /\ InnerTTL \in Nat \ {0} /\ MaxTicks \in Nat
  BY Zenon DEF PriceInv, Market!PriceAssumption
<1>2. CASE inner' = None
  BY <1>2, Zenon DEF Kept, FreshFor
<1>3. CASE Market!CacheSet(inner, inner', now, InnerTTL)
  <2>1. InnerTTL \in Nat /\ InnerTTL \in 1 .. OuterTTL + InnerTTL /\ now + InnerTTL <= now + InnerTTL
    BY <1>1
  <2> QED
    BY <1>1, <1>3, <2>1, StoredIsFresh
<1> QED
  BY <1>2, <1>3

LEMMA FetchKeeps == ASSUME PriceInv, Market!PriceAssumption, Market!Fetch PROVE PriceInv'
<1>1. /\ now \in 0 .. MaxTicks /\ outer \in Kept /\ inner \in Kept /\ since \in {0, 1} /\ questions \in 0 .. MaxAsks
      /\ asker \in [Askers -> AskedFor] /\ flight \in {None} \cup Starting \cup Storing /\ lastError \in BOOLEAN
      /\ FreshFor(inner, InnerTTL) /\ FreshFor(outer, InnerTTL + OuterTTL)
      /\ UnderWay /\ Market!PricesAreFresh
  BY Zenon DEF PriceInv
<1>2. OuterTTL \in Nat \ {0} /\ InnerTTL \in Nat \ {0} /\ MaxTicks \in Nat
  BY Zenon DEF Market!PriceAssumption
<1>3. /\ flight # None /\ flight.at = "fetches" /\ outer' = outer /\ now' = now /\ since' = since
      /\ questions' = questions
  BY DEF Market!Fetch, Market!Fetching, Market!FetchFromCache, Market!FetchFromCoinGecko, Market!FetchFails
<1>4. flight \in Starting /\ flight.leader \in Askers /\ since = 0
  BY <1>1, <1>3 DEF Starting, Storing, UnderWay
<1>5. CASE Market!FetchFails
  <2>1. flight' = None /\ Market!Answer(Failed) /\ lastError' = TRUE /\ inner' = inner /\ since' = 0
    BY <1>3, <1>4, <1>5, Zenon DEF Market!FetchFails
  <2>2. Failed \in {Failed} \cup 0 .. MaxTicks /\ (Failed # Failed => Failed + OuterTTL + InnerTTL > now)
    OBVIOUS
  <2>3. asker' \in [Askers -> AskedFor] /\ UnderWay' /\ Market!PricesAreFresh'
    BY <1>3, <2>1, <2>2, AllAreAnswered
  <2>4. flight' \in {None} \cup Starting \cup Storing /\ lastError' \in BOOLEAN
    BY <2>1, Zenon
  <2> QED
    BY <1>1, <1>3, <2>1, <2>3, <2>4, Zenon DEF PriceInv, FreshFor
<1>6. ASSUME NEW price \in 0 .. MaxTicks, Market!ToStore(price), asker' = asker, now < price + InnerTTL,
             inner' \in Kept, FreshFor(inner', InnerTTL), lastError' \in BOOLEAN
      PROVE  PriceInv'
  <2> DEFINE call == [at |-> "stores", leader |-> flight.leader, price |-> price]
  <2>1. flight' = call
    BY <1>6, Zenon DEF Market!ToStore
  <2>2. call \in Storing /\ call.at = "stores" /\ call.leader = flight.leader /\ call.price = price
    BY <1>4 DEF Storing
  <2>3. call # None
    BY <2>2, Zenon DEF Storing, Market!PriceAssumption
  <2> HIDE DEF call
  <2>4. UnderWay'
    <3>1. asker[flight.leader].at = "waits"
      BY <1>1, <1>3, Zenon DEF UnderWay
    <3>2. now < price + InnerTTL + since
      BY <1>1, <1>2, <1>4, <1>6
    <3> QED
      BY <1>3, <1>6, <2>1, <2>2, <2>3, <3>1, <3>2 DEF UnderWay
  <2>5. Market!PricesAreFresh'
    BY <1>1, <1>6, Zenon DEF Market!PricesAreFresh
  <2>6. flight' \in {None} \cup Starting \cup Storing
    BY <2>1, <2>2, Zenon
  <2> QED
    BY <1>1, <1>3, <1>6, <2>4, <2>5, <2>6, Zenon DEF PriceInv, FreshFor
<1>7. CASE Market!FetchFromCache
  <2>1. /\ Market!Hit(inner) /\ Market!ToStore(inner.price) /\ inner' = inner /\ asker' = asker
        /\ lastError' = lastError
    BY <1>7, Zenon DEF Market!FetchFromCache
  <2>2. inner # None /\ now < inner.expires
    BY <2>1, Zenon DEF Market!Hit
  <2>3. PICK price \in 0 .. MaxTicks : price = inner.price /\ now < price + InnerTTL
    BY <1>1, <1>2, <2>2 DEF Kept, FreshFor
  <2>4. Market!ToStore(price) /\ lastError' \in BOOLEAN /\ inner' \in Kept /\ FreshFor(inner', InnerTTL)
    BY <1>1, <2>1, <2>3, Zenon DEF FreshFor
  <2> QED
    BY <1>6, <2>1, <2>3, <2>4, Zenon
<1>8. CASE Market!FetchFromCoinGecko
  <2>1. /\ Market!ToStore(now) /\ Market!CacheSet(inner, inner', now, InnerTTL) /\ lastError' = FALSE
        /\ asker' = asker
    BY <1>8, Zenon DEF Market!FetchFromCoinGecko
  <2>2. inner' \in Kept /\ FreshFor(inner', InnerTTL) /\ lastError' \in BOOLEAN
    BY <2>1, InnerKeeps, Zenon
  <2>3. now < now + InnerTTL
    BY <1>1, <1>2
  <2> QED
    BY <1>1, <1>6, <2>1, <2>2, <2>3, Zenon
<1> QED
  BY <1>5, <1>7, <1>8, Zenon DEF Market!Fetch

LEMMA StoreKeeps == ASSUME PriceInv, Market!PriceAssumption, Market!Store PROVE PriceInv'
<1>1. /\ now \in 0 .. MaxTicks /\ outer \in Kept /\ inner \in Kept /\ since \in {0, 1} /\ questions \in 0 .. MaxAsks
      /\ flight \in {None} \cup Starting \cup Storing /\ lastError \in BOOLEAN
      /\ FreshFor(inner, InnerTTL) /\ FreshFor(outer, InnerTTL + OuterTTL) /\ UnderWay
  BY Zenon DEF PriceInv
<1>2. OuterTTL \in Nat \ {0} /\ InnerTTL \in Nat \ {0} /\ MaxTicks \in Nat
  BY Zenon DEF Market!PriceAssumption
<1>3. /\ flight # None /\ flight.at = "stores" /\ flight' = None /\ since' = 0
      /\ Market!CacheSet(outer, outer', flight.price, OuterTTL) /\ Market!Answer(flight.price)
      /\ inner' = inner /\ now' = now /\ questions' = questions /\ lastError' = lastError
  BY Zenon DEF Market!Store
<1>4. PICK price \in 0 .. MaxTicks : price = flight.price /\ now < price + InnerTTL + since
  <2>1. flight \in Storing
    BY <1>1, <1>3 DEF Starting
  <2> QED
    BY <1>1, <1>3, <2>1 DEF Storing, UnderWay
<1>5. /\ Market!CacheSet(outer, outer', price, OuterTTL) /\ Market!Answer(price)
  BY <1>3, <1>4, Zenon
<1>6. /\ now + OuterTTL <= price + (InnerTTL + OuterTTL) /\ price + OuterTTL + InnerTTL > now
      /\ InnerTTL + OuterTTL \in Nat /\ OuterTTL \in Nat /\ OuterTTL \in 1 .. OuterTTL + InnerTTL
  BY <1>1, <1>2, <1>4
<1>7. outer' \in Kept /\ FreshFor(outer', InnerTTL + OuterTTL)
  BY <1>1, <1>2, <1>5, <1>6, StoredIsFresh
<1>8. asker' \in [Askers -> AskedFor] /\ UnderWay' /\ Market!PricesAreFresh'
  BY <1>3, <1>5, <1>6, AllAreAnswered
<1>9. since' \in {0, 1} /\ flight' \in {None} \cup Starting \cup Storing
  BY <1>3, Zenon
<1> QED
  BY <1>1, <1>3, <1>7, <1>8, <1>9, Zenon DEF PriceInv, FreshFor

\* What happens to the entries is not of the goroutines' making.
LEMMA EntriesKeep ==
    ASSUME PriceInv, Market!PriceAssumption, Market!InvalidateCache \/ Market!Clear \/ Market!Health
    PROVE  PriceInv'
<1>1. /\ now' = now /\ asker' = asker /\ flight' = flight /\ since' = since /\ questions' = questions
      /\ (outer' = outer \/ outer' = None) /\ (lastError' = lastError \/ lastError' = TRUE)
      /\ inner' = inner \/ inner' = None \/ Market!CacheSet(inner, inner', now, InnerTTL)
  BY Zenon DEF Market!InvalidateCache, Market!Clear, Market!Health
<1>2. inner' \in Kept /\ FreshFor(inner', InnerTTL)
  <2>1. CASE inner' = inner
    BY <2>1, Zenon DEF PriceInv
  <2> QED
    BY <1>1, <2>1, InnerKeeps, Zenon
<1>3. outer' \in Kept /\ FreshFor(outer', InnerTTL + OuterTTL) /\ lastError' \in BOOLEAN
  BY <1>1, Zenon DEF PriceInv, Kept, FreshFor
<1>4. UnderWay' /\ Market!PricesAreFresh'
  BY <1>1, Zenon DEF PriceInv, UnderWay, Market!PricesAreFresh
<1> QED
  BY <1>1, <1>2, <1>3, <1>4, Zenon DEF PriceInv

LEMMA TickKeeps == ASSUME PriceInv, Market!PriceAssumption, Market!Tick PROVE PriceInv'
<1>1. /\ now < MaxTicks /\ now' = now + 1
      /\ (flight # None /\ flight.at = "stores" => since = 0)
      /\ since' = IF flight # None /\ flight.at = "stores" THEN 1 ELSE 0
      /\ outer' = outer /\ inner' = inner /\ asker' = asker /\ flight' = flight
      /\ questions' = questions /\ lastError' = lastError
  BY DEF Market!Tick
<1>2. now \in 0 .. MaxTicks /\ MaxTicks \in Nat /\ flight \in {None} \cup Starting \cup Storing /\ InnerTTL \in Nat
  BY Zenon DEF PriceInv, Market!PriceAssumption
<1>3. now' \in 0 .. MaxTicks /\ since' \in {0, 1}
  BY <1>1, <1>2
<1>4. UnderWay'
  <2>1. UnderWay
    BY Zenon DEF PriceInv
  <2>2. CASE flight # None /\ flight.at = "stores"
    <3>1. flight \in Storing
      BY <1>2, <2>2 DEF Starting
    <3>2. flight.price \in Nat
      BY <3>1 DEF Storing
    <3>3. now < flight.price + InnerTTL + since /\ since = 0 /\ since' = 1
      BY <1>1, <2>1, <2>2 DEF UnderWay
    <3>4. now' < flight.price + InnerTTL + since'
      BY <1>1, <1>2, <3>2, <3>3
    <3> QED
      BY <1>1, <2>1, <2>2, <3>4, Zenon DEF UnderWay
  <2>3. CASE ~ (flight # None /\ flight.at = "stores")
    BY <1>1, <2>1, <2>3, Zenon DEF UnderWay
  <2> QED
    BY <2>2, <2>3
<1>5. Market!PricesAreFresh'
  BY <1>1, Zenon DEF PriceInv, Market!PricesAreFresh
<1> QED
  BY <1>1, <1>3, <1>4, <1>5, Zenon DEF PriceInv, FreshFor

LEMMA PriceStep ==
    ASSUME PriceInv, Market!PriceAssumption, Market!PriceNext \/ UNCHANGED prices
    PROVE  PriceInv'
<1>1. CASE UNCHANGED prices
  <2>1. /\ now' = now /\ outer' = outer /\ inner' = inner /\ asker' = asker /\ flight' = flight /\ since' = since
        /\ questions' = questions /\ lastError' = lastError
    BY <1>1 DEF prices
  <2> QED
    BY <2>1, Zenon DEF PriceInv, FreshFor, UnderWay, Market!PricesAreFresh
<1> QED
  BY <1>1, GetPriceKeeps, LeaveKeeps, FetchKeeps, StoreKeeps, EntriesKeep, TickKeeps, Zenon DEF Market!PriceNext

-----------------------------------------------------------------------------
(* The synchronisation of candles.                                         *)

\* A set of natural numbers has a least element.
LEMMA Least ==
    ASSUME NEW N \in SUBSET Nat, N # {}
    PROVE  \E n \in N : \A m \in N : ~ (m < n)
<1>1. \E n \in N : \A m \in N : ~ (<<m, n>> \in OpToRel(<, Nat))
  BY NatLessThanWellFounded, WFMin
<1>2. \A m, n \in Nat : <<m, n>> \in OpToRel(<, Nat) <=> m < n
  BY DEF OpToRel
<1> QED
  BY <1>1, <1>2

LEMMA SyncGreatest == \A x, y \in Int : Sync!Max({x, y}) = IF x >= y THEN x ELSE y
<1> SUFFICES ASSUME NEW x \in Int, NEW y \in Int PROVE Sync!Max({x, y}) = IF x >= y THEN x ELSE y
  OBVIOUS
<1>0. PICK m : m = IF x >= y THEN x ELSE y
  OBVIOUS
<1>1. m \in {x, y} /\ \A z \in {x, y} : m >= z
  BY <1>0
<1>2. \A n \in {x, y} : (\A z \in {x, y} : n >= z) => n = m
  BY <1>1
<1> QED
  BY <1>0, <1>1, <1>2 DEF Sync!Max

LEMMA SyncSmallest == \A x, y \in Int : Sync!Min({x, y}) = IF x <= y THEN x ELSE y
<1> SUFFICES ASSUME NEW x \in Int, NEW y \in Int PROVE Sync!Min({x, y}) = IF x <= y THEN x ELSE y
  OBVIOUS
<1>0. PICK m : m = IF x <= y THEN x ELSE y
  OBVIOUS
<1>1. m \in {x, y} /\ \A z \in {x, y} : m <= z
  BY <1>0
<1>2. \A n \in {x, y} : (\A z \in {x, y} : n <= z) => n = m
  BY <1>1
<1> QED
  BY <1>0, <1>1, <1>2 DEF Sync!Min

LEMMA CandleHolds ==
    ASSUME NEW t \in Nat, Candle \in Nat \ {0}
    PROVE  /\ Sync!CandleOf(t) \in Nat /\ Sync!CandleOf(t) <= t
           /\ t \in Sync!PointsOf(Sync!CandleOf(t))
<1> DEFINE q == t \div Candle
<1>1. q \in Nat /\ t = q * Candle + (t % Candle) /\ t % Candle \in 0 .. Candle - 1
  OBVIOUS
<1>2. PICK p \in Nat : p = q * Candle
  BY <1>1
<1>3. q <= p
  BY <1>1, <1>2
<1> HIDE DEF q
<1>4. p <= t /\ t <= p + Candle - 1
  BY <1>1, <1>2
<1> QED
  BY <1>1, <1>2, <1>3, <1>4 DEF Sync!CandleOf, Sync!PointsOf, Sync!Start, q

Charts == {None} \cup [days : 1 .. MaxDays, at : Sync!Beginning .. MaxTime]

SyncInv ==
    /\ time \in Sync!Beginning .. MaxTime /\ chart \in Charts /\ service \in {"runs", "stopped", "panicked"}
    /\ DOMAIN table \subseteq 0 .. MaxTime
    /\ \A c \in DOMAIN table : table[c] # {} /\ table[c] \subseteq Sync!PointsOf(c)

LEMMA SyncShows == ASSUME SyncInv, Sync!SyncAssumption PROVE Sync!SyncTypeOK
<1>1. IsFiniteSet(DOMAIN table)
  <2>1. IsFiniteSet(0 .. MaxTime)
    BY FS_Interval DEF Sync!SyncAssumption
  <2> QED
    BY <2>1, FS_Subset, Zenon DEF SyncInv
<1>2. Sync!IsFiniteSet(DOMAIN table)
  BY <1>1 DEF IsFiniteSet, Sync!IsFiniteSet
<1>3. chart \in {None} \cup [days : 1 .. MaxDays, at : Sync!Beginning .. MaxTime]
  BY Zenon DEF SyncInv, Charts
<1> QED
  BY <1>2, <1>3, Zenon DEF SyncInv, Sync!SyncTypeOK

LEMMA SyncBegins == ASSUME Sync!SyncInit, Sync!SyncAssumption PROVE SyncInv
<1>1. time = Sync!Beginning /\ table = <<>> /\ chart = None /\ service = "runs"
  BY Zenon DEF Sync!SyncInit
<1>2. DOMAIN table = {}
  BY <1>1
<1>3. Sync!Beginning \in Nat /\ Sync!Beginning <= MaxTime /\ MaxTime \in Nat
  BY DEF Sync!SyncAssumption, Sync!Beginning
<1>4. time \in Sync!Beginning .. MaxTime
  BY <1>1, <1>3
<1> QED
  BY <1>1, <1>2, <1>4, Zenon DEF SyncInv, Charts

\* A set of numbers of candles has a last one.
LEMMA LastIsOne ==
    ASSUME NEW S, S # {}, S \subseteq 0 .. MaxTime, MaxTime \in Nat
    PROVE  Sync!Max(S) \in S /\ \A c \in S : c <= Sync!Max(S)
<1> DEFINE T == {n \in Nat : MaxTime - n \in S}
<1>1. PICK n \in T : \A k \in T : ~ (k < n)
  <2>1. PICK c \in S : TRUE
    OBVIOUS
  <2>2. MaxTime - c \in Nat /\ MaxTime - (MaxTime - c) = c
    BY <2>1
  <2>3. T \subseteq Nat /\ MaxTime - c \in T
    BY <2>1, <2>2
  <2> QED
    BY <2>3, Least
<1>2. \A c \in S : MaxTime - c \in T
  BY DEF T
<1>3. MaxTime - n \in S /\ \A c \in S : MaxTime - n >= c
  BY <1>1, <1>2
<1> QED
  BY <1>3, Zenon DEF Sync!Max

LEMMA LastTimestampIs == ASSUME SyncInv, Sync!SyncAssumption PROVE Sync!GetLastTimestamp \in Int
<1>1. /\ MaxTime \in Nat /\ Candle \in Nat /\ Day \in Nat /\ MaxDays \in Nat
      /\ time \in Int /\ DOMAIN table \subseteq 0 .. MaxTime
  BY DEF Sync!SyncAssumption, SyncInv, Sync!Beginning
<1>2. CASE DOMAIN table = {}
  BY <1>1, <1>2 DEF Sync!GetLastTimestamp
<1>3. CASE DOMAIN table # {}
  <2>1. Sync!Last \in Nat
    <3>1. Sync!Last \in DOMAIN table
      BY <1>1, <1>3, LastIsOne DEF Sync!Last
    <3> QED
      BY <1>1, <3>1
  <2>2. Sync!GetLastTimestamp = Sync!Last * Candle
    BY <1>3, Zenon DEF Sync!GetLastTimestamp, Sync!Start
  <2> QED
    BY <1>1, <2>1, <2>2
<1> QED
  BY <1>2, <1>3

\* At most ninety days are asked for, and if any then one at least.
LEMMA DaysAre ==
    ASSUME NEW last \in Int, SyncInv, Sync!SyncAssumption, Sync!CalculateDaysToFetch(last) > 0
    PROVE  Sync!CalculateDaysToFetch(last) \in 1 .. MaxDays
<1>1. MaxDays \in Nat \ {0} /\ Day \in Nat \ {0} /\ Hour \in Nat /\ time \in Int
  BY DEF Sync!SyncAssumption, SyncInv, Sync!Beginning
<1>2. PICK d \in Int : d = (time - last) \div Day
  BY <1>1
<1>3. PICK least \in Int : least = Sync!Min({d, MaxDays}) /\ least <= MaxDays
  BY <1>1, <1>2, SyncSmallest
<1>4. PICK most \in Int : most = Sync!Max({1, least}) /\ most \in 1 .. MaxDays
  BY <1>1, <1>3, SyncGreatest
<1>5. Sync!CalculateDaysToFetch(last) = IF time - last < Hour THEN 0 ELSE most
  BY <1>2, <1>3, <1>4, Zenon DEF Sync!CalculateDaysToFetch
<1> QED
  BY <1>1, <1>4, <1>5

LEMMA SyncSymbolKeeps == ASSUME SyncInv, Sync!SyncAssumption, Sync!SyncSymbol PROVE SyncInv'
<1>1. /\ time \in Sync!Beginning .. MaxTime /\ chart \in Charts /\ service \in {"runs", "stopped", "panicked"}
      /\ DOMAIN table \subseteq 0 .. MaxTime
      /\ \A c \in DOMAIN table : table[c] # {} /\ table[c] \subseteq Sync!PointsOf(c)
  BY Zenon DEF SyncInv
<1>2. /\ MaxTime \in Nat /\ Candle \in Nat \ {0} /\ Day \in Nat \ {0} /\ MaxDays \in Nat \ {0} /\ Hour \in Nat
      /\ Sync!Beginning \in Nat
  BY DEF Sync!SyncAssumption, Sync!Beginning
<1> DEFINE last == Sync!GetLastTimestamp
           days == Sync!CalculateDaysToFetch(last)
<1>3. /\ days > 0 /\ time' = time /\ service' = service
      /\ \E at \in {time} \cup (IF Sync!Cached(days) THEN {chart.at} ELSE {}) :
            /\ chart' \in {chart, [days |-> days, at |-> at]}
            /\ table' = Sync!StoreCandlesticks(Sync!ToCandlesticks(Sync!Points(days, at)))
  BY Zenon DEF Sync!SyncSymbol
<1>4. last \in Int /\ days \in 1 .. MaxDays
  BY <1>3, LastTimestampIs, DaysAre
<1> HIDE DEF last, days
<1>5. PICK at \in {time} \cup (IF Sync!Cached(days) THEN {chart.at} ELSE {}) :
            /\ chart' \in {chart, [days |-> days, at |-> at]}
            /\ table' = Sync!StoreCandlesticks(Sync!ToCandlesticks(Sync!Points(days, at)))
  BY <1>3
<1>6. at \in Sync!Beginning .. MaxTime
  <2>1. CASE at = time
    BY <1>1, <2>1, Zenon
  <2>2. CASE Sync!Cached(days) /\ at = chart.at
    <3>1. chart # None
      BY <2>2, Zenon DEF Sync!Cached
    <3> QED
      BY <1>1, <2>2, <3>1 DEF Charts
  <2> QED
    BY <2>1, <2>2
<1>7. chart' \in Charts
  BY <1>1, <1>4, <1>5, <1>6 DEF Charts
<1> DEFINE points == Sync!Points(days, at)
           made == Sync!ToCandlesticks(points)
<1>8. points \subseteq 0 .. at
  BY DEF Sync!Points
<1>9. /\ DOMAIN made = {Sync!CandleOf(t) : t \in points}
      /\ \A c \in DOMAIN made : made[c] = Sync!PointsOf(c) \cap points
  BY DEF Sync!ToCandlesticks
<1> HIDE DEF points, made
<1>10. /\ DOMAIN table' = DOMAIN table \cup DOMAIN made
       /\ \A c \in DOMAIN table' : table'[c] = IF c \in DOMAIN made THEN made[c] ELSE table[c]
  BY <1>5 DEF Sync!StoreCandlesticks, made, points
<1>11. \A t \in points : t \in Nat /\ t <= MaxTime
  BY <1>2, <1>6, <1>8
<1>12. \A c \in DOMAIN made : c \in 0 .. MaxTime /\ made[c] # {} /\ made[c] \subseteq Sync!PointsOf(c)
  <2> SUFFICES ASSUME NEW t \in points
               PROVE  /\ Sync!CandleOf(t) \in 0 .. MaxTime
                      /\ t \in Sync!PointsOf(Sync!CandleOf(t)) \cap points
    BY <1>9, Zenon
  <2>1. t \in Nat /\ t <= MaxTime
    BY <1>11
  <2>2. /\ Sync!CandleOf(t) \in Nat /\ Sync!CandleOf(t) <= t
        /\ t \in Sync!PointsOf(Sync!CandleOf(t))
    BY <1>2, <2>1, CandleHolds
  <2>3. Sync!CandleOf(t) \in 0 .. MaxTime
    BY <1>2, <2>1, <2>2
  <2> QED
    BY <2>2, <2>3
<1>13. DOMAIN table' \subseteq 0 .. MaxTime
  BY <1>1, <1>10, <1>12, Zenon
<1>14. \A c \in DOMAIN table' : table'[c] # {} /\ table'[c] \subseteq Sync!PointsOf(c)
  BY <1>1, <1>10, <1>12
<1> QED
  BY <1>1, <1>3, <1>7, <1>13, <1>14, Zenon DEF SyncInv

LEMMA SyncStep ==
    ASSUME SyncInv, Sync!SyncAssumption, Sync!SyncNext \/ UNCHANGED candles
    PROVE  SyncInv'
<1>1. CASE UNCHANGED candles \/ Sync!Stop
  <2>1. /\ time' = time /\ table' = table /\ chart' = chart
        /\ service' = service \/ service' \in {"stopped", "panicked"}
    BY <1>1 DEF candles, Sync!Stop
  <2>2. service' \in {"runs", "stopped", "panicked"}
    BY <2>1, Zenon DEF SyncInv
  <2> QED
    BY <2>1, <2>2, Zenon DEF SyncInv
<1>2. CASE Sync!PassTime
  <2>1. /\ time < MaxTime /\ time' = time + 1 /\ table' = table /\ chart' = chart /\ service' = service
    BY <1>2 DEF Sync!PassTime
  <2>2. time' \in Sync!Beginning .. MaxTime
    <3>1. time \in Sync!Beginning .. MaxTime /\ Sync!Beginning \in Int /\ MaxTime \in Int
      BY DEF SyncInv, Sync!SyncAssumption, Sync!Beginning
    <3> QED
      BY <2>1, <3>1
  <2> QED
    BY <2>1, <2>2, Zenon DEF SyncInv
<1>3. CASE Sync!StoreFails
  <2> DEFINE days == Sync!CalculateDaysToFetch(Sync!GetLastTimestamp)
  <2>1. /\ days > 0 /\ chart' = [days |-> days, at |-> time]
        /\ time' = time /\ table' = table /\ service' = service
    BY <1>3, Zenon DEF Sync!StoreFails
  <2>2. days \in 1 .. MaxDays
    BY <2>1, LastTimestampIs, DaysAre
  <2> HIDE DEF days
  <2>3. chart' \in Charts
    BY <2>1, <2>2 DEF SyncInv, Charts
  <2> QED
    BY <2>1, <2>3, Zenon DEF SyncInv
<1> QED
  BY <1>1, <1>2, <1>3, SyncSymbolKeeps, Zenon DEF Sync!SyncNext

\* What was stored and what was fetched is of the past.
SyncPast ==
    /\ \A c \in DOMAIN table : \A t \in table[c] : t <= time
    /\ chart # None => chart.at <= time

LEMMA TimesGrow == \A a, b, k \in Nat : a <= b => a * k <= b * k
<1> SUFFICES ASSUME NEW a \in Nat, NEW b \in Nat, NEW k \in Nat, a <= b PROVE a * k <= b * k
  OBVIOUS
<1>1. PICK d \in Nat : b = a + d
  BY b - a \in Nat
<1>2. PICK p \in Nat, q \in Nat : p = a * k /\ q = d * k
  OBVIOUS
<1>3. b * k = p + q
  BY <1>1, <1>2
<1> QED
  BY <1>2, <1>3

\* A time is in one candle, and candles follow one another as their times do.
LEMMA CandleIsOf ==
    ASSUME NEW c \in Nat, NEW t \in Nat, Candle \in Nat \ {0}, t \in Sync!PointsOf(c)
    PROVE  Sync!CandleOf(t) = c
<1>1. PICK q \in Nat : q = Sync!CandleOf(t) /\ t \in Sync!PointsOf(q)
  BY CandleHolds
<1>2. PICK u \in Nat, v \in Nat : u = c * Candle /\ v = q * Candle
  BY <1>1
<1>3. u <= t /\ t < u + Candle /\ v <= t /\ t < v + Candle
  BY <1>1, <1>2 DEF Sync!PointsOf, Sync!Start
<1>4. ~ (c < q)
  <2> SUFFICES ASSUME c < q PROVE FALSE
    OBVIOUS
  <2>1. c + 1 <= q /\ (c + 1) * Candle = u + Candle
    BY <1>1, <1>2
  <2>2. (c + 1) * Candle <= q * Candle
    BY <1>1, <2>1, TimesGrow
  <2> QED
    BY <1>2, <1>3, <2>1, <2>2
<1>5. ~ (q < c)
  <2> SUFFICES ASSUME q < c PROVE FALSE
    OBVIOUS
  <2>1. q + 1 <= c /\ (q + 1) * Candle = v + Candle
    BY <1>1, <1>2
  <2>2. (q + 1) * Candle <= c * Candle
    BY <1>1, <2>1, TimesGrow
  <2> QED
    BY <1>2, <1>3, <2>1, <2>2
<1> QED
  BY <1>1, <1>4, <1>5

LEMMA CandlesFollow ==
    ASSUME NEW s \in Nat, NEW t \in Nat, Candle \in Nat \ {0}, s <= t
    PROVE  Sync!CandleOf(s) <= Sync!CandleOf(t)
<1>1. PICK p \in Nat, q \in Nat : p = Sync!CandleOf(s) /\ s \in Sync!PointsOf(p) /\ q = Sync!CandleOf(t) /\ t \in Sync!PointsOf(q)
  BY CandleHolds
<1>2. PICK u \in Nat, v \in Nat : u = p * Candle /\ v = q * Candle
  BY <1>1
<1>3. u <= s /\ s < u + Candle /\ v <= t /\ t < v + Candle
  BY <1>1, <1>2 DEF Sync!PointsOf, Sync!Start
<1>4. ~ (q < p)
  <2> SUFFICES ASSUME q < p PROVE FALSE
    OBVIOUS
  <2>1. q + 1 <= p /\ (q + 1) * Candle = v + Candle
    BY <1>1, <1>2
  <2>2. (q + 1) * Candle <= p * Candle
    BY <1>1, <2>1, TimesGrow
  <2> QED
    BY <1>2, <1>3, <2>1, <2>2
<1> QED
  BY <1>1, <1>4

\* What a synchronisation fetches: whole days until now, or until the chart was
\* made that is still cached; their candles are stored with what was fetched of them.
Fetched(days, at, from, first, last) ==
    /\ days \in 1 .. MaxDays /\ days = Sync!CalculateDaysToFetch(Sync!GetLastTimestamp)
    /\ at \in Nat /\ at <= time /\ from \in Nat /\ from = at - days * Day /\ from < at
    /\ at = time \/ time < at + ChartTTL
    /\ chart' = chart \/ chart' = [days |-> days, at |-> at]
    /\ first = Sync!CandleOf(from + 1) /\ last = Sync!CandleOf(at)
    /\ first \in Nat /\ last \in Nat /\ first <= last
    /\ DOMAIN table' = DOMAIN table \cup first .. last
    /\ \A c \in DOMAIN table' :
          table'[c] = IF c \in first .. last THEN {t \in Sync!PointsOf(c) : from < t /\ t <= at} ELSE table[c]

LEMMA SyncSymbolFetches ==
    ASSUME SyncInv, SyncPast, Sync!SyncAssumption, Sync!SyncSymbol
    PROVE  time' = time /\ \E days, at, from, first, last : Fetched(days, at, from, first, last)
<1>1. /\ time \in Sync!Beginning .. MaxTime /\ chart \in Charts
      /\ DOMAIN table \subseteq 0 .. MaxTime
  BY Zenon DEF SyncInv
<1>2. /\ MaxTime \in Nat /\ Candle \in Nat \ {0} /\ Day \in Nat \ {0} /\ MaxDays \in Nat \ {0} /\ Hour \in Nat
      /\ Sync!Beginning \in Nat /\ Sync!Beginning = MaxDays * Day
  BY DEF Sync!SyncAssumption, Sync!Beginning
<1>3. PICK days : days = Sync!CalculateDaysToFetch(Sync!GetLastTimestamp)
  OBVIOUS
<1>4. /\ days > 0 /\ time' = time
      /\ \E at \in {time} \cup (IF Sync!Cached(days) THEN {chart.at} ELSE {}) :
            /\ chart' \in {chart, [days |-> days, at |-> at]}
            /\ table' = Sync!StoreCandlesticks(Sync!ToCandlesticks(Sync!Points(days, at)))
  BY <1>3, Zenon DEF Sync!SyncSymbol
<1>5. days \in 1 .. MaxDays
  BY <1>3, <1>4, LastTimestampIs, DaysAre
<1>6. PICK at \in {time} \cup (IF Sync!Cached(days) THEN {chart.at} ELSE {}) :
            /\ chart' \in {chart, [days |-> days, at |-> at]}
            /\ table' = Sync!StoreCandlesticks(Sync!ToCandlesticks(Sync!Points(days, at)))
  BY <1>4
<1>7. at \in Sync!Beginning .. MaxTime /\ at <= time /\ (at = time \/ time < at + ChartTTL)
  <2>1. CASE at = time
    BY <1>1, <1>2, <2>1
  <2>2. CASE Sync!Cached(days) /\ at = chart.at
    <3>1. chart # None /\ time < chart.at + ChartTTL
      BY <2>2, Zenon DEF Sync!Cached
    <3>2. chart.at \in Sync!Beginning .. MaxTime
      BY <1>1, <3>1 DEF Charts
    <3> QED
      BY <2>2, <3>1, <3>2 DEF SyncPast
  <2> QED
    BY <1>6, <2>1, <2>2
<1>8. PICK reach \in Nat : reach = days * Day /\ reach >= 1 /\ reach <= Sync!Beginning
  <2>1. days * Day <= MaxDays * Day /\ 1 * Day <= days * Day
    BY <1>2, <1>5, TimesGrow
  <2>2. days * Day \in Nat /\ 1 * Day = Day
    BY <1>2, <1>5
  <2> QED
    BY <1>2, <2>1, <2>2
<1>9. PICK from \in Nat : from = at - reach /\ from < at /\ at \in Nat
  BY <1>2, <1>7, <1>8
<1>10. PICK first \in Nat, last \in Nat : first = Sync!CandleOf(from + 1) /\ last = Sync!CandleOf(at) /\ first <= last
  <2>1. from + 1 \in Nat /\ at \in Nat /\ from + 1 <= at
    BY <1>9
  <2>2. Sync!CandleOf(from + 1) \in Nat /\ Sync!CandleOf(at) \in Nat
    BY <1>2, <2>1, CandleHolds
  <2>3. Sync!CandleOf(from + 1) <= Sync!CandleOf(at)
    BY <1>2, <2>1, CandlesFollow
  <2> QED
    BY <2>2, <2>3
<1> DEFINE points == Sync!Points(days, at)
           made == Sync!ToCandlesticks(points)
<1>11. points = {t \in Nat : from < t /\ t <= at}
  <2>1. points = {t \in 0 .. at : t > from /\ t > 0}
    BY <1>8, <1>9 DEF Sync!Points
  <2> QED
    BY <1>9, <2>1
<1>12. /\ DOMAIN made = {Sync!CandleOf(t) : t \in points}
       /\ \A c \in DOMAIN made : made[c] = Sync!PointsOf(c) \cap points
  BY DEF Sync!ToCandlesticks
<1> HIDE DEF points, made
<1>13. DOMAIN made = first .. last
  <2>1. ASSUME NEW t \in points PROVE Sync!CandleOf(t) \in first .. last
    <3>1. t \in Nat /\ from + 1 \in Nat /\ from + 1 <= t /\ t <= at
      BY <1>9, <1>11
    <3>2. Sync!CandleOf(t) \in Nat /\ first <= Sync!CandleOf(t) /\ Sync!CandleOf(t) <= last
      BY <1>2, <1>9, <1>10, <3>1, CandlesFollow, CandleHolds
    <3> QED
      BY <1>10, <3>2
  <2>2. ASSUME NEW c \in first .. last PROVE \E t \in points : c = Sync!CandleOf(t)
    <3>1. c \in Nat /\ first <= c /\ c <= last
      BY <1>10
    <3>2. PICK s \in Nat : s = c * Candle
      BY <1>2, <3>1
    <3>3. CASE s > from
      <4>1. s <= at
        <5>1. PICK u \in Nat : u = last * Candle
          BY <1>2
        <5>2. u <= at
          <6>1. at \in Sync!PointsOf(last)
            BY <1>2, <1>9, <1>10, CandleHolds
          <6> QED
            BY <5>1, <6>1 DEF Sync!PointsOf, Sync!Start
        <5>3. s <= u
          BY <1>2, <3>1, <3>2, <5>1, TimesGrow
        <5> QED
          BY <1>9, <5>2, <5>3
      <4>2. s \in points
        BY <1>11, <3>3, <4>1
      <4>3. s \in Sync!PointsOf(c)
        BY <1>2, <3>2 DEF Sync!PointsOf, Sync!Start
      <4>4. Sync!CandleOf(s) = c
        BY <1>2, <3>1, <4>3, CandleIsOf
      <4> QED
        BY <4>2, <4>4
    <3>4. CASE s <= from
      <4>1. from + 1 \in points
        BY <1>9, <1>11
      <4>2. first = c
        <5> SUFFICES ASSUME first < c PROVE FALSE
          BY <1>10, <3>1
        <5>1. PICK v \in Nat : v = first * Candle
          BY <1>2
        <5>2. from + 1 < v + Candle
          <6>1. from + 1 \in Sync!PointsOf(first)
            BY <1>2, <1>9, <1>10, CandleHolds
          <6> QED
            BY <1>2, <1>9, <5>1, <6>1 DEF Sync!PointsOf, Sync!Start
        <5>3. first + 1 <= c /\ (first + 1) * Candle = v + Candle /\ first + 1 \in Nat
          BY <1>2, <1>10, <3>1, <5>1
        <5>4. (first + 1) * Candle <= c * Candle
          BY <1>2, <3>1, <5>3, TimesGrow
        <5> QED
          BY <1>2, <1>9, <3>2, <3>4, <5>1, <5>2, <5>3, <5>4
      <4> QED
        BY <1>10, <4>1, <4>2
    <3> QED
      BY <1>9, <3>2, <3>3, <3>4
  <2> QED
    BY <1>12, <2>1, <2>2
<1>14. /\ DOMAIN table' = DOMAIN table \cup first .. last
       /\ \A c \in DOMAIN table' : table'[c] = IF c \in first .. last THEN made[c] ELSE table[c]
  <2>1. table' = [c \in DOMAIN table \cup DOMAIN made |-> IF c \in DOMAIN made THEN made[c] ELSE table[c]]
    BY <1>6, Zenon DEF Sync!StoreCandlesticks, made, points
  <2> QED
    BY <1>13, <2>1
<1>15. ASSUME NEW c \in first .. last PROVE made[c] = {t \in Sync!PointsOf(c) : from < t /\ t <= at}
  <2>1. made[c] = Sync!PointsOf(c) \cap points
    BY <1>12, <1>13
  <2>2. Sync!PointsOf(c) \subseteq Nat
    <3>1. c \in Nat
      BY <1>10
    <3>2. PICK s \in Nat : s = c * Candle
      BY <1>2, <3>1
    <3> QED
      BY <1>2, <3>2 DEF Sync!PointsOf, Sync!Start
  <2> QED
    BY <1>11, <2>1, <2>2
<1>16. \A c \in DOMAIN table' :
          table'[c] = IF c \in first .. last THEN {t \in Sync!PointsOf(c) : from < t /\ t <= at} ELSE table[c]
  BY <1>14, <1>15, Zenon
<1>17. Fetched(days, at, from, first, last)
  BY <1>3, <1>5, <1>6, <1>7, <1>8, <1>9, <1>10, <1>14, <1>16, Zenon DEF Fetched
<1> QED
  BY <1>4, <1>17, Zenon

LEMMA PastBegins == ASSUME Sync!SyncInit, Sync!SyncAssumption PROVE SyncPast
<1>1. table = <<>> /\ chart = None
  BY Zenon DEF Sync!SyncInit
<1>2. DOMAIN table = {}
  BY <1>1
<1> QED
  BY <1>1, <1>2, Zenon DEF SyncPast

LEMMA PastStep ==
    ASSUME SyncInv, SyncPast, Sync!SyncAssumption, Sync!SyncNext \/ UNCHANGED candles
    PROVE  SyncPast'
<1>1. time \in Int /\ MaxTime \in Nat
  BY DEF SyncInv, Sync!SyncAssumption, Sync!Beginning
<1>2. CASE UNCHANGED candles \/ Sync!Stop
  <2>1. time' = time /\ table' = table /\ chart' = chart
    BY <1>2 DEF candles, Sync!Stop
  <2> QED
    BY <2>1 DEF SyncPast
<1>3. CASE Sync!PassTime
  <2>1. time' = time + 1 /\ table' = table /\ chart' = chart
    BY <1>3 DEF Sync!PassTime
  <2>2. ASSUME NEW c \in DOMAIN table, NEW t \in table[c] PROVE t <= time + 1
    <3>1. t <= time
      BY <2>2 DEF SyncPast
    <3>2. t \in Int
      <4>1. c \in Nat /\ t \in Sync!PointsOf(c)
        BY <1>1, <2>2 DEF SyncInv
      <4>2. PICK s \in Nat : s = c * Candle
        BY <4>1 DEF Sync!SyncAssumption
      <4> QED
        BY <4>1, <4>2 DEF Sync!PointsOf, Sync!Start
    <3> QED
      BY <1>1, <3>1, <3>2
  <2>3. chart # None => chart.at <= time + 1
    <3> SUFFICES ASSUME chart # None PROVE chart.at <= time + 1
      OBVIOUS
    <3>1. chart.at \in Int /\ chart.at <= time
      BY DEF SyncInv, SyncPast, Charts, Sync!Beginning, Sync!SyncAssumption
    <3> QED
      BY <1>1, <3>1
  <2> QED
    BY <2>1, <2>2, <2>3 DEF SyncPast
<1>4. CASE Sync!StoreFails
  <2> DEFINE days == Sync!CalculateDaysToFetch(Sync!GetLastTimestamp)
  <2>1. chart' = [days |-> days, at |-> time] /\ time' = time /\ table' = table
    BY <1>4, Zenon DEF Sync!StoreFails
  <2> HIDE DEF days
  <2>2. chart'.at = time /\ time <= time
    BY <1>1, <2>1
  <2> QED
    BY <2>1, <2>2 DEF SyncPast
<1>5. CASE Sync!SyncSymbol
  <2>1. time' = time
    BY <1>5, SyncSymbolFetches
  <2>2. PICK days, at, from, first, last : Fetched(days, at, from, first, last)
    BY <1>5, SyncSymbolFetches
  <2>3. /\ at \in Nat /\ at <= time /\ (chart' = chart \/ chart' = [days |-> days, at |-> at])
        /\ first \in Nat /\ last \in Nat
        /\ DOMAIN table' = DOMAIN table \cup first .. last
        /\ \A c \in DOMAIN table' :
              table'[c] = IF c \in first .. last THEN {t \in Sync!PointsOf(c) : from < t /\ t <= at} ELSE table[c]
    BY <2>2, Zenon DEF Fetched
  <2>4. ASSUME NEW c \in DOMAIN table', NEW t \in table'[c] PROVE t <= time
    <3>1. CASE c \in first .. last
      <4>1. t \in Sync!PointsOf(c) /\ t <= at
        BY <2>3, <2>4, <3>1
      <4>2. PICK s \in Nat : s = c * Candle
        BY <2>3, <3>1 DEF Sync!SyncAssumption
      <4>3. t \in Int
        BY <4>1, <4>2 DEF Sync!PointsOf, Sync!Start
      <4> QED
        BY <1>1, <2>3, <4>1, <4>3
    <3>2. CASE c \notin first .. last
      <4>1. c \in DOMAIN table /\ t \in table[c]
        BY <2>3, <2>4, <3>2
      <4> QED
        BY <4>1 DEF SyncPast
    <3> QED
      BY <3>1, <3>2
  <2>5. chart' # None => chart'.at <= time
    BY <2>3 DEF SyncPast
  <2> QED
    BY <2>1, <2>4, <2>5 DEF SyncPast
<1> QED
  BY <1>2, <1>3, <1>4, <1>5, Zenon DEF Sync!SyncNext

\* Nothing was stored of the time after the chart, which is cached for less than
\* a synchronisation takes to be due again.
LEMMA NoneIsLater ==
    ASSUME SyncInv, SyncPast, Sync!SyncAssumption,
           NEW days, NEW at, NEW from, NEW first, NEW last, Fetched(days, at, from, first, last),
           NEW c \in DOMAIN table
    PROVE  /\ c \in Nat /\ table[c] # {} /\ table[c] \subseteq Sync!PointsOf(c)
           /\ \A t \in table[c] : t \in Nat /\ t <= at /\ Sync!CandleOf(t) = c
<1>1. /\ time \in Int /\ MaxTime \in Nat /\ Candle \in Nat \ {0} /\ Hour \in Nat /\ ChartTTL \in Nat
      /\ ChartTTL + Candle <= Hour
  BY DEF SyncInv, Sync!SyncAssumption, Sync!Beginning
<1>2. DOMAIN table \subseteq 0 .. MaxTime /\ c \in Nat /\ table[c] # {} /\ table[c] \subseteq Sync!PointsOf(c)
  BY <1>1 DEF SyncInv
<1>3. /\ days \in 1 .. MaxDays /\ days = Sync!CalculateDaysToFetch(Sync!GetLastTimestamp)
      /\ at \in Nat /\ (at = time \/ time < at + ChartTTL)
  BY Zenon DEF Fetched
<1>4. PICK latest \in Nat : latest = Sync!Last /\ c <= latest
  <2>1. Sync!Max(DOMAIN table) \in DOMAIN table /\ c <= Sync!Max(DOMAIN table)
    BY <1>1, <1>2, LastIsOne
  <2> QED
    BY <1>1, <1>2, <2>1 DEF Sync!Last
<1>5. PICK u \in Nat, s \in Nat : u = c * Candle /\ s = latest * Candle /\ u <= s
  BY <1>1, <1>2, <1>4, TimesGrow
<1>6. time - s >= Hour
  <2>1. Sync!GetLastTimestamp = s
    <3>1. DOMAIN table # {}
      OBVIOUS
    <3>2. Sync!GetLastTimestamp = Sync!Start(Sync!Last)
      BY <3>1, Zenon DEF Sync!GetLastTimestamp
    <3> QED
      BY <1>4, <1>5, <3>2 DEF Sync!Start
  <2>2. time - s < Hour => Sync!CalculateDaysToFetch(s) = 0
    BY Zenon DEF Sync!CalculateDaysToFetch
  <2>3. days # 0
    BY <1>3
  <2> QED
    BY <1>1, <1>3, <1>5, <2>1, <2>2, <2>3
<1>7. ASSUME NEW t \in table[c] PROVE t \in Nat /\ t <= at /\ Sync!CandleOf(t) = c
  <2>1. t \in Nat /\ t < u + Candle /\ t \in Sync!PointsOf(c)
    BY <1>1, <1>2, <1>5, <1>7 DEF Sync!PointsOf, Sync!Start
  <2>2. Sync!CandleOf(t) = c
    BY <1>1, <1>2, <2>1, CandleIsOf
  <2>3. t <= time
    BY <1>7 DEF SyncPast
  <2>4. t <= at
    BY <1>1, <1>3, <1>5, <1>6, <2>1, <2>3
  <2> QED
    BY <2>1, <2>2, <2>4
<1> QED
  BY <1>2, <1>7

\* The only number of candles that is in a set and no more than any in it.
LEMMA LeastIs ==
    ASSUME NEW S, NEW c \in Nat, c \in S, \A d \in S : d \in Nat /\ c <= d
    PROVE  Sync!Min(S) = c
<1>1. \A m \in S : (\A z \in S : m <= z) => m = c
  <2> SUFFICES ASSUME NEW m \in S, \A z \in S : m <= z PROVE m = c
    OBVIOUS
  <2>1. m \in Nat /\ c <= m /\ m <= c
    OBVIOUS
  <2> QED
    BY <2>1
<1>2. c \in S /\ \A z \in S : c <= z
  OBVIOUS
<1> QED
  BY <1>1, <1>2, Zenon DEF Sync!Min

LEMMA GreatestIs ==
    ASSUME NEW S, NEW c \in Nat, c \in S, \A d \in S : d \in Nat /\ d <= c
    PROVE  Sync!Max(S) = c
<1>1. \A m \in S : (\A z \in S : m >= z) => m = c
  <2> SUFFICES ASSUME NEW m \in S, \A z \in S : m >= z PROVE m = c
    OBVIOUS
  <2>1. m \in Nat /\ m <= c /\ m >= c
    OBVIOUS
  <2> QED
    BY <2>1
<1>2. c \in S /\ \A z \in S : c >= z
  OBVIOUS
<1> QED
  BY <1>1, <1>2, Zenon DEF Sync!Max

\* One step: a candle that loses a point is the first one the chart replaces.
LEMMA LosesLittle ==
    ASSUME SyncInv, SyncPast, Sync!SyncAssumption,
           NEW days, NEW at, NEW from, NEW first, NEW last, Fetched(days, at, from, first, last),
           NEW c \in DOMAIN table
    PROVE  c \in DOMAIN table' /\ (table[c] \subseteq table'[c] \/ c = Sync!Min({d \in DOMAIN table : table'[d] # table[d]}))
<1>1. /\ from \in Nat /\ at \in Nat /\ first = Sync!CandleOf(from + 1) /\ first \in Nat /\ last \in Nat
      /\ DOMAIN table' = DOMAIN table \cup first .. last
      /\ \A d \in DOMAIN table' :
            table'[d] = IF d \in first .. last THEN {t \in Sync!PointsOf(d) : from < t /\ t <= at} ELSE table[d]
  BY Zenon DEF Fetched
<1> SUFFICES ASSUME NEW t \in table[c], t \notin table'[c]
             PROVE  c = Sync!Min({d \in DOMAIN table : table'[d] # table[d]})
  BY <1>1
<1>2. c \in Nat /\ table[c] \subseteq Sync!PointsOf(c) /\ t \in Nat /\ t <= at /\ Sync!CandleOf(t) = c
  BY NoneIsLater, Zenon
<1>3. c \in first .. last
  BY <1>1
<1>4. t <= from
  <2>1. table'[c] = {u \in Sync!PointsOf(c) : from < u /\ u <= at}
    BY <1>1, <1>3
  <2>2. t \in Sync!PointsOf(c)
    BY <1>2
  <2>3. ~ (from < t)
    BY <1>2, <2>1, <2>2
  <2> QED
    BY <1>1, <1>2, <2>3
<1>5. c <= first
  <2>1. from + 1 \in Nat /\ t <= from + 1
    BY <1>1, <1>2, <1>4
  <2> QED
    BY <1>1, <1>2, <2>1, CandlesFollow DEF Sync!SyncAssumption
<1>6. c = first
  BY <1>1, <1>2, <1>3, <1>5
<1> DEFINE D == {d \in DOMAIN table : table'[d] # table[d]}
<1>7. c \in D
  OBVIOUS
<1>8. ASSUME NEW d \in D PROVE d \in Nat /\ c <= d
  <2>1. d \in DOMAIN table' /\ table'[d] # table[d]
    BY <1>1, <1>8
  <2>2. d \in first .. last
    BY <1>1, <2>1
  <2> QED
    BY <1>1, <1>6, <2>2
<1> HIDE DEF D
<1>9. Sync!Min(D) = c
  BY <1>2, <1>7, <1>8, LeastIs
<1> QED
  BY <1>9 DEF D

\* The days asked for reach back to the last candle, but for less than a day.
LEMMA DaysReach ==
    ASSUME NEW s \in Nat, SyncInv, Sync!SyncAssumption,
           NEW days \in 1 .. MaxDays, days = Sync!CalculateDaysToFetch(s)
    PROVE  /\ time - s >= Hour
           /\ time - s < Day => days = 1
           /\ time - s < (MaxDays + 1) * Day => time - s < days * Day + Day
<1>1. MaxDays \in Nat \ {0} /\ Day \in Nat \ {0} /\ Hour \in Nat /\ time \in Int
  BY DEF Sync!SyncAssumption, SyncInv, Sync!Beginning
<1>2. PICK q \in Int : q = (time - s) \div Day
  BY <1>1
<1>3. PICK least \in Int : least = Sync!Min({q, MaxDays}) /\ least = IF q <= MaxDays THEN q ELSE MaxDays
  BY <1>1, <1>2, SyncSmallest
<1>4. PICK most \in Int : most = Sync!Max({1, least}) /\ most = IF 1 >= least THEN 1 ELSE least
  BY <1>1, <1>3, SyncGreatest
<1>5. Sync!CalculateDaysToFetch(s) = IF time - s < Hour THEN 0 ELSE most
  BY <1>2, <1>3, <1>4, Zenon DEF Sync!CalculateDaysToFetch
<1>6. time - s >= Hour /\ days = most
  BY <1>5, <1>1
<1>7. PICK gone \in Nat : gone = time - s /\ gone >= Hour
  BY <1>1, <1>6
<1>8. q \in Nat /\ q = gone \div Day /\ gone = q * Day + (gone % Day) /\ gone % Day \in 0 .. Day - 1
  BY <1>1, <1>2, <1>7
<1>9. PICK p \in Nat : p = q * Day /\ p <= gone /\ gone < p + Day
  <2>1. q * Day \in Nat
    BY <1>1, <1>8
  <2> QED
    BY <1>1, <1>8, <2>1
<1>10. gone < Day => days = 1
  <2> SUFFICES ASSUME gone < Day PROVE q = 0
    BY <1>3, <1>4, <1>6, <1>1
  <2> SUFFICES ASSUME q >= 1 PROVE FALSE
    BY <1>8
  <2>1. 1 * Day <= q * Day /\ 1 * Day = Day
    BY <1>1, <1>8, TimesGrow
  <2> QED
    BY <1>1, <1>7, <1>9, <2>1
<1>11. gone < (MaxDays + 1) * Day => gone < days * Day + Day
  <2>1. CASE q <= MaxDays
    <3>1. q <= days
      BY <1>3, <1>4, <1>6, <1>1, <2>1
    <3>2. PICK r \in Nat : r = days * Day /\ p <= r
      BY <1>1, <1>8, <1>9, <3>1, TimesGrow
    <3> QED
      BY <1>1, <1>7, <1>9, <3>2
  <2>2. CASE ~ (q <= MaxDays)
    <3>1. days = MaxDays
      BY <1>1, <1>3, <1>4, <1>6, <2>2
    <3>2. (MaxDays + 1) * Day = MaxDays * Day + Day
      BY <1>1
    <3> QED
      BY <3>1, <3>2
  <2> QED
    BY <2>1, <2>2
<1> QED
  BY <1>6, <1>7, <1>10, <1>11

LEMMA SyncCardinality == \A S : Sync!Cardinality(S) = Cardinality(S)
BY DEF Sync!Cardinality, Cardinality

\* One step: within a day of the last candle nothing is left out, and never as
\* much as a day unless more days have passed than are asked for.
LEMMA LeavesLittleOut ==
    ASSUME SyncInv, SyncPast, Sync!SyncAssumption,
           NEW days, NEW at, NEW from, NEW first, NEW last, Fetched(days, at, from, first, last),
           DOMAIN table # {}
    PROVE  LET missing == {c \in Sync!Last .. Sync!Max(DOMAIN table') : c \notin DOMAIN table'}
               half == {c \in Sync!Last .. Sync!Max(DOMAIN table') - 1 : c \in DOMAIN table' /\ table'[c] # Sync!PointsOf(c)}
           IN  /\ time - Sync!Start(Sync!Last) < Day => missing = {} /\ half = {}
               /\ time - Sync!Start(Sync!Last) < (MaxDays + 1) * Day => Sync!Cardinality(missing) * Candle < Day
<1>1. /\ days \in 1 .. MaxDays /\ days = Sync!CalculateDaysToFetch(Sync!GetLastTimestamp)
      /\ at \in Nat /\ at <= time /\ from \in Nat /\ from = at - days * Day /\ from < at
      /\ first = Sync!CandleOf(from + 1) /\ last = Sync!CandleOf(at)
      /\ first \in Nat /\ last \in Nat /\ first <= last
      /\ DOMAIN table' = DOMAIN table \cup first .. last
      /\ \A c \in DOMAIN table' :
            table'[c] = IF c \in first .. last THEN {t \in Sync!PointsOf(c) : from < t /\ t <= at} ELSE table[c]
  BY Zenon DEF Fetched
<1>2. /\ Candle \in Nat \ {0} /\ Day \in Nat \ {0} /\ MaxDays \in Nat \ {0} /\ MaxTime \in Nat /\ Hour \in Nat
      /\ time \in Nat
  BY DEF SyncInv, Sync!SyncAssumption, Sync!Beginning
<1>3. ASSUME NEW c \in DOMAIN table PROVE c \in Nat /\ c <= last
  <2>1. c \in Nat /\ table[c] # {} /\ \A t \in table[c] : t \in Nat /\ t <= at /\ Sync!CandleOf(t) = c
    BY <1>3, NoneIsLater, Zenon
  <2>2. PICK t \in table[c] : t \in Nat /\ t <= at /\ Sync!CandleOf(t) = c
    BY <2>1
  <2> QED
    BY <1>1, <1>2, <2>1, <2>2, CandlesFollow
<1>4. PICK l \in Nat : l = Sync!Last /\ l \in DOMAIN table /\ l <= last
  <2>1. Sync!Max(DOMAIN table) \in DOMAIN table
    BY <1>2, LastIsOne DEF SyncInv
  <2> QED
    BY <1>3, <2>1 DEF Sync!Last
<1>5. Sync!Max(DOMAIN table') = last
  <2>1. last \in DOMAIN table' /\ \A d \in DOMAIN table' : d \in Nat /\ d <= last
    BY <1>1, <1>3
  <2> QED
    BY <1>1, <2>1, GreatestIs
<1>6. PICK s \in Nat : s = l * Candle /\ s = Sync!Start(l) /\ s = Sync!GetLastTimestamp
  <2>1. l * Candle \in Nat
    BY <1>2
  <2>2. Sync!GetLastTimestamp = Sync!Start(Sync!Last)
    BY Zenon DEF Sync!GetLastTimestamp
  <2> QED
    BY <1>4, <2>1, <2>2 DEF Sync!Start
<1>7. /\ time - s >= Hour
      /\ time - s < Day => days = 1
      /\ time - s < (MaxDays + 1) * Day => time - s < days * Day + Day
  BY <1>1, <1>6, DaysReach
<1>8. PICK reach \in Nat : reach = days * Day /\ from = at - reach
  BY <1>1, <1>2
<1>9. PICK f \in Nat : f = first * Candle /\ f <= from + 1 /\ from + 1 < f + Candle
  <2>1. first * Candle \in Nat
    BY <1>1, <1>2
  <2>2. from + 1 \in Sync!PointsOf(first)
    BY <1>1, <1>2, CandleHolds
  <2> QED
    BY <1>1, <1>2, <2>1, <2>2 DEF Sync!PointsOf, Sync!Start
<1> DEFINE missing == {c \in l .. last : c \notin DOMAIN table'}
           half == {c \in l .. last - 1 : c \in DOMAIN table' /\ table'[c] # Sync!PointsOf(c)}
<1>10. ASSUME time - s < Day PROVE missing = {} /\ half = {}
  <2>1. reach = Day
    BY <1>2, <1>7, <1>8, <1>10
  <2>2. from + 1 <= s
    BY <1>1, <1>2, <1>8, <1>10, <2>1
  <2>3. first <= l
    <3>1. s \in Sync!PointsOf(l)
      BY <1>2, <1>4, <1>6 DEF Sync!PointsOf
    <3>2. Sync!CandleOf(s) = l
      BY <1>2, <1>4, <1>6, <3>1, CandleIsOf
    <3>3. from + 1 \in Nat
      BY <1>1
    <3> QED
      BY <1>1, <1>2, <2>2, <3>2, <3>3, CandlesFollow
  <2>4. missing = {}
    BY <1>1, <1>4, <2>3
  <2>5. ASSUME NEW c \in l .. last - 1 PROVE table'[c] = Sync!PointsOf(c)
    <3>1. c \in Nat /\ l <= c /\ c + 1 <= last /\ c + 1 \in Nat
      BY <1>1, <1>4, <2>5
    <3>2. c \in first .. last /\ c \in DOMAIN table'
      BY <1>1, <1>4, <2>3, <3>1
    <3>3. table'[c] = {t \in Sync!PointsOf(c) : from < t /\ t <= at}
      BY <1>1, <3>2
    <3>4. PICK u \in Nat, v \in Nat : u = c * Candle /\ v = last * Candle
      <4>1. c \in Nat /\ last \in Nat /\ Candle \in Nat
        BY <1>1, <1>2, <3>1, Zenon
      <4>2. c * Candle \in Nat /\ last * Candle \in Nat
        BY <4>1
      <4> QED
        BY <4>2
    <3>5. (c + 1) * Candle = u + Candle
      BY <1>2, <3>1, <3>4
    <3>6. s <= u
      BY <1>2, <1>4, <1>6, <3>1, <3>4, TimesGrow
    <3>7. u + Candle <= v
      BY <1>1, <1>2, <3>1, <3>4, <3>5, TimesGrow
    <3>8. v <= at
      <4>1. at \in Sync!PointsOf(last)
        BY <1>1, <1>2, CandleHolds
      <4> QED
        BY <1>1, <1>2, <3>4, <4>1 DEF Sync!PointsOf, Sync!Start
    <3>9. \A t \in Sync!PointsOf(c) : from < t /\ t <= at
      BY <1>1, <1>2, <2>2, <3>4, <3>6, <3>7, <3>8 DEF Sync!PointsOf, Sync!Start
    <3> QED
      BY <3>3, <3>9
  <2> QED
    BY <2>4, <2>5
<1>11. ASSUME time - s < (MaxDays + 1) * Day PROVE Sync!Cardinality(missing) * Candle < Day
  <2>1. PICK low \in Int, high \in Int : low = l + 1 /\ high = first - 1
    <3>1. l \in Nat /\ first \in Nat
      BY <1>1, <1>4, Zenon
    <3> QED
      BY <3>1
  <2>2. missing \subseteq low .. high
    <3> SUFFICES ASSUME NEW c \in l .. last, c \notin DOMAIN table' PROVE c \in low .. high
      BY Zenon
    <3>1. c \notin first .. last /\ l \in DOMAIN table'
      BY <1>1, <1>4, Zenon
    <3>2. c # l
      BY <3>1
    <3>3. l \in Nat /\ first \in Nat /\ last \in Nat
      BY <1>1, <1>4, Zenon
    <3> QED
      BY <2>1, <3>1, <3>2, <3>3
  <2>3. IsFiniteSet(low .. high) /\ Cardinality(low .. high) = IF low > high THEN 0 ELSE high - low + 1
    BY <2>1, FS_Interval
  <2> HIDE DEF missing
  <2>4. PICK k \in Nat : k = Cardinality(missing) /\ (k = 0 \/ k <= high - low + 1)
    <3>1. Cardinality(missing) \in Nat /\ Cardinality(missing) <= Cardinality(low .. high)
      BY <2>2, <2>3, FS_Subset, FS_CardinalityType, Zenon
    <3> QED
      BY <2>1, <2>3, <3>1
  <2>5. k * Candle < Day
    <3>1. CASE k = 0
      BY <1>2, <3>1
    <3>2. CASE k <= high - low + 1
      <4>0. k + l + 1 <= first
        BY <1>1, <1>4, <2>1, <2>4, <3>2
      <4>1. PICK m \in Nat : m = k * Candle
        <5>1. k \in Nat /\ Candle \in Nat
          BY <1>2, <2>4, Zenon
        <5> QED
          BY <5>1
      <4>2. (k + l + 1) * Candle = m + s + Candle
        BY <1>2, <1>4, <1>6, <2>4, <4>1
      <4>3. k + l + 1 \in Nat
        BY <1>4, <2>4
      <4>4. m + s + Candle <= f
        BY <1>1, <1>2, <1>9, <4>0, <4>2, <4>3, TimesGrow
      <4>5. time - s < reach + Day
        BY <1>7, <1>8, <1>11
      <4> QED
        BY <1>1, <1>2, <1>8, <1>9, <4>1, <4>4, <4>5
    <3> QED
      BY <2>4, <3>1, <3>2
  <2>6. Sync!Cardinality(missing) = Cardinality(missing)
    BY SyncCardinality
  <2> QED
    BY <2>4, <2>5, <2>6
<1> HIDE DEF missing, half
<1> QED
  BY <1>4, <1>5, <1>6, <1>10, <1>11 DEF missing, half

-----------------------------------------------------------------------------
(* The risk analyzer's tools.                                              *)

\* What was answered is what the tool computes of what was asked.
RiskInv ==
    part = "risk" =>
        /\ asked \in Risk!KellyRequests \cup Risk!VaRRequests \cup Risk!LimitRequests \cup Risk!SharpeRequests
                        \cup Risk!DrawdownRequests
        /\ answer # None =>
             /\ asked.tool = "kelly" => answer = Risk!CalculatePositionSize(asked)
             /\ asked.tool = "var" => answer \in Risk!CalculateVaR(asked)
             /\ asked.tool = "limits" => answer = Risk!CheckPortfolioLimits(asked)
             /\ asked.tool = "drawdown" => answer = Risk!CalculateDrawdown(asked)

LEMMA KellyHolds == ASSUME RiskInv, part = "risk" PROVE Risk!KellyIsBounded
<1>1. SUFFICES ASSUME Risk!Answered("kelly")
               PROVE  /\ 0 <= answer.size /\ answer.size <= 100 * 100 * asked.avgWin
                      /\ asked.winRate * asked.avgWin <= (100 - asked.winRate) * asked.avgLoss => answer.size = 0
  BY Zenon DEF Risk!KellyIsBounded
<1>2. asked.tool = "kelly" /\ answer # None /\ answer.ok
  BY <1>1 DEF Risk!Answered
<1>3. asked \in Risk!KellyRequests
  BY <1>2 DEF RiskInv, Risk!VaRRequests, Risk!LimitRequests, Risk!SharpeRequests, Risk!DrawdownRequests
<1>4. PICK w \in Int, a \in 0 .. 2, l \in 0 .. 2, f \in {0, 25, 100, 110} :
         asked.winRate = w /\ asked.avgWin = a /\ asked.avgLoss = l /\ asked.fraction = f
  BY <1>3 DEF Risk!KellyRequests
<1>5. answer = Risk!CalculatePositionSize(asked)
  BY <1>2, Zenon DEF RiskInv
<1>6. /\ w \in 0 .. 100 /\ a > 0 /\ l > 0 /\ f \in 1 .. 100
      /\ answer = [ok |-> TRUE, size |-> IF Risk!KellyEdge(asked) < 0 THEN 0 ELSE Risk!KellyEdge(asked) * f]
  <2>1. answer = IF w \in 0 .. 100 /\ a > 0 /\ l > 0 /\ f \in 1 .. 100
                 THEN [ok |-> TRUE, size |-> IF Risk!KellyEdge(asked) < 0 THEN 0 ELSE Risk!KellyEdge(asked) * f]
                 ELSE [ok |-> FALSE]
    BY <1>4, <1>5, Zenon DEF Risk!CalculatePositionSize, Risk!Error
  <2>2. ~ [ok |-> FALSE].ok
    OBVIOUS
  <2> QED
    BY <1>2, <2>1, <2>2, Zenon
<1>7. PICK edge \in Int : edge = w * a - (100 - w) * l /\ edge <= 100 * a
  BY <1>4, <1>6
<1>8. answer.size = IF edge < 0 THEN 0 ELSE edge * f
  BY <1>4, <1>6, <1>7 DEF Risk!KellyEdge
<1>9. f = 25 \/ f = 100
  BY <1>6
<1>10. 0 <= answer.size /\ answer.size <= 100 * 100 * a
  BY <1>7, <1>8, <1>9
<1>11. w * a <= (100 - w) * l => answer.size = 0
  <2>1. w * a <= (100 - w) * l => edge <= 0
    BY <1>4, <1>6, <1>7
  <2> QED
    BY <1>7, <1>8, <1>9, <2>1
<1> QED
  BY <1>4, <1>10, <1>11

LEMMA LimitsHold == ASSUME RiskInv, Risk!RiskAssumption, part = "risk" PROVE Risk!ApprovalMeansLimitsHold
<1>1. SUFFICES ASSUME Risk!Answered("limits"), asked.side = "BUY", asked.held["btc"] + asked.held["eth"] >= 0
               PROVE  answer.approved <=>
                        LET after == [asked.held EXCEPT ![asked.symbol] = @ + asked.value]
                            total == after["btc"] + after["eth"]
                        IN  /\ asked.maxExposure = None \/ total <= asked.maxExposure
                            /\ \/ asked.maxConcentration = None
                               \/ \A s \in Risk!Symbols : 100 * after[s] <= asked.maxConcentration * total
  BY Zenon DEF Risk!ApprovalMeansLimitsHold
<1>2. asked.tool = "limits" /\ answer # None
  BY <1>1 DEF Risk!Answered
<1>3. asked \in Risk!LimitRequests
  BY <1>2 DEF RiskInv, Risk!KellyRequests, Risk!VaRRequests, Risk!SharpeRequests, Risk!DrawdownRequests
<1>4. /\ asked.held \in [Risk!Symbols -> Int] /\ asked.symbol \in Risk!Symbols /\ asked.value \in Int /\ asked.value > 0
      /\ asked.maxExposure \in Int \cup {None} /\ asked.maxConcentration \in {None, 50, 90}
  BY <1>3, ZenonT(60) DEF Risk!LimitRequests, Risk!RiskAssumption
<1> DEFINE after == [asked.held EXCEPT ![asked.symbol] = @ + asked.value]
           total == after["btc"] + after["eth"]
<1>5. Risk!Change(asked) = asked.value
  BY <1>1 DEF Risk!Change
<1>6. \A s \in Risk!Symbols : after[s] \in Int /\ after[s] = Risk!HeldAfter(asked, s)
  BY <1>4, <1>5 DEF Risk!HeldAfter
<1>7. PICK b \in Int, e \in Int : b = asked.held["btc"] /\ e = asked.held["eth"] /\ b + e >= 0
  BY <1>1, <1>4 DEF Risk!Symbols
<1>8. total \in Int /\ total > 0 /\ total = Risk!Total(asked)
  <2>1. Risk!Total(asked) = b + e + asked.value
    BY <1>5, <1>7, Zenon DEF Risk!Total
  <2>2. total = b + e + asked.value
    BY <1>4, <1>7 DEF Risk!Symbols
  <2> HIDE DEF total
  <2> QED
    BY <1>4, <1>7, <2>1, <2>2
<1>9. answer.approved <=> ~ Risk!OverExposed(asked) /\ ~ Risk!Concentrated(asked)
  <2>1. answer = Risk!CheckPortfolioLimits(asked)
    BY <1>2, Zenon DEF RiskInv
  <2> QED
    BY <2>1 DEF Risk!CheckPortfolioLimits
<1> HIDE DEF after, total
<1>10. ~ Risk!OverExposed(asked) <=> asked.maxExposure = None \/ total <= asked.maxExposure
  <2>1. CASE asked.maxExposure = None
    BY <2>1, Zenon DEF Risk!OverExposed
  <2>2. CASE asked.maxExposure # None
    <3>1. PICK m \in Int : m = asked.maxExposure
      BY <1>4, <2>2
    <3>2. Risk!OverExposed(asked) <=> total > m
      BY <1>8, <2>2, <3>1, Zenon DEF Risk!OverExposed
    <3> QED
      BY <1>8, <2>2, <3>1, <3>2
  <2> QED
    BY <2>1, <2>2
<1>11. ~ Risk!Concentrated(asked) <=>
          asked.maxConcentration = None \/ \A s \in Risk!Symbols : 100 * after[s] <= asked.maxConcentration * total
  <2>1. CASE asked.maxConcentration = None
    BY <2>1, Zenon DEF Risk!Concentrated
  <2>2. CASE asked.maxConcentration # None
    <3>1. PICK m \in {50, 90} : m = asked.maxConcentration
      BY <1>4, <2>2
    <3>2. Risk!Concentrated(asked) <=>
            \E s \in Risk!Symbols : Risk!HeldAfter(asked, s) > 0 /\ Risk!HeldAfter(asked, s) * 100 > m * Risk!Total(asked)
      BY <1>8, <2>2, <3>1, Zenon DEF Risk!Concentrated
    <3>3. \A s \in Risk!Symbols : Risk!HeldAfter(asked, s) > 0 /\ Risk!HeldAfter(asked, s) * 100 > m * Risk!Total(asked)
                                    <=> ~ (100 * after[s] <= m * total)
      <4>1. SUFFICES ASSUME NEW s \in Risk!Symbols
                     PROVE  Risk!HeldAfter(asked, s) > 0 /\ Risk!HeldAfter(asked, s) * 100 > m * Risk!Total(asked)
                                    <=> ~ (100 * after[s] <= m * total)
        OBVIOUS
      <4>2. PICK h \in Int : h = after[s] /\ h = Risk!HeldAfter(asked, s)
        BY <1>6
      <4>3. m = 50 \/ m = 90
        OBVIOUS
      <4>4. h > 0 /\ h * 100 > m * total <=> ~ (100 * h <= m * total)
        BY <1>8, <4>3
      <4> QED
        BY <1>8, <4>2, <4>4, ZenonT(60)
    <3> DEFINE Over(s) == Risk!HeldAfter(asked, s) > 0 /\ Risk!HeldAfter(asked, s) * 100 > m * Risk!Total(asked)
               Within(s) == 100 * after[s] <= m * total
    <3>4. Risk!Concentrated(asked) <=> \E s \in Risk!Symbols : Over(s)
      BY <3>2
    <3>5. \A s \in Risk!Symbols : Over(s) <=> ~ Within(s)
      BY <3>3
    <3> HIDE DEF Over, Within
    <3>6. ~ Risk!Concentrated(asked) <=> \A s \in Risk!Symbols : Within(s)
      BY <3>4, <3>5
    <3>7. ~ Risk!Concentrated(asked) <=> \A s \in Risk!Symbols : 100 * after[s] <= asked.maxConcentration * total
      BY <3>1, <3>6 DEF Within
    <3> QED
      BY <2>2, <3>7, Zenon
  <2> QED
    BY <2>1, <2>2
<1> QED
  BY <1>9, <1>10, <1>11, Zenon DEF after, total

\* A product of quotients, without dividing: x/p <= y/q <= z/r.
LEMMA RatiosChain ==
    ASSUME NEW x \in Nat, NEW p \in Nat \ {0}, NEW y \in Nat, NEW q \in Nat \ {0}, NEW z \in Nat, NEW r \in Nat \ {0},
           x * q <= y * p, y * r <= z * q
    PROVE  x * r <= z * p
<1>1. PICK a \in Nat, b \in Nat, c \in Nat, d \in Nat, m \in Nat, n \in Nat :
         a = x * q /\ b = y * p /\ c = y * r /\ d = z * q /\ m = x * r /\ n = z * p
  OBVIOUS
<1>2. a * r <= b * r /\ c * p <= d * p
  <2>1. \A i, j, k \in Nat : i <= j => i * k <= j * k
    OBVIOUS
  <2> QED
    BY <1>1, <2>1
<1>3. a * r = m * q /\ b * r = c * p /\ d * p = n * q
  BY <1>1
<1>4. m * q <= n * q
  BY <1>1, <1>2, <1>3
<1>5. m <= n
  <2>1. \A i, j \in Nat, k \in Nat \ {0} : i * k <= j * k => i <= j
    <3>1. SUFFICES ASSUME NEW i \in Nat, NEW j \in Nat, NEW k \in Nat \ {0}, i >= j + 1 PROVE i * k > j * k
      OBVIOUS
    <3>2. i * k >= (j + 1) * k
      BY <3>1
    <3>3. (j + 1) * k = j * k + k
      OBVIOUS
    <3> QED
      BY <3>2, <3>3
  <2> QED
    BY <1>1, <1>4, <2>1
<1> QED
  BY <1>1, <1>5

\* A series of natural numbers has been at its peak by each time.
LEMMA PeakIs ==
    ASSUME NEW n \in Nat, NEW e \in [1 .. n -> Nat]
    PROVE  \A i \in 1 .. n : \E j \in 1 .. i : \A k \in 1 .. i : e[k] <= e[j]
<1> DEFINE Peaked(i) == \E j \in 1 .. i : \A k \in 1 .. i : e[k] <= e[j]
           N == {i \in 1 .. n : ~ Peaked(i)}
<1>1. SUFFICES ASSUME N # {} PROVE FALSE
  OBVIOUS
<1>2. PICK i \in N : \A k \in N : ~ (k < i)
  <2>1. N \in SUBSET Nat
    OBVIOUS
  <2> HIDE DEF N
  <2> QED
    BY <1>1, <2>1, Least
<1>3. CASE i = 1
  BY <1>2, <1>3
<1>4. CASE i > 1
  <2>1. i - 1 \in 1 .. n /\ i - 1 < i
    BY <1>4
  <2>2. PICK j \in 1 .. i - 1 : \A k \in 1 .. i - 1 : e[k] <= e[j]
    BY <1>2, <2>1
  <2>3. e[i] \in Nat /\ e[j] \in Nat /\ \A k \in 1 .. i : k = i \/ (k \in 1 .. i - 1 /\ e[k] \in Nat)
    BY <2>1
  <2>4. CASE e[i] <= e[j]
    <3>1. \A k \in 1 .. i : e[k] <= e[j]
      BY <2>2, <2>3, <2>4
    <3> QED
      BY <1>2, <2>1, <3>1
  <2>5. CASE e[j] < e[i]
    <3>1. \A k \in 1 .. i : e[k] <= e[i]
      BY <2>2, <2>3, <2>5
    <3> QED
      BY <1>2, <1>4, <3>1, SMTT(30)
  <2> QED
    BY <2>3, <2>4, <2>5
<1> QED
  BY <1>2, <1>3, <1>4

LEMMA RunningMaxIs ==
    ASSUME NEW n \in Nat, NEW e \in [1 .. n -> Nat], NEW i \in 1 .. n
    PROVE  /\ Risk!RunningMax(e, i) \in Nat
           /\ \E j \in 1 .. i : e[j] = Risk!RunningMax(e, i)
           /\ \A k \in 1 .. i : e[k] <= Risk!RunningMax(e, i)
<1>1. PICK j \in 1 .. i : \A k \in 1 .. i : e[k] <= e[j]
  BY PeakIs
<1> DEFINE S == {e[k] : k \in 1 .. i}
<1>2. e[j] \in S /\ \A y \in S : e[j] >= y
  BY <1>1
<1>3. Risk!Max(S) \in S /\ \A y \in S : Risk!Max(S) >= y
  <2> HIDE DEF S
  <2> QED
    BY <1>2, Zenon DEF Risk!Max
<1>4. Risk!RunningMax(e, i) = Risk!Max(S)
  BY DEF Risk!RunningMax
<1>5. PICK h \in S : h = Risk!RunningMax(e, i) /\ \A y \in S : h >= y
  BY <1>3, <1>4
<1>6. PICK k \in 1 .. i : h = e[k]
  BY <1>5
<1>7. h \in Nat /\ \A l \in 1 .. i : e[l] \in Nat /\ e[l] \in S
  BY <1>6
<1> HIDE DEF S
<1>8. \A l \in 1 .. i : e[l] <= h
  BY <1>5, <1>7
<1> QED
  BY <1>5, <1>6, <1>7, <1>8

\* Of parts m of wholes w, one is the largest part of its whole.
LEMMA LargestPart ==
    ASSUME NEW n \in Nat, NEW m \in [1 .. n -> Nat], NEW w \in [1 .. n -> Nat], NEW F \in SUBSET (1 .. n), F # {},
           \A i \in F : w[i] > 0
    PROVE  \E i \in F : \A j \in F : m[j] * w[i] <= m[i] * w[j]
<1> DEFINE Some(k) == \E i \in F \cap 1 .. k : \A j \in F \cap 1 .. k : m[j] * w[i] <= m[i] * w[j]
           N == {k \in 1 .. n : F \cap 1 .. k # {} /\ ~ Some(k)}
<1>1. N = {}
  <2>1. SUFFICES ASSUME N # {} PROVE FALSE
    OBVIOUS
  <2>2. PICK k \in N : \A l \in N : ~ (l < k)
    <3>1. N \in SUBSET Nat
      OBVIOUS
    <3> HIDE DEF N
    <3> QED
      BY <2>1, <3>1, Least
  <2>3. k \in 1 .. n /\ F \cap 1 .. k # {} /\ ~ Some(k)
    BY <2>2
  <2>4. CASE k \notin F
    <3>1. F \cap 1 .. k - 1 = F \cap 1 .. k /\ k > 1
      <4>1. \A j \in 1 .. k : j = k \/ j \in 1 .. k - 1
        BY <2>3
      <4>2. 1 .. k - 1 \subseteq 1 .. k
        BY <2>3
      <4>3. F \cap 1 .. k - 1 = F \cap 1 .. k
        BY <2>4, <4>1, <4>2, Zenon
      <4>4. PICK j \in 1 .. k - 1 : TRUE
        BY <2>3, <4>3
      <4>5. k > 1
        BY <2>3, <4>4
      <4> QED
        BY <4>3, <4>5, Zenon
    <3>2. k - 1 \in N
      <4>1. ~ Some(k - 1)
        BY <2>3, <3>1, Zenon
      <4>2. k - 1 \in 1 .. n
        BY <3>1
      <4> QED
        BY <2>3, <3>1, <4>1, <4>2
    <3>3. k - 1 < k
      BY <2>3
    <3> QED
      BY <2>2, <3>2, <3>3, Zenon
  <2>5. CASE k \in F /\ F \cap 1 .. k - 1 = {}
    <3>1. F \cap 1 .. k = {k}
      <4>1. \A j \in 1 .. k : j = k \/ j \in 1 .. k - 1
        BY <2>3
      <4>2. k \in 1 .. k
        BY <2>3
      <4>3. \A j \in F \cap 1 .. k : j \notin 1 .. k - 1
        BY <2>5, Zenon
      <4>4. \A j \in F \cap 1 .. k : j = k
        BY <4>1, <4>3, Zenon
      <4>5. k \in F \cap 1 .. k
        BY <2>5, <4>2, Zenon
      <4> QED
        BY <4>4, <4>5
    <3>2. m[k] * w[k] <= m[k] * w[k]
      BY <2>3
    <3> QED
      BY <2>3, <3>1, <3>2
  <2>6. CASE k \in F /\ F \cap 1 .. k - 1 # {}
    <3>1. k > 1 /\ k - 1 \in 1 .. n /\ k - 1 < k
      <4>1. PICK j \in 1 .. k - 1 : TRUE
        BY <2>6
      <4> QED
        BY <2>3, <4>1
    <3>2. Some(k - 1)
      BY <2>2, <2>6, <3>1
    <3>3. PICK i \in F \cap 1 .. k - 1 : \A j \in F \cap 1 .. k - 1 : m[j] * w[i] <= m[i] * w[j]
      BY <3>2
    <3> HIDE DEF Some, N
    <3>4. i \in F \cap 1 .. k /\ k \in F \cap 1 .. k /\ \A j \in F \cap 1 .. k : j = k \/ j \in F \cap 1 .. k - 1
      <4>1. \A j \in 1 .. k : j = k \/ j \in 1 .. k - 1
        BY <2>3
      <4>2. k \in 1 .. k /\ 1 .. k - 1 \subseteq 1 .. k
        BY <2>3
      <4> QED
        BY <2>6, <4>1, <4>2, Zenon
    <3>5. m[i] \in Nat /\ w[i] \in Nat \ {0} /\ m[k] \in Nat /\ w[k] \in Nat \ {0}
      <4>1. \A j \in F : j \in 1 .. n /\ m[j] \in Nat /\ w[j] \in Nat /\ w[j] > 0
        OBVIOUS
      <4>2. \A j \in F : m[j] \in Nat /\ w[j] \in Nat \ {0}
        BY <4>1
      <4>3. i \in F /\ k \in F
        BY <2>6, Zenon
      <4> QED
        BY <4>2, <4>3, Zenon
    <3>6. CASE m[k] * w[i] <= m[i] * w[k]
      <4>1. \A j \in F \cap 1 .. k : m[j] * w[i] <= m[i] * w[j]
        BY <3>3, <3>4, <3>6
      <4> QED
        BY <2>3, <3>4, <4>1 DEF Some
    <3>7. CASE ~ (m[k] * w[i] <= m[i] * w[k])
      <4>1. m[i] * w[k] <= m[k] * w[i]
        <5>1. m[k] * w[i] \in Nat /\ m[i] * w[k] \in Nat
          BY <3>5, SMTT(30)
        <5> QED
          BY <3>7, <5>1
      <4>2. ASSUME NEW j \in F \cap 1 .. k PROVE m[j] * w[k] <= m[k] * w[j]
        <5>1. CASE j = k
          BY <3>5, <5>1
        <5>2. CASE j \in F \cap 1 .. k - 1
          <6>1. m[j] \in Nat /\ w[j] \in Nat \ {0} /\ m[j] * w[i] <= m[i] * w[j]
            BY <3>3, <5>2
          <6> QED
            BY <3>5, <4>1, <6>1, RatiosChain
        <5> QED
          BY <3>4, <5>1, <5>2
      <4> QED
        BY <2>3, <3>4, <4>2 DEF Some
    <3> QED
      BY <3>6, <3>7
  <2> QED
    BY <2>4, <2>5, <2>6
<1>2. n \in 1 .. n /\ F \cap 1 .. n = F
  <2>1. F \cap 1 .. n = F
    BY Zenon
  <2>2. PICK j \in 1 .. n : TRUE
    BY <2>1
  <2> QED
    BY <2>1, <2>2
<1>3. Some(n)
  BY <1>1, <1>2
<1> QED
  BY <1>2, <1>3

LEMMA RiskCardinality == \A S : Risk!Cardinality(S) = Cardinality(S)
BY DEF Risk!Cardinality, Cardinality

LEMMA FirstIs == ASSUME NEW S \in SUBSET Nat, S # {} PROVE Risk!Min(S) \in S /\ \A i \in S : Risk!Min(S) <= i
<1>1. PICK n \in S : \A m \in S : ~ (m < n)
  BY Least
<1>2. \A m \in S : n <= m
  BY <1>1
<1> QED
  BY <1>2, Zenon DEF Risk!Min

LEMMA LatestIs ==
    ASSUME NEW n \in Nat, NEW S \in SUBSET (1 .. n), S # {}
    PROVE  Risk!Max(S) \in S /\ \A i \in S : Risk!Max(S) >= i
<1> DEFINE T == {i \in Nat : i <= n /\ n - i \in S}
<1>1. T \in SUBSET Nat
  OBVIOUS
<1>2. T # {} /\ \A i \in S : n - i \in T
  <2>1. \A i \in S : n - i \in Nat /\ n - i <= n /\ n - (n - i) = i
    OBVIOUS
  <2>2. \A i \in S : n - i \in T
    BY <2>1
  <2> QED
    BY <2>2
<1>3. PICK i \in T : \A k \in T : ~ (k < i)
  <2> HIDE DEF T
  <2> QED
    BY <1>1, <1>2, Least
<1>4. n - i \in S /\ i \in Nat
  OBVIOUS
<1>5. \A k \in S : n - i >= k
  <2>1. SUFFICES ASSUME NEW k \in S PROVE n - i >= k
    OBVIOUS
  <2>2. ~ (n - k < i) /\ k \in Nat
    BY <1>2, <1>3
  <2> QED
    BY <1>4, <2>2
<1> QED
  BY <1>4, <1>5, Zenon DEF Risk!Max

\* Equity that never falls has no drawdown, and the other way round.
LEMMA NeverFalls ==
    ASSUME NEW n \in Nat, NEW e \in [1 .. n -> Nat]
    PROVE  (\A i \in 1 .. n : ~ Risk!Falls(e, i)) <=> \A i \in 2 .. n : e[i] >= e[i - 1]
<1>1. ASSUME \A i \in 1 .. n : ~ Risk!Falls(e, i), NEW i \in 2 .. n PROVE e[i] >= e[i - 1]
  <2>1. i \in 1 .. n /\ i - 1 \in 1 .. i /\ i - 1 \in 1 .. n
    OBVIOUS
  <2>2. PICK m \in Nat : m = Risk!RunningMax(e, i) /\ e[i - 1] <= m
    BY <2>1, RunningMaxIs
  <2>3. ~ (m > 0 /\ e[i] < m)
    BY <1>1, <2>1, <2>2, Zenon DEF Risk!Falls
  <2>4. e[i] \in Nat /\ e[i - 1] \in Nat
    BY <2>1
  <2> QED
    BY <2>2, <2>3, <2>4
<1>2. ASSUME \A i \in 2 .. n : e[i] >= e[i - 1], NEW i \in 1 .. n, Risk!Falls(e, i) PROVE FALSE
  <2> DEFINE N == {k \in 1 .. n : \E j \in 1 .. k : e[j] > e[k]}
  <2>1. N \in SUBSET Nat
    OBVIOUS
  <2>2. i \in N
    <3>1. PICK j \in 1 .. i : e[j] = Risk!RunningMax(e, i)
      BY RunningMaxIs
    <3>2. e[i] < e[j] /\ j \in 1 .. n /\ e[i] \in Nat /\ e[j] \in Nat
      BY <1>2, <3>1 DEF Risk!Falls
    <3> QED
      BY <3>2
  <2>3. PICK k \in N : \A l \in N : ~ (l < k)
    <3> HIDE DEF N
    <3> QED
      BY <2>1, <2>2, Least
  <2>4. PICK j \in 1 .. k : e[j] > e[k]
    BY <2>3
  <2>5. k \in 1 .. n /\ j # k /\ e[k] \in Nat /\ e[j] \in Nat
    BY <2>4
  <2>6. k - 1 \in 1 .. n /\ j \in 1 .. k - 1 /\ k \in 2 .. n /\ k - 1 < k
    BY <2>4, <2>5
  <2>7. e[k - 1] \in Nat /\ e[k] >= e[k - 1]
    BY <1>2, <2>6
  <2>8. k - 1 \in N
    BY <2>4, <2>5, <2>6, <2>7
  <2> HIDE DEF N
  <2> QED
    BY <2>3, <2>6, <2>8, Zenon
<1> QED
  BY <1>1, <1>2

\* A drawdown measured from an entry is no deeper than one measured from the peak.
LEMMA FromThePeak ==
    ASSUME NEW x \in Nat, NEW y \in Nat, NEW m \in Nat, y < x, x <= m
    PROVE  (x - y) * m <= (m - y) * x
<1>1. PICK a \in Int, b \in Int, c \in Int : a = x * m /\ b = y * m /\ c = y * x
  OBVIOUS
<1>2. (x - y) * m = a - b /\ (m - y) * x = a - c
  BY <1>1
<1>3. c <= b
  BY <1>1
<1> QED
  BY <1>1, <1>2, <1>3

LEMMA NoMore == ASSUME NEW x \in Nat, NEW y \in Nat, NEW f \in Nat, x <= y PROVE (x - y) * f <= 0
<1>1. PICK g \in Nat : g = y - x
  OBVIOUS
<1>2. (x - y) * f = 0 - g * f /\ g * f \in Nat
  BY <1>1
<1> QED
  BY <1>2

LEMMA DrawdownHolds == ASSUME RiskInv, Risk!RiskAssumption, part = "risk" PROVE Risk!DrawdownIsTheWorst
<1> DEFINE e == asked.equity
<1>1. SUFFICES ASSUME Risk!Answered("drawdown")
               PROVE  /\ \A i, j \in DOMAIN e : i <= j => (e[i] - e[j]) * e[answer.peak] <= answer.loss * e[i]
                      /\ answer.loss = e[answer.peak] - e[answer.trough] /\ answer.peak <= answer.trough
                      /\ answer.recovery = None => \A i \in answer.trough + 1 .. Len(e) : e[i] < e[answer.peak]
                      /\ answer.underwater = 0 <=> \A i \in 2 .. Len(e) : e[i] >= e[i - 1]
  BY Zenon DEF Risk!DrawdownIsTheWorst
<1>2. asked.tool = "drawdown" /\ answer # None
  BY <1>1 DEF Risk!Answered
<1>3. asked \in Risk!DrawdownRequests
  BY <1>2 DEF RiskInv, Risk!KellyRequests, Risk!VaRRequests, Risk!SharpeRequests, Risk!LimitRequests
<1>4. PICK n \in Nat \ {0} : e \in [1 .. n -> Nat] /\ Len(e) = n /\ DOMAIN e = 1 .. n
  <2>1. e \in Risk!Series({v \in Levels : v >= 0})
    BY <1>3 DEF Risk!DrawdownRequests
  <2>2. {v \in Levels : v >= 0} \subseteq Nat
    <3>1. \A v \in Levels : v \in Int
      BY Zenon DEF Risk!RiskAssumption
    <3> QED
      BY <3>1
  <2> HIDE DEF e
  <2>3. PICK n \in 1 .. MaxPeriods : e \in [1 .. n -> {v \in Levels : v >= 0}]
    BY <2>1 DEF Risk!Series
  <2>4. e \in [1 .. n -> Nat] /\ e \in Seq(Nat)
    BY <2>2, <2>3
  <2>5. n \in Nat \ {0} /\ DOMAIN e = 1 .. n /\ Len(e) = n
    BY <2>4
  <2> QED
    BY <2>4, <2>5
<1> HIDE DEF e
<1> DEFINE deepest == {i \in 1 .. n : Risk!Falls(e, i) /\ \A j \in 1 .. n : Risk!Falls(e, j) => ~ Risk!Deeper(e, j, i)}
           trough == IF deepest = {} THEN 1 ELSE Risk!Min(deepest)
           peak == IF deepest = {} THEN 1 ELSE Risk!Max({j \in 1 .. trough - 1 : e[j] = Risk!RunningMax(e, trough)})
           back == {i \in trough + 1 .. n : e[i] >= Risk!RunningMax(e, trough)}
           falls == {i \in 1 .. n : Risk!Falls(e, i)}
<1>5. /\ answer.loss = Risk!RunningMax(e, trough) - e[trough] /\ answer.peak = peak /\ answer.trough = trough
      /\ answer.recovery = IF back = {} THEN None ELSE Risk!Min(back)
      /\ answer.underwater = Cardinality(falls)
  <2>1. answer = Risk!CalculateDrawdown(asked)
    BY <1>2, Zenon DEF RiskInv
  <2>2. Risk!Len(e) = n
    BY <1>4
  <2>3. answer = [ok |-> TRUE, loss |-> Risk!RunningMax(e, trough) - e[trough], peak |-> peak, trough |-> trough,
                  recovery |-> IF back = {} THEN None ELSE Risk!Min(back),
                  now |-> Risk!RunningMax(e, n) - e[n], underwater |-> Risk!Cardinality(falls)]
    BY <1>4, <2>1, Zenon DEF Risk!CalculateDrawdown, e
  <2> HIDE DEF deepest, trough, peak, back, falls
  <2> QED
    BY <2>3, RiskCardinality
<1>6. PICK M \in [1 .. n -> Nat] :
         \A i \in 1 .. n : /\ M[i] = Risk!RunningMax(e, i) /\ \E j \in 1 .. i : e[j] = M[i]
                           /\ \A k \in 1 .. i : e[k] <= M[i]
  <2>1. [i \in 1 .. n |-> Risk!RunningMax(e, i)] \in [1 .. n -> Nat]
    BY <1>4, RunningMaxIs
  <2>2. \A i \in 1 .. n : [k \in 1 .. n |-> Risk!RunningMax(e, k)][i] = Risk!RunningMax(e, i)
    OBVIOUS
  <2>3. \A i \in 1 .. n : /\ \E j \in 1 .. i : e[j] = Risk!RunningMax(e, i)
                          /\ \A k \in 1 .. i : e[k] <= Risk!RunningMax(e, i)
    BY <1>4, RunningMaxIs
  <2> QED
    BY <2>1, <2>2, <2>3
<1>7. \A i \in 1 .. n : e[i] \in Nat /\ M[i] \in Nat /\ e[i] <= M[i] /\ (Risk!Falls(e, i) <=> M[i] > 0 /\ e[i] < M[i])
  BY <1>4, <1>6 DEF Risk!Falls
<1>8. ASSUME NEW i \in 1 .. n, NEW j \in 1 .. n
      PROVE  ~ Risk!Deeper(e, i, j) <=> (M[i] - e[i]) * M[j] <= (M[j] - e[j]) * M[i]
  <2>1. Risk!Deeper(e, i, j) <=> (M[i] - e[i]) * M[j] > (M[j] - e[j]) * M[i]
    BY <1>6, Zenon DEF Risk!Deeper
  <2>2. (M[i] - e[i]) * M[j] \in Int /\ (M[j] - e[j]) * M[i] \in Int
    BY <1>7, SMTT(30)
  <2> QED
    BY <2>1, <2>2
<1> HIDE DEF falls, back
<1>9. answer.underwater = 0 <=> \A i \in 2 .. n : e[i] >= e[i - 1]
  <2>1. IsFiniteSet(falls)
    <3>1. IsFiniteSet(1 .. n) /\ falls \subseteq 1 .. n
      BY FS_Interval DEF falls
    <3> QED
      BY <3>1, FS_Subset, Zenon
  <2>2. Cardinality(falls) = 0 <=> falls = {}
    BY <2>1, FS_EmptySet
  <2>3. falls = {} <=> \A i \in 1 .. n : ~ Risk!Falls(e, i)
    BY DEF falls
  <2> QED
    BY <1>4, <1>5, <2>2, <2>3, NeverFalls
<1>10. ASSUME trough \in 1 .. n PROVE answer.recovery = None => \A i \in trough + 1 .. n : e[i] < M[trough]
  <2>1. Risk!RunningMax(e, trough) = M[trough]
    BY <1>6, <1>10
  <2>2. back \in SUBSET Nat
    <3>1. back \subseteq trough + 1 .. n
      BY Zenon DEF back
    <3> HIDE DEF trough
    <3>2. trough + 1 .. n \subseteq Nat
      BY <1>10
    <3> QED
      BY <3>1, <3>2, Zenon
  <2>3. back # {} => Risk!Min(back) \in Nat
    BY <2>2, FirstIs
  <2>4. answer.recovery = None => back = {}
    BY <1>5, <2>3 DEF Risk!RiskAssumption
  <2>5. back = {} => \A i \in trough + 1 .. n : ~ (e[i] >= M[trough])
    BY <2>1 DEF back
  <2>6. \A i \in trough + 1 .. n : i \in 1 .. n
    BY <1>10
  <2> HIDE DEF trough
  <2> QED
    BY <1>7, <1>10, <2>4, <2>5, <2>6
<1>11. CASE deepest = {}
  <2>1. trough = 1 /\ peak = 1 /\ 1 \in 1 .. n
    BY <1>4, <1>11
  <2>2. M[1] = e[1]
    BY <1>6, <2>1
  <2>3. \A i \in 1 .. n : ~ Risk!Falls(e, i)
    <3>1. SUFFICES ASSUME falls # {} PROVE FALSE
      BY DEF falls
    <3> DEFINE d == [i \in 1 .. n |-> M[i] - e[i]]
    <3>2. d \in [1 .. n -> Nat] /\ \A i \in 1 .. n : d[i] = M[i] - e[i]
      BY <1>7
    <3> HIDE DEF d
    <3>3. falls \in SUBSET (1 .. n) /\ \A i \in falls : M[i] > 0
      BY <1>7 DEF falls
    <3>4. n \in Nat
      OBVIOUS
    <3>5. PICK i \in falls : \A j \in falls : d[j] * M[i] <= d[i] * M[j]
      BY <3>1, <3>2, <3>3, <3>4, LargestPart
    <3>6. i \in 1 .. n /\ Risk!Falls(e, i)
      BY DEF falls
    <3>7. ASSUME NEW j \in 1 .. n, Risk!Falls(e, j) PROVE ~ Risk!Deeper(e, j, i)
      <4>1. j \in falls
        BY <3>7 DEF falls
      <4>2. (M[j] - e[j]) * M[i] <= (M[i] - e[i]) * M[j]
        BY <3>2, <3>5, <3>6, <4>1
      <4> QED
        BY <1>8, <3>6, <4>2
    <3> QED
      BY <1>11, <3>6, <3>7
  <2> HIDE DEF deepest, trough, peak
  <2>4. answer.loss = 0
    BY <1>5, <1>6, <1>7, <2>1, <2>2
  <2>5. \A i, j \in 1 .. n : i <= j => e[i] <= e[j]
    <3>1. SUFFICES ASSUME NEW i \in 1 .. n, NEW j \in 1 .. n, i <= j PROVE e[i] <= e[j]
      OBVIOUS
    <3>2. ~ (M[j] > 0 /\ e[j] < M[j]) /\ e[i] <= M[j]
      BY <1>6, <1>7, <2>3, <3>1
    <3> QED
      BY <1>7, <3>2
  <2>6. \A i, j \in 1 .. n : i <= j => (e[i] - e[j]) * e[1] <= 0 * e[i]
    <3>1. SUFFICES ASSUME NEW i \in 1 .. n, NEW j \in 1 .. n, i <= j PROVE (e[i] - e[j]) * e[1] <= 0 * e[i]
      OBVIOUS
    <3>2. PICK f \in Nat, x \in Nat, y \in Nat : f = e[1] /\ x = e[i] /\ y = e[j] /\ x <= y
      BY <1>7, <2>1, <2>5, <3>1
    <3>3. (x - y) * f <= 0
      BY <3>2, NoMore
    <3>4. 0 * e[i] = 0
      BY <3>2
    <3> QED
      BY <3>2, <3>3, <3>4, Zenon
  <2>7. answer.loss = e[answer.peak] - e[answer.trough] /\ answer.peak <= answer.trough
    BY <1>5, <1>7, <2>1, <2>4
  <2>8. answer.recovery = None => \A i \in answer.trough + 1 .. n : e[i] < e[answer.peak]
    BY <1>5, <1>10, <2>1, <2>2
  <2> QED
    BY <1>4, <1>5, <1>9, <2>1, <2>4, <2>6, <2>7, <2>8
<1>12. CASE deepest # {}
  <2>1. deepest \in SUBSET Nat
    BY <1>4
  <2>2. trough \in deepest
    <3> HIDE DEF deepest
    <3> QED
      BY <1>12, <2>1, FirstIs
  <2>3. PICK t \in 1 .. n : t = trough
    BY <2>2
  <2>4. Risk!Falls(e, t) /\ \A j \in 1 .. n : Risk!Falls(e, j) => ~ Risk!Deeper(e, j, t)
    BY <2>2, <2>3
  <2>5. peak = Risk!Max({j \in 1 .. t - 1 : e[j] = M[t]})
    <3>1. peak = Risk!Max({j \in 1 .. trough - 1 : e[j] = Risk!RunningMax(e, trough)})
      BY <1>12, Zenon
    <3> HIDE DEF peak, trough
    <3> QED
      BY <1>6, <2>3, <3>1
  <2> HIDE DEF deepest, trough, peak
  <2>6. M[t] > 0 /\ e[t] < M[t] /\ M[t] \in Nat /\ e[t] \in Nat
    BY <1>7, <2>4
  <2>7. peak \in 1 .. t - 1 /\ e[peak] = M[t]
    <3> DEFINE S == {j \in 1 .. t - 1 : e[j] = M[t]}
    <3>1. PICK j \in 1 .. t : e[j] = M[t]
      BY <1>6
    <3>2. j \in S
      BY <2>6, <3>1
    <3>3. S \in SUBSET (1 .. n) /\ S # {} /\ n \in Nat
      BY <3>2, SMTT(30)
    <3>4. peak \in S
      <4> HIDE DEF S
      <4>1. Risk!Max(S) \in S
        BY <3>3, LatestIs
      <4> QED
        BY <2>5, <4>1 DEF S
    <3> QED
      BY <3>4
  <2>8. answer.peak = peak /\ answer.trough = t /\ answer.loss = M[t] - e[t]
    BY <1>5, <1>6, <2>3
  <2>9. answer.peak <= answer.trough /\ answer.loss = e[answer.peak] - e[answer.trough]
    BY <2>7, <2>8
  <2>10. answer.recovery = None => \A i \in answer.trough + 1 .. n : e[i] < e[answer.peak]
    BY <1>10, <2>3, <2>7, <2>8
  <2>11. ASSUME NEW i \in 1 .. n, NEW j \in 1 .. n, i <= j PROVE (e[i] - e[j]) * M[t] <= (M[t] - e[t]) * e[i]
    <3>1. PICK x \in Nat, y \in Nat, m \in Nat, w \in Nat \ {0}, d \in Nat :
             x = e[i] /\ y = e[j] /\ m = M[j] /\ w = M[t] /\ d = M[t] - e[t] /\ x <= m /\ y <= m
      <4>1. e[i] <= M[j] /\ e[j] <= M[j]
        BY <1>6, <1>7, <2>11
      <4>2. e[i] \in Nat /\ e[j] \in Nat /\ M[j] \in Nat
        BY <1>7
      <4>3. M[t] \in Nat \ {0} /\ M[t] - e[t] \in Nat
        BY <2>6
      <4> QED
        BY <4>1, <4>2, <4>3, Zenon
    <3>2. CASE x <= y
      <4>1. (x - y) * w <= 0 /\ 0 <= d * x
        BY <3>2, NoMore
      <4>2. (x - y) * w \in Int /\ d * x \in Int
        OBVIOUS
      <4> QED
        BY <3>1, <4>1, <4>2
    <3>3. CASE y < x
      <4>1. m > 0 /\ y < m
        BY <3>1, <3>3, SMTT(30)
      <4>2. Risk!Falls(e, j)
        BY <1>7, <3>1, <4>1
      <4>3. (M[j] - e[j]) * M[t] <= (M[t] - e[t]) * M[j]
        BY <1>8, <2>4, <4>2
      <4>4. (m - y) * w <= d * m
        BY <3>1, <4>3
      <4>5. (x - y) * m <= (m - y) * x
        BY <3>1, <3>3, FromThePeak
      <4>6. x - y \in Nat /\ m - y \in Nat /\ x \in Nat \ {0} /\ m \in Nat \ {0} /\ w \in Nat \ {0} /\ d \in Nat
        <5>1. x - y \in Nat /\ m - y \in Nat
          BY <3>3, <4>1
        <5>2. x # 0 /\ m # 0
          BY <3>3, <4>1
        <5> QED
          BY <5>1, <5>2
      <4>7. (x - y) * w <= d * x
        BY <4>4, <4>5, <4>6, RatiosChain
      <4> QED
        BY <3>1, <4>7
    <3> QED
      BY <3>2, <3>3
  <2>12. \A i, j \in DOMAIN e : i <= j => (e[i] - e[j]) * e[answer.peak] <= answer.loss * e[i]
    BY <1>4, <2>7, <2>8, <2>11
  <2> QED
    BY <1>4, <1>9, <2>9, <2>10, <2>12
<1> QED
  BY <1>11, <1>12

UpTo(s, x) == {j \in DOMAIN s : s[j] <= x}
Under(s, x) == {j \in DOMAIN s : s[j] < x}

LEMMA UpToGrows ==
    ASSUME NEW n \in Nat, NEW s \in [1 .. n -> Int], NEW i \in 1 .. n
    PROVE  /\ IsFiniteSet(UpTo(s, s[i])) /\ Cardinality(UpTo(s, s[i])) \in 1 .. n
           /\ \A j \in 1 .. n : s[j] < s[i] => Cardinality(UpTo(s, s[j])) < Cardinality(UpTo(s, s[i]))
<1>1. IsFiniteSet(1 .. n) /\ Cardinality(1 .. n) = n
  BY FS_Interval
<1>2. \A j \in 1 .. n : UpTo(s, s[j]) \subseteq 1 .. n /\ j \in UpTo(s, s[j])
  BY DEF UpTo
<1>3. \A j \in 1 .. n : /\ IsFiniteSet(UpTo(s, s[j])) /\ Cardinality(UpTo(s, s[j])) \in Nat
                        /\ Cardinality(UpTo(s, s[j])) <= n
  BY <1>1, <1>2, FS_Subset, FS_CardinalityType
<1>4. Cardinality(UpTo(s, s[i])) # 0
  BY <1>2, <1>3, FS_EmptySet
<1>5. ASSUME NEW j \in 1 .. n, s[j] < s[i]
      PROVE  Cardinality(UpTo(s, s[j])) < Cardinality(UpTo(s, s[i]))
  <2>1. UpTo(s, s[j]) \subseteq UpTo(s, s[i]) /\ UpTo(s, s[j]) # UpTo(s, s[i])
    <3>1. s[i] \in Int /\ s[j] \in Int /\ \A k \in 1 .. n : s[k] \in Int
      OBVIOUS
    <3>2. i \notin UpTo(s, s[j])
      BY <1>5, <3>1 DEF UpTo
    <3>3. UpTo(s, s[j]) \subseteq UpTo(s, s[i])
      BY <1>5, <3>1 DEF UpTo
    <3> QED
      BY <1>2, <3>2, <3>3
  <2>2. /\ Cardinality(UpTo(s, s[j])) <= Cardinality(UpTo(s, s[i]))
        /\ Cardinality(UpTo(s, s[j])) # Cardinality(UpTo(s, s[i]))
    BY <1>3, <2>1, FS_Subset
  <2> QED
    BY <1>3, <2>2
<1> QED
  BY <1>3, <1>4, <1>5

LEMMA Topmost ==
    ASSUME NEW n \in Nat, NEW s \in [1 .. n -> Int], NEW L \in SUBSET (1 .. n), L # {}
    PROVE  \E i \in L : \A j \in L : s[j] <= s[i]
<1> DEFINE S == {Cardinality(UpTo(s, s[i])) : i \in L}
<1>1. S \in SUBSET (1 .. n) /\ S # {}
  BY UpToGrows
<1>2. PICK c \in S : \A d \in S : c >= d
  <2> HIDE DEF S
  <2> QED
    BY <1>1, LatestIs
<1>3. PICK i \in L : c = Cardinality(UpTo(s, s[i]))
  BY <1>2
<1>4. \A j \in L : Cardinality(UpTo(s, s[j])) \in 1 .. n /\ c >= Cardinality(UpTo(s, s[j]))
  BY <1>2, UpToGrows
<1>5. ASSUME NEW j \in L PROVE ~ (s[i] < s[j])
  <2>1. s[i] < s[j] => Cardinality(UpTo(s, s[i])) < Cardinality(UpTo(s, s[j]))
    BY UpToGrows
  <2>2. Cardinality(UpTo(s, s[j])) \in 1 .. n /\ c \in 1 .. n /\ c >= Cardinality(UpTo(s, s[j]))
    BY <1>3, <1>4
  <2> QED
    BY <1>3, <2>1, <2>2
<1>6. \A j \in L : s[j] \in Int
  OBVIOUS
<1> QED
  BY <1>5, <1>6, SMTT(30)

\* There is one return at each index of the sorted returns.
LEMMA SortedIs ==
    ASSUME NEW n \in Nat, NEW s \in [1 .. n -> Int], NEW k \in 0 .. n - 1
    PROVE  /\ Risk!Sorted(s, k) \in Int /\ Cardinality(Under(s, Risk!Sorted(s, k))) <= k
           /\ k < Cardinality(UpTo(s, Risk!Sorted(s, k)))
<1>1. IsFiniteSet(1 .. n) /\ Cardinality(1 .. n) = n /\ DOMAIN s = 1 .. n
  BY FS_Interval
<1> DEFINE N == {Cardinality(UpTo(s, s[i])) : i \in {j \in 1 .. n : k < Cardinality(UpTo(s, s[j]))}}
<1>2. N # {} /\ N \in SUBSET Nat
  <2>1. PICK i \in 1 .. n : \A j \in 1 .. n : s[j] <= s[i]
    <3>1. 1 .. n # {} /\ 1 .. n \in SUBSET (1 .. n)
      OBVIOUS
    <3> QED
      BY <3>1, Topmost
  <2>2. UpTo(s, s[i]) = 1 .. n
    BY <2>1 DEF UpTo
  <2>3. N # {}
    BY <1>1, <2>2
  <2>4. \A j \in 1 .. n : Cardinality(UpTo(s, s[j])) \in Nat
    <3>1. \A j \in 1 .. n : Cardinality(UpTo(s, s[j])) \in 1 .. n
      BY UpToGrows, Zenon
    <3> QED
      BY <3>1
  <2>5. N \in SUBSET Nat
    BY <2>4
  <2> QED
    BY <2>3, <2>5, Zenon
<1>3. PICK c \in N : \A d \in N : ~ (d < c)
  <2> HIDE DEF N
  <2> QED
    BY <1>2, Least
<1>4. PICK i \in 1 .. n : c = Cardinality(UpTo(s, s[i])) /\ k < c
  BY <1>3
<1>5. \A j \in 1 .. n : k < Cardinality(UpTo(s, s[j])) => ~ (Cardinality(UpTo(s, s[j])) < c)
  BY <1>3
<1> HIDE DEF N
<1>6. IsFiniteSet(Under(s, s[i])) /\ Cardinality(Under(s, s[i])) \in Nat
  <2>1. Under(s, s[i]) \subseteq 1 .. n
    BY DEF Under
  <2> QED
    BY <1>1, <2>1, FS_Subset, FS_CardinalityType
<1>7. Cardinality(Under(s, s[i])) <= k
  <2>1. SUFFICES ASSUME k < Cardinality(Under(s, s[i])) PROVE FALSE
    BY <1>6
  <2>2. Under(s, s[i]) # {} /\ Under(s, s[i]) \in SUBSET (1 .. n)
    <3>1. Under(s, s[i]) # {}
      BY <1>6, <2>1, FS_EmptySet
    <3> QED
      BY <3>1 DEF Under
  <2>3. PICK j \in Under(s, s[i]) : \A l \in Under(s, s[i]) : s[l] <= s[j]
    BY <2>2, Topmost
  <2>4. j \in 1 .. n /\ s[j] < s[i]
    BY DEF Under
  <2>5. Under(s, s[i]) \subseteq UpTo(s, s[j])
    BY <2>3 DEF Under, UpTo
  <2>6. Cardinality(Under(s, s[i])) <= Cardinality(UpTo(s, s[j])) /\ Cardinality(UpTo(s, s[j])) \in 1 .. n
    BY <2>4, <2>5, UpToGrows, FS_Subset
  <2>7. Cardinality(UpTo(s, s[j])) < c
    BY <1>4, <2>4, UpToGrows
  <2> QED
    BY <1>5, <1>6, <2>1, <2>4, <2>6, <2>7
<1> DEFINE Fits(x) == Cardinality(Under(s, x)) <= k /\ k < Cardinality(UpTo(s, x))
<1>8. s[i] \in Risk!Range(s) /\ Fits(s[i]) /\ \A x \in Risk!Range(s) : x \in Int
  BY <1>4, <1>7 DEF Risk!Range
<1>9. Risk!Sorted(s, k) = CHOOSE x \in Risk!Range(s) : Fits(x)
  <2>1. \A x : Under(s, x) = {j \in DOMAIN s : s[j] < x} /\ UpTo(s, x) = {j \in DOMAIN s : s[j] <= x}
    BY DEF Under, UpTo
  <2>2. \A x : Fits(x) <=> /\ Risk!Cardinality({j \in DOMAIN s : s[j] < x}) <= k
                           /\ k < Risk!Cardinality({j \in DOMAIN s : s[j] <= x})
    BY <2>1, RiskCardinality
  <2> HIDE DEF Fits
  <2> QED
    BY <2>2 DEF Risk!Sorted
<1>10. Risk!Sorted(s, k) \in Risk!Range(s) /\ Fits(Risk!Sorted(s, k))
  <2> HIDE DEF Fits
  <2> QED
    BY <1>8, <1>9
<1> QED
  BY <1>8, <1>10

LEMMA VaRHolds == ASSUME RiskInv, Risk!RiskAssumption, part = "risk" PROVE Risk!VaRCoversTheTail
<1> DEFINE s == asked.returns
           tail == (100 - asked.level) * Len(asked.returns)
<1>1. SUFFICES ASSUME Risk!Answered("var")
               PROVE  /\ 100 * Risk!Cardinality({k \in DOMAIN s : s[k] < -answer.var}) <= tail
                      /\ 100 * answer.exceedances >= tail
  BY Zenon DEF Risk!VaRCoversTheTail
<1>2. asked.tool = "var" /\ answer # None
  BY <1>1 DEF Risk!Answered
<1>3. asked \in Risk!VaRRequests
  BY <1>2 DEF RiskInv, Risk!KellyRequests, Risk!DrawdownRequests, Risk!SharpeRequests, Risk!LimitRequests
<1>4. PICK n \in Nat \ {0} : s \in [1 .. n -> Int] /\ Len(s) = n /\ DOMAIN s = 1 .. n
  <2>1. s \in Risk!Series(Returns)
    BY <1>3 DEF Risk!VaRRequests
  <2>2. Returns \subseteq Int
    BY Zenon DEF Risk!RiskAssumption
  <2> HIDE DEF s
  <2>3. PICK n \in 1 .. MaxPeriods : s \in [1 .. n -> Returns]
    BY <2>1 DEF Risk!Series
  <2>4. s \in [1 .. n -> Int] /\ s \in Seq(Int)
    <3>1. s = [i \in 1 .. n |-> s[i]] /\ n \in Nat
      BY <2>3
    <3>2. \A i \in 1 .. n : s[i] \in Int
      BY <2>2, <2>3
    <3>3. s \in [1 .. n -> Int]
      BY <3>1, <3>2
    <3> QED
      BY <3>1, <3>3
  <2>5. n \in Nat \ {0} /\ DOMAIN s = 1 .. n /\ Len(s) = n
    BY <2>4
  <2> QED
    BY <2>4, <2>5
<1>5. PICK level \in 1 .. 99 : level = asked.level
  <2>1. asked.level \in Confidences
    BY <1>3 DEF Risk!VaRRequests
  <2> QED
    BY <2>1 DEF Risk!RiskAssumption
<1>6. PICK t \in Nat : t = (100 - level) * n /\ t <= 99 * n
  OBVIOUS
<1>7. t = tail
  BY <1>4, <1>5, <1>6
<1>8. PICK k \in Risk!TailIndex(n, level) :
         answer = [ok |-> TRUE, var |-> Risk!ValueAtRisk(asked, k),
                   exceedances |-> Risk!Cardinality({j \in DOMAIN s : s[j] <= -Risk!ValueAtRisk(asked, k)})]
  <2>1. answer \in Risk!CalculateVaR(asked)
    BY <1>2, Zenon DEF RiskInv
  <2>2. asked.level = level /\ Risk!Len(asked.returns) = n
    BY <1>4, <1>5
  <2> QED
    BY <2>1, <2>2 DEF Risk!CalculateVaR
<1> HIDE DEF s, tail
<1>9. k \in 0 .. n - 1 /\ 100 * k <= t /\ t <= 100 * (k + 1)
  <2>1. k \in {t \div 100, (t - 1) \div 100} /\ k >= 0
    BY <1>6 DEF Risk!TailIndex
  <2> QED
    BY <1>6, <2>1
<1>10. PICK x \in Int : /\ x = Risk!Sorted(s, k) /\ Cardinality(Under(s, x)) <= k
                        /\ k < Cardinality(UpTo(s, x))
  BY <1>4, <1>9, SortedIs
<1>11. Risk!ValueAtRisk(asked, k) = 0 - x
  BY <1>10 DEF Risk!ValueAtRisk, s
<1>12. -Risk!ValueAtRisk(asked, k) = x
  BY <1>11
<1>13. answer.var = Risk!ValueAtRisk(asked, k) /\ answer.exceedances = Cardinality(UpTo(s, x))
  BY <1>8, <1>12, RiskCardinality DEF UpTo
<1>14. Risk!Cardinality({j \in DOMAIN s : s[j] < -answer.var}) = Cardinality(Under(s, x))
  BY <1>12, <1>13, RiskCardinality DEF Under
<1>15. PICK a \in Nat, b \in Nat : a = Cardinality(Under(s, x)) /\ b = Cardinality(UpTo(s, x))
  <2>1. IsFiniteSet(1 .. n) /\ Under(s, x) \subseteq 1 .. n /\ UpTo(s, x) \subseteq 1 .. n
    <3>1. n \in Int /\ 1 \in Int
      OBVIOUS
    <3>2. IsFiniteSet(1 .. n)
      BY <3>1, FS_Interval
    <3> QED
      BY <1>4, <3>2 DEF Under, UpTo
  <2> QED
    BY <2>1, FS_Subset, FS_CardinalityType
<1>16. 100 * a <= t /\ 100 * b >= t
  BY <1>6, <1>9, <1>10, <1>15
<1> QED
  BY <1>7, <1>13, <1>14, <1>15, <1>16 DEF tail, s

\* The four tools, of every request.
LEMMA RiskToolsHold ==
    ASSUME RiskInv, Risk!RiskAssumption
    PROVE  part = "risk" =>
             /\ Risk!KellyIsBounded /\ Risk!VaRCoversTheTail /\ Risk!ApprovalMeansLimitsHold
             /\ Risk!DrawdownIsTheWorst
BY KellyHolds, VaRHolds, LimitsHold, DrawdownHolds

LEMMA RiskStep == ASSUME RiskInv, OfRisk(Risk!CallRiskTool) \/ (part' = part /\ UNCHANGED risks) PROVE RiskInv'
<1>1. CASE part' = part /\ UNCHANGED risks
  <2>1. part' = part /\ asked' = asked /\ answer' = answer
    BY <1>1 DEF risks
  <2> QED
    BY <2>1, Zenon DEF RiskInv
<1>2. CASE OfRisk(Risk!CallRiskTool)
  <2>1. part' = part /\ part = "risk" /\ Risk!CallRiskTool
    BY <1>2 DEF OfRisk
  <2>2. /\ asked' = asked
        /\ \/ asked.tool = "kelly" /\ answer' = Risk!CalculatePositionSize(asked)
           \/ asked.tool = "var" /\ answer' \in Risk!CalculateVaR(asked)
           \/ asked.tool = "limits" /\ answer' = Risk!CheckPortfolioLimits(asked)
           \/ asked.tool = "sharpe" /\ answer' \in Risk!CalculateSharpe(asked)
           \/ asked.tool = "drawdown" /\ answer' = Risk!CalculateDrawdown(asked)
    BY <2>1, Zenon DEF Risk!CallRiskTool
  <2>3. /\ asked.tool = "kelly" => answer' = Risk!CalculatePositionSize(asked)
        /\ asked.tool = "var" => answer' \in Risk!CalculateVaR(asked)
        /\ asked.tool = "limits" => answer' = Risk!CheckPortfolioLimits(asked)
        /\ asked.tool = "drawdown" => answer' = Risk!CalculateDrawdown(asked)
    BY <2>2
  <2> QED
    BY <2>1, <2>2, <2>3, Zenon DEF RiskInv
<1> QED
  BY <1>1, <1>2

-----------------------------------------------------------------------------
(* What is gathered along a series.                                        *)

\* W gathers b from the first value at m on.
Gathers(W, a, first, b, m, n) ==
    /\ W \in [m .. n -> Int] /\ W[m] = first
    /\ \A j \in m + 1 .. n : W[j] = W[j - 1] * a + b[j]

\* What can be gathered: numbers, over a range that is not empty.
Gatherable(a, first, b, m, n) ==
    /\ a \in Int /\ first \in Int /\ m \in Int /\ n \in Int /\ m <= n
    /\ \A j \in m + 1 .. n : b[j] \in Int

Opposed(b, c, m, n) == \A j \in m + 1 .. n : c[j] = 0 - b[j]
NotNegative(b, m, n) == \A j \in m + 1 .. n : b[j] >= 0
Nothing(b, m, n) == \A j \in m + 1 .. n : b[j] = 0

LEMMA GatheringGoesOn ==
    ASSUME NEW a \in Int, NEW first \in Int, NEW m \in Int, NEW n \in Int, m < n, NEW b, b[n] \in Int,
           NEW V, Gathers(V, a, first, b, m, n - 1)
    PROVE  \E W : Gathers(W, a, first, b, m, n)
<1> DEFINE W == [j \in m .. n |-> IF j = n THEN V[n - 1] * a + b[n] ELSE V[j]]
<1>1. V \in [m .. n - 1 -> Int] /\ V[m] = first /\ \A j \in m + 1 .. n - 1 : V[j] = V[j - 1] * a + b[j]
  BY DEF Gathers
<1>2. n - 1 \in m .. n - 1 /\ m \in m .. n /\ m # n
  OBVIOUS
<1>3. V[n - 1] * a + b[n] \in Int
  BY <1>1, <1>2
<1>4. \A j \in m .. n : j = n \/ j \in m .. n - 1
  OBVIOUS
<1>5. W \in [m .. n -> Int]
  BY <1>1, <1>3, <1>4
<1>6. W[m] = first
  BY <1>1, <1>2
<1>7. ASSUME NEW j \in m + 1 .. n PROVE W[j] = W[j - 1] * a + b[j]
  <2>1. j - 1 \in m .. n /\ j \in m .. n /\ j - 1 # n
    OBVIOUS
  <2>2. W[j - 1] = V[j - 1]
    BY <2>1
  <2>3. CASE j = n
    BY <2>1, <2>2, <2>3
  <2>4. CASE j # n
    <3>1. j \in m + 1 .. n - 1 /\ W[j] = V[j]
      BY <2>1, <2>4
    <3> QED
      BY <1>1, <2>2, <3>1
  <2> QED
    BY <2>3, <2>4
<1> HIDE DEF W
<1>8. Gathers(W, a, first, b, m, n)
  BY <1>5, <1>6, <1>7 DEF Gathers
<1> QED
  BY <1>8

LEMMA GatheringExists ==
    ASSUME NEW a, NEW first, NEW b, NEW m, NEW n, Gatherable(a, first, b, m, n)
    PROVE  \E W : Gathers(W, a, first, b, m, n)
<1>1. /\ a \in Int /\ first \in Int /\ m \in Int /\ n \in Int /\ m <= n
      /\ \A j \in m + 1 .. n : b[j] \in Int
  BY DEF Gatherable
<1> DEFINE N == {k \in Nat : m + k <= n /\ ~ \E W : Gathers(W, a, first, b, m, m + k)}
<1>2. N = {}
  <2>1. SUFFICES ASSUME N # {} PROVE FALSE
    OBVIOUS
  <2>2. PICK k \in N : \A l \in N : ~ (l < k)
    <3>1. N \in SUBSET Nat
      OBVIOUS
    <3> HIDE DEF N
    <3> QED
      BY <2>1, <3>1, Least
  <2>3. k \in Nat /\ m + k <= n /\ ~ \E W : Gathers(W, a, first, b, m, m + k)
    BY <2>2
  <2>4. CASE k = 0
    <3> DEFINE W == [j \in m .. m |-> first]
    <3>1. W \in [m .. m -> Int] /\ W[m] = first /\ m + 1 .. m = {} /\ m + k = m
      BY <1>1, <2>4
    <3> HIDE DEF W
    <3>2. Gathers(W, a, first, b, m, m + k)
      BY <3>1 DEF Gathers
    <3> QED
      BY <2>3, <3>2
  <2>5. CASE k # 0
    <3>1. k - 1 \in Nat /\ m + (k - 1) <= n /\ k - 1 < k /\ m + (k - 1) = (m + k) - 1
      BY <1>1, <2>3, <2>5
    <3>2. \E W : Gathers(W, a, first, b, m, m + (k - 1))
      BY <2>2, <3>1
    <3>3. PICK V : Gathers(V, a, first, b, m, (m + k) - 1)
      BY <3>1, <3>2
    <3>4. m + k \in Int /\ m < m + k /\ m + k \in m + 1 .. n
      BY <1>1, <2>3, <2>5
    <3>5. b[m + k] \in Int
      BY <1>1, <3>4
    <3> HIDE DEF N
    <3>6. \E W : Gathers(W, a, first, b, m, m + k)
      BY <1>1, <3>3, <3>4, <3>5, GatheringGoesOn
    <3> QED
      BY <2>3, <3>6
  <2> QED
    BY <2>4, <2>5
<1>3. n - m \in Nat /\ m + (n - m) = n /\ m + (n - m) <= n
  BY <1>1
<1>4. n - m \notin N
  BY <1>2
<1> QED
  BY <1>3, <1>4

\* The operator is the last of what is gathered.
LEMMA GatherIs ==
    ASSUME NEW a, NEW first, NEW b, NEW m, NEW n, Gatherable(a, first, b, m, n)
    PROVE  \E W : Gathers(W, a, first, b, m, n) /\ Indicator!Gather(a, first, b, m, n) = W[n]
<1>1. a \in Int /\ first \in Int /\ m \in Int /\ n \in Int /\ m <= n
  BY DEF Gatherable
<1> DEFINE Solves(W) == W = [j \in m .. n |-> IF j = m THEN first ELSE W[j - 1] * a + b[j]]
           U == CHOOSE W : Solves(W)
<1>2. Indicator!Gather(a, first, b, m, n) = U[n]
  BY DEF Indicator!Gather
<1>3. PICK V : Gathers(V, a, first, b, m, n)
  BY GatheringExists
<1>4. Solves(V)
  <2>1. V = [j \in m .. n |-> V[j]]
    BY <1>3 DEF Gathers
  <2>2. \A j \in m .. n : j # m => j \in m + 1 .. n
    BY <1>1
  <2>3. \A j \in m .. n : V[j] = IF j = m THEN first ELSE V[j - 1] * a + b[j]
    BY <1>3, <2>2 DEF Gathers
  <2> QED
    BY <2>1, <2>3
<1>5. Solves(U)
  <2> HIDE DEF Solves
  <2> QED
    BY <1>4
<1> HIDE DEF U
<1>6. \A j \in m .. n : U[j] = IF j = m THEN first ELSE U[j - 1] * a + b[j]
  BY <1>5
<1>7. DOMAIN U = m .. n /\ U = [j \in m .. n |-> U[j]]
  BY <1>5
<1>8. U[m] = first /\ m \in m .. n
  BY <1>1, <1>6
<1>9. ASSUME NEW j \in m + 1 .. n PROVE U[j] = U[j - 1] * a + b[j]
  <2>1. j \in m .. n /\ j # m
    BY <1>1
  <2> QED
    BY <1>6, <2>1
<1>10. \A j \in m .. n : U[j] \in Int
  <2> DEFINE N == {k \in Nat : m + k <= n /\ U[m + k] \notin Int}
  <2>1. N = {}
    <3>1. SUFFICES ASSUME N # {} PROVE FALSE
      OBVIOUS
    <3>2. PICK k \in N : \A l \in N : ~ (l < k)
      <4>1. N \in SUBSET Nat
        OBVIOUS
      <4> HIDE DEF N
      <4> QED
        BY <3>1, <4>1, Least
    <3>3. k \in Nat /\ m + k <= n /\ U[m + k] \notin Int
      BY <3>2
    <3>4. k # 0
      BY <1>1, <1>8, <3>3
    <3>5. k - 1 \in Nat /\ m + (k - 1) <= n /\ k - 1 < k /\ m + (k - 1) = (m + k) - 1 /\ m + k \in m + 1 .. n
      BY <1>1, <3>3, <3>4
    <3>6. U[(m + k) - 1] \in Int
      BY <3>2, <3>5
    <3>7. b[m + k] \in Int
      BY <3>5 DEF Gatherable
    <3>8. U[m + k] = U[(m + k) - 1] * a + b[m + k]
      BY <1>9, <3>5
    <3> QED
      BY <1>1, <3>3, <3>6, <3>7, <3>8
  <2>2. ASSUME NEW j \in m .. n PROVE U[j] \in Int
    <3>1. j - m \in Nat /\ m + (j - m) = j /\ m + (j - m) <= n
      BY <1>1
    <3> QED
      BY <2>1, <3>1
  <2> QED
    BY <2>2
<1>11. U \in [m .. n -> Int]
  BY <1>7, <1>10
<1>12. Gathers(U, a, first, b, m, n)
  BY <1>8, <1>9, <1>11 DEF Gathers
<1> QED
  BY <1>2, <1>12

\* Induction along a range.
LEMMA AlongARange ==
    ASSUME NEW m \in Int, NEW n \in Int, NEW S, m \in S, \A j \in m + 1 .. n : j - 1 \in S => j \in S
    PROVE  \A j \in m .. n : j \in S
<1> DEFINE N == {k \in Nat : m + k <= n /\ m + k \notin S}
<1>1. N = {}
  <2>1. SUFFICES ASSUME N # {} PROVE FALSE
    OBVIOUS
  <2>2. PICK k \in N : \A l \in N : ~ (l < k)
    <3>1. N \in SUBSET Nat
      OBVIOUS
    <3> HIDE DEF N
    <3> QED
      BY <2>1, <3>1, Least
  <2>3. k \in Nat /\ m + k <= n /\ m + k \notin S
    BY <2>2
  <2>4. k # 0
    BY <2>3
  <2>5. k - 1 \in Nat /\ m + (k - 1) <= n /\ k - 1 < k /\ m + (k - 1) = (m + k) - 1 /\ m + k \in m + 1 .. n
    BY <2>3, <2>4
  <2>6. (m + k) - 1 \in S
    BY <2>2, <2>5
  <2> QED
    BY <2>3, <2>5, <2>6
<1>2. ASSUME NEW j \in m .. n PROVE j \in S
  <2>1. j - m \in Nat /\ m + (j - m) = j /\ m + (j - m) <= n
    OBVIOUS
  <2>2. j \notin S => j - m \in N
    BY <2>1
  <2> HIDE DEF N
  <2> QED
    BY <1>1, <2>2
<1> QED
  BY <1>2

LEMMA GatherIsInt ==
    ASSUME NEW a, NEW first, NEW b, NEW m, NEW n, Gatherable(a, first, b, m, n)
    PROVE  Indicator!Gather(a, first, b, m, n) \in Int
<1>1. PICK W : Gathers(W, a, first, b, m, n) /\ Indicator!Gather(a, first, b, m, n) = W[n]
  BY GatherIs
<1>2. n \in m .. n
  BY DEF Gatherable
<1> QED
  BY <1>1, <1>2 DEF Gathers

\* As far as two series agree, so does what is gathered.
LEMMA GathersAlike ==
    ASSUME NEW a, NEW first, NEW b, NEW c, NEW m \in Int, NEW n \in Int, NEW V, NEW W, NEW k \in m .. n,
           Gathers(V, a, first, b, m, k), Gathers(W, a, first, c, m, n), \A j \in m + 1 .. k : b[j] = c[j]
    PROVE  V[k] = W[k]
<1> DEFINE S == {j \in m .. k : V[j] = W[j]}
<1>1. m \in S
  BY DEF Gathers
<1>2. ASSUME NEW j \in m + 1 .. k, j - 1 \in S PROVE j \in S
  <2>1. j \in m + 1 .. n /\ j \in m .. k
    OBVIOUS
  <2>2. V[j] = V[j - 1] * a + b[j] /\ W[j] = W[j - 1] * a + c[j]
    BY <2>1 DEF Gathers
  <2> QED
    BY <1>2, <2>1, <2>2
<1>3. k \in m .. k /\ k \in Int
  OBVIOUS
<1>4. \A j \in m .. k : j \in S
  <2> HIDE DEF S
  <2> QED
    BY <1>1, <1>2, <1>3, AlongARange
<1> QED
  BY <1>3, <1>4

LEMMA GatherAlike ==
    ASSUME NEW a, NEW first, NEW b, NEW c, NEW m, NEW n, Gatherable(a, first, b, m, n),
           \A j \in m + 1 .. n : b[j] = c[j]
    PROVE  Indicator!Gather(a, first, b, m, n) = Indicator!Gather(a, first, c, m, n)
<1>1. Gatherable(a, first, c, m, n) /\ m \in Int /\ n \in Int /\ n \in m .. n
  BY DEF Gatherable
<1>2. PICK V : Gathers(V, a, first, b, m, n) /\ Indicator!Gather(a, first, b, m, n) = V[n]
  BY GatherIs
<1>3. PICK W : Gathers(W, a, first, c, m, n) /\ Indicator!Gather(a, first, c, m, n) = W[n]
  BY <1>1, GatherIs
<1> QED
  BY <1>1, <1>2, <1>3, GathersAlike

\* One more step.
LEMMA GatherNext ==
    ASSUME NEW a, NEW first, NEW b, NEW m, NEW n, Gatherable(a, first, b, m, n), m < n
    PROVE  /\ Indicator!Gather(a, first, b, m, n) = Indicator!Gather(a, first, b, m, n - 1) * a + b[n]
           /\ Gatherable(a, first, b, m, n - 1)
<1>1. /\ Gatherable(a, first, b, m, n - 1) /\ m \in Int /\ n \in Int /\ n - 1 \in m .. n /\ n \in m + 1 .. n
      /\ \A j \in m + 1 .. n - 1 : b[j] = b[j]
  BY DEF Gatherable
<1>2. PICK W : Gathers(W, a, first, b, m, n) /\ Indicator!Gather(a, first, b, m, n) = W[n]
  BY GatherIs
<1>3. PICK V : Gathers(V, a, first, b, m, n - 1) /\ Indicator!Gather(a, first, b, m, n - 1) = V[n - 1]
  BY <1>1, GatherIs
<1>4. V[n - 1] = W[n - 1]
  BY <1>1, <1>2, <1>3, GathersAlike
<1>5. W[n] = W[n - 1] * a + b[n]
  BY <1>1, <1>2 DEF Gathers
<1> QED
  BY <1>1, <1>2, <1>3, <1>4, <1>5

LEMMA GatherFirst ==
    ASSUME NEW a, NEW first, NEW b, NEW m, Gatherable(a, first, b, m, m)
    PROVE  Indicator!Gather(a, first, b, m, m) = first
<1>1. PICK W : Gathers(W, a, first, b, m, m) /\ Indicator!Gather(a, first, b, m, m) = W[m]
  BY GatherIs
<1> QED
  BY <1>1 DEF Gathers

\* Upside down.
LEMMA GatherNegated ==
    ASSUME NEW a, NEW first, NEW b, NEW c, NEW m, NEW n, Gatherable(a, first, b, m, n),
           NEW e, e = 0 - first, Opposed(b, c, m, n)
    PROVE  /\ Indicator!Gather(a, e, c, m, n) = 0 - Indicator!Gather(a, first, b, m, n)
           /\ Gatherable(a, e, c, m, n)
<1>1. /\ Gatherable(a, e, c, m, n) /\ a \in Int /\ first \in Int /\ m \in Int /\ n \in Int
      /\ n \in m .. n /\ m \in m .. n /\ \A j \in m + 1 .. n : b[j] \in Int /\ c[j] = 0 - b[j]
  BY DEF Gatherable, Opposed
<1>2. PICK V : Gathers(V, a, first, b, m, n) /\ Indicator!Gather(a, first, b, m, n) = V[n]
  BY GatherIs
<1>3. PICK W : Gathers(W, a, e, c, m, n) /\ Indicator!Gather(a, e, c, m, n) = W[n]
  BY <1>1, GatherIs
<1> DEFINE S == {j \in m .. n : W[j] = 0 - V[j]}
<1>4. m \in S
  BY <1>1, <1>2, <1>3 DEF Gathers
<1>5. ASSUME NEW j \in m + 1 .. n, j - 1 \in S PROVE j \in S
  <2>1. j \in m .. n /\ j - 1 \in m .. n
    BY <1>1
  <2>2. V[j] = V[j - 1] * a + b[j] /\ W[j] = W[j - 1] * a + c[j]
    BY <1>2, <1>3 DEF Gathers
  <2>3. b[j] \in Int /\ c[j] = 0 - b[j]
    BY <1>1
  <2>4. V[j - 1] \in Int /\ W[j - 1] = 0 - V[j - 1]
    BY <1>2, <1>5, <2>1 DEF Gathers
  <2>5. (0 - V[j - 1]) * a = 0 - V[j - 1] * a /\ V[j - 1] * a \in Int
    BY <1>1, <2>4
  <2>6. W[j] = 0 - V[j]
    BY <2>2, <2>3, <2>4, <2>5
  <2> QED
    BY <2>1, <2>6
<1>6. \A j \in m .. n : j \in S
  <2> HIDE DEF S
  <2> QED
    BY <1>1, <1>4, <1>5, AlongARange
<1> QED
  BY <1>1, <1>2, <1>3, <1>6

\* Of what is never negative nothing negative is gathered, and nothing only of nothing.
LEMMA GatherPositive ==
    ASSUME NEW a, NEW first, NEW b, NEW m, NEW n, Gatherable(a, first, b, m, n), a >= 0, first >= 0,
           NotNegative(b, m, n)
    PROVE  /\ Indicator!Gather(a, first, b, m, n) \in Nat
           /\ m < n /\ b[n] > 0 => Indicator!Gather(a, first, b, m, n) > 0
           /\ a > 0 /\ Indicator!Gather(a, first, b, m, n) = 0 => first = 0 /\ Nothing(b, m, n)
<1>1. /\ a \in Nat /\ first \in Nat /\ m \in Int /\ n \in Int /\ m <= n /\ n \in m .. n /\ m \in m .. n
      /\ \A j \in m + 1 .. n : b[j] \in Nat
  BY DEF Gatherable, NotNegative
<1>2. PICK W : Gathers(W, a, first, b, m, n) /\ Indicator!Gather(a, first, b, m, n) = W[n]
  BY GatherIs
<1>3. W[m] = first /\ \A j \in m + 1 .. n : W[j] = W[j - 1] * a + b[j]
  BY <1>2 DEF Gathers
<1>4. \A j \in m .. n : W[j] \in Nat
  <2> DEFINE S == {j \in Int : W[j] \in Nat}
  <2>1. m \in S
    BY <1>1, <1>3
  <2>2. ASSUME NEW j \in m + 1 .. n, j - 1 \in S PROVE j \in S
    <3>1. PICK w \in Nat : w = W[j - 1]
      BY <2>2
    <3>2. b[j] \in Nat /\ w * a \in Nat /\ W[j] = w * a + b[j] /\ j \in Int
      BY <1>1, <1>3, <3>1
    <3> QED
      BY <3>2
  <2>3. \A j \in m .. n : j \in S
    <3> HIDE DEF S
    <3> QED
      BY <1>1, <2>1, <2>2, AlongARange
  <2> QED
    BY <2>3
<1>5. m < n /\ b[n] > 0 => W[n] > 0
  <2>1. SUFFICES ASSUME m < n, b[n] > 0 PROVE W[n] > 0
    OBVIOUS
  <2>2. n \in m + 1 .. n /\ n - 1 \in m .. n
    BY <1>1, <2>1
  <2>3. W[n] = W[n - 1] * a + b[n] /\ W[n - 1] \in Nat
    BY <1>3, <1>4, <2>2
  <2>4. W[n - 1] * a \in Nat
    BY <1>1, <2>3
  <2> QED
    BY <1>1, <2>1, <2>2, <2>3, <2>4
<1>6. a > 0 /\ W[n] = 0 => first = 0 /\ \A j \in m + 1 .. n : b[j] = 0
  <2>1. SUFFICES ASSUME a > 0, W[n] = 0 PROVE first = 0 /\ \A j \in m + 1 .. n : b[j] = 0
    OBVIOUS
  <2> DEFINE S == {j \in Int : W[j] = 0 => first = 0 /\ \A i \in m + 1 .. j : b[i] = 0}
  <2>2. m \in S
    BY <1>1, <1>3
  <2>3. ASSUME NEW j \in m + 1 .. n, j - 1 \in S PROVE j \in S
    <3>1. SUFFICES ASSUME W[j] = 0 PROVE first = 0 /\ \A i \in m + 1 .. j : b[i] = 0
      BY <1>1
    <3>2. j - 1 \in m .. n
      BY <1>1
    <3>3. PICK w \in Nat, q \in Nat : w = W[j - 1] /\ q = w * a
      BY <1>1, <1>4, <3>2
    <3>4. q + b[j] = 0 /\ b[j] \in Nat
      BY <1>1, <1>3, <3>1, <3>3
    <3>5. q = 0 /\ b[j] = 0
      BY <3>4
    <3>6. w = 0
      <4>1. w > 0 => w * a >= w
        BY <1>1, <2>1
      <4> QED
        BY <3>3, <3>5, <4>1
    <3>7. first = 0 /\ \A i \in m + 1 .. j - 1 : b[i] = 0
      BY <2>3, <3>3, <3>6
    <3>8. \A i \in m + 1 .. j : i = j \/ i \in m + 1 .. j - 1
      BY <1>1
    <3> QED
      BY <3>5, <3>7, <3>8
  <2>4. \A j \in m .. n : j \in S
    <3> HIDE DEF S
    <3> QED
      BY <1>1, <2>2, <2>3, AlongARange
  <2>5. n \in S
    BY <1>1, <2>4
  <2> QED
    BY <2>1, <2>5
<1> QED
  BY <1>1, <1>2, <1>4, <1>5, <1>6 DEF Nothing

-----------------------------------------------------------------------------
(* Powers and sums.                                                        *)

LEMMA PowIs ==
    ASSUME NEW x \in Int, NEW n \in Nat
    PROVE  /\ Indicator!Pow(x, n) \in Int /\ Indicator!Pow(x, 0) = 1
           /\ Indicator!Pow(x, n + 1) = Indicator!Pow(x, n) * x
           /\ x > 0 => Indicator!Pow(x, n) > 0
<1> DEFINE Z(k) == [i \in 1 .. k |-> 0]
<1>1. \A k \in Nat : Gatherable(x, 1, Z(k), 0, k) /\ Indicator!Pow(x, k) = Indicator!Gather(x, 1, Z(k), 0, k)
  BY DEF Gatherable, Indicator!Pow
<1>2. \A k \in Nat : \A i \in 0 + 1 .. k : Z(k)[i] = 0
  OBVIOUS
<1>3. n + 1 \in Nat /\ 0 \in Nat /\ 0 < n + 1 /\ (n + 1) - 1 = n /\ n + 1 \in 0 + 1 .. n + 1
  OBVIOUS
<1>4. \A i \in 0 + 1 .. n : Z(n + 1)[i] = Z(n)[i]
  OBVIOUS
<1> HIDE DEF Z
<1>5. Indicator!Pow(x, n) \in Int
  BY <1>1, GatherIsInt
<1>6. Indicator!Pow(x, 0) = 1
  BY <1>1, <1>3, GatherFirst
<1>7. Indicator!Pow(x, n + 1) = Indicator!Pow(x, n) * x
  <2>1. Gatherable(x, 1, Z(n + 1), 0, n + 1)
    BY <1>1, <1>3
  <2>2. /\ Indicator!Gather(x, 1, Z(n + 1), 0, n + 1) = Indicator!Gather(x, 1, Z(n + 1), 0, (n + 1) - 1) * x + Z(n + 1)[n + 1]
        /\ Gatherable(x, 1, Z(n + 1), 0, (n + 1) - 1)
    BY <1>3, <2>1, GatherNext
  <2>3. Indicator!Gather(x, 1, Z(n + 1), 0, n) = Indicator!Gather(x, 1, Z(n), 0, n)
    BY <1>3, <1>4, <2>2, GatherAlike
  <2>4. Z(n + 1)[n + 1] = 0
    BY <1>2, <1>3
  <2>5. Indicator!Pow(x, n + 1) = Indicator!Gather(x, 1, Z(n), 0, n) * x + 0
    BY <1>1, <1>3, <2>2, <2>3, <2>4
  <2> QED
    BY <1>1, <1>5, <2>5
<1>8. x > 0 => Indicator!Pow(x, n) > 0
  <2>1. SUFFICES ASSUME x > 0 PROVE Indicator!Pow(x, n) > 0
    OBVIOUS
  <2>2. x >= 0 /\ 1 >= 0 /\ NotNegative(Z(n), 0, n)
    BY <1>2, <2>1 DEF NotNegative
  <2>3. /\ Indicator!Gather(x, 1, Z(n), 0, n) \in Nat
        /\ Indicator!Gather(x, 1, Z(n), 0, n) = 0 => 1 = 0
    BY <1>1, <2>1, <2>2, GatherPositive
  <2> QED
    BY <1>1, <2>3
<1> QED
  BY <1>5, <1>6, <1>7, <1>8

LEMMA PowNotNegative == ASSUME NEW x \in Nat, NEW n \in Nat PROVE Indicator!Pow(x, n) \in Nat
<1>1. CASE n = 0
  BY <1>1, PowIs
<1>2. CASE n # 0
  <2>1. n - 1 \in Nat /\ (n - 1) + 1 = n /\ x \in Int
    BY <1>2
  <2>2. /\ Indicator!Pow(x, n - 1) \in Int /\ Indicator!Pow(x, (n - 1) + 1) = Indicator!Pow(x, n - 1) * x
        /\ x > 0 => Indicator!Pow(x, n - 1) > 0
    BY <2>1, PowIs
  <2>3. x = 0 => Indicator!Pow(x, n) = 0
    BY <2>1, <2>2
  <2>4. x > 0 => Indicator!Pow(x, n) > 0 /\ Indicator!Pow(x, n) \in Int
    BY <2>1, PowIs
  <2> QED
    BY <2>3, <2>4
<1> QED
  BY <1>1, <1>2

\* p^m is twice (p - 1)^m for m from p on.
LEMMA PowDoubles ==
    ASSUME NEW p \in Nat \ {0}, NEW m \in Nat, p <= m
    PROVE  Indicator!Pow(p, m) >= 2 * Indicator!Pow(p - 1, m)
<1> DEFINE P(k) == Indicator!Pow(p, k)
           Q(k) == Indicator!Pow(p - 1, k)
           S == {k \in Nat : (p - 1) * P(k) >= (p - 1 + k) * Q(k)}
<1>1. \A k \in Nat : P(k) \in Nat \ {0} /\ Q(k) \in Int /\ P(k + 1) = P(k) * p /\ Q(k + 1) = Q(k) * (p - 1)
  <2>1. p \in Int /\ p - 1 \in Int /\ p > 0
    OBVIOUS
  <2>2. ASSUME NEW k \in Nat PROVE P(k) \in Int /\ P(k) > 0 /\ P(k + 1) = P(k) * p
    BY <2>1, PowIs
  <2>3. ASSUME NEW k \in Nat PROVE Q(k) \in Int /\ Q(k + 1) = Q(k) * (p - 1)
    BY <2>1, PowIs
  <2> HIDE DEF P, Q
  <2> QED
    BY <2>2, <2>3
<1>2. P(0) = 1 /\ Q(0) = 1
  BY PowIs
<1>3. p = 1 => Q(m) = 0
  <2>1. SUFFICES ASSUME p = 1 PROVE Q(m) = 0
    OBVIOUS
  <2>2. m - 1 \in Nat /\ (m - 1) + 1 = m
    BY <2>1
  <2> HIDE DEF P, Q
  <2>3. Q(m) = Q(m - 1) * (p - 1) /\ Q(m - 1) \in Int
    BY <1>1, <2>2
  <2> QED
    BY <2>1, <2>3
<1> HIDE DEF P, Q
<1>4. 0 \in S
  BY <1>2
<1>5. ASSUME NEW k \in 0 + 1 .. m, k - 1 \in S PROVE k \in S
  <2>1. PICK l \in Nat : l = k - 1 /\ k = l + 1
    BY <1>5
  <2>2. PICK d \in Nat : d = p - 1 /\ p = d + 1
    OBVIOUS
  <2>3. PICK x \in Nat, y \in Int : x = P(l) /\ y = Q(l)
    BY <1>1
  <2>4. d * x >= (d + l) * y
    BY <1>5, <2>1, <2>2, <2>3
  <2>5. P(k) = x * p /\ Q(k) = y * d
    BY <1>1, <2>1, <2>2, <2>3
  <2>6. y >= 0 => d * (x * p) >= (d + k) * (y * d)
    <3>1. SUFFICES ASSUME y >= 0 PROVE d * (x * p) >= (d + k) * (y * d)
      OBVIOUS
    <3>2. PICK a \in Nat, b \in Nat, c \in Nat, e \in Nat, f \in Nat :
             a = d * x /\ b = d * y /\ c = l * y /\ e = d * b /\ f = l * b
      BY <3>1
    <3>3. d * (x * p) = a * d + a
      BY <2>2, <3>2
    <3>4. (d + l) * y = b + c /\ a >= b + c
      BY <2>4, <3>2
    <3>5. a * d >= (b + c) * d
      BY <3>2, <3>4
    <3>6. b * d = e /\ c * d = f /\ (b + c) * d = b * d + c * d
      BY <3>2
    <3>7. (d + k) * (y * d) = (d + l + 1) * b
      BY <2>1, <3>2
    <3>8. (d + l + 1) * b = e + f + b
      BY <3>2
    <3> QED
      BY <3>2, <3>3, <3>4, <3>5, <3>6, <3>7, <3>8
  <2>7. y >= 0
    <3>1. Indicator!Pow(d, l) \in Nat
      BY PowNotNegative
    <3>2. y = Indicator!Pow(d, l)
      BY <2>2, <2>3, Zenon DEF Q
    <3> QED
      BY <3>1, <3>2
  <2>8. k \in Nat /\ (p - 1) * P(k) >= (p - 1 + k) * Q(k)
    BY <2>1, <2>2, <2>5, <2>6, <2>7
  <2> QED
    BY <2>8
<1>6. m \in S
  <2>1. \A k \in 0 .. m : k \in S
    <3> HIDE DEF S
    <3> QED
      BY <1>4, <1>5, AlongARange
  <2> QED
    BY <2>1
<1>7. CASE p = 1
  BY <1>1, <1>3, <1>7 DEF P, Q
<1>8. CASE p > 1
  <2>1. PICK x \in Nat, y \in Nat, d \in Nat : x = P(m) /\ y = Q(m) /\ d = p - 1 /\ d > 0
    <3>1. p - 1 \in Nat /\ p - 1 > 0
      BY <1>8
    <3>2. Indicator!Pow(p - 1, m) \in Nat
      BY <3>1, PowNotNegative
    <3>3. Q(m) \in Nat
      BY <3>2 DEF Q
    <3> QED
      BY <1>1, <3>1, <3>3
  <2>2. d * x >= (d + m) * y
    BY <1>6, <2>1
  <2>3. m >= d /\ (d + m) * y = d * y + m * y /\ m * y >= d * y
    BY <1>8, <2>1
  <2>4. d * x >= d * (2 * y)
    <3>1. PICK a \in Nat, b \in Nat, c \in Nat : a = d * x /\ b = d * y /\ c = m * y
      BY <2>1
    <3>2. d * (2 * y) = b + b
      BY <3>1
    <3> QED
      BY <2>2, <2>3, <3>1, <3>2
  <2>5. x >= 2 * y
    <3>1. x < 2 * y => d * x < d * (2 * y)
      <4>1. SUFFICES ASSUME x + 1 <= 2 * y PROVE d * x < d * (2 * y)
        BY <2>1
      <4>2. PICK z \in Nat : 2 * y = x + 1 + z
        <5>1. PICK u \in Nat : u = 2 * y
          OBVIOUS
        <5>2. u - (x + 1) \in Nat /\ u = x + 1 + (u - (x + 1))
          BY <4>1, <5>1
        <5> QED
          BY <5>1, <5>2
      <4>3. d * (x + 1 + z) = d * x + d + d * z /\ d * z \in Nat /\ d * x \in Nat
        BY <2>1
      <4> QED
        BY <2>1, <4>2, <4>3
    <3>2. d * x \in Nat /\ d * (2 * y) \in Nat /\ 2 * y \in Nat
      BY <2>1
    <3> QED
      BY <2>4, <3>1, <3>2
  <2> QED
    BY <2>1, <2>5 DEF P, Q
<1> QED
  BY <1>7, <1>8

LEMMA GatherOpposed ==
    ASSUME NEW a, NEW b, NEW c, NEW m, NEW n, Gatherable(a, 0, b, m, n), Opposed(b, c, m, n)
    PROVE  Indicator!Gather(a, 0, c, m, n) = 0 - Indicator!Gather(a, 0, b, m, n)
BY GatherNegated

LEMMA GatherNothing ==
    ASSUME NEW a, NEW b, NEW m, NEW n, Gatherable(a, 0, b, m, n), Nothing(b, m, n)
    PROVE  Indicator!Gather(a, 0, b, m, n) = 0
<1>1. Opposed(b, b, m, n)
  BY DEF Opposed, Nothing
<1>2. Indicator!Gather(a, 0, b, m, n) = 0 - Indicator!Gather(a, 0, b, m, n)
  BY <1>1, GatherOpposed
<1>3. PICK g \in Int : g = Indicator!Gather(a, 0, b, m, n)
  BY GatherIsInt
<1>5. g = 0 - g
  BY <1>2, <1>3, Zenon
<1> QED
  BY <1>3, <1>5

LEMMA SumIs ==
    ASSUME NEW n \in Nat, NEW s \in [1 .. n -> Int]
    PROVE  /\ Indicator!SumOf(s) = Indicator!Gather(1, 0, s, 0, n) /\ Gatherable(1, 0, s, 0, n)
           /\ Indicator!SumOf(s) \in Int
<1>1. Len(s) = n /\ DOMAIN s = 1 .. n
  OBVIOUS
<1>2. Gatherable(1, 0, s, 0, n)
  BY DEF Gatherable
<1> QED
  BY <1>1, <1>2, GatherIsInt DEF Indicator!SumOf

LEMMA SumOpposed ==
    ASSUME NEW s, NEW t, NEW n, Gatherable(1, 0, s, 0, n), Opposed(s, t, 0, n)
    PROVE  Indicator!Gather(1, 0, t, 0, n) = 0 - Indicator!Gather(1, 0, s, 0, n)
BY GatherOpposed

LEMMA SumNegated ==
    ASSUME NEW n \in Nat, NEW s \in [1 .. n -> Int], NEW t \in [1 .. n -> Int], \A i \in 1 .. n : t[i] = 0 - s[i]
    PROVE  Indicator!SumOf(t) = 0 - Indicator!SumOf(s)
<1>1. Opposed(s, t, 0, n)
  BY DEF Opposed
<1>2. Gatherable(1, 0, s, 0, n) /\ Indicator!SumOf(s) = Indicator!Gather(1, 0, s, 0, n)
  BY SumIs
<1>3. Indicator!SumOf(t) = Indicator!Gather(1, 0, t, 0, n)
  BY SumIs
<1> QED
  BY <1>1, <1>2, <1>3, SumOpposed

LEMMA SumPositive ==
    ASSUME NEW n \in Nat, NEW s \in [1 .. n -> Nat]
    PROVE  /\ Indicator!SumOf(s) \in Nat
           /\ Indicator!SumOf(s) = 0 <=> \A i \in 1 .. n : s[i] = 0
<1>1. s \in [1 .. n -> Int] /\ \A i \in 1 .. n : s[i] \in Nat
  OBVIOUS
<1>2. Gatherable(1, 0, s, 0, n) /\ Indicator!SumOf(s) = Indicator!Gather(1, 0, s, 0, n)
  BY <1>1, SumIs
<1>3. 1 >= 0 /\ 0 >= 0 /\ 1 > 0 /\ NotNegative(s, 0, n)
  BY <1>1 DEF NotNegative
<1>4. /\ Indicator!Gather(1, 0, s, 0, n) \in Nat
      /\ Indicator!Gather(1, 0, s, 0, n) = 0 => Nothing(s, 0, n)
  BY <1>2, <1>3, GatherPositive
<1>5. Nothing(s, 0, n) => Indicator!Gather(1, 0, s, 0, n) = 0
  BY <1>2, GatherNothing
<1>6. Nothing(s, 0, n) <=> \A i \in 1 .. n : s[i] = 0
  BY DEF Nothing
<1> QED
  BY <1>2, <1>4, <1>5, <1>6, Zenon

\* Wilder's average, of values up to the i-th.
Weighed(s, p, i) == [j \in p + 1 .. i |-> s[j] * Indicator!Pow(p, j - p)]
Seed(s, p) == Indicator!SumOf(SubSeq(s, 1, p))

LEMMA FirstOnes ==
    ASSUME NEW n \in Nat, NEW s \in [1 .. n -> Int], NEW p \in 1 .. n
    PROVE  SubSeq(s, 1, p) \in [1 .. p -> Int] /\ \A i \in 1 .. p : SubSeq(s, 1, p)[i] = s[i]
<1>1. s \in Seq(Int) /\ Len(s) = n
  OBVIOUS
<1>2. SubSeq(s, 1, p) = [i \in 1 .. p |-> s[i]]
  BY <1>1
<1>3. \A i \in 1 .. p : s[i] \in Int
  OBVIOUS
<1>4. [i \in 1 .. p |-> s[i]] \in [1 .. p -> Int]
  BY <1>3, Zenon
<1>5. \A i \in 1 .. p : [j \in 1 .. p |-> s[j]][i] = s[i]
  BY Zenon
<1> QED
  BY <1>2, <1>4, <1>5, Zenon

LEMMA WilderIs ==
    ASSUME NEW n \in Nat, NEW s \in [1 .. n -> Int], NEW p \in 1 .. n, NEW i \in p .. n
    PROVE  /\ Indicator!SmoothWilder(s, p, i) = Indicator!Gather(p - 1, Seed(s, p), Weighed(s, p, i), p, i)
           /\ Gatherable(p - 1, Seed(s, p), Weighed(s, p, i), p, i)
           /\ Indicator!SmoothWilder(s, p, i) \in Int
<1>1. Indicator!SmoothWilder(s, p, i) = Indicator!Gather(p - 1, Seed(s, p), Weighed(s, p, i), p, i)
  BY DEF Indicator!SmoothWilder, Seed, Weighed
<1>2. Seed(s, p) \in Int
  <2>1. SubSeq(s, 1, p) \in [1 .. p -> Int] /\ p \in Nat
    BY FirstOnes
  <2> QED
    BY <2>1, SumIs DEF Seed
<1>3. \A j \in p + 1 .. i : Weighed(s, p, i)[j] = s[j] * Indicator!Pow(p, j - p) /\ j \in 1 .. n /\ j - p \in Nat
  BY DEF Weighed
<1>4. \A j \in p + 1 .. i : Weighed(s, p, i)[j] \in Int
  <2>1. SUFFICES ASSUME NEW j \in p + 1 .. i PROVE Weighed(s, p, i)[j] \in Int
    OBVIOUS
  <2>2. Indicator!Pow(p, j - p) \in Int
    BY <1>3, PowIs
  <2>3. s[j] \in Int
    BY <1>3
  <2> QED
    BY <1>3, <2>2, <2>3
<1>5. Gatherable(p - 1, Seed(s, p), Weighed(s, p, i), p, i)
  BY <1>2, <1>4 DEF Gatherable
<1> QED
  BY <1>1, <1>5, GatherIsInt

LEMMA WilderPositive ==
    ASSUME NEW n \in Nat, NEW s \in [1 .. n -> Nat], NEW p \in 1 .. n, NEW i \in p .. n
    PROVE  /\ Indicator!SmoothWilder(s, p, i) \in Nat
           /\ s[i] > 0 => Indicator!SmoothWilder(s, p, i) > 0
           /\ p > 1 /\ Indicator!SmoothWilder(s, p, i) = 0 => \A j \in 1 .. i : s[j] = 0
           /\ (\A j \in 1 .. i : s[j] = 0) => Indicator!SmoothWilder(s, p, i) = 0
<1> DEFINE b == Weighed(s, p, i)
<1>1. s \in [1 .. n -> Int] /\ p \in Nat /\ i \in Nat /\ p - 1 \in Nat /\ \A j \in 1 .. n : s[j] \in Nat
  OBVIOUS
<1>2. PICK f \in Nat : f = Seed(s, p) /\ (f = 0 <=> \A j \in 1 .. p : s[j] = 0)
  <2> DEFINE t == SubSeq(s, 1, p)
  <2>0. t \in [1 .. p -> Int] /\ \A j \in 1 .. p : t[j] = s[j]
    BY <1>1, FirstOnes
  <2> HIDE DEF t
  <2>1. t \in [1 .. p -> Nat] /\ \A j \in 1 .. p : t[j] = s[j]
    BY <1>1, <2>0
  <2> USE DEF t
  <2>2. /\ Indicator!SumOf(t) \in Nat
        /\ Indicator!SumOf(t) = 0 <=> \A j \in 1 .. p : t[j] = 0
    BY <1>1, <2>1, SumPositive, Zenon
  <2>3. (\A j \in 1 .. p : t[j] = 0) <=> \A j \in 1 .. p : s[j] = 0
    BY <2>1, Zenon
  <2> QED
    BY <2>2, <2>3, Zenon DEF Seed
<1>3. /\ Indicator!SmoothWilder(s, p, i) = Indicator!Gather(p - 1, f, b, p, i)
      /\ Gatherable(p - 1, f, b, p, i)
  BY <1>1, <1>2, WilderIs
<1>4. \A j \in p + 1 .. i : b[j] = s[j] * Indicator!Pow(p, j - p) /\ j \in 1 .. n /\ j - p \in Nat
  BY DEF Weighed
<1>5. \A j \in p + 1 .. i : Indicator!Pow(p, j - p) \in Nat \ {0}
  <2>1. SUFFICES ASSUME NEW j \in p + 1 .. i PROVE Indicator!Pow(p, j - p) \in Nat \ {0}
    OBVIOUS
  <2>2. j - p \in Nat /\ p \in Int /\ p > 0
    BY <1>4
  <2>3. Indicator!Pow(p, j - p) \in Int /\ Indicator!Pow(p, j - p) > 0
    BY <2>2, PowIs
  <2> QED
    BY <2>3
<1> HIDE DEF b
<1>6. \A j \in p + 1 .. i : b[j] \in Nat /\ (b[j] = 0 <=> s[j] = 0)
  <2>1. \A x \in Nat, y \in Nat \ {0} : x * y \in Nat /\ (x * y = 0 <=> x = 0)
    <3>1. \A x \in Nat, y \in Nat \ {0} : x * y \in Nat /\ x * y >= x
      OBVIOUS
    <3>2. \A x \in Nat, y \in Nat \ {0} : x = 0 => x * y = 0
      OBVIOUS
    <3>3. SUFFICES ASSUME NEW x \in Nat, NEW y \in Nat \ {0} PROVE x * y \in Nat /\ (x * y = 0 <=> x = 0)
      OBVIOUS
    <3>4. PICK z \in Nat : z = x * y /\ z >= x /\ (x = 0 => z = 0)
      BY <3>1, <3>2
    <3> QED
      BY <3>4
  <2>2. SUFFICES ASSUME NEW j \in p + 1 .. i PROVE b[j] \in Nat /\ (b[j] = 0 <=> s[j] = 0)
    OBVIOUS
  <2>3. PICK y \in Nat \ {0} : y = Indicator!Pow(p, j - p)
    BY <1>5
  <2>4. PICK x \in Nat : x = s[j]
    BY <1>1, <1>4
  <2> QED
    BY <1>4, <2>1, <2>3, <2>4, Zenon
<1>7. p - 1 >= 0 /\ f >= 0 /\ NotNegative(b, p, i)
  BY <1>1, <1>6 DEF NotNegative
<1>8. PICK g \in Int : g = Indicator!Gather(p - 1, f, b, p, i)
  BY <1>3, GatherIsInt
<1>14. PICK q \in Int : q = p - 1
  BY <1>1
<1>9. /\ g \in Nat /\ (p < i /\ b[i] > 0 => g > 0)
      /\ (p - 1 > 0 /\ g = 0 => f = 0 /\ \A j \in p + 1 .. i : b[j] = 0)
  <2>1. Gatherable(q, f, b, p, i) /\ q >= 0 /\ f >= 0 /\ NotNegative(b, p, i)
    BY <1>3, <1>7, <1>14
  <2>2. /\ Indicator!Gather(q, f, b, p, i) \in Nat
        /\ p < i /\ b[i] > 0 => Indicator!Gather(q, f, b, p, i) > 0
        /\ q > 0 /\ Indicator!Gather(q, f, b, p, i) = 0 => f = 0 /\ Nothing(b, p, i)
    BY <2>1, GatherPositive
  <2> QED
    BY <1>8, <1>14, <2>2 DEF Nothing
<1>10. s[i] > 0 => g > 0
  <2>1. CASE p < i
    <3>1. i \in p + 1 .. i
      BY <1>1, <2>1
    <3> QED
      BY <1>6, <1>9, <2>1, <3>1
  <2>2. CASE p = i
    <3>1. g = f
      BY <1>3, <1>8, <2>2, GatherFirst
    <3>2. p \in 1 .. p
      BY <1>1
    <3> QED
      BY <1>2, <2>2, <3>1, <3>2
  <2> QED
    BY <1>1, <2>1, <2>2
<1>11. \A j \in 1 .. i : j \in 1 .. p \/ j \in p + 1 .. i
  BY <1>1
<1>12. p > 1 /\ g = 0 => \A j \in 1 .. i : s[j] = 0
  BY <1>1, <1>2, <1>6, <1>9, <1>11
<1>13. (\A j \in 1 .. i : s[j] = 0) => g = 0
  <2>1. SUFFICES ASSUME \A j \in 1 .. i : s[j] = 0 PROVE g = 0
    OBVIOUS
  <2>2. f = 0
    BY <1>1, <1>2, <2>1
  <2>3. Nothing(b, p, i)
    BY <1>1, <1>6, <2>1 DEF Nothing
  <2> QED
    BY <1>3, <1>8, <2>2, <2>3, GatherNothing
<1> QED
  BY <1>3, <1>8, <1>9, <1>10, <1>12, <1>13

-----------------------------------------------------------------------------
(* A market upside down.                                                   *)

NegatedOf(t, s, n) == t \in [1 .. n -> Int] /\ \A i \in 1 .. n : t[i] = 0 - s[i] /\ s[i] \in Int
ChangesOf(c, s, n) ==
    /\ c \in [1 .. n - 1 -> Int]
    /\ \A i \in 1 .. n - 1 : c[i] = s[i + 1] - s[i] /\ i \in 1 .. n /\ i + 1 \in 1 .. n /\ s[i] \in Int /\ s[i + 1] \in Int

LEMMA SeriesNegated ==
    ASSUME NEW n \in Nat, NEW s \in [1 .. n -> Int]
    PROVE  NegatedOf(Indicator!Negated(s), s, n) /\ Indicator!Negated(Indicator!Negated(s)) = s
<1>1. Indicator!Negated(s) = [i \in 1 .. n |-> -s[i]]
  BY DEF Indicator!Negated
<1>2. Indicator!Negated(s) \in [1 .. n -> Int] /\ \A i \in 1 .. n : Indicator!Negated(s)[i] = 0 - s[i] /\ s[i] \in Int
  BY <1>1
<1> DEFINE t == Indicator!Negated(s)
<1>3. Indicator!Negated(t) = [i \in 1 .. n |-> -t[i]]
  <2>1. DOMAIN t = 1 .. n
    BY <1>2
  <2> HIDE DEF t
  <2> QED
    BY <2>1 DEF Indicator!Negated
<1>4. [i \in 1 .. n |-> -t[i]] = s
  <2>1. \A i \in 1 .. n : -t[i] = s[i]
    BY <1>2
  <2>2. s = [i \in 1 .. n |-> s[i]]
    OBVIOUS
  <2> HIDE DEF t
  <2> QED
    BY <2>1, <2>2
<1>5. NegatedOf(Indicator!Negated(s), s, n)
  BY <1>2, Zenon DEF NegatedOf
<1> QED
  BY <1>3, <1>4, <1>5, Zenon

LEMMA SeriesChanged ==
    ASSUME NEW n \in Nat, n # 0, NEW s \in [1 .. n -> Int]
    PROVE  ChangesOf(Indicator!Changes(s), s, n)
<1>1. Indicator!Changes(s) = [i \in 1 .. n - 1 |-> s[i + 1] - s[i]]
  <2>1. Len(s) = n
    OBVIOUS
  <2> QED
    BY <2>1, Zenon DEF Indicator!Changes
<1>2. \A i \in 1 .. n - 1 : i \in 1 .. n /\ i + 1 \in 1 .. n
  OBVIOUS
<1>3. \A i \in 1 .. n - 1 : s[i] \in Int /\ s[i + 1] \in Int
  BY <1>2
<1>4. Indicator!Changes(s) \in [1 .. n - 1 -> Int] /\ \A i \in 1 .. n - 1 : Indicator!Changes(s)[i] = s[i + 1] - s[i]
  BY <1>1, <1>3
<1> QED
  BY <1>2, <1>3, <1>4, Zenon DEF ChangesOf

LEMMA GainsAre ==
    ASSUME NEW n \in Nat, NEW s \in [1 .. n -> Int]
    PROVE  /\ Indicator!Gains(s) \in [1 .. n -> Nat]
           /\ \A i \in 1 .. n : Indicator!Gains(s)[i] = IF s[i] > 0 THEN s[i] ELSE 0
<1>1. Indicator!Gains(s) = [i \in 1 .. n |-> IF s[i] > 0 THEN s[i] ELSE 0]
  BY DEF Indicator!Gains
<1>2. \A i \in 1 .. n : s[i] \in Int
  OBVIOUS
<1> QED
  BY <1>1, <1>2

LEMMA ChangesMirror ==
    ASSUME NEW n \in Nat \ {0}, NEW s \in [1 .. n -> Int]
    PROVE  /\ Indicator!Changes(Indicator!Negated(s)) = Indicator!Negated(Indicator!Changes(s))
           /\ Indicator!Negated(Indicator!Changes(Indicator!Negated(s))) = Indicator!Changes(s)
<1> DEFINE t == Indicator!Negated(s)
           c == Indicator!Changes(s)
           d == Indicator!Changes(t)
           e == Indicator!Negated(c)
<1>0. n \in Nat /\ n - 1 \in Nat
  OBVIOUS
<1>1. NegatedOf(t, s, n) /\ t \in [1 .. n -> Int]
  BY <1>0, SeriesNegated DEF NegatedOf
<1> HIDE DEF t
<1>2. ChangesOf(c, s, n) /\ c \in [1 .. n - 1 -> Int]
  BY SeriesChanged DEF ChangesOf
<1>3. ChangesOf(d, t, n) /\ d \in [1 .. n - 1 -> Int]
  BY <1>1, SeriesChanged DEF ChangesOf
<1> HIDE DEF c, d
<1>4. NegatedOf(e, c, n - 1) /\ e \in [1 .. n - 1 -> Int] /\ Indicator!Negated(e) = c
  BY <1>0, <1>2, SeriesNegated DEF NegatedOf
<1> HIDE DEF e
<1>5. \A i \in 1 .. n - 1 : d[i] = e[i]
  <2>1. SUFFICES ASSUME NEW i \in 1 .. n - 1 PROVE d[i] = e[i]
    OBVIOUS
  <2>2. /\ d[i] = t[i + 1] - t[i] /\ e[i] = 0 - c[i] /\ c[i] = s[i + 1] - s[i]
        /\ t[i] = 0 - s[i] /\ t[i + 1] = 0 - s[i + 1] /\ s[i] \in Int /\ s[i + 1] \in Int
    BY <1>1, <1>2, <1>3, <1>4 DEF NegatedOf, ChangesOf
  <2> QED
    BY <2>2
<1>6. d = e
  BY <1>3, <1>4, <1>5
<1> QED
  BY <1>4, <1>6 DEF c, d, e, t

-----------------------------------------------------------------------------
(* Signals and their opposites.                                            *)

Mirrors(a, b) == a.ok = b.ok /\ (a.ok => b.signal = Indicator!OppositeOf(a.signal))

LEMMA Opposites ==
    /\ Indicator!OppositeOf("oversold") = "overbought" /\ Indicator!OppositeOf("overbought") = "oversold"
    /\ Indicator!OppositeOf("bullish") = "bearish" /\ Indicator!OppositeOf("bearish") = "bullish"
    /\ Indicator!OppositeOf("buy") = "sell" /\ Indicator!OppositeOf("sell") = "buy"
    /\ Indicator!OppositeOf("neutral") = "neutral" /\ Indicator!OppositeOf("none") = "none"
    /\ Indicator!OppositeOf("very_strong") = "very_strong" /\ Indicator!OppositeOf("strong") = "strong"
    /\ Indicator!OppositeOf("weak") = "weak"
BY DEF Indicator!OppositeOf, Indicator!Opposite

LEMMA MirrorSignals ==
    /\ Mirrors(Indicator!Error, Indicator!Error)
    /\ \A s, t : Mirrors(Indicator!Signal(s), Indicator!Signal(t)) <=> t = Indicator!OppositeOf(s)
    /\ \A s : Indicator!Signal(s).ok /\ Indicator!Signal(s).encodable /\ Indicator!Signal(s).signal = s
    /\ ~ Indicator!Error.ok
BY DEF Mirrors, Indicator!Error, Indicator!Signal

-----------------------------------------------------------------------------
(* RSI.                                                                    *)

Up(s, p, n) == Indicator!SmoothWilder(Indicator!Gains(Indicator!Changes(s)), p, n - 1)
Down(s, p, n) == Indicator!SmoothWilder(Indicator!Gains(Indicator!Negated(Indicator!Changes(s))), p, n - 1)

NoNumber == [Indicator!Signal("neutral") EXCEPT !.encodable = FALSE]

RSIOf(p, n, gain, loss) ==
    IF p < 1 \/ p > n \/ p = n THEN Indicator!Error
    ELSE IF gain + loss = 0 THEN NoNumber
    ELSE Indicator!Signal(Indicator!RSISignal(gain, loss))

LEMMA RSIIs ==
    ASSUME NEW r, NEW p, p = Indicator!ExtractPeriod(r, 14), NEW n, n = Len(r.prices)
    PROVE  Indicator!CalculateRSI(r) = RSIOf(p, n, Up(r.prices, p, n), Down(r.prices, p, n))
BY Zenon DEF Indicator!CalculateRSI, RSIOf, Up, Down, NoNumber

LEMMA UpAndDown ==
    ASSUME NEW n \in Nat \ {0}, NEW s \in [1 .. n -> Int], NEW p \in Int, 1 <= p, p < n
    PROVE  Up(s, p, n) \in Nat /\ Down(s, p, n) \in Nat
<1> DEFINE c == Indicator!Changes(s)
           e == Indicator!Negated(c)
<1>1. c \in [1 .. n - 1 -> Int] /\ n - 1 \in Nat /\ p \in 1 .. n - 1 /\ n - 1 \in p .. n - 1
  BY SeriesChanged DEF ChangesOf
<1>2. e \in [1 .. n - 1 -> Int]
  <2> HIDE DEF c
  <2> QED
    BY <1>1, SeriesNegated DEF NegatedOf
<1> HIDE DEF c, e
<1>3. Indicator!Gains(c) \in [1 .. n - 1 -> Nat] /\ Indicator!Gains(e) \in [1 .. n - 1 -> Nat]
  BY <1>1, <1>2, GainsAre
<1>4. \A g \in [1 .. n - 1 -> Nat] : Indicator!SmoothWilder(g, p, n - 1) \in Nat
  BY <1>1, WilderPositive
<1> QED
  BY <1>3, <1>4, Zenon DEF Up, Down, c, e

LEMMA RSITurns ==
    ASSUME NEW gain \in Nat, NEW loss \in Nat, gain + loss # 0
    PROVE  Indicator!RSISignal(loss, gain) = Indicator!OppositeOf(Indicator!RSISignal(gain, loss))
<1>1. CASE 100 * gain < 30 * (gain + loss)
  <2>1. Indicator!RSISignal(gain, loss) = "oversold" /\ Indicator!RSISignal(loss, gain) = "overbought"
    BY <1>1 DEF Indicator!RSISignal
  <2> QED
    BY <2>1, Opposites
<1>2. CASE 100 * gain > 70 * (gain + loss)
  <2>1. Indicator!RSISignal(gain, loss) = "overbought" /\ Indicator!RSISignal(loss, gain) = "oversold"
    BY <1>2 DEF Indicator!RSISignal
  <2> QED
    BY <2>1, Opposites
<1>3. CASE ~ (100 * gain < 30 * (gain + loss)) /\ ~ (100 * gain > 70 * (gain + loss))
  <2>1. Indicator!RSISignal(gain, loss) = "neutral" /\ Indicator!RSISignal(loss, gain) = "neutral"
    BY <1>3 DEF Indicator!RSISignal
  <2> QED
    BY <2>1, Opposites
<1> QED
  BY <1>1, <1>2, <1>3, Zenon

LEMMA RSIMirrors ==
    ASSUME NEW n \in Nat \ {0}, NEW s \in [1 .. n -> Int], NEW p \in Int, NEW t, t = Indicator!Negated(s)
    PROVE  Mirrors(RSIOf(p, n, Up(s, p, n), Down(s, p, n)), RSIOf(p, n, Up(t, p, n), Down(t, p, n)))
<1>1. Up(t, p, n) = Down(s, p, n) /\ Down(t, p, n) = Up(s, p, n)
  BY ChangesMirror, Zenon DEF Up, Down
<1>2. CASE p < 1 \/ p > n \/ p = n
  BY <1>2, MirrorSignals, Zenon DEF RSIOf
<1>3. CASE ~ (p < 1 \/ p > n \/ p = n)
  <2>1. PICK g \in Nat, l \in Nat : g = Up(s, p, n) /\ l = Down(s, p, n)
    <3>1. 1 <= p /\ p < n
      BY <1>3
    <3> QED
      BY <3>1, UpAndDown
  <2>2. SUFFICES Mirrors(RSIOf(p, n, g, l), RSIOf(p, n, l, g))
    BY <1>1, <2>1, Zenon
  <2>3. CASE g + l = 0
    <3>1. l + g = 0
      BY <2>3
    <3>2. RSIOf(p, n, g, l) = NoNumber /\ RSIOf(p, n, l, g) = NoNumber
      BY <1>3, <2>3, <3>1, Zenon DEF RSIOf
    <3>3. Mirrors(NoNumber, NoNumber)
      BY Opposites DEF Mirrors, NoNumber, Indicator!Signal
    <3> QED
      BY <3>2, <3>3, Zenon
  <2>4. CASE g + l # 0
    <3>1. l + g # 0
      BY <2>4
    <3>2. /\ RSIOf(p, n, g, l) = Indicator!Signal(Indicator!RSISignal(g, l))
          /\ RSIOf(p, n, l, g) = Indicator!Signal(Indicator!RSISignal(l, g))
      BY <1>3, <2>4, <3>1, Zenon DEF RSIOf
    <3>3. Indicator!RSISignal(l, g) = Indicator!OppositeOf(Indicator!RSISignal(g, l))
      BY <2>4, RSITurns
    <3> QED
      BY <3>2, <3>3, MirrorSignals, Zenon
  <2> QED
    BY <2>3, <2>4, Zenon
<1> QED
  BY <1>2, <1>3, Zenon

\* Without gains and losses the last two prices are the same, and with a period
\* of more than one all of them.
LEMMA NothingMoved ==
    ASSUME NEW n \in Nat \ {0}, NEW s \in [1 .. n -> Int], NEW p \in Int, 1 <= p, p < n,
           Up(s, p, n) + Down(s, p, n) = 0
    PROVE  s[n - 1] = s[n] /\ (p > 1 => \A i \in 1 .. n : s[i] = s[1])
<1> DEFINE c == Indicator!Changes(s)
           e == Indicator!Negated(c)
           g == Indicator!Gains(c)
           l == Indicator!Gains(e)
<1>0. n - 1 \in Nat /\ p \in 1 .. n - 1 /\ n - 1 \in p .. n - 1 /\ n - 1 \in 1 .. n - 1
  OBVIOUS
<1>11. ChangesOf(c, s, n) /\ c \in [1 .. n - 1 -> Int]
  BY SeriesChanged DEF ChangesOf
<1>1. ChangesOf(c, s, n) /\ c \in [1 .. n - 1 -> Int] /\ n - 1 \in Nat /\ p \in 1 .. n - 1 /\ n - 1 \in p .. n - 1
      /\ n - 1 \in 1 .. n - 1
  BY <1>0, <1>11, Zenon
<1>2. NegatedOf(e, c, n - 1) /\ e \in [1 .. n - 1 -> Int]
  <2> HIDE DEF c
  <2> QED
    BY <1>1, SeriesNegated DEF NegatedOf
<1>3. Up(s, p, n) = Indicator!SmoothWilder(g, p, n - 1) /\ Down(s, p, n) = Indicator!SmoothWilder(l, p, n - 1)
  BY Zenon DEF Up, Down
<1> HIDE DEF c, e
<1>4. g \in [1 .. n - 1 -> Nat] /\ \A i \in 1 .. n - 1 : g[i] = IF c[i] > 0 THEN c[i] ELSE 0
  BY <1>1, GainsAre
<1>5. l \in [1 .. n - 1 -> Nat] /\ \A i \in 1 .. n - 1 : l[i] = IF e[i] > 0 THEN e[i] ELSE 0
  BY <1>1, <1>2, GainsAre
<1> HIDE DEF g, l
<1>6. Up(s, p, n) = 0 /\ Down(s, p, n) = 0
  <2>1. Up(s, p, n) \in Nat /\ Down(s, p, n) \in Nat
    BY UpAndDown
  <2> QED
    BY <2>1
<1>7. \A f \in [1 .. n - 1 -> Nat] : Indicator!SmoothWilder(f, p, n - 1) = 0 =>
          f[n - 1] = 0 /\ (p > 1 => \A i \in 1 .. n - 1 : f[i] = 0)
  <2>1. SUFFICES ASSUME NEW f \in [1 .. n - 1 -> Nat], Indicator!SmoothWilder(f, p, n - 1) = 0
                 PROVE  f[n - 1] = 0 /\ (p > 1 => \A i \in 1 .. n - 1 : f[i] = 0)
    OBVIOUS
  <2>4. PICK m \in Nat : m = n - 1
    BY <1>1
  <2>5. f \in [1 .. m -> Nat] /\ p \in 1 .. m /\ m \in p .. m
    BY <1>1, <2>4
  <2>6. /\ f[m] > 0 => Indicator!SmoothWilder(f, p, m) > 0
        /\ p > 1 /\ Indicator!SmoothWilder(f, p, m) = 0 => \A i \in 1 .. m : f[i] = 0
    BY <2>5, WilderPositive, ZenonT(60)
  <2>2. /\ f[n - 1] > 0 => Indicator!SmoothWilder(f, p, n - 1) > 0
        /\ p > 1 /\ Indicator!SmoothWilder(f, p, n - 1) = 0 => \A i \in 1 .. n - 1 : f[i] = 0
    BY <2>4, <2>6, Zenon
  <2>3. f[n - 1] \in Nat
    BY <1>1
  <2> QED
    BY <2>1, <2>2, <2>3
<1>8. \A i \in 1 .. n - 1 : g[i] = 0 /\ l[i] = 0 => s[i + 1] = s[i]
  <2>1. SUFFICES ASSUME NEW i \in 1 .. n - 1, g[i] = 0, l[i] = 0 PROVE s[i + 1] = s[i]
    OBVIOUS
  <2>2. c[i] = s[i + 1] - s[i] /\ e[i] = 0 - c[i] /\ s[i] \in Int /\ s[i + 1] \in Int
    BY <1>1, <1>2 DEF ChangesOf, NegatedOf
  <2>3. (c[i] > 0 => c[i] = 0) /\ (e[i] > 0 => e[i] = 0)
    BY <1>4, <1>5, <2>1
  <2> QED
    BY <2>2, <2>3
<1>9. s[n - 1] = s[n]
  <2>1. g[n - 1] = 0 /\ l[n - 1] = 0
    BY <1>3, <1>4, <1>5, <1>6, <1>7
  <2>2. s[(n - 1) + 1] = s[n - 1] /\ (n - 1) + 1 = n
    BY <1>1, <1>8, <2>1
  <2> QED
    BY <2>2
<1>10. ASSUME p > 1 PROVE \A i \in 1 .. n : s[i] = s[1]
  <2>1. \A i \in 1 .. n - 1 : s[i + 1] = s[i]
    BY <1>3, <1>4, <1>5, <1>6, <1>7, <1>8, <1>10, ZenonT(60)
  <2> DEFINE S == {i \in Int : s[i] = s[1]}
  <2>2. 1 \in S
    OBVIOUS
  <2>3. ASSUME NEW j \in 1 + 1 .. n, j - 1 \in S PROVE j \in S
    <3>1. j - 1 \in 1 .. n - 1 /\ (j - 1) + 1 = j /\ j \in Int
      BY <1>1
    <3>2. s[j] = s[j - 1]
      BY <2>1, <3>1
    <3> QED
      BY <2>3, <3>1, <3>2
  <2>4. \A j \in 1 .. n : j \in S
    <3> HIDE DEF S
    <3>1. 1 \in Int /\ n \in Int
      OBVIOUS
    <3> QED
      BY <2>2, <2>3, <3>1, AlongARange
  <2> QED
    BY <2>4
<1> QED
  BY <1>9, <1>10

LEMMA OneValue ==
    ASSUME NEW n \in Nat \ {0}, NEW s \in [1 .. n -> Int], \A i \in 1 .. n : s[i] = s[1]
    PROVE  Indicator!Cardinality(Indicator!Range(s)) = 1
<1>1. Indicator!Range(s) = {s[i] : i \in 1 .. n}
  BY DEF Indicator!Range
<1>2. {s[i] : i \in 1 .. n} = {s[1]}
  <2>1. 1 \in 1 .. n
    OBVIOUS
  <2> QED
    BY <2>1
<1>3. \A S : Indicator!Cardinality(S) = Cardinality(S)
  BY DEF Indicator!Cardinality, Cardinality
<1> QED
  BY <1>1, <1>2, <1>3, FS_Singleton

LEMMA LastTwo ==
    ASSUME NEW n \in Nat, n > 1, NEW s \in [1 .. n -> Int], s[n - 1] = s[n]
    PROVE  Indicator!Cardinality(Indicator!Range(SubSeq(s, n - 1, n))) = 1
<1> DEFINE t == SubSeq(s, n - 1, n)
<1>1. s \in Seq(Int) /\ Len(s) = n /\ n - 1 \in 1 .. n /\ n \in 1 .. n
  OBVIOUS
<1>2. t = [i \in 1 .. 2 |-> s[n - 1 + i - 1]]
  BY <1>1
<1>3. t[1] = s[n - 1] /\ t[2] = s[n] /\ DOMAIN t = 1 .. 2
  BY <1>2
<1>4. s[n - 1] \in Int /\ s[n] \in Int
  BY <1>1
<1>5. \A i \in 1 .. 2 : i = 1 \/ i = 2
  OBVIOUS
<1>6. t \in [1 .. 2 -> Int]
  <2>1. \A i \in 1 .. 2 : n - 1 + i - 1 \in 1 .. n
    OBVIOUS
  <2>2. \A i \in 1 .. 2 : s[n - 1 + i - 1] \in Int
    BY <2>1
  <2> QED
    BY <1>2, <2>2
<1>7. \A i \in 1 .. 2 : t[i] = t[1]
  BY <1>3, <1>5
<1> HIDE DEF t
<1>8. Indicator!Cardinality(Indicator!Range(t)) = 1
  <2>1. 2 \in Nat \ {0}
    OBVIOUS
  <2> QED
    BY <1>6, <1>7, <2>1, OneValue, Zenon
<1> QED
  BY <1>8 DEF t

-----------------------------------------------------------------------------
(* MACD.                                                                   *)

LEMMA CrossoverIs ==
    ASSUME NEW before \in Int, NEW after \in Int
    PROVE  /\ before <= 0 /\ after > 0 => Indicator!Crossover(before, after) = "bullish"
           /\ before >= 0 /\ after < 0 => Indicator!Crossover(before, after) = "bearish"
           /\ ~ (before <= 0 /\ after > 0) /\ ~ (before >= 0 /\ after < 0) => Indicator!Crossover(before, after) = "none"
<1>1. ~ (after > 0 /\ after < 0)
  OBVIOUS
<1> QED
  BY <1>1, Zenon DEF Indicator!Crossover

LEMMA CrossoverTurns ==
    ASSUME NEW before \in Int, NEW after \in Int
    PROVE  Indicator!Crossover(0 - before, 0 - after) = Indicator!OppositeOf(Indicator!Crossover(before, after))
<1>1. 0 - before \in Int /\ 0 - after \in Int
  OBVIOUS
<1>2. CASE before <= 0 /\ after > 0
  <2>1. 0 - before >= 0 /\ 0 - after < 0
    BY <1>2
  <2> QED
    BY <1>1, <1>2, <2>1, CrossoverIs, Opposites
<1>3. CASE before >= 0 /\ after < 0
  <2>1. 0 - before <= 0 /\ 0 - after > 0
    BY <1>3
  <2> QED
    BY <1>1, <1>3, <2>1, CrossoverIs, Opposites
<1>4. CASE ~ (before <= 0 /\ after > 0) /\ ~ (before >= 0 /\ after < 0)
  <2>1. ~ (0 - before <= 0 /\ 0 - after > 0) /\ ~ (0 - before >= 0 /\ 0 - after < 0)
    BY <1>4
  <2> QED
    BY <1>1, <1>4, <2>1, CrossoverIs, Opposites
<1> QED
  BY <1>2, <1>3, <1>4, Zenon

-----------------------------------------------------------------------------
(* Bollinger's bands.                                                      *)

Window(s, p, n) == SubSeq(s, n - p + 1, n)
Squares(w, p) == [i \in 1 .. p |-> w[i] * w[i]]
Off(s, p, n) == p * s[n] - Indicator!SumOf(Window(s, p, n))
Spread(s, p, n) ==
    4 * (p * Indicator!SumOf(Squares(Window(s, p, n), p))
         - Indicator!SumOf(Window(s, p, n)) * Indicator!SumOf(Window(s, p, n)))

BandOf(off, spread) ==
    IF off <= 0 /\ off * off >= spread THEN "buy" ELSE IF off >= 0 /\ off * off >= spread THEN "sell" ELSE "neutral"

BollingerOf(p, n, stdDev, off, spread) ==
    IF p < 2 \/ p > n \/ stdDev <= 0 THEN Indicator!Error ELSE Indicator!Signal(BandOf(off, spread))

LEMMA BollingerIs ==
    ASSUME NEW r, NEW p, p = Indicator!ExtractPeriod(r, 20), NEW n, n = Len(r.prices)
    PROVE  Indicator!CalculateBollingerBands(r) = BollingerOf(p, n, r.stdDev, Off(r.prices, p, n), Spread(r.prices, p, n))
BY ZenonT(60) DEF Indicator!CalculateBollingerBands, BollingerOf, BandOf, Off, Spread, Squares, Window

LEMMA WindowIs ==
    ASSUME NEW n \in Nat, NEW s \in [1 .. n -> Int], NEW p \in Nat, 1 <= p, p <= n
    PROVE  /\ Window(s, p, n) \in [1 .. p -> Int]
           /\ \A i \in 1 .. p : Window(s, p, n)[i] = s[n - p + i] /\ n - p + i \in 1 .. n /\ s[n - p + i] \in Int
<1>1. s \in Seq(Int) /\ Len(s) = n
  OBVIOUS
<1>2. PICK k \in Nat : k = n - p + 1 /\ k >= 1 /\ k <= n
  OBVIOUS
<1>3. SubSeq(s, k, n) = [i \in 1 .. n - k + 1 |-> s[k + i - 1]]
  BY <1>1, <1>2
<1>4. n - k + 1 = p /\ \A i \in 1 .. p : k + i - 1 = n - p + i /\ n - p + i \in 1 .. n
  BY <1>2
<1>5. Window(s, p, n) = [i \in 1 .. p |-> s[n - p + i]]
  <2>1. Window(s, p, n) = [i \in 1 .. p |-> s[k + i - 1]]
    BY <1>2, <1>3, <1>4, Zenon DEF Window
  <2>2. [i \in 1 .. p |-> s[k + i - 1]] = [i \in 1 .. p |-> s[n - p + i]]
    BY <1>4
  <2> QED
    BY <2>1, <2>2, Zenon
<1>6. \A i \in 1 .. p : s[n - p + i] \in Int
  BY <1>4
<1> QED
  BY <1>4, <1>5, <1>6

LEMMA SquaresAre ==
    ASSUME NEW p \in Nat, NEW w \in [1 .. p -> Int], NEW v \in [1 .. p -> Int], \A i \in 1 .. p : v[i] = 0 - w[i]
    PROVE  Squares(w, p) \in [1 .. p -> Int] /\ Squares(v, p) = Squares(w, p)
<1>1. \A x \in Int : x * x \in Int /\ (0 - x) * (0 - x) = x * x
  OBVIOUS
<1>2. \A i \in 1 .. p : w[i] \in Int
  OBVIOUS
<1>3. \A i \in 1 .. p : v[i] * v[i] = w[i] * w[i] /\ w[i] * w[i] \in Int
  <2>1. SUFFICES ASSUME NEW i \in 1 .. p PROVE v[i] * v[i] = w[i] * w[i] /\ w[i] * w[i] \in Int
    OBVIOUS
  <2>2. PICK x \in Int : x = w[i] /\ v[i] = 0 - x
    BY <1>2
  <2> QED
    BY <1>1, <2>2
<1> QED
  BY <1>3 DEF Squares

LEMMA BandsMirror ==
    ASSUME NEW n \in Nat, NEW s \in [1 .. n -> Int], NEW p \in Nat, 1 <= p, p <= n, NEW t, t = Indicator!Negated(s)
    PROVE  /\ Off(s, p, n) \in Int /\ Off(t, p, n) = 0 - Off(s, p, n)
           /\ Spread(s, p, n) \in Int /\ Spread(t, p, n) = Spread(s, p, n)
<1> DEFINE w == Window(s, p, n)
           v == Window(t, p, n)
<1>1. NegatedOf(t, s, n) /\ t \in [1 .. n -> Int]
  BY SeriesNegated DEF NegatedOf
<1>2. w \in [1 .. p -> Int] /\ \A i \in 1 .. p : w[i] = s[n - p + i] /\ n - p + i \in 1 .. n
  BY WindowIs
<1>3. v \in [1 .. p -> Int] /\ \A i \in 1 .. p : v[i] = t[n - p + i]
  BY <1>1, WindowIs
<1> HIDE DEF w, v
<1>4. \A i \in 1 .. p : v[i] = 0 - w[i]
  BY <1>1, <1>2, <1>3 DEF NegatedOf
<1>5. PICK m \in Int : m = Indicator!SumOf(w)
  BY <1>2, SumIs
<1>6. Indicator!SumOf(v) = 0 - m
  BY <1>2, <1>3, <1>4, <1>5, SumNegated
<1>7. Squares(w, p) \in [1 .. p -> Int] /\ Squares(v, p) = Squares(w, p)
  BY <1>2, <1>3, <1>4, SquaresAre
<1>8. PICK q \in Int : q = Indicator!SumOf(Squares(w, p))
  BY <1>7, SumIs
<1>9. PICK x \in Int : x = s[n] /\ t[n] = 0 - x
  <2>1. n \in 1 .. n
    OBVIOUS
  <2> QED
    BY <1>1, <2>1 DEF NegatedOf
<1>10. Off(s, p, n) = p * x - m /\ Off(t, p, n) = p * (0 - x) - (0 - m)
  BY <1>5, <1>6, <1>9, Zenon DEF Off, w, v
<1>11. Spread(s, p, n) = 4 * (p * q - m * m) /\ Spread(t, p, n) = 4 * (p * q - (0 - m) * (0 - m))
  BY <1>5, <1>6, <1>7, <1>8, Zenon DEF Spread, w, v
<1>12. p * x - m \in Int /\ p * (0 - x) - (0 - m) = 0 - (p * x - m)
  <2>1. PICK y \in Int : y = p * x
    OBVIOUS
  <2>2. p * (0 - x) = 0 - y
    BY <2>1
  <2> QED
    BY <2>1, <2>2
<1>13. 4 * (p * q - m * m) \in Int /\ (0 - m) * (0 - m) = m * m
  OBVIOUS
<1> QED
  BY <1>10, <1>11, <1>12, <1>13, Zenon

LEMMA MirrorPairs ==
    /\ Mirrors(Indicator!Signal("neutral"), Indicator!Signal("neutral"))
    /\ Mirrors(Indicator!Signal("buy"), Indicator!Signal("sell"))
    /\ Mirrors(Indicator!Signal("sell"), Indicator!Signal("buy"))
BY MirrorSignals, Opposites

LEMMA BollingerMirrors ==
    ASSUME NEW n \in Nat, NEW s \in [1 .. n -> Int], NEW p \in Int, NEW d, NEW t, t = Indicator!Negated(s),
           NEW a, a = BollingerOf(p, n, d, Off(s, p, n), Spread(s, p, n)),
           NEW b, b = BollingerOf(p, n, d, Off(t, p, n), Spread(t, p, n))
    PROVE  Mirrors(a, b) \/ (a.signal = "buy" /\ b.signal = "buy")
<1>1. CASE p < 2 \/ p > n \/ d <= 0
  BY <1>1, MirrorSignals, Zenon DEF BollingerOf
<1>2. CASE ~ (p < 2 \/ p > n \/ d <= 0)
  <2>1. p \in Nat /\ 1 <= p /\ p <= n
    BY <1>2
  <2>2. PICK o \in Int, w \in Int : /\ o = Off(s, p, n) /\ Off(t, p, n) = 0 - o
                                    /\ w = Spread(s, p, n) /\ Spread(t, p, n) = w
    BY <2>1, BandsMirror
  <2>3. a = Indicator!Signal(BandOf(o, w)) /\ b = Indicator!Signal(BandOf(0 - o, w))
    BY <1>2, <2>2, Zenon DEF BollingerOf
  <2>4. a.signal = BandOf(o, w) /\ b.signal = BandOf(0 - o, w)
    BY <2>3, MirrorSignals, Zenon
  <2>5. (0 - o) * (0 - o) = o * o /\ o * o \in Int
    OBVIOUS
  <2>6. PICK q \in Int : q = o * o
    BY <2>5
  <2>7. CASE ~ (q >= w)
    <3>1. BandOf(o, w) = "neutral" /\ BandOf(0 - o, w) = "neutral"
      BY <2>5, <2>6, <2>7, Zenon DEF BandOf
    <3> QED
      BY <2>3, <3>1, MirrorPairs, Zenon
  <2>8. CASE q >= w /\ o = 0
    <3>1. o <= 0 /\ 0 - o <= 0
      BY <2>8
    <3>2. BandOf(o, w) = "buy" /\ BandOf(0 - o, w) = "buy"
      BY <2>5, <2>6, <2>8, <3>1, Zenon DEF BandOf
    <3> QED
      BY <2>4, <3>2, Zenon
  <2>9. CASE q >= w /\ o < 0
    <3>1. o <= 0 /\ ~ (0 - o <= 0) /\ 0 - o >= 0
      BY <2>9
    <3>2. BandOf(o, w) = "buy" /\ BandOf(0 - o, w) = "sell"
      BY <2>5, <2>6, <2>9, <3>1, Zenon DEF BandOf
    <3> QED
      BY <2>3, <3>2, MirrorPairs, Zenon
  <2>10. CASE q >= w /\ o > 0
    <3>1. ~ (o <= 0) /\ o >= 0 /\ 0 - o <= 0
      BY <2>10
    <3>2. BandOf(o, w) = "sell" /\ BandOf(0 - o, w) = "buy"
      BY <2>5, <2>6, <2>10, <3>1, Zenon DEF BandOf
    <3> QED
      BY <2>3, <3>2, MirrorPairs, Zenon
  <2>11. o = 0 \/ o < 0 \/ o > 0
    OBVIOUS
  <2> QED
    BY <2>7, <2>8, <2>9, <2>10, <2>11, Zenon
<1> QED
  BY <1>1, <1>2, Zenon

-----------------------------------------------------------------------------
(* EMA.                                                                    *)

Weights(s, p, n) == [i \in p + 1 .. n |-> 2 * s[i] * p * Indicator!Pow(p + 1, i - p - 1)]
Average(s, p, n) == Indicator!Gather(p - 1, Seed(s, p), Weights(s, p, n), p, n)
LastPrice(s, p, n) == s[n] * p * Indicator!Pow(p + 1, n - p)

TrendOf(price, ema) == IF price > ema THEN "bullish" ELSE IF price < ema THEN "bearish" ELSE "neutral"
EMAOf(p, n, price, ema) == IF p < 1 \/ p > n THEN Indicator!Error ELSE Indicator!Signal(TrendOf(price, ema))

LEMMA EMAIs ==
    ASSUME NEW r, NEW p, p = Indicator!ExtractPeriod(r, 0), NEW n, n = Len(r.prices)
    PROVE  Indicator!CalculateEMA(r) = EMAOf(p, n, LastPrice(r.prices, p, n), Average(r.prices, p, n))
BY Zenon DEF Indicator!CalculateEMA, EMAOf, TrendOf, LastPrice, Average, Weights, Seed

LEMMA SeedsMirror ==
    ASSUME NEW n \in Nat, NEW s \in [1 .. n -> Int], NEW p \in 1 .. n, NEW t \in [1 .. n -> Int], NegatedOf(t, s, n)
    PROVE  Seed(s, p) \in Int /\ Seed(t, p) = 0 - Seed(s, p)
<1> DEFINE w == SubSeq(s, 1, p)
           v == SubSeq(t, 1, p)
<1>1. w \in [1 .. p -> Int] /\ \A i \in 1 .. p : w[i] = s[i]
  BY FirstOnes
<1>2. v \in [1 .. p -> Int] /\ \A i \in 1 .. p : v[i] = t[i]
  BY FirstOnes
<1> HIDE DEF w, v
<1>3. p \in Nat /\ \A i \in 1 .. p : i \in 1 .. n
  OBVIOUS
<1>4. \A i \in 1 .. p : v[i] = 0 - w[i]
  BY <1>1, <1>2, <1>3 DEF NegatedOf
<1>5. Indicator!SumOf(v) = 0 - Indicator!SumOf(w) /\ Indicator!SumOf(w) \in Int
  BY <1>1, <1>2, <1>3, <1>4, SumNegated, SumIs
<1> QED
  BY <1>5 DEF Seed, w, v

LEMMA AveragesMirror ==
    ASSUME NEW n \in Nat, NEW s \in [1 .. n -> Int], NEW p \in 1 .. n, NEW t, t = Indicator!Negated(s)
    PROVE  /\ Average(s, p, n) \in Int /\ Average(t, p, n) = 0 - Average(s, p, n)
           /\ LastPrice(s, p, n) \in Int /\ LastPrice(t, p, n) = 0 - LastPrice(s, p, n)
<1> DEFINE b == Weights(s, p, n)
           c == Weights(t, p, n)
<1>1. NegatedOf(t, s, n) /\ t \in [1 .. n -> Int]
  BY SeriesNegated DEF NegatedOf
<1>2. \A i \in p .. n : s[i] \in Int /\ t[i] = 0 - s[i]
  <2>1. \A i \in p .. n : i \in 1 .. n
    OBVIOUS
  <2> QED
    BY <1>1, <2>1 DEF NegatedOf
<1>3. \A k \in Nat : Indicator!Pow(p + 1, k) \in Int
  <2>1. p + 1 \in Int
    OBVIOUS
  <2> QED
    BY <2>1, PowIs
<1>4. \A x \in Int, y \in Int : /\ 2 * x * p * y \in Int /\ 2 * (0 - x) * p * y = 0 - 2 * x * p * y
                                /\ x * p * y \in Int /\ (0 - x) * p * y = 0 - x * p * y
  OBVIOUS
<1>5. \A i \in p + 1 .. n : b[i] \in Int /\ c[i] = 0 - b[i]
  <2>1. SUFFICES ASSUME NEW i \in p + 1 .. n PROVE b[i] \in Int /\ c[i] = 0 - b[i]
    OBVIOUS
  <2>2. PICK y \in Int : y = Indicator!Pow(p + 1, i - p - 1)
    <3>1. i - p - 1 \in Nat
      OBVIOUS
    <3> QED
      BY <1>3, <3>1
  <2>3. PICK x \in Int : x = s[i] /\ t[i] = 0 - x
    <3>1. i \in p .. n
      OBVIOUS
    <3> QED
      BY <1>2, <3>1
  <2>4. b[i] = 2 * x * p * y /\ c[i] = 2 * (0 - x) * p * y
    BY <2>2, <2>3, Zenon DEF Weights
  <2> HIDE DEF b, c
  <2> QED
    BY <1>4, <2>4
<1> HIDE DEF b, c
<1>6. Seed(s, p) \in Int /\ Seed(t, p) = 0 - Seed(s, p)
  BY <1>1, SeedsMirror
<1>7. p - 1 \in Int /\ p \in Int /\ n \in Int /\ p <= n
  OBVIOUS
<1>8. Gatherable(p - 1, Seed(s, p), b, p, n) /\ Opposed(b, c, p, n)
  BY <1>5, <1>6, <1>7 DEF Gatherable, Opposed
<1>9. /\ Average(s, p, n) = Indicator!Gather(p - 1, Seed(s, p), b, p, n)
      /\ Average(t, p, n) = Indicator!Gather(p - 1, Seed(t, p), c, p, n)
  BY Zenon DEF Average, b, c
<1>10. Average(s, p, n) \in Int /\ Average(t, p, n) = 0 - Average(s, p, n)
  <2>1. PICK a \in Int, f \in Int, g \in Int : a = p - 1 /\ f = Seed(s, p) /\ g = Seed(t, p) /\ g = 0 - f
    BY <1>6, <1>7
  <2>2. Indicator!Gather(a, g, c, p, n) = 0 - Indicator!Gather(a, f, b, p, n)
    BY <1>8, <2>1, GatherNegated
  <2>3. Indicator!Gather(a, f, b, p, n) \in Int
    BY <1>8, <2>1, GatherIsInt
  <2> QED
    BY <1>9, <2>1, <2>2, <2>3, Zenon
<1>11. LastPrice(s, p, n) \in Int /\ LastPrice(t, p, n) = 0 - LastPrice(s, p, n)
  <2>1. PICK y \in Int : y = Indicator!Pow(p + 1, n - p)
    <3>1. n - p \in Nat
      OBVIOUS
    <3> QED
      BY <1>3, <3>1
  <2>2. PICK x \in Int : x = s[n] /\ t[n] = 0 - x
    <3>1. n \in p .. n
      OBVIOUS
    <3> QED
      BY <1>2, <3>1
  <2>3. LastPrice(s, p, n) = x * p * y /\ LastPrice(t, p, n) = (0 - x) * p * y
    BY <2>1, <2>2, Zenon DEF LastPrice
  <2> QED
    BY <1>4, <2>3
<1> QED
  BY <1>10, <1>11

LEMMA EMAMirrors ==
    ASSUME NEW n \in Nat, NEW s \in [1 .. n -> Int], NEW p \in Int, NEW t, t = Indicator!Negated(s)
    PROVE  Mirrors(EMAOf(p, n, LastPrice(s, p, n), Average(s, p, n)), EMAOf(p, n, LastPrice(t, p, n), Average(t, p, n)))
<1>1. CASE p < 1 \/ p > n
  BY <1>1, MirrorSignals, Zenon DEF EMAOf
<1>2. CASE ~ (p < 1 \/ p > n)
  <2>1. p \in 1 .. n
    BY <1>2
  <2>2. PICK x \in Int, a \in Int : /\ x = LastPrice(s, p, n) /\ LastPrice(t, p, n) = 0 - x
                                    /\ a = Average(s, p, n) /\ Average(t, p, n) = 0 - a
    BY <2>1, AveragesMirror
  <2>3. SUFFICES TrendOf(0 - x, 0 - a) = Indicator!OppositeOf(TrendOf(x, a))
    BY <1>2, <2>2, MirrorSignals, Zenon DEF EMAOf
  <2>4. \/ TrendOf(x, a) = "bullish" /\ TrendOf(0 - x, 0 - a) = "bearish"
        \/ TrendOf(x, a) = "bearish" /\ TrendOf(0 - x, 0 - a) = "bullish"
        \/ TrendOf(x, a) = "neutral" /\ TrendOf(0 - x, 0 - a) = "neutral"
    BY DEF TrendOf
  <2> QED
    BY <2>4, Opposites
<1> QED
  BY <1>1, <1>2, Zenon

-----------------------------------------------------------------------------
(* ADX.                                                                    *)

BarType == Int \X Int \X Int
Upside(s) == [i \in DOMAIN s |-> <<-Indicator!High(s[i]), -Indicator!Close(s[i]), -Indicator!Low(s[i])>>]
Rise(s, i) == Indicator!High(s[i]) - Indicator!High(s[i - 1])
Fall(s, i) == Indicator!Low(s[i - 1]) - Indicator!Low(s[i])
Leading(x, y) == IF x > y /\ x > 0 THEN x ELSE 0

Distance(plus, minus) ==
    IF plus + minus = 0 THEN 0 ELSE (100 * Indicator!Abs(plus - minus)) \div (plus + minus)
Distances(s, p) ==
    [i \in DOMAIN s |-> IF i <= p THEN 0
                        ELSE Distance(Indicator!SmoothWilder(Indicator!PlusDM(s), p, i),
                                      Indicator!SmoothWilder(Indicator!MinusDM(s), p, i))]

ADXOf(same, p, n, adx) ==
    IF ~ same \/ p < 1 \/ n < 2 * p \/ adx = 0 THEN Indicator!Error
    ELSE Indicator!Signal(IF adx >= 50 * Indicator!Pow(p, n - p + 1) THEN "very_strong"
                          ELSE IF adx >= 25 * Indicator!Pow(p, n - p + 1) THEN "strong" ELSE "weak")

LEMMA ADXIs ==
    ASSUME NEW r, NEW p, p = Indicator!ExtractPeriod(r, 14), NEW n, n = Len(r.bars)
    PROVE  /\ Indicator!CalculateADX(r) = ADXOf(r.sameLength, p, n, Indicator!CalculateADXManual(r.bars, p))
           /\ Indicator!CalculateADXManual(r.bars, p) = Indicator!SmoothWilder(Distances(r.bars, p), p, n)
<1>1. Indicator!CalculateADX(r) = ADXOf(r.sameLength, p, n, Indicator!CalculateADXManual(r.bars, p))
  BY Zenon DEF Indicator!CalculateADX, ADXOf
<1>2. Indicator!CalculateADXManual(r.bars, p) = Indicator!SmoothWilder(Distances(r.bars, p), p, n)
  BY Zenon DEF Indicator!CalculateADXManual, Distances, Distance
<1> QED
  BY <1>1, <1>2

LEMMA BarsMove ==
    ASSUME NEW n \in Nat, NEW s \in [1 .. n -> BarType]
    PROVE  \A i \in 1 .. n : /\ Indicator!High(s[i]) \in Int /\ Indicator!Low(s[i]) \in Int
                             /\ i # 1 => i - 1 \in 1 .. n /\ Rise(s, i) \in Int /\ Fall(s, i) \in Int
<1>1. \A i \in 1 .. n : Indicator!High(s[i]) \in Int /\ Indicator!Low(s[i]) \in Int
  BY DEF BarType, Indicator!High, Indicator!Low
<1>2. \A i \in 1 .. n : i # 1 => i - 1 \in 1 .. n
  OBVIOUS
<1>3. \A x, y \in Int : x - y \in Int
  OBVIOUS
<1> QED
  BY <1>1, <1>2, <1>3 DEF Rise, Fall

LEMMA MovesAre ==
    ASSUME NEW n \in Nat, NEW s \in [1 .. n -> BarType]
    PROVE  /\ Indicator!PlusDM(s) \in [1 .. n -> Nat] /\ Indicator!MinusDM(s) \in [1 .. n -> Nat]
           /\ \A i \in 1 .. n : /\ Indicator!PlusDM(s)[i] = IF i = 1 THEN 0 ELSE Leading(Rise(s, i), Fall(s, i))
                                /\ Indicator!MinusDM(s)[i] = IF i = 1 THEN 0 ELSE Leading(Fall(s, i), Rise(s, i))
<1>1. DOMAIN s = 1 .. n
  OBVIOUS
<1>2. Indicator!PlusDM(s) = [i \in 1 .. n |-> IF i = 1 THEN 0 ELSE Leading(Rise(s, i), Fall(s, i))]
  BY <1>1, Zenon DEF Indicator!PlusDM, Leading, Rise, Fall
<1>3. Indicator!MinusDM(s) = [i \in 1 .. n |-> IF i = 1 THEN 0 ELSE Leading(Fall(s, i), Rise(s, i))]
  BY <1>1, Zenon DEF Indicator!MinusDM, Leading, Rise, Fall
<1>4. \A x, y \in Int : Leading(x, y) \in Nat
  BY DEF Leading
<1>5. \A i \in 1 .. n : i # 1 => Leading(Rise(s, i), Fall(s, i)) \in Nat /\ Leading(Fall(s, i), Rise(s, i)) \in Nat
  BY <1>4, BarsMove
<1> QED
  BY <1>2, <1>3, <1>5

LEMMA SameSeries ==
    ASSUME NEW n, NEW f \in [1 .. n -> Nat], NEW g \in [1 .. n -> Nat], \A i \in 1 .. n : f[i] = g[i]
    PROVE  f = g
<1>1. f = [i \in 1 .. n |-> f[i]] /\ g = [i \in 1 .. n |-> g[i]]
  OBVIOUS
<1>2. [i \in 1 .. n |-> f[i]] = [i \in 1 .. n |-> g[i]]
  OBVIOUS
<1> QED
  BY <1>1, <1>2, Zenon

LEMMA BarsMirror ==
    ASSUME NEW n \in Nat, NEW s \in [1 .. n -> BarType], NEW t, t = Upside(s)
    PROVE  /\ t \in [1 .. n -> BarType] /\ DOMAIN t = 1 .. n /\ Len(t) = n
           /\ Indicator!PlusDM(t) = Indicator!MinusDM(s) /\ Indicator!MinusDM(t) = Indicator!PlusDM(s)
<1>1. \A i \in 1 .. n : /\ Indicator!High(s[i]) \in Int /\ Indicator!Low(s[i]) \in Int /\ Indicator!Close(s[i]) \in Int
  BY DEF BarType, Indicator!High, Indicator!Low, Indicator!Close
<1>2. t = [i \in 1 .. n |-> <<-Indicator!High(s[i]), -Indicator!Close(s[i]), -Indicator!Low(s[i])>>]
  BY DEF Upside
<1>3. \A i \in 1 .. n : t[i] = <<-Indicator!High(s[i]), -Indicator!Close(s[i]), -Indicator!Low(s[i])>>
  BY <1>2, Zenon
<1>4. t \in [1 .. n -> BarType] /\ DOMAIN t = 1 .. n /\ Len(t) = n
  <2>1. \A i \in 1 .. n : <<-Indicator!High(s[i]), -Indicator!Close(s[i]), -Indicator!Low(s[i])>> \in BarType
    BY <1>1 DEF BarType
  <2> QED
    BY <1>2, <2>1
<1>5. \A i \in 1 .. n : Indicator!High(t[i]) = 0 - Indicator!Low(s[i]) /\ Indicator!Low(t[i]) = 0 - Indicator!High(s[i])
  <2>1. SUFFICES ASSUME NEW i \in 1 .. n
                 PROVE  /\ Indicator!High(t[i]) = 0 - Indicator!Low(s[i])
                        /\ Indicator!Low(t[i]) = 0 - Indicator!High(s[i])
    OBVIOUS
  <2>2. PICK h \in Int, l \in Int : h = Indicator!High(s[i]) /\ l = Indicator!Low(s[i])
    BY <1>1
  <2>3. t[i][3] = -l /\ t[i][1] = -h
    BY <1>3, <2>2
  <2>4. Indicator!High(t[i]) = t[i][3] /\ Indicator!Low(t[i]) = t[i][1]
    BY DEF Indicator!High, Indicator!Low
  <2> QED
    BY <2>2, <2>3, <2>4
<1>6. \A i \in 1 .. n : i # 1 => Rise(t, i) = Fall(s, i) /\ Fall(t, i) = Rise(s, i)
  <2>1. SUFFICES ASSUME NEW i \in 1 .. n, i # 1 PROVE Rise(t, i) = Fall(s, i) /\ Fall(t, i) = Rise(s, i)
    OBVIOUS
  <2>2. i - 1 \in 1 .. n
    BY <2>1
  <2>3. PICK h \in Int, l \in Int, g \in Int, k \in Int :
            /\ h = Indicator!High(s[i]) /\ l = Indicator!Low(s[i])
            /\ g = Indicator!High(s[i - 1]) /\ k = Indicator!Low(s[i - 1])
    BY <1>1, <2>2
  <2>4. /\ Indicator!High(t[i]) = 0 - l /\ Indicator!Low(t[i]) = 0 - h
        /\ Indicator!High(t[i - 1]) = 0 - k /\ Indicator!Low(t[i - 1]) = 0 - g
    BY <1>5, <2>2, <2>3
  <2>5. Rise(t, i) = (0 - l) - (0 - k) /\ Fall(t, i) = (0 - g) - (0 - h) /\ Rise(s, i) = h - g /\ Fall(s, i) = k - l
    BY <2>3, <2>4, Zenon DEF Rise, Fall
  <2> QED
    BY <2>5
<1>7. /\ Indicator!PlusDM(t) \in [1 .. n -> Nat] /\ Indicator!MinusDM(t) \in [1 .. n -> Nat]
      /\ \A i \in 1 .. n : /\ Indicator!PlusDM(t)[i] = IF i = 1 THEN 0 ELSE Leading(Rise(t, i), Fall(t, i))
                           /\ Indicator!MinusDM(t)[i] = IF i = 1 THEN 0 ELSE Leading(Fall(t, i), Rise(t, i))
  BY <1>4, MovesAre, Zenon
<1>8. /\ Indicator!PlusDM(s) \in [1 .. n -> Nat] /\ Indicator!MinusDM(s) \in [1 .. n -> Nat]
      /\ \A i \in 1 .. n : /\ Indicator!PlusDM(s)[i] = IF i = 1 THEN 0 ELSE Leading(Rise(s, i), Fall(s, i))
                           /\ Indicator!MinusDM(s)[i] = IF i = 1 THEN 0 ELSE Leading(Fall(s, i), Rise(s, i))
  BY MovesAre, Zenon
<1>9. \A i \in 1 .. n : /\ Indicator!PlusDM(t)[i] = Indicator!MinusDM(s)[i]
                        /\ Indicator!MinusDM(t)[i] = Indicator!PlusDM(s)[i]
  <2>1. SUFFICES ASSUME NEW i \in 1 .. n
                 PROVE  /\ Indicator!PlusDM(t)[i] = Indicator!MinusDM(s)[i]
                        /\ Indicator!MinusDM(t)[i] = Indicator!PlusDM(s)[i]
    OBVIOUS
  <2>2. CASE i = 1
    BY <1>7, <1>8, <2>2, Zenon
  <2>3. CASE i # 1
    <3>1. /\ Indicator!PlusDM(t)[i] = Leading(Rise(t, i), Fall(t, i))
          /\ Indicator!MinusDM(t)[i] = Leading(Fall(t, i), Rise(t, i))
      BY <1>7, <2>3, Zenon
    <3>2. /\ Indicator!PlusDM(s)[i] = Leading(Rise(s, i), Fall(s, i))
          /\ Indicator!MinusDM(s)[i] = Leading(Fall(s, i), Rise(s, i))
      BY <1>8, <2>3, Zenon
    <3>3. Rise(t, i) = Fall(s, i) /\ Fall(t, i) = Rise(s, i)
      BY <1>6, <2>3
    <3> QED
      BY <3>1, <3>2, <3>3, Zenon
  <2> QED
    BY <2>2, <2>3, Zenon
<1>10. \A f, g \in [1 .. n -> Nat] : (\A i \in 1 .. n : f[i] = g[i]) => f = g
  BY SameSeries, Zenon
<1>11. Indicator!PlusDM(t) = Indicator!MinusDM(s) /\ Indicator!MinusDM(t) = Indicator!PlusDM(s)
  BY <1>7, <1>8, <1>9, <1>10, ZenonT(60)
<1> QED
  BY <1>4, <1>11, Zenon

LEMMA DistanceMirrors ==
    ASSUME NEW plus \in Nat, NEW minus \in Nat PROVE Distance(minus, plus) = Distance(plus, minus)
<1>1. minus + plus = plus + minus /\ Indicator!Abs(minus - plus) = Indicator!Abs(plus - minus)
  BY DEF Indicator!Abs
<1> QED
  BY <1>1, Zenon DEF Distance

LEMMA SmoothedMoves ==
    ASSUME NEW n \in Nat, NEW s \in [1 .. n -> BarType], NEW p \in 1 .. n
    PROVE  \A i \in p .. n : /\ Indicator!SmoothWilder(Indicator!PlusDM(s), p, i) \in Nat
                             /\ Indicator!SmoothWilder(Indicator!MinusDM(s), p, i) \in Nat
<1>1. Indicator!PlusDM(s) \in [1 .. n -> Nat] /\ Indicator!MinusDM(s) \in [1 .. n -> Nat]
  BY MovesAre
<1> QED
  BY <1>1, WilderPositive

LEMMA DistancesMirror ==
    ASSUME NEW n \in Nat, NEW s \in [1 .. n -> BarType], NEW p \in 1 .. n, NEW t, t = Upside(s)
    PROVE  Distances(t, p) = Distances(s, p)
<1>1. /\ DOMAIN t = 1 .. n /\ DOMAIN s = 1 .. n
      /\ Indicator!PlusDM(t) = Indicator!MinusDM(s) /\ Indicator!MinusDM(t) = Indicator!PlusDM(s)
  BY BarsMirror
<1> DEFINE P(i) == Indicator!SmoothWilder(Indicator!PlusDM(s), p, i)
           M(i) == Indicator!SmoothWilder(Indicator!MinusDM(s), p, i)
<1>2. \A i \in 1 .. n : ~ (i <= p) => P(i) \in Nat /\ M(i) \in Nat
  <2>1. \A i \in 1 .. n : ~ (i <= p) => i \in p .. n
    OBVIOUS
  <2> QED
    BY <2>1, SmoothedMoves
<1>3. Distances(s, p) = [i \in 1 .. n |-> IF i <= p THEN 0 ELSE Distance(P(i), M(i))]
  BY <1>1, Zenon DEF Distances
<1>4. Distances(t, p) = [i \in 1 .. n |-> IF i <= p THEN 0 ELSE Distance(M(i), P(i))]
  BY <1>1, Zenon DEF Distances
<1> HIDE DEF P, M
<1>5. \A i \in 1 .. n : ~ (i <= p) => Distance(M(i), P(i)) = Distance(P(i), M(i))
  BY <1>2, DistanceMirrors
<1> QED
  BY <1>3, <1>4, <1>5

LEMMA ADXMirrors ==
    ASSUME NEW n \in Nat, NEW s \in [1 .. n -> BarType], NEW p \in Int, NEW t, t = Upside(s), NEW same
    PROVE  Mirrors(ADXOf(same, p, n, Indicator!SmoothWilder(Distances(s, p), p, n)),
                   ADXOf(same, p, n, Indicator!SmoothWilder(Distances(t, p), p, n)))
<1>1. \A x : x \in {"very_strong", "strong", "weak"} => Mirrors(Indicator!Signal(x), Indicator!Signal(x))
  BY MirrorSignals, Opposites
<1>2. \A adx : Mirrors(ADXOf(same, p, n, adx), ADXOf(same, p, n, adx))
  BY <1>1, MirrorSignals, Zenon DEF ADXOf
<1>3. CASE p < 1 \/ n < 2 * p
  BY <1>3, MirrorSignals, Zenon DEF ADXOf
<1>4. CASE ~ (p < 1 \/ n < 2 * p)
  <2>1. p \in 1 .. n
    BY <1>4
  <2>2. Distances(t, p) = Distances(s, p)
    BY <2>1, DistancesMirror
  <2> QED
    BY <1>2, <2>2, Zenon
<1> QED
  BY <1>3, <1>4, Zenon

\* A market that only rises.
Rises(s, i) ==
    Indicator!High(s[i]) > Indicator!High(s[i - 1]) /\ Indicator!Low(s[i]) >= Indicator!Low(s[i - 1])

LEMMA RisingMoves ==
    ASSUME NEW n \in Nat, NEW s \in [1 .. n -> BarType], \A i \in 2 .. n : Rises(s, i)
    PROVE  \A i \in 1 .. n : Indicator!MinusDM(s)[i] = 0 /\ (i # 1 => Indicator!PlusDM(s)[i] > 0)
<1>1. SUFFICES ASSUME NEW i \in 1 .. n
               PROVE  Indicator!MinusDM(s)[i] = 0 /\ (i # 1 => Indicator!PlusDM(s)[i] > 0)
  OBVIOUS
<1>2. /\ Indicator!PlusDM(s)[i] = IF i = 1 THEN 0 ELSE Leading(Rise(s, i), Fall(s, i))
      /\ Indicator!MinusDM(s)[i] = IF i = 1 THEN 0 ELSE Leading(Fall(s, i), Rise(s, i))
  BY MovesAre, ZenonT(60)
<1>3. CASE i = 1
  BY <1>2, <1>3
<1>4. CASE i # 1
  <2>1. i \in 2 .. n /\ i - 1 \in 1 .. n
    BY <1>4
  <2>2. PICK h \in Int, l \in Int, g \in Int, k \in Int :
            /\ h = Indicator!High(s[i]) /\ l = Indicator!Low(s[i])
            /\ g = Indicator!High(s[i - 1]) /\ k = Indicator!Low(s[i - 1])
    BY <2>1, BarsMove
  <2>3. Rise(s, i) = h - g /\ Fall(s, i) = k - l
    BY <2>2, Zenon DEF Rise, Fall
  <2>4. h > g /\ l >= k
    BY <2>1, <2>2 DEF Rises
  <2>5. Leading(h - g, k - l) > 0 /\ Leading(k - l, h - g) = 0
    BY <2>4 DEF Leading
  <2> QED
    BY <1>2, <1>4, <2>3, <2>5, Zenon
<1> QED
  BY <1>3, <1>4

LEMMA FullDistance == ASSUME NEW x \in Nat, x > 0 PROVE Distance(x, 0) = 100
<1>1. (100 * x) \div x = 100
  OBVIOUS
<1>2. x + 0 = x /\ x # 0 /\ Indicator!Abs(x - 0) = x
  BY DEF Indicator!Abs
<1> QED
  BY <1>1, <1>2, Zenon DEF Distance

LEMMA RisingDistances ==
    ASSUME NEW n \in Nat, NEW s \in [1 .. n -> BarType], NEW p \in 1 .. n, \A i \in 2 .. n : Rises(s, i)
    PROVE  Distances(s, p) = [i \in 1 .. n |-> IF i <= p THEN 0 ELSE 100]
<1> DEFINE P(i) == Indicator!SmoothWilder(Indicator!PlusDM(s), p, i)
           M(i) == Indicator!SmoothWilder(Indicator!MinusDM(s), p, i)
<1>1. Indicator!PlusDM(s) \in [1 .. n -> Nat] /\ Indicator!MinusDM(s) \in [1 .. n -> Nat]
  BY MovesAre
<1>2. \A i \in 1 .. n : Indicator!MinusDM(s)[i] = 0 /\ (i # 1 => Indicator!PlusDM(s)[i] > 0)
  BY RisingMoves
<1>3. \A i \in 1 .. n : ~ (i <= p) => P(i) \in Nat /\ P(i) > 0 /\ M(i) = 0
  <2>1. SUFFICES ASSUME NEW i \in 1 .. n, ~ (i <= p) PROVE P(i) \in Nat /\ P(i) > 0 /\ M(i) = 0
    OBVIOUS
  <2>2. i \in p .. n /\ i # 1 /\ \A j \in 1 .. i : j \in 1 .. n
    BY <2>1
  <2>3. Indicator!PlusDM(s)[i] > 0 /\ \A j \in 1 .. i : Indicator!MinusDM(s)[j] = 0
    BY <1>2, <2>2
  <2>4. P(i) \in Nat /\ (Indicator!PlusDM(s)[i] > 0 => P(i) > 0)
    BY <1>1, <2>2, WilderPositive
  <2>5. (\A j \in 1 .. i : Indicator!MinusDM(s)[j] = 0) => M(i) = 0
    BY <1>1, <2>2, WilderPositive, ZenonT(60)
  <2> QED
    BY <2>3, <2>4, <2>5, Zenon
<1>4. Distances(s, p) = [i \in 1 .. n |-> IF i <= p THEN 0 ELSE Distance(P(i), M(i))]
  <2>1. DOMAIN s = 1 .. n
    OBVIOUS
  <2> QED
    BY <2>1, Zenon DEF Distances
<1> HIDE DEF P, M
<1>5. \A i \in 1 .. n : ~ (i <= p) => Distance(P(i), M(i)) = 100
  BY <1>3, FullDistance
<1> QED
  BY <1>4, <1>5

\* What a whole distance from the period on smooths to: all of it but for the
\* part that began at zero.
LEMMA WholeSmoothed ==
    ASSUME NEW n \in Nat, NEW p \in 1 .. n, 2 * p <= n,
           NEW s, s = [i \in 1 .. n |-> IF i <= p THEN 0 ELSE 100]
    PROVE  Indicator!SmoothWilder(s, p, n) >= 50 * Indicator!Pow(p, n - p + 1)
<1> DEFINE b == Weighed(s, p, n)
           P(k) == Indicator!Pow(p, k)
           Q(k) == Indicator!Pow(p - 1, k)
<1>1. /\ s \in [1 .. n -> Nat] /\ s \in [1 .. n -> Int]
      /\ \A i \in 1 .. n : (i <= p => s[i] = 0) /\ (i > p => s[i] = 100)
  OBVIOUS
<1>2. /\ Indicator!SmoothWilder(s, p, n) = Indicator!Gather(p - 1, Seed(s, p), b, p, n)
      /\ Gatherable(p - 1, Seed(s, p), b, p, n)
  <2>1. n \in p .. n
    OBVIOUS
  <2> QED
    BY <1>1, <2>1, WilderIs, ZenonT(60)
<1>3. Seed(s, p) = 0
  <2>1. /\ Indicator!SmoothWilder(s, p, p) = Indicator!Gather(p - 1, Seed(s, p), Weighed(s, p, p), p, p)
        /\ Gatherable(p - 1, Seed(s, p), Weighed(s, p, p), p, p)
    <3>1. p \in p .. n
      OBVIOUS
    <3> QED
      BY <1>1, <3>1, WilderIs
  <2>2. Indicator!SmoothWilder(s, p, p) = Seed(s, p)
    BY <2>1, GatherFirst
  <2>3. \A j \in 1 .. p : s[j] = 0
    BY <1>1
  <2>4. p \in p .. n
    OBVIOUS
  <2>5. (\A j \in 1 .. p : s[j] = 0) => Indicator!SmoothWilder(s, p, p) = 0
    BY <1>1, <2>4, WilderPositive
  <2> QED
    BY <2>2, <2>3, <2>5
<1>4. \A k \in Nat : P(k) \in Int /\ Q(k) \in Int /\ P(k + 1) = P(k) * p /\ Q(k + 1) = Q(k) * (p - 1)
  <2>1. p \in Int /\ p - 1 \in Int
    OBVIOUS
  <2> QED
    BY <2>1, PowIs
<1>5. P(0) = 1 /\ Q(0) = 1
  <2>1. \A x \in Int : Indicator!Pow(x, 0) = 1
    BY PowIs
  <2>2. p \in Int /\ p - 1 \in Int
    OBVIOUS
  <2> QED
    BY <2>1, <2>2, Zenon
<1>6. \A j \in p + 1 .. n : b[j] = 100 * P(j - p)
  <2>1. \A j \in p + 1 .. n : j \in 1 .. n /\ j > p
    OBVIOUS
  <2>2. \A j \in p + 1 .. n : b[j] = s[j] * P(j - p)
    BY Zenon DEF Weighed
  <2> HIDE DEF b
  <2> QED
    BY <1>1, <2>1, <2>2, ZenonT(60)
<1>7. P(n - p) >= 2 * Q(n - p)
  <2>1. n - p \in Nat /\ p <= n - p /\ p \in Nat \ {0}
    OBVIOUS
  <2> QED
    BY <2>1, PowDoubles
<1> HIDE DEF b, P, Q
<1>8. PICK W : Gathers(W, p - 1, 0, b, p, n) /\ Indicator!Gather(p - 1, 0, b, p, n) = W[n]
  <2>1. PICK a \in Int : a = p - 1
    OBVIOUS
  <2>2. Gatherable(a, 0, b, p, n)
    BY <1>2, <1>3, <2>1
  <2>3. \E W : Gathers(W, a, 0, b, p, n) /\ Indicator!Gather(a, 0, b, p, n) = W[n]
    BY <2>2, GatherIs
  <2> QED
    BY <2>1, <2>3, Zenon
<1>9. W[p] = 0 /\ \A j \in p + 1 .. n : W[j] = W[j - 1] * (p - 1) + b[j]
  BY <1>8 DEF Gathers
<1> DEFINE S == {j \in Int : W[j] = 100 * (p * P(j - p)) - 100 * (p * Q(j - p))}
<1>10. p \in S
  <2>1. p - p = 0 /\ p \in Int
    OBVIOUS
  <2> QED
    BY <1>5, <1>9, <2>1
<1>11. ASSUME NEW j \in p + 1 .. n, j - 1 \in S PROVE j \in S
  <2>1. PICK m \in Nat : m = (j - 1) - p /\ m + 1 = j - p
    OBVIOUS
  <2>2. PICK x \in Int, y \in Int : x = P(m) /\ y = Q(m) /\ P(m + 1) = x * p /\ Q(m + 1) = y * (p - 1)
    BY <1>4
  <2>3. W[j - 1] = 100 * (p * x) - 100 * (p * y)
    BY <1>11, <2>1, <2>2
  <2>4. b[j] = 100 * (x * p)
    BY <1>6, <2>1, <2>2
  <2>5. W[j] = (100 * (p * x) - 100 * (p * y)) * (p - 1) + 100 * (x * p)
    BY <1>9, <2>3, <2>4
  <2>6. (100 * (p * x) - 100 * (p * y)) * (p - 1) + 100 * (x * p) = 100 * (p * (x * p)) - 100 * (p * (y * (p - 1)))
    <3>1. PICK q \in Int : q = p
      OBVIOUS
    <3> QED
      BY <3>1
  <2>7. W[j] = 100 * (p * P(j - p)) - 100 * (p * Q(j - p))
    BY <2>1, <2>2, <2>5, <2>6
  <2> QED
    BY <2>7
<1>12. n \in S
  <2>1. \A j \in p .. n : j \in S
    <3>1. p \in Int /\ n \in Int
      OBVIOUS
    <3> HIDE DEF S
    <3> QED
      BY <1>10, <1>11, <3>1, AlongARange
  <2> QED
    BY <2>1
<1>13. PICK x \in Int, y \in Int : x = P(n - p) /\ y = Q(n - p) /\ P((n - p) + 1) = x * p
  <2>1. n - p \in Nat
    OBVIOUS
  <2> QED
    BY <1>4, <2>1
<1>14. W[n] = 100 * (p * x) - 100 * (p * y)
  BY <1>12, <1>13
<1>15. p * x >= 2 * (p * y)
  <2>1. PICK d \in Nat : x = 2 * y + d
    <3>1. x - 2 * y \in Nat
      BY <1>7, <1>13
    <3> QED
      BY <3>1
  <2>2. p * d \in Nat
    OBVIOUS
  <2>3. p * x = 2 * (p * y) + p * d
    BY <2>1
  <2> QED
    BY <2>2, <2>3
<1>16. PICK u \in Int, v \in Int : u = p * x /\ v = p * y /\ x * p = u
  OBVIOUS
<1>17. 100 * u - 100 * v >= 50 * u
  BY <1>15, <1>16
<1>18. n - p + 1 = (n - p) + 1 /\ Indicator!Pow(p, n - p + 1) = u
  BY <1>13, <1>16 DEF P
<1>19. Indicator!SmoothWilder(s, p, n) = 100 * u - 100 * v
  BY <1>2, <1>3, <1>8, <1>14, <1>16
<1> QED
  BY <1>17, <1>18, <1>19

-----------------------------------------------------------------------------
(* What was asked, and the answers.                                        *)

Priced == [tool : {"rsi", "ema"}, prices : Indicator!Series, period : Periods]
Banded == [tool : {"bollinger"}, prices : Indicator!Series, period : Periods, stdDev : {0, 2, 3}]
Crossed ==
    [tool : {"macd"}, fast : 0 .. 2, slow : 1 .. 2, signal : 0 .. 1, n : 1 .. 3, values : 1 .. 2, before : -1 .. 1, now : -1 .. 1]
Barred ==
    [tool : {"adx"}, bars : UNION {[1 .. n -> Bars] : n \in 1 .. MaxBars}, sameLength : BOOLEAN, period : Periods]

LEMMA QuestionsAre == Indicator!Questions = Priced \cup Banded \cup Crossed \cup Barred
BY Zenon DEF Indicator!Questions, Priced, Banded, Crossed, Barred

LEMMA Tools ==
    /\ \A r : r.tool = "rsi" => Indicator!Compute(r) = Indicator!CalculateRSI(r)
    /\ \A r : r.tool = "macd" => Indicator!Compute(r) = Indicator!CalculateMACD(r)
    /\ \A r : r.tool = "bollinger" => Indicator!Compute(r) = Indicator!CalculateBollingerBands(r)
    /\ \A r : r.tool = "ema" => Indicator!Compute(r) = Indicator!CalculateEMA(r)
    /\ \A r : r.tool = "adx" => Indicator!Compute(r) = Indicator!CalculateADX(r)
BY DEF Indicator!Compute

LEMMA MirrorOfPrices ==
    ASSUME NEW r, r.tool \in {"rsi", "ema", "bollinger"}
    PROVE  Indicator!Mirror(r) = [r EXCEPT !.prices = Indicator!Negated(r.prices)]
BY DEF Indicator!Mirror

LEMMA MirrorIs ==
    /\ \A r : r.tool = "macd" => Indicator!Mirror(r) = [r EXCEPT !.before = -r.before, !.now = -r.now]
    /\ \A r : r.tool = "adx" => Indicator!Mirror(r) = [r EXCEPT !.bars = Upside(r.bars)]
BY DEF Indicator!Mirror, Upside

LEMMA SeriesIs ==
    ASSUME Indicator!IndicatorAssumption, NEW s \in Indicator!Series
    PROVE  \E n \in Nat \ {0} : s \in [1 .. n -> Int] /\ Len(s) = n
<1>1. PICK n \in 1 .. MaxPrices : s \in [1 .. n -> Prices]
  BY DEF Indicator!Series
<1>2. n \in Nat \ {0} /\ Prices \subseteq Int
  BY DEF Indicator!IndicatorAssumption
<1>3. s \in [1 .. n -> Int]
  BY <1>1, <1>2
<1>4. Len(s) = n
  BY <1>2, <1>3
<1> QED
  BY <1>2, <1>3, <1>4

LEMMA PeriodIs ==
    ASSUME Indicator!IndicatorAssumption, NEW r, r.period \in Periods, NEW default \in Int
    PROVE  /\ Indicator!ExtractPeriod(r, default) \in Int
           /\ r.period = 1 => Indicator!ExtractPeriod(r, default) = 1
           /\ r.period # 1 /\ default # 1 => Indicator!ExtractPeriod(r, default) # 1
<1>1. r.period \in Int \/ r.period = None
  BY DEF Indicator!IndicatorAssumption
<1>2. None # 1
  <2>1. 1 \in Int
    OBVIOUS
  <2> QED
    BY <2>1, Zenon DEF Indicator!IndicatorAssumption
<1>3. Indicator!ExtractPeriod(r, default) = IF r.period = None THEN default ELSE r.period
  BY Zenon DEF Indicator!ExtractPeriod
<1> QED
  BY <1>1, <1>2, <1>3, Zenon

\* What is claimed of a question and its answer.
MirrorHolds(r) ==
    \/ Mirrors(Indicator!Compute(r), Indicator!Compute(Indicator!Mirror(r)))
    \/ /\ r.tool = "bollinger"
       /\ Indicator!Compute(r).signal = "buy" /\ Indicator!Compute(Indicator!Mirror(r)).signal = "buy"
StrengthHolds(r) ==
    r.tool = "adx" /\ Indicator!Compute(r).ok /\ (\A i \in 2 .. Len(r.bars) : Rises(r.bars, i)) =>
        Indicator!Compute(r).signal = "very_strong"
NumberHolds(r) ==
    Indicator!Compute(r).ok /\ ~ Indicator!Compute(r).encodable =>
        /\ r.tool = "rsi"
        /\ Indicator!Cardinality(Indicator!Range(IF r.period = 1 THEN SubSeq(r.prices, Len(r.prices) - 1, Len(r.prices))
                                                 ELSE r.prices)) = 1

LEMMA PricedHolds ==
    ASSUME Indicator!IndicatorAssumption, NEW r \in Priced
    PROVE  MirrorHolds(r) /\ StrengthHolds(r) /\ NumberHolds(r)
<1>1. r.tool \in {"rsi", "ema"} /\ r.prices \in Indicator!Series /\ r.period \in Periods
  BY DEF Priced
<1> DEFINE s == r.prices
           t == Indicator!Negated(s)
           m == Indicator!Mirror(r)
<1>2. PICK n \in Nat \ {0} : s \in [1 .. n -> Int] /\ Len(s) = n
  BY <1>1, SeriesIs
<1>3. m = [r EXCEPT !.prices = t]
  <2>1. r.tool \in {"rsi", "ema", "bollinger"}
    BY <1>1
  <2> QED
    BY <2>1, MirrorOfPrices
<1>10. r \in [tool : {"rsi", "ema"}, prices : Indicator!Series, period : Periods]
  BY DEF Priced
<1>4. m.tool = r.tool /\ m.period = r.period /\ m.prices = t
  BY <1>3, <1>10
<1>5. n \in Nat /\ t \in [1 .. n -> Int]
  BY <1>2, SeriesNegated DEF NegatedOf
<1>6. Len(t) = n
  BY <1>5
<1>7. ASSUME NEW default PROVE Indicator!ExtractPeriod(m, default) = Indicator!ExtractPeriod(r, default)
  BY <1>4, Zenon DEF Indicator!ExtractPeriod
<1> HIDE DEF t, m, s
<1>8. CASE r.tool = "ema"
  <2>1. PICK p \in Int : p = Indicator!ExtractPeriod(r, 0)
    BY <1>1, PeriodIs
  <2>2. p = Indicator!ExtractPeriod(m, 0)
    BY <1>7, <2>1
  <2>3. Indicator!Compute(r) = EMAOf(p, n, LastPrice(s, p, n), Average(s, p, n))
    BY <1>2, <1>8, <2>1, Tools, EMAIs, Zenon DEF s
  <2>4. Indicator!Compute(m) = EMAOf(p, n, LastPrice(t, p, n), Average(t, p, n))
    <3>1. Indicator!Compute(m) = Indicator!CalculateEMA(m)
      BY <1>4, <1>8, Tools, Zenon
    <3>2. n = Len(m.prices)
      BY <1>4, <1>6
    <3>3. Indicator!CalculateEMA(m) = EMAOf(p, n, LastPrice(m.prices, p, n), Average(m.prices, p, n))
      BY <2>2, <3>2, EMAIs, Zenon
    <3> QED
      BY <1>4, <3>1, <3>3, Zenon
  <2>5. Mirrors(Indicator!Compute(r), Indicator!Compute(m))
    <3>1. t = Indicator!Negated(s)
      BY DEF t
    <3>2. Mirrors(EMAOf(p, n, LastPrice(s, p, n), Average(s, p, n)), EMAOf(p, n, LastPrice(t, p, n), Average(t, p, n)))
      BY <1>2, <1>5, <3>1, EMAMirrors
    <3> QED
      BY <2>3, <2>4, <3>2, Zenon
  <2>6. ~ (Indicator!Compute(r).ok /\ ~ Indicator!Compute(r).encodable)
    BY <2>3, MirrorSignals, Zenon DEF EMAOf
  <2>7. r.tool # "adx"
    BY <1>8
  <2> QED
    BY <2>5, <2>6, <2>7, Zenon DEF MirrorHolds, StrengthHolds, NumberHolds, m
<1>9. CASE r.tool = "rsi"
  <2>1. PICK p \in Int : p = Indicator!ExtractPeriod(r, 14) /\ (r.period = 1 => p = 1) /\ (r.period # 1 => p # 1)
    BY <1>1, PeriodIs
  <2>2. p = Indicator!ExtractPeriod(m, 14)
    BY <1>7, <2>1
  <2>3. Indicator!Compute(r) = RSIOf(p, n, Up(s, p, n), Down(s, p, n))
    BY <1>2, <1>9, <2>1, Tools, RSIIs, Zenon DEF s
  <2>4. Indicator!Compute(m) = RSIOf(p, n, Up(t, p, n), Down(t, p, n))
    <3>1. Indicator!Compute(m) = Indicator!CalculateRSI(m)
      BY <1>4, <1>9, Tools, Zenon
    <3>2. n = Len(m.prices)
      BY <1>4, <1>6
    <3>3. Indicator!CalculateRSI(m) = RSIOf(p, n, Up(m.prices, p, n), Down(m.prices, p, n))
      BY <2>2, <3>2, RSIIs, Zenon
    <3> QED
      BY <1>4, <3>1, <3>3, Zenon
  <2>5. Mirrors(Indicator!Compute(r), Indicator!Compute(m))
    <3>1. t = Indicator!Negated(s)
      BY DEF t
    <3>2. Mirrors(RSIOf(p, n, Up(s, p, n), Down(s, p, n)), RSIOf(p, n, Up(t, p, n), Down(t, p, n)))
      BY <1>2, <3>1, RSIMirrors
    <3> QED
      BY <2>3, <2>4, <3>2, Zenon
  <2>6. ASSUME Indicator!Compute(r).ok, ~ Indicator!Compute(r).encodable
        PROVE  Indicator!Cardinality(Indicator!Range(IF r.period = 1 THEN SubSeq(s, Len(s) - 1, Len(s)) ELSE s)) = 1
    <3>1. ~ (p < 1 \/ p > n \/ p = n) /\ Up(s, p, n) + Down(s, p, n) = 0
      BY <2>3, <2>6, MirrorSignals, Zenon DEF RSIOf
    <3>2. 1 <= p /\ p < n /\ n \in Nat /\ n > 1
      BY <3>1
    <3>3. s[n - 1] = s[n] /\ (p > 1 => \A i \in 1 .. n : s[i] = s[1])
      BY <1>2, <3>1, <3>2, NothingMoved
    <3>4. CASE r.period = 1
      <4>1. Indicator!Cardinality(Indicator!Range(SubSeq(s, n - 1, n))) = 1
        BY <1>2, <3>2, <3>3, LastTwo
      <4> QED
        BY <1>2, <3>4, <4>1, Zenon
    <3>5. CASE r.period # 1
      <4>1. p > 1
        BY <2>1, <3>2, <3>5
      <4>2. Indicator!Cardinality(Indicator!Range(s)) = 1
        BY <1>2, <3>3, <4>1, OneValue
      <4> QED
        BY <3>5, <4>2, Zenon
    <3> QED
      BY <3>4, <3>5, Zenon
  <2>7. r.tool # "adx"
    BY <1>9
  <2> QED
    BY <1>9, <2>5, <2>6, <2>7, Zenon DEF MirrorHolds, StrengthHolds, NumberHolds, m, s
<1> QED
  BY <1>1, <1>8, <1>9

LEMMA BandedHolds ==
    ASSUME Indicator!IndicatorAssumption, NEW r \in Banded
    PROVE  MirrorHolds(r) /\ StrengthHolds(r) /\ NumberHolds(r)
<1>1. r.tool = "bollinger" /\ r.prices \in Indicator!Series /\ r.period \in Periods
  BY DEF Banded
<1> DEFINE s == r.prices
           t == Indicator!Negated(s)
           m == Indicator!Mirror(r)
<1>2. PICK n \in Nat \ {0} : s \in [1 .. n -> Int] /\ Len(s) = n
  BY <1>1, SeriesIs
<1>3. m = [r EXCEPT !.prices = t]
  <2>1. r.tool \in {"rsi", "ema", "bollinger"}
    BY <1>1
  <2> QED
    BY <2>1, MirrorOfPrices
<1>10. r \in [tool : {"bollinger"}, prices : Indicator!Series, period : Periods, stdDev : {0, 2, 3}]
  BY DEF Banded
<1>4. m.tool = r.tool /\ m.period = r.period /\ m.prices = t /\ m.stdDev = r.stdDev
  BY <1>3, <1>10
<1>5. n \in Nat /\ t \in [1 .. n -> Int]
  BY <1>2, SeriesNegated DEF NegatedOf
<1>6. Len(t) = n
  BY <1>5
<1> HIDE DEF t, m, s
<1>7. PICK p \in Int : p = Indicator!ExtractPeriod(r, 20)
  BY <1>1, PeriodIs
<1>8. p = Indicator!ExtractPeriod(m, 20)
  BY <1>4, <1>7, Zenon DEF Indicator!ExtractPeriod
<1> DEFINE a == BollingerOf(p, n, r.stdDev, Off(s, p, n), Spread(s, p, n))
           b == BollingerOf(p, n, r.stdDev, Off(t, p, n), Spread(t, p, n))
<1>9. Indicator!Compute(r) = a
  BY <1>1, <1>2, <1>7, Tools, BollingerIs, Zenon DEF s
<1>11. Indicator!Compute(m) = b
  <2>1. Indicator!Compute(m) = Indicator!CalculateBollingerBands(m)
    BY <1>1, <1>4, Tools, Zenon
  <2>2. n = Len(m.prices)
    BY <1>4, <1>6
  <2>3. Indicator!CalculateBollingerBands(m) = BollingerOf(p, n, m.stdDev, Off(m.prices, p, n), Spread(m.prices, p, n))
    BY <1>8, <2>2, BollingerIs, Zenon
  <2> QED
    BY <1>4, <2>1, <2>3, Zenon
<1>12. Mirrors(a, b) \/ (a.signal = "buy" /\ b.signal = "buy")
  <2>1. t = Indicator!Negated(s)
    BY DEF t
  <2> QED
    BY <1>2, <1>5, <2>1, BollingerMirrors
<1>13. ~ (a.ok /\ ~ a.encodable)
  BY MirrorSignals, Zenon DEF BollingerOf
<1> HIDE DEF a, b
<1>14. r.tool # "adx"
  BY <1>1
<1> QED
  BY <1>1, <1>9, <1>11, <1>12, <1>13, <1>14, Zenon DEF MirrorHolds, StrengthHolds, NumberHolds, m

LEMMA CrossedHolds ==
    ASSUME NEW r \in Crossed
    PROVE  MirrorHolds(r) /\ StrengthHolds(r) /\ NumberHolds(r)
<1> DEFINE m == Indicator!Mirror(r)
           Bad(q) == q.fast < 1 \/ q.slow < 1 \/ q.signal < 1 \/ q.fast >= q.slow \/ q.n < q.slow + q.signal
<1>1. r.tool = "macd" /\ r.before \in Int /\ r.now \in Int
  BY DEF Crossed
<1>2. m = [r EXCEPT !.before = -r.before, !.now = -r.now]
  BY <1>1, MirrorIs
<1>3. r \in [tool : {"macd"}, fast : 0 .. 2, slow : 1 .. 2, signal : 0 .. 1, n : 1 .. 3, values : 1 .. 2, before : -1 .. 1, now : -1 .. 1]
  BY DEF Crossed
<1>4. /\ m.tool = "macd" /\ m.fast = r.fast /\ m.slow = r.slow /\ m.signal = r.signal /\ m.n = r.n
      /\ m.values = r.values /\ m.before = -r.before /\ m.now = -r.now
  BY <1>2, <1>3
<1> HIDE DEF m
<1>5. /\ Indicator!Compute(r) = Indicator!CalculateMACD(r)
      /\ Indicator!Compute(m) = Indicator!CalculateMACD(m)
  BY <1>1, <1>4, Tools, Zenon
<1>6. m.before = 0 - r.before /\ m.now = 0 - r.now
  BY <1>1, <1>4
<1>7. ASSUME NEW q
      PROVE  Indicator!CalculateMACD(q) =
                 IF Bad(q) THEN Indicator!Error
                 ELSE Indicator!Signal(IF q.values < 2 THEN "none" ELSE Indicator!Crossover(q.before, q.now))
  BY Zenon DEF Indicator!CalculateMACD
<1>8. Bad(m) <=> Bad(r)
  BY <1>4, Zenon
<1> HIDE DEF Bad
<1>9. CASE Bad(r)
  <2>1. Indicator!Compute(r) = Indicator!Error /\ Indicator!Compute(m) = Indicator!Error
    BY <1>5, <1>7, <1>8, <1>9, Zenon
  <2>2. Mirrors(Indicator!Compute(r), Indicator!Compute(m)) /\ ~ Indicator!Compute(r).ok
    BY <2>1, MirrorSignals, Zenon
  <2> QED
    BY <2>2, Zenon DEF MirrorHolds, StrengthHolds, NumberHolds, m
<1>10. CASE ~ Bad(r)
  <2> DEFINE x == IF r.values < 2 THEN "none" ELSE Indicator!Crossover(r.before, r.now)
             y == IF m.values < 2 THEN "none" ELSE Indicator!Crossover(m.before, m.now)
  <2>1. Indicator!Compute(r) = Indicator!Signal(x) /\ Indicator!Compute(m) = Indicator!Signal(y)
    BY <1>5, <1>7, <1>8, <1>10, Zenon
  <2>2. y = Indicator!OppositeOf(x)
    <3>1. Indicator!Crossover(0 - r.before, 0 - r.now) = Indicator!OppositeOf(Indicator!Crossover(r.before, r.now))
      BY <1>1, CrossoverTurns
    <3>2. Indicator!OppositeOf("none") = "none"
      BY Opposites
    <3> QED
      BY <1>4, <1>6, <3>1, <3>2, Zenon
  <2> HIDE DEF x, y
  <2>3. Mirrors(Indicator!Compute(r), Indicator!Compute(m)) /\ Indicator!Compute(r).encodable
    BY <2>1, <2>2, MirrorSignals, Zenon
  <2>4. r.tool # "adx"
    BY <1>1
  <2> QED
    BY <2>3, <2>4, Zenon DEF MirrorHolds, StrengthHolds, NumberHolds, m
<1> QED
  BY <1>9, <1>10, Zenon

LEMMA BarredHolds ==
    ASSUME Indicator!IndicatorAssumption, NEW r \in Barred
    PROVE  MirrorHolds(r) /\ StrengthHolds(r) /\ NumberHolds(r)
<1>1. r.tool = "adx" /\ r.bars \in UNION {[1 .. k -> Bars] : k \in 1 .. MaxBars} /\ r.period \in Periods
  BY DEF Barred
<1> DEFINE s == r.bars
           t == Upside(s)
           m == Indicator!Mirror(r)
<1>2. PICK n \in Nat : s \in [1 .. n -> BarType] /\ Len(s) = n
  <2>1. PICK k \in 1 .. MaxBars : s \in [1 .. k -> Bars]
    BY <1>1
  <2>2. k \in Nat /\ Bars \subseteq BarType
    BY DEF Indicator!IndicatorAssumption, BarType
  <2>3. s \in [1 .. k -> BarType]
    BY <2>1, <2>2
  <2>4. Len(s) = k
    BY <2>2, <2>3
  <2> QED
    BY <2>2, <2>3, <2>4
<1>3. m = [r EXCEPT !.bars = t]
  BY <1>1, MirrorIs
<1>4. r \in [tool : {"adx"}, bars : UNION {[1 .. k -> Bars] : k \in 1 .. MaxBars}, sameLength : BOOLEAN, period : Periods]
  BY DEF Barred
<1>5. m.tool = "adx" /\ m.period = r.period /\ m.bars = t /\ m.sameLength = r.sameLength
  BY <1>3, <1>4
<1> HIDE DEF t, m, s
<1>6. Len(t) = n
  BY <1>2, BarsMirror DEF t
<1>7. PICK p \in Int : p = Indicator!ExtractPeriod(r, 14)
  BY <1>1, PeriodIs
<1>8. p = Indicator!ExtractPeriod(m, 14)
  BY <1>5, <1>7, Zenon DEF Indicator!ExtractPeriod
<1> DEFINE adx == Indicator!SmoothWilder(Distances(s, p), p, n)
           a == ADXOf(r.sameLength, p, n, adx)
           b == ADXOf(r.sameLength, p, n, Indicator!SmoothWilder(Distances(t, p), p, n))
<1>9. Indicator!Compute(r) = a
  <2>1. Indicator!Compute(r) = Indicator!CalculateADX(r)
    BY <1>1, Tools, Zenon
  <2> QED
    BY <1>2, <1>7, <2>1, ADXIs, Zenon DEF s
<1>10. Indicator!Compute(m) = b
  <2>1. Indicator!Compute(m) = Indicator!CalculateADX(m)
    BY <1>5, Tools, Zenon
  <2>2. n = Len(m.bars)
    BY <1>5, <1>6
  <2>3. Indicator!CalculateADX(m) = ADXOf(m.sameLength, p, n, Indicator!SmoothWilder(Distances(m.bars, p), p, n))
    BY <1>8, <2>2, ADXIs, Zenon
  <2> QED
    BY <1>5, <2>1, <2>3, Zenon
<1>11. Mirrors(a, b)
  <2>1. t = Upside(s)
    BY DEF t
  <2> QED
    BY <1>2, <2>1, ADXMirrors
<1>12. ~ (a.ok /\ ~ a.encodable)
  BY MirrorSignals, Zenon DEF ADXOf
<1>13. a.ok /\ (\A i \in 2 .. n : Rises(s, i)) => a.signal = "very_strong"
  <2>1. SUFFICES ASSUME a.ok, \A i \in 2 .. n : Rises(s, i) PROVE a.signal = "very_strong"
    OBVIOUS
  <2>2. /\ ~ (~ r.sameLength \/ p < 1 \/ n < 2 * p \/ adx = 0)
        /\ a = Indicator!Signal(IF adx >= 50 * Indicator!Pow(p, n - p + 1) THEN "very_strong"
                                ELSE IF adx >= 25 * Indicator!Pow(p, n - p + 1) THEN "strong" ELSE "weak")
    BY <2>1, MirrorSignals, Zenon DEF ADXOf
  <2>3. p \in 1 .. n /\ 2 * p <= n
    BY <2>2
  <2>4. Distances(s, p) = [i \in 1 .. n |-> IF i <= p THEN 0 ELSE 100]
    BY <1>2, <2>1, <2>3, RisingDistances
  <2>5. adx >= 50 * Indicator!Pow(p, n - p + 1)
    BY <2>3, <2>4, WholeSmoothed
  <2> HIDE DEF adx, a
  <2> QED
    BY <2>2, <2>5, MirrorSignals, Zenon
<1> HIDE DEF a, b, adx
<1> QED
  BY <1>1, <1>2, <1>9, <1>10, <1>11, <1>12, <1>13, Zenon DEF MirrorHolds, StrengthHolds, NumberHolds, m, s

IndicatorInv ==
    part = "indicators" => question \in Indicator!Questions /\ (reply # None => reply = Indicator!Compute(question))

LEMMA AnyQuestionHolds ==
    ASSUME Indicator!IndicatorAssumption, NEW r \in Indicator!Questions
    PROVE  MirrorHolds(r) /\ StrengthHolds(r) /\ NumberHolds(r)
<1>1. r \in Priced \/ r \in Banded \/ r \in Crossed \/ r \in Barred
  BY QuestionsAre, Zenon
<1> QED
  BY <1>1, PricedHolds, BandedHolds, CrossedHolds, BarredHolds, Zenon

LEMMA IndicatorsShow ==
    ASSUME IndicatorInv, Indicator!IndicatorAssumption
    PROVE  part = "indicators" => Indicator!SignalsMirror /\ Indicator!OneWayIsStrong /\ Indicator!NumbersOfMovement
<1>1. SUFFICES ASSUME part = "indicators", reply # None
               PROVE  Indicator!SignalsMirror /\ Indicator!OneWayIsStrong /\ Indicator!NumbersOfMovement
  BY Zenon DEF Indicator!SignalsMirror, Indicator!OneWayIsStrong, Indicator!NumbersOfMovement
<1>2. question \in Indicator!Questions /\ reply = Indicator!Compute(question)
  BY <1>1, Zenon DEF IndicatorInv
<1>3. MirrorHolds(question) /\ StrengthHolds(question) /\ NumberHolds(question)
  BY <1>2, AnyQuestionHolds, Zenon
<1>4. Indicator!SignalsMirror
  BY <1>2, <1>3, Zenon DEF Indicator!SignalsMirror, MirrorHolds, Mirrors
<1>5. Indicator!OneWayIsStrong
  BY <1>2, <1>3, Zenon DEF Indicator!OneWayIsStrong, StrengthHolds, Rises
<1>6. Indicator!NumbersOfMovement
  BY <1>2, <1>3, Zenon DEF Indicator!NumbersOfMovement, NumberHolds
<1> QED
  BY <1>4, <1>5, <1>6, Zenon

LEMMA IndicatorStep ==
    ASSUME IndicatorInv, OfIndicators(Indicator!CallIndicator) \/ (part' = part /\ UNCHANGED indications)
    PROVE  IndicatorInv'
<1>1. CASE part' = part /\ UNCHANGED indications
  <2>1. part' = part /\ question' = question /\ reply' = reply
    BY <1>1 DEF indications
  <2> QED
    BY <2>1, Zenon DEF IndicatorInv
<1>2. CASE OfIndicators(Indicator!CallIndicator)
  <2>1. part' = part /\ part = "indicators" /\ reply' = Indicator!Compute(question) /\ question' = question
    BY <1>2, Zenon DEF OfIndicators, Indicator!CallIndicator
  <2> QED
    BY <2>1, Zenon DEF IndicatorInv
<1> QED
  BY <1>1, <1>2

-----------------------------------------------------------------------------
(* The run of all of them.                                                 *)

ToolsInv == ServerInv /\ PriceInv /\ SyncInv /\ SyncPast /\ RiskInv /\ IndicatorInv

\* What holds of the tool servers throughout (cmd/mcp-servers, internal/market,
\* internal/indicators): where each request, price and candle is, and that an
\* answer is what its tool computes of the question.
THEOREM ToolsInvariant == MCSpec => []ToolsInv
<1> USE ToolsAssumption
<1>1. MCInit => ToolsInv
  <2>1. MCInit => RiskInv
    BY Zenon DEF MCInit, RiskInv, Risk!RiskInit
  <2>2. MCInit => IndicatorInv
    BY Zenon DEF MCInit, IndicatorInv, Indicator!IndicatorInit
  <2> QED
    BY <2>1, <2>2, ServerBegins, PricesBegin, SyncBegins, PastBegins, Zenon DEF MCInit, ToolsInv
<1>2. ToolsInv /\ [MCNext]_all => ToolsInv'
  <2> SUFFICES ASSUME ToolsInv, [MCNext]_all PROVE ToolsInv'
    OBVIOUS
  <2>1. ServerNext \/ UNCHANGED server_vars
    BY Zenon DEF MCNext, all, OfServer, OfRisk, OfIndicators, OfPrices, OfSync
  <2>2. Market!PriceNext \/ UNCHANGED prices
    BY Zenon DEF MCNext, all, OfServer, OfRisk, OfIndicators, OfPrices, OfSync
  <2>3. Sync!SyncNext \/ UNCHANGED candles
    BY Zenon DEF MCNext, all, OfServer, OfRisk, OfIndicators, OfPrices, OfSync
  <2>4. OfRisk(Risk!CallRiskTool) \/ (part' = part /\ UNCHANGED risks)
    BY Zenon DEF MCNext, all, OfServer, OfRisk, OfIndicators, OfPrices, OfSync
  <2>5. OfIndicators(Indicator!CallIndicator) \/ (part' = part /\ UNCHANGED indications)
    BY Zenon DEF MCNext, all, OfServer, OfRisk, OfIndicators, OfPrices, OfSync
  <2> QED
    BY <2>1, <2>2, <2>3, <2>4, <2>5, ServerStep, PriceStep, SyncStep, PastStep, RiskStep, IndicatorStep, Zenon DEF ToolsInv
<1> QED
  BY <1>1, <1>2, PTL DEF MCSpec

\* Requests are answered in turn and once, results are of listed tools given what
\* they require, prices are no older than both caches let them grow and waited
\* for only while one is fetched (cmd/mcp-servers, internal/market).
THEOREM ServersInOrder == MCSpec => []ServersKeepOrder
<1> USE ToolsAssumption
<1>1. ToolsInv => ServersKeepOrder
  BY ServerShows, PricesShow, SyncShows, Zenon DEF ToolsInv, ServersKeepOrder
<1> QED
  BY <1>1, ToolsInvariant, PTL

\* Whatever the returns, levels, prices and bars, what the risk analyzer's tools
\* answer is within what they promise, and no indicator leans to one side
\* (cmd/mcp-servers/risk-analyzer, internal/indicators).
THEOREM AnswersHold == MCSpec => []AnswersAreRight
<1> USE ToolsAssumption
<1>1. ToolsInv => AnswersAreRight
  BY RiskToolsHold, IndicatorsShow, Zenon DEF ToolsInv, AnswersAreRight
<1> QED
  BY <1>1, ToolsInvariant, PTL

\* A synchronisation within a day of the last candle leaves none out and completes
\* the last one; one within ninety-one days leaves out less than a day; and no
\* candle loses a point but the first that the chart replaces (internal/market/sync.go).
THEOREM SynchronisationKeeps == MCSpec => Sync!NoGapWithinADay /\ Sync!LosesOnlyAtTheEdge
<1> USE ToolsAssumption
<1>1. ASSUME ToolsInv, [MCNext]_all
      PROVE  SyncInv /\ SyncPast /\ (table' = table \/ \E days, at, from, first, last : Fetched(days, at, from, first, last))
  <2>1. SyncInv /\ SyncPast
    BY <1>1, Zenon DEF ToolsInv
  <2>2. Sync!SyncNext \/ UNCHANGED candles
    BY <1>1, Zenon DEF MCNext, all, OfServer, OfRisk, OfIndicators, OfPrices, OfSync
  <2>3. Sync!SyncSymbol \/ table' = table
    BY <2>2, Zenon DEF Sync!SyncNext, Sync!StoreFails, Sync!Stop, Sync!PassTime, candles
  <2> QED
    BY <2>1, <2>3, SyncSymbolFetches, Zenon
<1>2. ASSUME ToolsInv, [MCNext]_all
      PROVE  [table' # table /\ DOMAIN table # {} =>
                LET missing == {c \in Sync!Last .. Sync!Max(DOMAIN table') : c \notin DOMAIN table'}
                    half == {c \in Sync!Last .. Sync!Max(DOMAIN table') - 1 : c \in DOMAIN table' /\ table'[c] # Sync!PointsOf(c)}
                IN  /\ time - Sync!Start(Sync!Last) < Day => missing = {} /\ half = {}
                    /\ time - Sync!Start(Sync!Last) < (MaxDays + 1) * Day => Sync!Cardinality(missing) * Candle < Day]_Sync!sync
  BY <1>1, <1>2, LeavesLittleOut, Zenon
<1>3. ASSUME ToolsInv, [MCNext]_all
      PROVE  [\A c \in DOMAIN table :
                 c \in DOMAIN table' /\ (table[c] \subseteq table'[c] \/ c = Sync!Min({d \in DOMAIN table : table'[d] # table[d]}))]_Sync!sync
  <2>1. CASE table' = table
    BY <2>1
  <2>2. CASE table' # table
    BY <1>1, <1>3, <2>2, LosesLittle, Zenon
  <2> QED
    BY <2>1, <2>2
<1> QED
  BY <1>2, <1>3, ToolsInvariant, PTL DEF MCSpec, Sync!NoGapWithinADay, Sync!LosesOnlyAtTheEdge
=============================================================================
