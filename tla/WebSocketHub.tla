----------------------------- MODULE WebSocketHub -----------------------------
(***************************************************************************)
(* The WebSocket hub of the API server (cmd/api/websocket.go): the hub's   *)
(* goroutine, and per client the pump that reads the connection and the    *)
(* one that writes it.  Broadcasts are numbers, a pong is 0.  A panic in   *)
(* any goroutine ends the server.                                          *)
(***************************************************************************)
EXTENDS Integers, Sequences, FiniteSets

CONSTANTS
    Clients,
    SendCap,       \* capacity of a client's send channel
    BroadcastCap,  \* capacity of the hub's broadcast channel
    MaxBroadcasts, \* bound: broadcasts
    MaxPings       \* bound: application pings of a client

HubAssumption == SendCap \in Nat /\ BroadcastCap \in Nat /\ MaxBroadcasts \in Nat /\ MaxPings \in Nat

VARIABLES
    broadcast,   \* the channel of broadcasts
    sent,        \* broadcasts so far
    delivered,   \* broadcasts the hub has handed out
    registered,  \* clients of the hub
    send,        \* the send channel of each client
    closed,      \* clients whose send channel is closed
    conn,        \* connection: "none", "connecting", "open", "gone", "closed"
    reader,      \* readPump: "off", "reading", "pong", "leaving", "done"
    writer,      \* writePump: "off", "on", "done"
    got,         \* last broadcast written to each client
    pings,       \* pings read from each client
    slow,        \* history: clients found with a full channel
    crashed

hub == <<broadcast, sent, delivered, registered, send, closed, conn, reader, writer, got, pings, slow, crashed>>

\* Where the broadcasts are among messages.
Broadcasts(msgs) == {i \in DOMAIN msgs : msgs[i] > 0}

HubInit ==
    /\ broadcast = <<>> /\ sent = 0 /\ delivered = 0
    /\ registered = {} /\ closed = {} /\ slow = {} /\ crashed = FALSE
    /\ send = [c \in Clients |-> <<>>] /\ conn = [c \in Clients |-> "none"]
    /\ reader = [c \in Clients |-> "off"] /\ writer = [c \in Clients |-> "off"]
    /\ got = [c \in Clients |-> 0] /\ pings = [c \in Clients |-> 0]

-----------------------------------------------------------------------------
(* Callers and peers.                                                      *)

Broadcast ==
    /\ ~ crashed /\ sent < MaxBroadcasts /\ Len(broadcast) < BroadcastCap
    /\ sent' = sent + 1 /\ broadcast' = Append(broadcast, sent + 1)
    /\ UNCHANGED <<delivered, registered, send, closed, conn, reader, writer, got, pings, slow, crashed>>

\* handleWebSocket waits for the hub to take the client.
Connect(c) ==
    /\ ~ crashed /\ conn[c] = "none" /\ conn' = [conn EXCEPT ![c] = "connecting"]
    /\ UNCHANGED <<broadcast, sent, delivered, registered, send, closed, reader, writer, got, pings, slow, crashed>>

PeerGoes(c) ==
    /\ ~ crashed /\ conn[c] = "open" /\ conn' = [conn EXCEPT ![c] = "gone"]
    /\ UNCHANGED <<broadcast, sent, delivered, registered, send, closed, reader, writer, got, pings, slow, crashed>>

-----------------------------------------------------------------------------
(* The hub: Run.                                                           *)

\* The pumps start after the hub took the client.
Register(c) ==
    /\ ~ crashed /\ conn[c] = "connecting"
    /\ registered' = registered \cup {c} /\ conn' = [conn EXCEPT ![c] = "open"]
    /\ reader' = [reader EXCEPT ![c] = "reading"] /\ writer' = [writer EXCEPT ![c] = "on"]
    /\ got' = [got EXCEPT ![c] = delivered]
    /\ UNCHANGED <<broadcast, sent, delivered, send, closed, pings, slow, crashed>>

\* The reader closes the connection once the hub took the request.
Unregister(c) ==
    /\ ~ crashed /\ reader[c] = "leaving"
    /\ registered' = registered \ {c}
    /\ closed' = IF c \in registered THEN closed \cup {c} ELSE closed
    /\ reader' = [reader EXCEPT ![c] = "done"] /\ conn' = [conn EXCEPT ![c] = "closed"]
    /\ UNCHANGED <<broadcast, sent, delivered, send, writer, got, pings, slow, crashed>>

\* A client whose channel is full is dropped.
HandOut ==
    /\ ~ crashed /\ broadcast # <<>>
    /\ LET full == {c \in registered : Len(send[c]) = SendCap}
       IN  /\ send' = [c \in Clients |-> IF c \in registered \ full THEN Append(send[c], Head(broadcast)) ELSE send[c]]
           /\ registered' = registered \ full /\ closed' = closed \cup full /\ slow' = slow \cup full
    /\ delivered' = Head(broadcast) /\ broadcast' = Tail(broadcast)
    /\ UNCHANGED <<sent, conn, reader, writer, got, pings, crashed>>

-----------------------------------------------------------------------------
(* The pumps.                                                              *)

\* readPump reads a ping.
ReadPing(c) ==
    /\ ~ crashed /\ reader[c] = "reading" /\ conn[c] = "open" /\ pings[c] < MaxPings
    /\ reader' = [reader EXCEPT ![c] = "pong"] /\ pings' = [pings EXCEPT ![c] = @ + 1]
    /\ UNCHANGED <<broadcast, sent, delivered, registered, send, closed, conn, writer, got, slow, crashed>>

\* sendPong: to a full channel it is dropped, to a closed one it panics.
SendPong(c) ==
    /\ ~ crashed /\ reader[c] = "pong"
    /\ reader' = [reader EXCEPT ![c] = "reading"]
    /\ crashed' = (c \in closed)
    /\ send' = IF c \in closed \/ Len(send[c]) = SendCap THEN send ELSE [send EXCEPT ![c] = Append(@, 0)]
    /\ UNCHANGED <<broadcast, sent, delivered, registered, closed, conn, writer, got, pings, slow>>

\* Mutant: the reader ends without its deferred unregistering.
ReadFailsQuietly(c) ==
    /\ ~ crashed /\ reader[c] = "reading" /\ conn[c] \in {"gone", "closed"}
    /\ reader' = [reader EXCEPT ![c] = "done"]
    /\ UNCHANGED <<broadcast, sent, delivered, registered, send, closed, conn, writer, got, pings, slow, crashed>>

\* The read fails: at once or, after a peer that said nothing, at the deadline.
ReadFails(c) ==
    /\ ~ crashed /\ reader[c] = "reading" /\ conn[c] \in {"gone", "closed"}
    /\ reader' = [reader EXCEPT ![c] = "leaving"]
    /\ UNCHANGED <<broadcast, sent, delivered, registered, send, closed, conn, writer, got, pings, slow, crashed>>

\* writePump writes what is in the channel as one message.
Write(c) ==
    /\ ~ crashed /\ writer[c] = "on" /\ send[c] # <<>> /\ conn[c] \in {"open", "gone"}
    /\ LET news == Broadcasts(send[c])
       IN  got' = [got EXCEPT ![c] = IF news = {} THEN got[c]
                                     ELSE send[c][CHOOSE i \in news : \A j \in news : j <= i]]
    /\ send' = [send EXCEPT ![c] = <<>>]
    /\ UNCHANGED <<broadcast, sent, delivered, registered, closed, conn, reader, writer, pings, slow, crashed>>

\* The write of a message or of a ping fails, after any number of messages was
\* taken from the channel, or the channel is closed and empty: the pump closes
\* the connection, and what it took is lost.
WriterEnds(c) ==
    /\ ~ crashed /\ writer[c] = "on"
    /\ conn[c] \in {"gone", "closed"} \/ (c \in closed /\ send[c] = <<>>)
    /\ \E taken \in 0 .. Len(send[c]) : send' = [send EXCEPT ![c] = SubSeq(@, taken + 1, Len(@))]
    /\ writer' = [writer EXCEPT ![c] = "done"] /\ conn' = [conn EXCEPT ![c] = "closed"]
    /\ UNCHANGED <<broadcast, sent, delivered, registered, closed, reader, got, pings, slow, crashed>>

Pump(c) == SendPong(c) \/ ReadFails(c) \/ Write(c) \/ WriterEnds(c)
Run == HandOut \/ \E c \in Clients : Register(c) \/ Unregister(c)

HubNext == Broadcast \/ Run \/ \E c \in Clients : Connect(c) \/ PeerGoes(c) \/ ReadPing(c) \/ Pump(c)

\* The goroutines run on; select takes any case that is ready.
HubSpec ==
    /\ HubInit /\ [][HubNext]_hub /\ WF_hub(HandOut)
    /\ \A c \in Clients :
          WF_hub(Register(c)) /\ WF_hub(Unregister(c)) /\ WF_hub(SendPong(c)) /\ WF_hub(ReadFails(c)) /\ WF_hub(WriterEnds(c))

-----------------------------------------------------------------------------
(* Properties.                                                             *)

HubTypeOK ==
    /\ Len(broadcast) <= BroadcastCap /\ \A c \in Clients : Len(send[c]) <= SendCap
    /\ registered \cap closed = {}

\* As long as its writer runs, a client of the hub has been written, or has
\* waiting, every broadcast since it was registered, in order; one that was
\* dropped lacks only the last ones (Run, writePump).
NoGaps ==
    \A c \in {d \in Clients : writer[d] # "done"} :
        LET news == Broadcasts(send[c])
        IN  /\ \A i \in news : send[c][i] = got[c] + Cardinality({j \in news : j <= i})
            /\ c \in registered => got[c] + Cardinality(news) = delivered

\* The server ends only by the pong of a client that was dropped for being
\* slow and whose reader had not noticed yet (sendPong, Run).
PanicOnlyAfterSlow == crashed => \E c \in slow : reader[c] = "reading" /\ pings[c] > 0

\* Clients that went away leave the hub: again and again it has none of them.
GoneClientsLeave == []<>(crashed \/ \A c \in Clients : conn[c] \in {"gone", "closed"} => c \notin registered)
=============================================================================
