---------------------------- MODULE SerialConsole ----------------------------
(***************************************************************************)
(* The multiplexer of one serial port (internal/serialconsole): the first  *)
(* attachment opens the port, its read loop broadcasts what the board      *)
(* sends, one attachment at most holds the controller lease and writes,    *)
(* and the port closes when its last attachment leaves, the device goes    *)
(* away or the manager stops.  Ports share nothing but the mutex, so one   *)
(* is enough.                                                              *)
(*                                                                         *)
(* Manager.mutex protects mapped, closed, the clients, leases and rings;   *)
(* a section under it is one action.  Closing the operating system's       *)
(* handle, reading it and writing it happen outside.  Attachments, numbered*)
(* by nextID, are the actors: one goroutine reads their channel, one       *)
(* writes, and any may close them.  A refused Attach (bad request, port not*)
(* found or busy, other baud rate, lease taken) changes nothing.           *)
(***************************************************************************)
EXTENDS Integers, Sequences, FiniteSets

CONSTANTS
  MaxConns,   \* bound of the model: times the port is opened
  MaxIds,     \* bound of the model: attachments
  MaxChunks,  \* bound of the model: reads that return data
  MaxWrites,  \* bound of the model: writes the device takes
  ChanCap,    \* capacity of subscriber.data (128)
  RingCap     \* replayBytes, counted in chunks

ASSUME BoundsOK ==
  /\ MaxConns \in Nat /\ MaxIds \in Nat /\ MaxChunks \in Nat /\ MaxWrites \in Nat
  /\ ChanCap \in Nat \ {0} /\ RingCap \in Nat \ {0}

None == 0
Conn == 1..MaxConns
Id == 1..MaxIds

VARIABLES
  mapped,      \* Manager.connections of this port: a connection, or None
  closed,      \* Manager.closed
  nextConn, nextID,  \* connections opened and attachments made so far
  clients, controller, ring,  \* of each connection
  handle,      \* connections whose handle is open
  closing,     \* connections taken out of the map whose handle is still to be closed
  reader, chunk,     \* control point of each read loop, and what it has read
  conn,        \* the connection each attachment is made to
  pending,     \* messages waiting in its channel
  ended,       \* why its channel was closed (subscriber.err)
  writer,      \* control point of its Write
  writeMutex,  \* holder of each connection.writeMutex
  \* history
  read,        \* chunks the device has sent
  out,         \* the chunks each connection has broadcast
  stream,      \* what each attachment was sent
  start,       \* the position in out of the first chunk it should get
  wire         \* the attachments whose bytes the device took, in order

manager == <<mapped, closed, nextConn, nextID, clients, controller, ring>>
attached == <<conn, pending, ended, stream, start>>
writing == <<writer, writeMutex, wire>>
vars == <<manager, handle, closing, reader, chunk, attached, writing, read, out>>

TypeOK ==
  /\ mapped \in Conn \cup {None} /\ closed \in BOOLEAN
  /\ nextConn \in 0..MaxConns /\ nextID \in 0..MaxIds
  /\ clients \in [Conn -> SUBSET Id] /\ controller \in [Conn -> Id \cup {None}]
  /\ ring \in [Conn -> Seq(1..MaxChunks)] /\ out \in [Conn -> Seq(1..MaxChunks)]
  /\ handle \subseteq Conn /\ closing \subseteq Conn
  /\ reader \in [Conn -> {"none", "read", "got", "drop", "failed", "close", "done"}]
  /\ chunk \in [Conn -> 0..MaxChunks] /\ read \in 0..MaxChunks
  /\ conn \in [Id -> Conn \cup {None}]
  /\ pending \in [Id -> 0..ChanCap]
  /\ ended \in [Id -> {"none", "live", "left", "slow", "disconnected", "stopped"}]
  /\ stream \in [Id -> Seq(1..MaxChunks)] /\ start \in [Id -> Int]
  /\ writer \in [Id -> {"none", "wait", "begin", "rest"}]
  /\ writeMutex \in [Conn -> Id \cup {None}]
  /\ wire \in Seq(Id)

Init ==
  /\ mapped = None /\ closed = FALSE /\ nextConn = 0 /\ nextID = 0
  /\ clients = [c \in Conn |-> {}] /\ controller = [c \in Conn |-> None]
  /\ ring = [c \in Conn |-> <<>>] /\ out = [c \in Conn |-> <<>>]
  /\ handle = {} /\ closing = {}
  /\ reader = [c \in Conn |-> "none"] /\ chunk = [c \in Conn |-> 0] /\ read = 0
  /\ conn = [i \in Id |-> None] /\ pending = [i \in Id |-> 0]
  /\ ended = [i \in Id |-> "none"] /\ stream = [i \in Id |-> <<>>]
  /\ start = [i \in Id |-> 0]
  /\ writer = [i \in Id |-> "none"] /\ writeMutex = [c \in Conn |-> None]
  /\ wire = <<>>

-----------------------------------------------------------------------------

\* The most recent part of the output, for late attachments.
KeepTail_Head(s) == SubSeq(s, 1, IF Len(s) < RingCap THEN Len(s) ELSE RingCap)
KeepTail(s) == IF Len(s) > RingCap THEN SubSeq(s, Len(s) - RingCap + 1, Len(s)) ELSE s

\* closeSubscriberLocked for every i in S: the lease goes with its holder.
CloseSubscribers(c, S, why) ==
  /\ clients' = [clients EXCEPT ![c] = @ \ S]
  /\ controller' = [controller EXCEPT ![c] = IF @ \in S THEN None ELSE @]
  /\ ended' = [i \in Id |-> IF i \in S THEN why ELSE ended[i]]

\* A connection without clients is taken out of the map; its handle is closed
\* after the mutex is released.
Abandoned_Never(c, S) == FALSE
Abandoned(c, S) == clients[c] \subseteq S

\* The read loop of a connection that was replaced must not touch the new one.
Current_Any(c) == mapped # None
Current(c) == mapped = c

Attach(access, replay) ==
  LET c == IF mapped = None THEN nextConn + 1 ELSE mapped
      i == nextID + 1
      past == IF replay THEN ring[c] ELSE <<>>
  IN
  /\ ~closed
  /\ i \in Id /\ c \in Conn
  /\ access = "controller" => controller[c] = None
  /\ mapped' = c /\ nextID' = i
  /\ clients' = [clients EXCEPT ![c] = @ \cup {i}]
  /\ controller' = IF access = "controller" THEN [controller EXCEPT ![c] = i] ELSE controller
  /\ conn' = [conn EXCEPT ![i] = c] /\ ended' = [ended EXCEPT ![i] = "live"]
  /\ pending' = [pending EXCEPT ![i] = IF past = <<>> THEN 0 ELSE 1]
  /\ stream' = [stream EXCEPT ![i] = past]
  /\ start' = [start EXCEPT ![i] = Len(out[c]) - Len(past) + 1]
  /\ IF mapped = None
     THEN /\ nextConn' = c /\ handle' = handle \cup {c}
          /\ reader' = [reader EXCEPT ![c] = "read"]
     ELSE UNCHANGED <<nextConn, handle, reader>>
  /\ UNCHANGED <<closed, ring, closing, chunk, writing, read, out>>

-----------------------------------------------------------------------------
(* readLoop, broadcast and endConnection.                                   *)

Read(c) ==
  /\ reader[c] = "read" /\ c \in handle /\ read < MaxChunks
  /\ read' = read + 1
  /\ chunk' = [chunk EXCEPT ![c] = read + 1]
  /\ reader' = [reader EXCEPT ![c] = "got"]
  /\ UNCHANGED <<manager, handle, closing, attached, writing, out>>

\* The device is gone, or the handle was closed under the reader.
ReadFails(c) ==
  /\ reader[c] = "read"
  /\ reader' = [reader EXCEPT ![c] = "failed"]
  /\ UNCHANGED <<manager, handle, closing, chunk, attached, writing, read, out>>

\* Every client gets a copy; one whose channel is full is cut off.
Slow(c) == {i \in clients[c] : pending[i] = ChanCap}
Deliver(c) ==
  LET fed == clients[c] \ Slow(c) IN
  /\ ring' = [ring EXCEPT ![c] = KeepTail(Append(@, chunk[c]))]
  /\ out' = [out EXCEPT ![c] = Append(@, chunk[c])]
  /\ pending' = [i \in Id |-> IF i \in fed THEN pending[i] + 1 ELSE pending[i]]
  /\ stream' = [i \in Id |-> IF i \in fed THEN Append(stream[i], chunk[c]) ELSE stream[i]]
  /\ CloseSubscribers(c, Slow(c), "slow")
  /\ mapped' = IF Abandoned(c, Slow(c)) THEN None ELSE mapped
  /\ reader' = [reader EXCEPT ![c] = IF Abandoned(c, Slow(c)) THEN "drop" ELSE "read"]

Broadcast_Waiting(c) ==
  /\ reader[c] = "got" /\ Slow(c) = {}
  /\ chunk' = [chunk EXCEPT ![c] = 0]
  /\ Deliver(c)
  /\ UNCHANGED <<closed, nextConn, nextID, handle, closing, conn, start, writing, read>>
Broadcast(c) ==
  /\ reader[c] = "got"
  /\ chunk' = [chunk EXCEPT ![c] = 0]
  /\ IF Current(c)
     THEN Deliver(c)
     ELSE /\ reader' = [reader EXCEPT ![c] = "read"]
          /\ UNCHANGED <<mapped, clients, controller, ring, pending, ended, stream, out>>
  /\ UNCHANGED <<closed, nextConn, nextID, handle, closing, conn, start, writing, read>>

CloseAbandoned(c) ==
  /\ reader[c] = "drop"
  /\ handle' = handle \ {c}
  /\ reader' = [reader EXCEPT ![c] = "read"]
  /\ UNCHANGED <<manager, closing, chunk, attached, writing, read, out>>

EndConnection(c) ==
  /\ reader[c] = "failed"
  /\ IF Current(c)
     THEN mapped' = None /\ CloseSubscribers(c, clients[c], "disconnected")
     ELSE UNCHANGED <<mapped, clients, controller, ended>>
  /\ reader' = [reader EXCEPT ![c] = "close"]
  /\ UNCHANGED <<closed, nextConn, nextID, ring, handle, closing, chunk, conn, pending,
                 stream, start, writing, read, out>>

ReadLoopExit(c) ==
  /\ reader[c] = "close"
  /\ handle' = handle \ {c}
  /\ reader' = [reader EXCEPT ![c] = "done"]
  /\ UNCHANGED <<manager, closing, chunk, attached, writing, read, out>>

-----------------------------------------------------------------------------
(* Attachments: Data, Close and Write; Manager.Close.                       *)

Receive(i) ==
  /\ pending[i] > 0
  /\ pending' = [pending EXCEPT ![i] = @ - 1]
  /\ UNCHANGED <<manager, handle, closing, reader, chunk, conn, ended, stream, start, writing,
                 read, out>>

\* Closing twice, or after the connection ended, finds no such client.
Detach(i) ==
  LET c == mapped IN
  /\ i \in 1..nextID /\ c # None /\ i \in clients[c]
  /\ CloseSubscribers(c, {i}, "left")
  /\ IF Abandoned(c, {i})
     THEN mapped' = None /\ closing' = closing \cup {c}
     ELSE UNCHANGED <<mapped, closing>>
  /\ UNCHANGED <<closed, nextConn, nextID, ring, handle, reader, chunk, conn, pending, stream,
                 start, writing, read, out>>

CloseHandle(c) ==
  /\ c \in closing
  /\ closing' = closing \ {c} /\ handle' = handle \ {c}
  /\ UNCHANGED <<manager, reader, chunk, attached, writing, read, out>>

\* The lease is checked under the mutex; the port is written after it.
WriteCheck(i) ==
  /\ writer[i] = "none" /\ mapped # None /\ controller[mapped] = i /\ Len(wire) < MaxWrites
  /\ writer' = [writer EXCEPT ![i] = "wait"]
  /\ UNCHANGED <<manager, handle, closing, reader, chunk, attached, writeMutex, wire, read, out>>

WriteFree(c) == writeMutex[c] = None
WriteLock(i) ==
  /\ writer[i] = "wait" /\ WriteFree(conn[i])
  /\ writer' = [writer EXCEPT ![i] = "begin"]
  /\ writeMutex' = [writeMutex EXCEPT ![conn[i]] = i]
  /\ UNCHANGED <<manager, handle, closing, reader, chunk, attached, wire, read, out>>

\* The device may take a part of the data; the rest is written next.
WriteSome(i, rest) ==
  /\ writer[i] \in {"begin", "rest"} /\ conn[i] \in handle /\ Len(wire) < MaxWrites
  /\ wire' = Append(wire, i)
  /\ IF rest
     THEN writer' = [writer EXCEPT ![i] = "rest"] /\ UNCHANGED writeMutex
     ELSE /\ writer' = [writer EXCEPT ![i] = "none"]
          /\ writeMutex' = [writeMutex EXCEPT ![conn[i]] = None]
  /\ UNCHANGED <<manager, handle, closing, reader, chunk, attached, read, out>>

WriteFails(i) ==
  /\ writer[i] \in {"begin", "rest"}
  /\ writer' = [writer EXCEPT ![i] = "none"]
  /\ writeMutex' = [writeMutex EXCEPT ![conn[i]] = None]
  /\ UNCHANGED <<manager, handle, closing, reader, chunk, attached, wire, read, out>>

Close ==
  /\ ~closed /\ closed' = TRUE
  /\ IF mapped = None
     THEN UNCHANGED <<mapped, clients, controller, ended, closing>>
     ELSE /\ CloseSubscribers(mapped, clients[mapped], "stopped")
          /\ closing' = closing \cup {mapped} /\ mapped' = None
  /\ UNCHANGED <<nextConn, nextID, ring, handle, reader, chunk, conn, pending, stream, start,
                 writing, read, out>>

ReadLoop(c) ==
  Read(c) \/ ReadFails(c) \/ Broadcast(c) \/ CloseAbandoned(c) \/ EndConnection(c)
  \/ ReadLoopExit(c)

Next ==
  \/ \E access \in {"observer", "controller"}, replay \in BOOLEAN : Attach(access, replay)
  \/ \E c \in Conn : ReadLoop(c) \/ CloseHandle(c)
  \/ \E i \in Id :
       \/ Receive(i) \/ Detach(i) \/ WriteCheck(i) \/ WriteLock(i)
       \/ \E rest \in BOOLEAN : WriteSome(i, rest)
       \/ WriteFails(i)
  \/ Close

Spec == Init /\ [][Next]_vars

\* Goroutines that can run do.  The device owes nothing: it may stay silent, and
\* no attachment has to receive, leave or write; a read of a closed handle
\* returns.
Fairness ==
  \A c \in Conn :
    /\ WF_vars(c \notin handle /\ ReadFails(c))
    /\ WF_vars(Broadcast(c) \/ CloseAbandoned(c) \/ EndConnection(c) \/ ReadLoopExit(c))
    /\ WF_vars(CloseHandle(c))

FairSpec == Spec /\ Fairness

-----------------------------------------------------------------------------

Live(i) == i \in 1..nextID /\ i \in clients[conn[i]]

\* An attachment gets the replay and then every chunk of its connection, none
\* twice and none left out, until it is cut off; what it got before stays a
\* prefix of that (Attach, broadcast).
StreamComplete ==
  \A i \in 1..nextID :
    LET due == SubSeq(out[conn[i]], start[i], Len(out[conn[i]])) IN
    IF Live(i) THEN stream[i] = due ELSE stream[i] = SubSeq(due, 1, Len(stream[i]))

\* A connection is in the map exactly while it has clients, and one that left the
\* map has somebody about to close its handle: the port is neither held open
\* for nobody nor taken from under a client (detach, broadcast, endConnection).
PortOwned ==
  \A c \in Conn :
    /\ clients[c] # {} <=> mapped = c
    /\ c \in handle /\ mapped # c => c \in closing \/ reader[c] \in {"drop", "failed", "close"}

\* A lease never outlives the attachment it was granted to: otherwise the port
\* stays busy for every later controller (closeSubscriberLocked).
LeaseOfClient == \A c \in Conn : controller[c] # None => controller[c] \in clients[c]

\* Bytes of two payloads are never mixed on one connection (writeMutex; proved in
\* SerialConsoleProofs).
PayloadsWhole ==
  [][\A i \in Id :
       writer[i] = "rest" /\ wire' # wire /\ conn[wire'[Len(wire')]] = conn[i] =>
         wire'[Len(wire')] = i]_vars

\* SERIAL_CONSOLE.md: "Exactly one `controller` can write".  Leases are granted in
\* the order of the attachments, so the bytes of an older controller never
\* follow those of a newer one.
ControllersInTurn == \A m, n \in 1..Len(wire) : m < n => wire[m] <= wire[n]

\* A connection nobody uses closes its port, and its read loop ends.
PortReleased ==
  \A c \in Conn : c <= nextConn /\ mapped # c ~> c \notin handle /\ reader[c] = "done"

\* An attachment that does not receive never holds up the others.
ReadLoopNeverStalls == \A c \in Conn : reader[c] = "got" ~> reader[c] # "got"
=============================================================================
