---------------------------- MODULE SerialProofs ----------------------------
(***************************************************************************)
(* The serial port, for any number of attachments, sessions and sockets and*)
(* any sizes of channel and replay: who owns the port, the lease and the   *)
(* stream, and the browser's sessions, of which none is forgotten.         *)
(***************************************************************************)
EXTENDS SerialConsole, SerialSessions, SequenceTheorems, TLAPS

Ended == {"left", "slow", "disconnected", "stopped"}

-----------------------------------------------------------------------------
(* Types.                                                                   *)

\* Ending subscriptions keeps the types it touches.
LEMMA CloseType ==
  ASSUME TypeOK, NEW c \in Conn, NEW S \in SUBSET Id, NEW why \in Ended,
         CloseSubscribers(c, S, why)
  PROVE  /\ clients' \in [Conn -> SUBSET Id] /\ controller' \in [Conn -> Id \cup {None}]
         /\ ended' \in [Id -> {"none", "live"} \cup Ended]
BY DEF TypeOK, CloseSubscribers, Ended

\* The ring stays a sequence of chunks.
LEMMA TailType ==
  ASSUME NEW s \in Seq(1..MaxChunks)
  PROVE  /\ KeepTail(s) \in Seq(1..MaxChunks)
         /\ Len(KeepTail(s)) <= Len(s)
         /\ \A n \in 1..Len(KeepTail(s)) : KeepTail(s)[n] = s[Len(s) - Len(KeepTail(s)) + n]
<1>1. RingCap \in Nat \ {0} /\ Len(s) \in Nat
  BY BoundsOK
<1>2. CASE Len(s) > RingCap
  <2>1. KeepTail(s) = SubSeq(s, Len(s) - RingCap + 1, Len(s))
    BY <1>2 DEF KeepTail
  <2>2. Len(s) - RingCap + 1 \in 1..Len(s) + 1
    BY <1>1, <1>2
  <2> DEFINE m == Len(s) - RingCap + 1
  <2>3. m \in Int /\ Len(s) \in Int /\ m <= Len(s) /\ m >= 1
    BY <1>1, <1>2
  <2>5. ASSUME NEW i \in m..Len(s) PROVE s[i] \in 1..MaxChunks
    <3>1. i \in 1..Len(s)
      BY <2>3
    <3> QED
      BY <3>1, ElementOfSeq
  <2>4. /\ SubSeq(s, m, Len(s)) \in Seq(1..MaxChunks)
        /\ Len(SubSeq(s, m, Len(s))) = Len(s) - m + 1
        /\ \A i \in 1..(Len(s) - m + 1) : SubSeq(s, m, Len(s))[i] = s[m + i - 1]
    <3> HIDE DEF m
    <3> QED
      BY <2>3, <2>5, SubSeqProperties
  <2> QED
    BY <1>1, <1>2, <2>1, <2>4
<1>3. CASE ~(Len(s) > RingCap)
  BY <1>1, <1>3 DEF KeepTail
<1> QED
  BY <1>2, <1>3

\* What a read loop has got is a chunk.
TInv == TypeOK /\ \A c \in Conn : reader[c] = "got" => chunk[c] \in 1..MaxChunks

\* Every variable keeps its type.
THEOREM ConsoleTInv == Spec => []TInv
<1>1. Init => TInv
  <2> SUFFICES ASSUME Init PROVE TInv
    OBVIOUS
  <2>1. /\ ring \in [Conn -> Seq(1..MaxChunks)] /\ out \in [Conn -> Seq(1..MaxChunks)]
        /\ stream \in [Id -> Seq(1..MaxChunks)] /\ wire \in Seq(Id)
    BY EmptySeq DEF Init
  <2>2. /\ nextConn \in 0..MaxConns /\ nextID \in 0..MaxIds /\ chunk \in [Conn -> 0..MaxChunks]
        /\ read \in 0..MaxChunks /\ pending \in [Id -> 0..ChanCap] /\ start \in [Id -> Int]
    BY BoundsOK DEF Init
  <2> QED
    BY <2>1, <2>2, BoundsOK DEF Init, TypeOK, None, TInv
<1>2. TInv /\ [Next]_vars => TInv'
  <2> SUFFICES ASSUME TInv, [Next]_vars PROVE TInv'
    OBVIOUS
  <2> USE DEF TInv
  <2>1. ASSUME NEW access \in {"observer", "controller"}, NEW replay \in BOOLEAN,
               Attach(access, replay)
        PROVE  TInv'
    <3> DEFINE c == IF mapped = None THEN nextConn + 1 ELSE mapped
               i == nextID + 1
               past == IF replay THEN ring[c] ELSE <<>>
    <3>1. c \in Conn /\ i \in Id /\ i \in 0..MaxIds /\ mapped' = c /\ nextID' = i
      BY <2>1, BoundsOK DEF Attach, Id
    <3>2. past \in Seq(1..MaxChunks)
      BY <3>1, EmptySeq DEF TypeOK
    <3>3. /\ pending' = [pending EXCEPT ![i] = IF past = <<>> THEN 0 ELSE 1]
          /\ stream' = [stream EXCEPT ![i] = past]
          /\ start' = [start EXCEPT ![i] = Len(out[c]) - Len(past) + 1]
      BY <2>1 DEF Attach
    <3>4. /\ pending' \in [Id -> 0..ChanCap] /\ stream' \in [Id -> Seq(1..MaxChunks)]
          /\ start' \in [Id -> Int]
      BY <3>1, <3>2, <3>3, LenProperties, BoundsOK DEF TypeOK
    <3>5. /\ clients' \in [Conn -> SUBSET Id] /\ controller' \in [Conn -> Id \cup {None}]
          /\ conn' = [conn EXCEPT ![i] = c] /\ ended' = [ended EXCEPT ![i] = "live"]
          /\ UNCHANGED <<closed, ring, closing, chunk, writing, read, out>>
      BY <2>1, <3>1 DEF Attach, TypeOK
    <3>6. /\ nextConn' \in 0..MaxConns /\ handle' \subseteq Conn
          /\ reader' \in [Conn -> {"none", "read", "got", "drop", "failed", "close", "done"}]
          /\ \A d \in Conn : reader'[d] = "got" => reader[d] = "got"
      <4>1. CASE mapped = None
        <5>1. c = nextConn + 1
          BY <4>1
        <5>2. nextConn' = c /\ handle' = handle \cup {c} /\ reader' = [reader EXCEPT ![c] = "read"]
          BY <2>1, <4>1 DEF Attach
        <5> HIDE DEF c
        <5> QED
          BY SMTT(40), <3>1, <5>2, BoundsOK DEF TypeOK, Conn
      <4>2. CASE mapped # None
        BY <2>1, <4>2 DEF Attach, TypeOK
      <4> QED
        BY <4>1, <4>2
    <3> HIDE DEF c, i
    <3> QED
      BY <3>1, <3>4, <3>5, <3>6 DEF TypeOK, writing
  <2>2. ASSUME NEW c \in Conn, Read(c) PROVE TInv'
    BY SMTT(40), <2>2, BoundsOK DEF Read, TypeOK, manager, attached, writing
  <2>3. ASSUME NEW c \in Conn, ReadFails(c) PROVE TInv'
    BY <2>3 DEF ReadFails, TypeOK, manager, attached, writing
  <2>4. ASSUME NEW c \in Conn, Broadcast(c) PROVE TInv'
    <3>1. /\ UNCHANGED <<closed, nextConn, nextID, handle, closing, conn, start, writing, read>>
          /\ chunk' = [chunk EXCEPT ![c] = 0] /\ chunk[c] \in 1..MaxChunks
      BY <2>4 DEF Broadcast
    <3>4. chunk' \in [Conn -> 0..MaxChunks]
      BY <3>1, BoundsOK DEF TypeOK
    <3>5. \E v \in {"drop", "read"} : reader' = [reader EXCEPT ![c] = v]
      BY <2>4 DEF Broadcast, Deliver
    <3>6. \A d \in Conn : reader'[d] = "got" => chunk'[d] \in 1..MaxChunks
      BY <3>1, <3>5 DEF TypeOK
    <3>7. reader' \in [Conn -> {"none", "read", "got", "drop", "failed", "close", "done"}]
      BY <3>5 DEF TypeOK
    <3>2. CASE Deliver(c)
      <4>1. /\ Append(ring[c], chunk[c]) \in Seq(1..MaxChunks)
            /\ Append(out[c], chunk[c]) \in Seq(1..MaxChunks)
            /\ \A i \in Id : Append(stream[i], chunk[c]) \in Seq(1..MaxChunks)
        BY <3>1, AppendProperties DEF TypeOK
      <4>2. ring' \in [Conn -> Seq(1..MaxChunks)] /\ out' \in [Conn -> Seq(1..MaxChunks)]
        BY <3>2, <4>1, TailType DEF Deliver, TypeOK
      <4>3. stream' \in [Id -> Seq(1..MaxChunks)]
        BY <3>2, <4>1 DEF Deliver, TypeOK
      <4>4. pending' \in [Id -> 0..ChanCap]
        <5> DEFINE fed == clients[c] \ Slow(c)
        <5>1. pending' = [i \in Id |-> IF i \in fed THEN pending[i] + 1 ELSE pending[i]]
          BY <3>2 DEF Deliver
        <5>2. ASSUME NEW i \in Id
              PROVE  (IF i \in fed THEN pending[i] + 1 ELSE pending[i]) \in 0..ChanCap
          <6>1. pending[i] \in 0..ChanCap /\ (i \in fed => pending[i] # ChanCap)
            BY DEF TypeOK, Slow
          <6> QED
            BY <6>1, BoundsOK
        <5> HIDE DEF fed
        <5> QED
          BY <5>1, <5>2
      <4>5. /\ clients' \in [Conn -> SUBSET Id] /\ controller' \in [Conn -> Id \cup {None}]
            /\ ended' \in [Id -> {"none", "live"} \cup Ended]
        <5>1. Slow(c) \in SUBSET Id /\ CloseSubscribers(c, Slow(c), "slow") /\ "slow" \in Ended
          BY <3>2 DEF Deliver, Slow, TypeOK, Ended
        <5> QED
          BY <5>1, CloseType
      <4>6. mapped' \in Conn \cup {None}
        BY <3>2 DEF Deliver, TypeOK
      <4> QED
        BY <3>1, <3>4, <3>6, <3>7, <4>2, <4>3, <4>4, <4>5, <4>6 DEF TypeOK, Ended, writing
    <3>3. CASE ~Current(c)
      BY <2>4, <3>1, <3>3, <3>4, <3>6, <3>7 DEF Broadcast, TypeOK, writing
    <3> QED
      BY <2>4, <3>2, <3>3 DEF Broadcast
  <2>5. ASSUME NEW c \in Conn, CloseAbandoned(c) PROVE TInv'
    BY <2>5 DEF CloseAbandoned, TypeOK, manager, attached, writing
  <2>6. ASSUME NEW c \in Conn, EndConnection(c) PROVE TInv'
    BY <2>6, CloseType DEF EndConnection, TypeOK, Ended, None, writing
  <2>7. ASSUME NEW c \in Conn, ReadLoopExit(c) PROVE TInv'
    BY <2>7 DEF ReadLoopExit, TypeOK, manager, attached, writing
  <2>8. ASSUME NEW i \in Id, Receive(i) PROVE TInv'
    BY <2>8, BoundsOK DEF Receive, TypeOK, manager, writing
  <2>9. ASSUME NEW i \in Id, Detach(i) PROVE TInv'
    BY ZenonT(40), <2>9, CloseType DEF Detach, TypeOK, Ended, None, writing
  <2>10. ASSUME NEW c \in Conn, CloseHandle(c) PROVE TInv'
    BY <2>10 DEF CloseHandle, TypeOK, manager, attached, writing
  <2>11. ASSUME NEW i \in Id, WriteCheck(i) PROVE TInv'
    BY <2>11 DEF WriteCheck, TypeOK, manager, attached
  <2>12. ASSUME NEW i \in Id, WriteLock(i) PROVE TInv'
    BY <2>12 DEF WriteLock, TypeOK, manager, attached
  <2>13. ASSUME NEW i \in Id, NEW rest \in BOOLEAN, WriteSome(i, rest) PROVE TInv'
    <3>1. /\ wire' = Append(wire, i)
          /\ UNCHANGED <<manager, handle, closing, reader, chunk, attached, read, out>>
      BY <2>13 DEF WriteSome
    <3>2. wire' \in Seq(Id)
      BY <3>1, AppendProperties DEF TypeOK
    <3>3. /\ writer' \in [Id -> {"none", "wait", "begin", "rest"}]
          /\ writeMutex' \in [Conn -> Id \cup {None}]
      BY <2>13 DEF WriteSome, TypeOK
    <3> QED
      BY <3>1, <3>2, <3>3 DEF TypeOK, manager, attached
  <2>14. ASSUME NEW i \in Id, WriteFails(i) PROVE TInv'
    BY <2>14 DEF WriteFails, TypeOK, manager, attached
  <2>15. CASE Close
    BY SMTT(40), <2>15, CloseType DEF Close, TypeOK, Ended, None, writing
  <2>16. CASE UNCHANGED vars
    BY <2>16 DEF vars, TypeOK, manager, attached, writing
  <2> QED
    BY <2>1, <2>2, <2>3, <2>4, <2>5, <2>6, <2>7, <2>8, <2>9, <2>10, <2>11, <2>12, <2>13, <2>14,
       <2>15, <2>16 DEF Next, ReadLoop
<1> QED
  BY <1>1, <1>2, PTL DEF Spec

THEOREM ConsoleTyped == Spec => []TypeOK
BY ConsoleTInv, PTL DEF TInv

-----------------------------------------------------------------------------
(* Who owns the port and the lease.                                         *)

\* Connections are opened in order, and one not opened yet has no past.
Opened ==
  /\ mapped <= nextConn
  /\ \A c \in Conn : c > nextConn =>
       clients[c] = {} /\ c \notin handle /\ ring[c] = <<>> /\ out[c] = <<>>

Owned == PortOwned /\ LeaseOfClient /\ Opened


LEMMA NotNone == \A c \in Conn : c \in Nat /\ c # None
BY BoundsOK DEF Conn, None

\* Only the connection in the map has clients, so ending some of them leaves the
\* others alone, and no lease behind.
LEMMA ClientsEnd ==
  ASSUME TypeOK, Owned, NEW c \in Conn, c = mapped, NEW S \in SUBSET Id, NEW why,
         CloseSubscribers(c, S, why)
  PROVE  /\ LeaseOfClient'
         /\ \A d \in Conn : d # c => clients'[d] = {}
         /\ clients'[c] = {} <=> Abandoned(c, S)
<1> USE DEF TypeOK, Owned, PortOwned, LeaseOfClient
<1>1. /\ clients' = [clients EXCEPT ![c] = @ \ S]
      /\ controller' = [controller EXCEPT ![c] = IF @ \in S THEN None ELSE @]
  BY DEF CloseSubscribers
<1>2. \A d \in Conn : d # c => clients'[d] = {} /\ controller'[d] = controller[d]
  BY <1>1
<1>3. clients'[c] = clients[c] \ S
  BY <1>1
<1>4. controller'[c] # None => controller'[c] = controller[c] /\ controller[c] \notin S
  BY <1>1
<1>5. LeaseOfClient'
  <2> SUFFICES ASSUME NEW d \in Conn, controller'[d] # None PROVE controller'[d] \in clients'[d]
    BY DEF LeaseOfClient
  <2> QED
    BY <1>2, <1>3, <1>4
<1> QED
  BY <1>2, <1>3, <1>5 DEF Abandoned

\* The port belongs to the attached, and somebody closes it once there are none.
THEOREM OwnedInductive == Spec => []Owned
<1>1. Init => Owned
  BY BoundsOK DEF Init, Owned, PortOwned, LeaseOfClient, Opened, None, Conn
<1>2. TInv /\ Owned /\ [Next]_vars => Owned'
  <2> SUFFICES ASSUME TInv, Owned, [Next]_vars PROVE Owned'
    OBVIOUS
  <2> USE DEF TInv, TypeOK, Owned, PortOwned, LeaseOfClient, Opened
  <2>1. ASSUME NEW access \in {"observer", "controller"}, NEW replay \in BOOLEAN,
               Attach(access, replay)
        PROVE  Owned'
    <3> DEFINE c == IF mapped = None THEN nextConn + 1 ELSE mapped
               i == nextID + 1
    <3>1. /\ c \in Conn /\ i \in Id /\ mapped' = c
          /\ clients' = [clients EXCEPT ![c] = @ \cup {i}]
          /\ controller' = controller \/ controller' = [controller EXCEPT ![c] = i]
          /\ UNCHANGED <<ring, closing, out>>
      BY <2>1 DEF Attach
    <3>2. c \in Nat /\ c # None /\ (mapped # None => c = mapped)
      BY <3>1, NotNone
    <3> HIDE DEF c, i
    <3>3. \A d \in Conn : d # c => clients[d] = {} /\ clients'[d] = {} /\ mapped # d
      BY <3>1, <3>2, NotNone
    <3>4. clients'[c] = clients[c] \cup {i}
      BY <3>1
    <3>5. LeaseOfClient'
      <4> SUFFICES ASSUME NEW d \in Conn, controller'[d] # None
                   PROVE  controller'[d] \in clients'[d]
        BY DEF LeaseOfClient
      <4>1. CASE controller' = controller
        BY <3>1, <3>3, <3>4, <4>1
      <4>2. CASE controller' = [controller EXCEPT ![c] = i]
        BY <3>1, <3>3, <3>4, <4>2
      <4> QED
        BY <3>1, <4>1, <4>2
    <3>6. CASE mapped = None
      <4>1. c = nextConn + 1
        BY <3>6 DEF c
      <4>2. nextConn' = c /\ handle' = handle \cup {c} /\ reader' = [reader EXCEPT ![c] = "read"]
        BY <2>1, <3>6 DEF Attach, c
      <4>3. \A d \in Conn : d # c => reader'[d] = reader[d] /\ (d \in handle' <=> d \in handle)
        BY <4>2
      <4>4. PortOwned'
        BY <3>1, <3>3, <3>4, <4>3
      <4>5. Opened'
        BY <3>1, <3>2, <3>3, <4>1, <4>2, NotNone
      <4> QED
        BY <3>5, <4>4, <4>5
    <3>7. CASE mapped # None
      <4>1. UNCHANGED <<nextConn, handle, reader>> /\ c = mapped
        BY <2>1, <3>2, <3>7 DEF Attach
      <4>2. PortOwned'
        BY <3>1, <3>3, <3>4, <4>1
      <4>3. Opened'
        BY <3>1, <3>2, <3>3, <4>1, NotNone
      <4> QED
        BY <3>5, <4>2, <4>3
    <3> QED
      BY <3>6, <3>7
  <2>2. ASSUME NEW c \in Conn, Read(c) PROVE Owned'
    BY <2>2 DEF Read, manager
  <2>3. ASSUME NEW c \in Conn, ReadFails(c) PROVE Owned'
    BY <2>3 DEF ReadFails, manager
  <2>4. ASSUME NEW c \in Conn, Broadcast(c) PROVE Owned'
    <3>1. CASE ~Current(c)
      <4>1. /\ reader[c] = "got" /\ reader' = [reader EXCEPT ![c] = "read"]
            /\ UNCHANGED <<mapped, nextConn, clients, controller, ring, out, handle, closing>>
        BY <2>4, <3>1 DEF Broadcast
      <4> QED
        BY <4>1
    <3>2. CASE Current(c)
      <4>1. /\ CloseSubscribers(c, Slow(c), "slow") /\ mapped = c
            /\ mapped' = IF Abandoned(c, Slow(c)) THEN None ELSE mapped
            /\ reader[c] = "got"
            /\ reader' = [reader EXCEPT ![c] = IF Abandoned(c, Slow(c)) THEN "drop" ELSE "read"]
            /\ UNCHANGED <<nextConn, handle, closing>>
            /\ \A d \in Conn : d # c => ring'[d] = ring[d] /\ out'[d] = out[d]
        BY <2>4, <3>2 DEF Broadcast, Deliver, Current
      <4>2. Slow(c) \in SUBSET Id
        BY DEF Slow
      <4>3. /\ LeaseOfClient' /\ (clients'[c] = {} <=> Abandoned(c, Slow(c)))
            /\ \A d \in Conn : d # c => clients'[d] = {}
        BY <4>1, <4>2, ClientsEnd
      <4>4. PortOwned'
        BY <4>1, <4>3, NotNone
      <4>5. Opened'
        BY <4>1, <4>3, NotNone DEF None
      <4> QED
        BY <4>3, <4>4, <4>5
    <3> QED
      BY <3>1, <3>2
  <2>5. ASSUME NEW c \in Conn, CloseAbandoned(c) PROVE Owned'
    BY <2>5 DEF CloseAbandoned, manager
  <2>6. ASSUME NEW c \in Conn, EndConnection(c) PROVE Owned'
    <3>0. /\ reader[c] = "failed" /\ reader' = [reader EXCEPT ![c] = "close"]
          /\ UNCHANGED <<nextConn, ring, out, handle, closing>>
      BY <2>6 DEF EndConnection
    <3>1. CASE ~Current(c)
      <4>1. UNCHANGED <<mapped, clients, controller>>
        BY <2>6, <3>1 DEF EndConnection
      <4> QED
        BY <3>0, <4>1
    <3>2. CASE Current(c)
      <4>1. /\ mapped' = None /\ mapped = c
            /\ CloseSubscribers(c, clients[c], "disconnected")
        BY <2>6, <3>2 DEF EndConnection, Current
      <4>2. clients[c] \in SUBSET Id
        OBVIOUS
      <4>3. LeaseOfClient' /\ \A d \in Conn : clients'[d] = {}
        BY ZenonT(40), <4>1, <4>2, ClientsEnd DEF Abandoned
      <4>4. PortOwned'
        BY <3>0, <4>1, <4>3, NotNone
      <4>5. Opened'
        BY <3>0, <4>1, <4>3, NotNone DEF None
      <4> QED
        BY <4>3, <4>4, <4>5
    <3> QED
      BY <3>1, <3>2
  <2>7. ASSUME NEW c \in Conn, ReadLoopExit(c) PROVE Owned'
    BY <2>7 DEF ReadLoopExit, manager
  <2>8. ASSUME NEW i \in Id, Receive(i) PROVE Owned'
    BY <2>8 DEF Receive, manager
  <2>9. ASSUME NEW i \in Id, Detach(i) PROVE Owned'
    <3>1. /\ mapped \in Conn /\ i \in clients[mapped] /\ CloseSubscribers(mapped, {i}, "left")
          /\ UNCHANGED <<nextConn, ring, handle, reader, out>>
      BY <2>9, NotNone DEF Detach, None
    <3>2. /\ LeaseOfClient' /\ (clients'[mapped] = {} <=> Abandoned(mapped, {i}))
          /\ \A d \in Conn : d # mapped => clients'[d] = {}
      BY ZenonT(40), <3>1, ClientsEnd
    <3>3. \/ Abandoned(mapped, {i}) /\ mapped' = None /\ closing' = closing \cup {mapped}
          \/ ~Abandoned(mapped, {i}) /\ UNCHANGED <<mapped, closing>>
      BY <2>9 DEF Detach
    <3>4. PortOwned'
      BY SMTT(30), <3>1, <3>2, <3>3, NotNone
    <3>5. mapped' <= nextConn'
      BY <3>1, <3>3, NotNone, BoundsOK DEF None
    <3>6. \A d \in Conn : d > nextConn => d # mapped
      BY <3>1, NotNone
    <3>7. Opened'
      BY <3>1, <3>2, <3>5, <3>6
    <3> QED
      BY <3>2, <3>4, <3>7
  <2>10. ASSUME NEW c \in Conn, CloseHandle(c) PROVE Owned'
    BY <2>10 DEF CloseHandle, manager
  <2>11. ASSUME NEW i \in Id, WriteCheck(i) PROVE Owned'
    BY <2>11 DEF WriteCheck, manager
  <2>12. ASSUME NEW i \in Id, WriteLock(i) PROVE Owned'
    BY <2>12 DEF WriteLock, manager
  <2>13. ASSUME NEW i \in Id, NEW rest \in BOOLEAN, WriteSome(i, rest) PROVE Owned'
    <3>1. UNCHANGED <<manager, handle, closing, reader, out>>
      BY <2>13 DEF WriteSome
    <3> QED
      BY <3>1 DEF manager
  <2>14. ASSUME NEW i \in Id, WriteFails(i) PROVE Owned'
    BY <2>14 DEF WriteFails, manager
  <2>15. CASE Close
    <3>1. UNCHANGED <<nextConn, ring, out, handle, reader>>
      BY <2>15 DEF Close
    <3>2. CASE mapped = None
      <4>1. UNCHANGED <<mapped, clients, controller, closing>>
        BY <2>15, <3>2 DEF Close
      <4> QED
        BY <3>1, <4>1
    <3>3. CASE mapped # None
      <4> PICK c \in Conn : c = mapped
        BY <3>3
      <4>1. /\ mapped' = None /\ mapped = c /\ closing' = closing \cup {c}
            /\ CloseSubscribers(c, clients[c], "stopped")
        BY <2>15, <3>3 DEF Close
      <4>2. LeaseOfClient' /\ \A d \in Conn : clients'[d] = {}
        <5>1. clients[c] \in SUBSET Id /\ c = mapped /\ Abandoned(c, clients[c])
          BY DEF Abandoned
        <5>2. LeaseOfClient' /\ \A d \in Conn : d # c => clients'[d] = {}
          BY <4>1, <5>1, ClientsEnd
        <5>3. clients'[c] = {}
          BY <4>1 DEF CloseSubscribers
        <5> QED
          BY <5>2, <5>3
      <4>3. PortOwned'
        BY <3>1, <4>1, <4>2, NotNone
      <4>4. Opened'
        BY <3>1, <4>1, <4>2, NotNone DEF None
      <4> QED
        BY <4>2, <4>3, <4>4
    <3> QED
      BY <3>2, <3>3
  <2>16. CASE UNCHANGED vars
    BY <2>16 DEF vars, manager
  <2> QED
    BY ZenonT(40), <2>1, <2>2, <2>3, <2>4, <2>5, <2>6, <2>7, <2>8, <2>9, <2>10, <2>11, <2>12, <2>13, <2>14,
       <2>15, <2>16 DEF Next, ReadLoop
<1> QED
  BY <1>1, <1>2, ConsoleTInv, PTL DEF Spec

\* The port is open for its clients and for nobody else.
THEOREM PortAlwaysOwned == Spec => []PortOwned
<1>1. Owned => PortOwned
  BY DEF Owned
<1> QED
  BY <1>1, OwnedInductive, PTL

\* Whoever ends an attachment ends its lease.
THEOREM LeasesEnd == Spec => []LeaseOfClient
<1>1. Owned => LeaseOfClient
  BY DEF Owned
<1> QED
  BY <1>1, OwnedInductive, PTL

-----------------------------------------------------------------------------
(* Whose bytes reach the port.                                              *)

\* A client knows its connection, and whoever writes holds its mutex.
Writers ==
  /\ \A c \in Conn : \A i \in clients[c] : i <= nextID /\ conn[i] = c
  /\ \A i \in Id : writer[i] # "none" => i <= nextID /\ conn[i] \in Conn
  /\ \A i \in Id : writer[i] \in {"begin", "rest"} => writeMutex[conn[i]] = i

LEMMA ClientsShrink ==
  ASSUME TypeOK, NEW c \in Conn, NEW S, NEW why, CloseSubscribers(c, S, why)
  PROVE  \A d \in Conn : clients'[d] \subseteq clients[d]
BY DEF CloseSubscribers, TypeOK

THEOREM WritersInductive == Spec => []Writers
<1>1. Init => Writers
  BY DEF Init, Writers
<1>2. TInv /\ Owned /\ Writers /\ [Next]_vars => Writers'
  <2> SUFFICES ASSUME TInv, Owned, Writers, [Next]_vars PROVE Writers'
    OBVIOUS
  <2> USE DEF TInv, TypeOK, Writers
  <2>1. ASSUME NEW access \in {"observer", "controller"}, NEW replay \in BOOLEAN,
               Attach(access, replay)
        PROVE  Writers'
    <3> DEFINE c == IF mapped = None THEN nextConn + 1 ELSE mapped
               i == nextID + 1
    <3>1. /\ c \in Conn /\ i \in Id /\ nextID' = i
          /\ clients' = [clients EXCEPT ![c] = @ \cup {i}] /\ conn' = [conn EXCEPT ![i] = c]
          /\ UNCHANGED writing
      BY <2>1 DEF Attach
    <3>2. i \in Int /\ nextID \in Int /\ i = nextID + 1
      BY BoundsOK
    <3> HIDE DEF c, i
    <3>3. \A d \in Conn : \A k \in clients'[d] : k <= nextID' /\ conn'[k] = d
      <4> SUFFICES ASSUME NEW d \in Conn, NEW k \in clients'[d] PROVE k <= nextID' /\ conn'[k] = d
        OBVIOUS
      <4>1. CASE k = i /\ d = c
        BY <3>1, <3>2, <4>1
      <4>2. CASE k \in clients[d]
        <5>1. k \in Int /\ k <= nextID /\ conn[k] = d /\ k # i
          BY <3>2, <4>2 DEF Id
        <5> QED
          BY <3>1, <3>2, <4>2, <5>1
      <4> QED
        BY <3>1, <4>1, <4>2
    <3>4. \A k \in Id : writer[k] # "none" => k # i /\ conn'[k] = conn[k] /\ k <= nextID'
      BY <3>1, <3>2 DEF Id
    <3> QED
      BY <3>1, <3>3, <3>4 DEF writing
  <2>2. ASSUME UNCHANGED <<nextID, conn, writing>>,
               \A d \in Conn : clients'[d] \subseteq clients[d]
        PROVE  Writers'
    BY <2>2 DEF writing
  <2>3. ASSUME NEW i \in Id, WriteCheck(i) PROVE Writers'
    <3>1. mapped \in Conn /\ i \in clients[mapped]
      BY <2>3 DEF WriteCheck, Owned, LeaseOfClient, Id, None
    <3>2. i <= nextID /\ conn[i] \in Conn
      BY <3>1
    <3> QED
      BY <2>3, <3>2 DEF WriteCheck, manager, attached
  <2>4. ASSUME NEW i \in Id, WriteLock(i) PROVE Writers'
    <3>1. i # None /\ \A k \in Id : k # None
      BY DEF Id, None
    <3> QED
      BY SMTT(30), <2>4, <3>1 DEF WriteLock, WriteFree, manager, attached
  <2>13. ASSUME NEW i \in Id, writer[i] \in {"begin", "rest"},
                writer' = [writer EXCEPT ![i] = "none"],
                writeMutex' = [writeMutex EXCEPT ![conn[i]] = None],
                UNCHANGED <<nextID, clients, conn>>
         PROVE  Writers'
    <3>1. \A k \in Id : writer'[k] \in {"begin", "rest"} =>
            k # i /\ writer[k] \in {"begin", "rest"} /\ conn[k] # conn[i]
      BY <2>13
    <3>2. \A k \in Id : writer'[k] # "none" => writer[k] # "none"
      BY <2>13
    <3>3. \A k \in Id : writer'[k] \in {"begin", "rest"} => writeMutex'[conn'[k]] = k
      BY <2>13, <3>1
    <3> QED
      BY <2>13, <3>2, <3>3
  <2>5. ASSUME NEW i \in Id, NEW rest \in BOOLEAN, WriteSome(i, rest) PROVE Writers'
    <3>1. UNCHANGED <<nextID, clients, conn>> /\ writer[i] \in {"begin", "rest"}
      BY <2>5 DEF WriteSome, manager, attached
    <3>2. CASE rest
      <4>1. writer' = [writer EXCEPT ![i] = "rest"] /\ UNCHANGED writeMutex
        BY <2>5, <3>2 DEF WriteSome
      <4> QED
        BY <3>1, <4>1
    <3>3. CASE ~rest
      <4>1. /\ writer' = [writer EXCEPT ![i] = "none"]
            /\ writeMutex' = [writeMutex EXCEPT ![conn[i]] = None]
        BY <2>5, <3>3 DEF WriteSome
      <4> QED
        BY <2>13, <3>1, <4>1
    <3> QED
      BY <3>2, <3>3
  <2>6. ASSUME NEW i \in Id, WriteFails(i) PROVE Writers'
    <3>1. UNCHANGED <<nextID, clients, conn>>
      BY <2>6 DEF WriteFails, manager, attached
    <3> QED
      BY <2>6, <2>13, <3>1 DEF WriteFails
  <2>7. ASSUME NEW c \in Conn, ReadLoop(c) PROVE Writers'
    <3>1. UNCHANGED <<nextID, conn, writing>>
      BY <2>7
      DEF ReadLoop, Read, ReadFails, Broadcast, CloseAbandoned, EndConnection, ReadLoopExit,
          manager, attached
    <3>2. \/ clients' = clients
          \/ \E S, why : CloseSubscribers(c, S, why)
      BY <2>7
      DEF ReadLoop, Read, ReadFails, Broadcast, Deliver, CloseAbandoned, EndConnection,
          ReadLoopExit, manager
    <3> QED
      BY <2>2, <3>1, <3>2, ClientsShrink
  <2>8. ASSUME NEW c \in Conn, CloseHandle(c) PROVE Writers'
    BY <2>2, <2>8 DEF CloseHandle, manager, attached
  <2>9. ASSUME NEW i \in Id, Receive(i) PROVE Writers'
    BY <2>2, <2>9 DEF Receive, manager
  <2>12. ASSUME NEW i \in Id, Detach(i) PROVE Writers'
    <3>1. UNCHANGED <<nextID, conn, writing>> /\ mapped \in Conn
          /\ CloseSubscribers(mapped, {i}, "left")
      BY <2>12 DEF Detach
    <3> QED
      BY <2>2, <3>1, ClientsShrink
  <2>10. CASE Close
    <3>1. UNCHANGED <<nextID, conn, writing>>
      BY <2>10 DEF Close
    <3>2. \/ clients' = clients
          \/ mapped \in Conn /\ CloseSubscribers(mapped, clients[mapped], "stopped")
      BY <2>10 DEF Close
    <3> QED
      BY <2>2, <3>1, <3>2, ClientsShrink
  <2>11. CASE UNCHANGED vars
    BY <2>2, <2>11 DEF vars, manager, attached
  <2> QED
    BY <2>1, <2>3, <2>4, <2>5, <2>6, <2>7, <2>8, <2>9, <2>10, <2>11, <2>12 DEF Next
<1> QED
  BY <1>1, <1>2, ConsoleTInv, OwnedInductive, PTL DEF Spec

LEMMA Writing ==
  ASSUME TInv, [Next]_vars, wire' # wire
  PROVE  \E j \in Id : wire' = Append(wire, j) /\ writer[j] \in {"begin", "rest"}
                       /\ conn' = conn
BY DEF Next, vars, manager, attached, writing, Attach, ReadLoop, Read, ReadFails, Broadcast,
       CloseAbandoned, EndConnection, ReadLoopExit, CloseHandle, Receive, Detach, WriteCheck,
       WriteLock, WriteSome, WriteFails, Close

\* Between two parts of one payload no other attachment's bytes reach the port.
THEOREM PayloadsNeverMixed == Spec => PayloadsWhole
<1>1. TInv /\ Writers /\ [Next]_vars =>
        [\A i \in Id :
           writer[i] = "rest" /\ wire' # wire /\ conn[wire'[Len(wire')]] = conn[i] =>
             wire'[Len(wire')] = i]_vars
  <2> SUFFICES ASSUME TInv, Writers, [Next]_vars, NEW i \in Id, writer[i] = "rest",
                      wire' # wire, conn[wire'[Len(wire')]] = conn[i]
               PROVE  wire'[Len(wire')] = i
    OBVIOUS
  <2>1. PICK j \in Id : wire' = Append(wire, j) /\ writer[j] \in {"begin", "rest"}
    BY Writing
  <2>2. wire'[Len(wire')] = j
    BY <2>1, AppendProperties DEF TInv, TypeOK
  <2> QED
    BY <2>1, <2>2 DEF Writers
<1> QED
  BY <1>1, ConsoleTInv, WritersInductive, PTL DEF Spec, PayloadsWhole

-----------------------------------------------------------------------------
(* What each attachment is sent.                                            *)

Chunks == Seq(1..MaxChunks)

\* The sequence s is the part of o that starts at position a.
Part(s, o, a) ==
  /\ a >= 1 /\ a + Len(s) <= Len(o) + 1
  /\ \A n \in 1..Len(s) : s[n] = o[a + n - 1]

\* Replay rings hold the latest output; a stream is a part of the output, and a live
\* one reaches its end.
Streams ==
  /\ \A c \in Conn : Part(ring[c], out[c], Len(out[c]) - Len(ring[c]) + 1)
  /\ \A i \in 1..nextID :
       /\ conn[i] \in Conn
       /\ Part(stream[i], out[conn[i]], start[i])
       /\ i \in clients[conn[i]] => start[i] + Len(stream[i]) = Len(out[conn[i]]) + 1

\* The part of a sequence from m to n.
LEMMA Cut ==
  ASSUME NEW s \in Chunks, NEW m \in Int, NEW n \in Int, 1 <= m, m <= n + 1, n <= Len(s)
  PROVE  /\ SubSeq(s, m, n) \in Chunks /\ Len(SubSeq(s, m, n)) = n - m + 1
         /\ \A k \in 1..(n - m + 1) : SubSeq(s, m, n)[k] = s[m + k - 1]
<1>1. \A k \in m..n : s[k] \in 1..MaxChunks
  <2>1. Len(s) \in Nat /\ s \in [1..Len(s) -> 1..MaxChunks]
    BY LenProperties DEF Chunks
  <2> QED
    BY <2>1
<1>2. /\ SubSeq(s, m, n) \in Seq(1..MaxChunks)
      /\ Len(SubSeq(s, m, n)) = IF m <= n THEN n - m + 1 ELSE 0
      /\ \A k \in 1..(n - m + 1) : SubSeq(s, m, n)[k] = s[m + k - 1]
  <2> DEFINE S == 1..MaxChunks
  <2>1. \A k \in m..n : s[k] \in S
    BY <1>1
  <2> HIDE DEF S
  <2>2. /\ SubSeq(s, m, n) \in Seq(S)
        /\ Len(SubSeq(s, m, n)) = IF m <= n THEN n - m + 1 ELSE 0
        /\ \A k \in 1..(n - m + 1) : SubSeq(s, m, n)[k] = s[m + k - 1]
    BY <2>1, SubSeqProperties
  <2> QED
    BY <2>2 DEF S
<1> QED
  BY <1>2 DEF Chunks

LEMMA PartKept ==
  ASSUME NEW s \in Chunks, NEW o \in Chunks, NEW a \in Int, NEW x \in 1..MaxChunks, Part(s, o, a)
  PROVE  Part(s, Append(o, x), a)
<1>1. /\ Len(Append(o, x)) = Len(o) + 1 /\ Len(s) \in Nat /\ Len(o) \in Nat
      /\ \A n \in 1..Len(o) : Append(o, x)[n] = o[n]
  BY LenProperties, AppendProperties DEF Chunks
<1>2. \A n \in 1..Len(s) : a + n - 1 \in 1..Len(o)
  BY <1>1 DEF Part
<1> QED
  BY <1>1, <1>2 DEF Part

LEMMA PartGrows ==
  ASSUME NEW s \in Chunks, NEW o \in Chunks, NEW a \in Int, NEW x \in 1..MaxChunks,
         Part(s, o, a), a + Len(s) = Len(o) + 1
  PROVE  Part(Append(s, x), Append(o, x), a)
<1> DEFINE p == Append(s, x)
           q == Append(o, x)
<1>1. /\ Len(q) = Len(o) + 1 /\ Len(s) \in Nat /\ Len(o) \in Nat
      /\ \A n \in 1..Len(o) : q[n] = o[n]
      /\ q[Len(o) + 1] = x
      /\ Len(p) = Len(s) + 1
      /\ \A n \in 1..Len(s) : p[n] = s[n]
      /\ p[Len(s) + 1] = x
  BY LenProperties, AppendProperties DEF Chunks
<1> HIDE DEF p, q
<1>2. \A n \in 1..Len(s) : a + n - 1 \in 1..Len(o)
  BY <1>1 DEF Part
<1>3. \A n \in 1..(Len(s) + 1) : p[n] = q[a + n - 1]
  <2> SUFFICES ASSUME NEW n \in 1..(Len(s) + 1) PROVE p[n] = q[a + n - 1]
    OBVIOUS
  <2>1. CASE n \in 1..Len(s)
    BY <1>1, <1>2, <2>1 DEF Part
  <2>2. CASE n = Len(s) + 1
    <3>1. a + n - 1 = Len(o) + 1
      BY <1>1, <2>2
    <3> QED
      BY <1>1, <2>2, <3>1
  <2> QED
    BY <1>1, <2>1, <2>2
<1>4. Part(p, q, a)
  BY <1>1, <1>3 DEF Part
<1> QED
  BY <1>4 DEF p, q

\* Cutting a ring at the front keeps it the latest part of the output.
LEMMA PartTail ==
  ASSUME NEW s \in Chunks, NEW o \in Chunks, Part(s, o, Len(o) - Len(s) + 1)
  PROVE  Part(KeepTail(s), o, Len(o) - Len(KeepTail(s)) + 1)
<1> DEFINE t == KeepTail(s)
<1>1. Len(s) \in Nat /\ Len(o) \in Nat
  BY LenProperties DEF Chunks
<1>2. /\ t \in Chunks /\ Len(t) <= Len(s)
      /\ \A n \in 1..Len(t) : t[n] = s[Len(s) - Len(t) + n]
  BY TailType DEF Chunks
<1>3. Len(t) \in Nat
  BY <1>2, LenProperties DEF Chunks
<1> HIDE DEF t
<1>4. \A n \in 1..Len(t) :
        /\ Len(s) - Len(t) + n \in 1..Len(s)
        /\ Len(o) - Len(s) + 1 + (Len(s) - Len(t) + n) - 1 = Len(o) - Len(t) + 1 + n - 1
  BY <1>1, <1>2, <1>3
<1>5. \A n \in 1..Len(t) : t[n] = o[Len(o) - Len(t) + 1 + n - 1]
  BY <1>2, <1>4 DEF Part
<1>6. Part(t, o, Len(o) - Len(t) + 1)
  BY <1>1, <1>2, <1>3, <1>5 DEF Part
<1> QED
  BY <1>6 DEF t

LEMMA StreamsInit == Init => Streams
<1> SUFFICES ASSUME Init PROVE Streams
  OBVIOUS
<1>1. nextID = 0 /\ \A c \in Conn : ring[c] = <<>> /\ out[c] = <<>>
  BY DEF Init
<1>2. Part(<<>>, <<>>, Len(<<>>) - Len(<<>>) + 1)
  BY EmptySeq DEF Part
<1>3. \A i \in 1..nextID : FALSE
  BY <1>1
<1> QED
  BY <1>1, <1>2, <1>3 DEF Streams

LEMMA StreamsAttach ==
  ASSUME TInv, Owned, Writers, Streams,
         NEW access \in {"observer", "controller"}, NEW replay \in BOOLEAN, Attach(access, replay)
  PROVE  Streams'
<1> USE DEF TInv, TypeOK
<1> DEFINE c == IF mapped = None THEN nextConn + 1 ELSE mapped
           i == nextID + 1
           past == IF replay THEN ring[c] ELSE <<>>
<1>1. /\ c \in Conn /\ i \in Id /\ nextID' = i
      /\ clients' = [clients EXCEPT ![c] = @ \cup {i}] /\ conn' = [conn EXCEPT ![i] = c]
      /\ stream' = [stream EXCEPT ![i] = past]
      /\ start' = [start EXCEPT ![i] = Len(out[c]) - Len(past) + 1]
      /\ UNCHANGED <<ring, out>>
  BY DEF Attach
<1>2. Len(past) \in Nat /\ Len(out[c]) \in Nat
  BY <1>1, LenProperties, EmptySeq
<1>3. Part(past, out[c], Len(out[c]) - Len(past) + 1)
  <2>1. CASE replay
    BY <1>1, <2>1 DEF Streams
  <2>2. CASE ~replay
    BY <1>2, <2>2, EmptySeq DEF Part
  <2> QED
    BY <2>1, <2>2
<1>4. nextID \in Nat /\ i = nextID + 1
  BY BoundsOK
<1> HIDE DEF c, i, past
<1>5. \A k \in 1..i :
        /\ conn'[k] \in Conn /\ Part(stream'[k], out[conn'[k]], start'[k])
        /\ k \in clients'[conn'[k]] => start'[k] + Len(stream'[k]) = Len(out[conn'[k]]) + 1
  <2> SUFFICES ASSUME NEW k \in 1..i
               PROVE  /\ conn'[k] \in Conn /\ Part(stream'[k], out[conn'[k]], start'[k])
                      /\ k \in clients'[conn'[k]] =>
                           start'[k] + Len(stream'[k]) = Len(out[conn'[k]]) + 1
    OBVIOUS
  <2>1. CASE k = i
    <3>1. conn'[k] = c /\ stream'[k] = past /\ start'[k] = Len(out[c]) - Len(past) + 1
      BY <1>1, <2>1
    <3> QED
      BY SMTT(30), <1>1, <1>2, <1>3, <3>1
  <2>2. CASE k # i
    <3>1. k \in 1..nextID /\ k \in Id
      BY <1>1, <1>4, <2>2, BoundsOK DEF Id
    <3>2. conn'[k] = conn[k] /\ stream'[k] = stream[k] /\ start'[k] = start[k]
      BY <1>1, <2>2, <3>1
    <3>3. conn[k] \in Conn /\ (k \in clients'[conn[k]] => k \in clients[conn[k]])
      BY <1>1, <2>2, <3>1 DEF Streams
    <3> QED
      BY <3>1, <3>2, <3>3 DEF Streams
  <2> QED
    BY <2>1, <2>2
<1> QED
  BY <1>1, <1>5 DEF Streams

LEMMA StreamsDeliver ==
  ASSUME TInv, Owned, Writers, Streams, NEW c \in Conn, Broadcast(c), Current(c)
  PROVE  Streams'
<1> USE DEF TInv, TypeOK
<1> DEFINE x == chunk[c]
           fed == clients[c] \ Slow(c)
<1>1. x \in 1..MaxChunks
  BY DEF Broadcast
<1>2. /\ ring' = [ring EXCEPT ![c] = KeepTail(Append(@, x))]
      /\ out' = [out EXCEPT ![c] = Append(@, x)]
      /\ stream' = [i \in Id |-> IF i \in fed THEN Append(stream[i], x) ELSE stream[i]]
      /\ CloseSubscribers(c, Slow(c), "slow")
      /\ UNCHANGED <<nextID, conn, start>>
  BY DEF Broadcast, Deliver
<1>3. clients' = [clients EXCEPT ![c] = @ \ Slow(c)]
  BY <1>2 DEF CloseSubscribers
<1>4. \A d \in Conn : ring[d] \in Chunks /\ out[d] \in Chunks
  BY DEF Chunks
<1>5. \A d \in Conn : Len(ring[d]) \in Nat /\ Len(out[d]) \in Nat
  BY <1>4, LenProperties DEF Chunks
<1> HIDE DEF x
<1>6. ASSUME NEW d \in Conn PROVE Part(ring'[d], out'[d], Len(out'[d]) - Len(ring'[d]) + 1)
  <2>1. CASE d = c
    <3> DEFINE r == Append(ring[c], x)
               o == Append(out[c], x)
    <3>1. r \in Chunks /\ o \in Chunks /\ Len(r) = Len(ring[c]) + 1 /\ Len(o) = Len(out[c]) + 1
      BY <1>1, <1>4, AppendProperties DEF Chunks
    <3>2. Part(r, o, Len(out[c]) - Len(ring[c]) + 1)
      <4>1. Part(ring[c], out[c], Len(out[c]) - Len(ring[c]) + 1)
        BY DEF Streams
      <4>2. /\ Len(out[c]) - Len(ring[c]) + 1 \in Int
            /\ Len(out[c]) - Len(ring[c]) + 1 + Len(ring[c]) = Len(out[c]) + 1
        BY <1>5
      <4> QED
        BY <1>1, <1>4, <4>1, <4>2, PartGrows
    <3>3. Len(out[c]) - Len(ring[c]) + 1 = Len(o) - Len(r) + 1
      BY <1>5, <3>1
    <3>4. ring'[d] = KeepTail(r) /\ out'[d] = o
      BY <1>2, <2>1
    <3> HIDE DEF r, o
    <3> QED
      BY <3>1, <3>2, <3>3, <3>4, PartTail
  <2>2. CASE d # c
    BY <1>2, <2>2 DEF Streams
  <2> QED
    BY <2>1, <2>2
<1>7. ASSUME NEW i \in 1..nextID
      PROVE  /\ conn[i] \in Conn /\ Part(stream'[i], out'[conn[i]], start[i])
             /\ i \in clients'[conn[i]] =>
                  start[i] + Len(stream'[i]) = Len(out'[conn[i]]) + 1
  <2>1. /\ conn[i] \in Conn /\ i \in Id /\ start[i] \in Int /\ stream[i] \in Chunks
        /\ Part(stream[i], out[conn[i]], start[i])
        /\ i \in clients[conn[i]] => start[i] + Len(stream[i]) = Len(out[conn[i]]) + 1
    BY SMTT(40), BoundsOK DEF Streams, Id, Chunks
  <2>2. CASE conn[i] # c
    <3>1. i \notin fed
      BY <2>2 DEF Writers
    <3>2. stream'[i] = stream[i] /\ out'[conn[i]] = out[conn[i]]
          /\ clients'[conn[i]] = clients[conn[i]]
      BY <1>2, <1>3, <2>1, <2>2, <3>1
    <3> QED
      BY <2>1, <3>2
  <2>3. CASE conn[i] = c /\ i \in fed
    <3>1. /\ stream'[i] = Append(stream[i], x) /\ out'[c] = Append(out[c], x)
          /\ start[i] + Len(stream[i]) = Len(out[c]) + 1
      BY <1>2, <2>1, <2>3
    <3>2. Part(stream'[i], out'[c], start[i])
      BY <1>1, <1>4, <2>1, <2>3, <3>1, PartGrows
    <3>3. Len(stream'[i]) = Len(stream[i]) + 1 /\ Len(out'[c]) = Len(out[c]) + 1
          /\ Len(stream[i]) \in Nat
      BY <1>1, <1>4, <2>1, <3>1, AppendProperties, LenProperties DEF Chunks
    <3> QED
      BY SMTT(30), <1>5, <2>1, <2>3, <3>1, <3>2, <3>3
  <2>4. CASE conn[i] = c /\ i \notin fed
    <3>1. stream'[i] = stream[i] /\ out'[c] = Append(out[c], x) /\ i \notin clients'[c]
      BY <1>2, <1>3, <2>1, <2>4
    <3>2. Part(stream'[i], out'[c], start[i])
      BY <1>1, <1>4, <2>1, <2>4, <3>1, PartKept
    <3> QED
      BY <2>1, <2>4, <3>1, <3>2
  <2> QED
    BY <2>2, <2>3, <2>4
<1> QED
  BY <1>2, <1>6, <1>7 DEF Streams

\* No other step touches what was sent or gives anybody a client back.
LEMMA StreamsKept ==
  ASSUME TInv, Streams, UNCHANGED <<ring, out, nextID, conn, stream, start>>,
         \A d \in Conn : clients'[d] \subseteq clients[d]
  PROVE  Streams'
BY DEF Streams

THEOREM StreamsInductive == Spec => []Streams
<1>1. TInv /\ Owned /\ Writers /\ Streams /\ [Next]_vars => Streams'
  <2> SUFFICES ASSUME TInv, Owned, Writers, Streams, [Next]_vars PROVE Streams'
    OBVIOUS
  <2> USE StreamsKept DEF TInv
  <2>1. ASSUME NEW access \in {"observer", "controller"}, NEW replay \in BOOLEAN,
               Attach(access, replay)
        PROVE  Streams'
    BY <2>1, StreamsAttach
  <2>2. ASSUME NEW c \in Conn, Broadcast(c) PROVE Streams'
    <3>1. CASE Current(c)
      BY <2>2, <3>1, StreamsDeliver
    <3>2. CASE ~Current(c)
      BY <2>2, <3>2 DEF Broadcast
    <3> QED
      BY <3>1, <3>2
  <2>3. ASSUME NEW c \in Conn,
               Read(c) \/ ReadFails(c) \/ CloseAbandoned(c) \/ ReadLoopExit(c) \/ CloseHandle(c)
        PROVE  Streams'
    BY <2>3 DEF Read, ReadFails, CloseAbandoned, ReadLoopExit, CloseHandle, manager, attached
  <2>4. ASSUME NEW c \in Conn, EndConnection(c) PROVE Streams'
    <3>1. UNCHANGED <<ring, out, nextID, conn, stream, start>>
      BY <2>4 DEF EndConnection
    <3>2. clients' = clients \/ CloseSubscribers(c, clients[c], "disconnected")
      BY <2>4 DEF EndConnection
    <3> QED
      BY <3>1, <3>2, ClientsShrink
  <2>5. ASSUME NEW i \in Id, Receive(i) PROVE Streams'
    BY <2>5 DEF Receive, manager
  <2>6. ASSUME NEW i \in Id, Detach(i) PROVE Streams'
    <3>1. /\ UNCHANGED <<ring, out, nextID, conn, stream, start>> /\ mapped \in Conn
          /\ CloseSubscribers(mapped, {i}, "left")
      BY <2>6 DEF Detach, TypeOK
    <3> QED
      BY <3>1, ClientsShrink
  <2>7. ASSUME NEW i \in Id, WriteCheck(i) \/ WriteLock(i) \/ WriteFails(i) PROVE Streams'
    BY <2>7 DEF WriteCheck, WriteLock, WriteFails, manager, attached
  <2>8. ASSUME NEW i \in Id, NEW rest \in BOOLEAN, WriteSome(i, rest) PROVE Streams'
    <3>1. UNCHANGED <<manager, attached, out>>
      BY <2>8 DEF WriteSome
    <3> QED
      BY <3>1 DEF manager, attached
  <2>9. CASE Close
    <3>1. UNCHANGED <<ring, out, nextID, conn, stream, start>>
      BY <2>9 DEF Close
    <3>2. \/ clients' = clients
          \/ mapped \in Conn /\ CloseSubscribers(mapped, clients[mapped], "stopped")
      BY <2>9 DEF Close, TypeOK
    <3> QED
      BY <3>1, <3>2, ClientsShrink
  <2>10. CASE UNCHANGED vars
    BY <2>10 DEF vars, manager, attached
  <2> QED
    BY <2>1, <2>2, <2>3, <2>4, <2>5, <2>6, <2>7, <2>8, <2>9, <2>10 DEF Next, ReadLoop
<1> QED
  BY <1>1, StreamsInit, ConsoleTInv, OwnedInductive, WritersInductive, PTL DEF Spec

\* Every attachment gets its connection's output from where it came in: nothing
\* twice, nothing left out, up to the point where it is cut off.
THEOREM StreamsComplete == Spec => []StreamComplete
<1>1. TInv /\ Streams => StreamComplete
  <2> SUFFICES ASSUME TInv, Streams, NEW i \in 1..nextID
               PROVE  LET due == SubSeq(out[conn[i]], start[i], Len(out[conn[i]])) IN
                      IF Live(i) THEN stream[i] = due ELSE stream[i] = SubSeq(due, 1, Len(stream[i]))
    BY DEF StreamComplete
  <2> USE DEF TInv, TypeOK
  <2> DEFINE o == out[conn[i]]
             s == stream[i]
             a == start[i]
             due == SubSeq(o, a, Len(o))
  <2>1. /\ i \in Id /\ conn[i] \in Conn /\ a \in Int /\ Part(s, o, a)
        /\ i \in clients[conn[i]] => a + Len(s) = Len(o) + 1
    BY BoundsOK DEF Streams, Id
  <2>2. s \in Chunks /\ o \in Chunks
    BY <2>1 DEF Chunks
  <2>3. Len(s) \in Nat /\ Len(o) \in Nat
    BY <2>2, LenProperties DEF Chunks
  <2> HIDE DEF o, s, a
  <2>4. a >= 1 /\ a <= Len(o) + 1
    BY <2>1, <2>3 DEF Part
  <2>5. /\ due \in Chunks /\ Len(due) = Len(o) - a + 1
        /\ \A n \in 1..(Len(o) - a + 1) : due[n] = o[a + n - 1]
    <3> DEFINE e == Len(o)
    <3>1. e \in Int /\ e <= Len(o) /\ a <= e + 1 /\ e - a + 1 = Len(o) - a + 1
      BY <2>1, <2>3, <2>4
    <3> HIDE DEF e
    <3>2. /\ SubSeq(o, a, e) \in Chunks /\ Len(SubSeq(o, a, e)) = e - a + 1
          /\ \A k \in 1..(e - a + 1) : SubSeq(o, a, e)[k] = o[a + k - 1]
      BY <2>1, <2>2, <2>4, <3>1, Cut
    <3> QED
      BY <3>1, <3>2 DEF e
  <2> HIDE DEF due
  <2>6. Len(s) <= Len(due) /\ \A n \in 1..Len(s) : s[n] = due[n]
    <3>1. Len(s) <= Len(o) - a + 1
      BY <2>1, <2>3 DEF Part
    <3>2. \A n \in 1..Len(s) : n \in 1..(Len(o) - a + 1)
      BY <2>1, <2>3, <3>1
    <3>3. \A n \in 1..Len(s) : s[n] = o[a + n - 1]
      BY <2>1 DEF Part
    <3> QED
      BY <2>5, <3>1, <3>2, <3>3
  <2>7. CASE Live(i)
    <3>1. Len(s) = Len(due)
      BY <2>1, <2>3, <2>5, <2>7 DEF Live
    <3>2. s = due
      BY <2>2, <2>5, <2>6, <3>1, SeqEqual DEF Chunks
    <3> QED
      BY <2>7, <3>2 DEF s, due, o, a
  <2>8. CASE ~Live(i)
    <3> DEFINE t == SubSeq(due, 1, Len(s))
    <3>1. 1 <= Len(s) + 1 /\ Len(s) - 1 + 1 = Len(s)
      BY <2>3
    <3>2. t \in Chunks /\ Len(t) = Len(s) /\ \A n \in 1..Len(s) : t[n] = due[1 + n - 1]
      BY <2>3, <2>5, <2>6, <3>1, Cut
    <3> HIDE DEF t
    <3>3. \A n \in 1..Len(s) : s[n] = t[n]
      BY <2>3, <2>6, <3>2
    <3>4. s = t
      BY <2>2, <3>2, <3>3, SeqEqual DEF Chunks
    <3> QED
      BY <2>8, <3>4 DEF t, s, due, o, a
  <2> QED
    BY <2>7, <2>8
<1> QED
  BY <1>1, ConsoleTInv, StreamsInductive, PTL

-----------------------------------------------------------------------------
(* The sessions of the browser (SerialSessions).                            *)

\* A step keeps the types.
LEMMA TypedNext == SessionsTypeOK /\ [SessionsNext]_sessionVars => SessionsTypeOK'
<1> SUFFICES ASSUME SessionsTypeOK, [SessionsNext]_sessionVars PROVE SessionsTypeOK'
  OBVIOUS
<1>1. ASSUME NEW s \in Session, Create(s) PROVE SessionsTypeOK'
  BY <1>1 DEF Create, SessionsTypeOK
<1>2. ASSUME NEW s \in Session, Lose(s) PROVE SessionsTypeOK'
  BY <1>2 DEF Lose, SessionsTypeOK
<1>3. ASSUME NEW s \in Session, Delete(s) PROVE SessionsTypeOK'
  BY <1>3 DEF Delete, SessionsTypeOK, Remove, Stopped
<1>4. ASSUME NEW s \in Session, Overdue(s) PROVE SessionsTypeOK'
  BY <1>4 DEF Overdue, SessionsTypeOK
<1>5. ASSUME NEW s \in Session, Fire(s) PROVE SessionsTypeOK'
  BY <1>5 DEF Fire, SessionsTypeOK
<1>6. ASSUME NEW s \in Session, Expire(s) PROVE SessionsTypeOK'
  BY <1>6 DEF Expire, SessionsTypeOK, Expirable
<1>7. ASSUME NEW s \in Session, CloseAttachment(s) PROVE SessionsTypeOK'
  BY <1>7 DEF CloseAttachment, SessionsTypeOK
<1>8. ASSUME NEW k \in Socket, Refuse(k) PROVE SessionsTypeOK'
  BY <1>8 DEF Refuse, SessionsTypeOK, Step
<1>9. ASSUME NEW k \in Socket, Accept(k) PROVE SessionsTypeOK'
  BY <1>9 DEF Accept, SessionsTypeOK, Step
<1>10. ASSUME NEW k \in Socket, Hello(k) PROVE SessionsTypeOK'
  BY <1>10 DEF Hello, SessionsTypeOK, Step
<1>11. ASSUME NEW k \in Socket, Hangup(k) PROVE SessionsTypeOK'
  BY <1>11 DEF Hangup, SessionsTypeOK, Step
<1>12. ASSUME NEW k \in Socket, BadHello(k) PROVE SessionsTypeOK'
  BY <1>12 DEF BadHello, SessionsTypeOK, Step, Remove, Stopped
<1>13. ASSUME NEW k \in Socket, Claim(k) PROVE SessionsTypeOK'
  BY <1>13 DEF Claim, SessionsTypeOK, Step, Remove, Stopped, Claimable
<1>14. ASSUME NEW k \in Socket, StreamOver(k) PROVE SessionsTypeOK'
  BY <1>14 DEF StreamOver, SessionsTypeOK, Step
<1>15. ASSUME NEW k \in Socket, Finish(k) PROVE SessionsTypeOK'
  BY <1>15 DEF Finish, SessionsTypeOK, Step, Stopped
<1>16. CASE UNCHANGED sessionVars
  BY <1>16 DEF sessionVars, SessionsTypeOK
<1> QED
  BY <1>1, <1>2, <1>3, <1>4, <1>5, <1>6, <1>7, <1>8, <1>9, <1>10, <1>11, <1>12, <1>13,
     <1>14, <1>15, <1>16 DEF SessionsNext, Timers, Handler

\* Every variable keeps its type.
THEOREM SessionsTyped == SessionsSpec => []SessionsTypeOK
<1>1. SessionsInit => SessionsTypeOK
  BY DEF SessionsInit, SessionsTypeOK
<1> QED
  BY <1>1, TypedNext, PTL DEF SessionsSpec

-----------------------------------------------------------------------------
\* Who streams has claimed, and a session is claimed once.
Claimed ==
  /\ \A k \in Socket : at[k] \in {"stream", "ended"} => of[k] \in connected
  /\ \A k, l \in Socket :
       at[k] \in {"stream", "ended"} /\ at[l] \in {"stream", "ended"} /\ of[k] = of[l] => k = l

\* A step lets no second socket stream a session.
LEMMA ClaimedNext == SessionsTypeOK /\ Claimed /\ [SessionsNext]_sessionVars => Claimed'
<1> SUFFICES ASSUME SessionsTypeOK, Claimed, [SessionsNext]_sessionVars PROVE Claimed'
  OBVIOUS
<1>1. ASSUME NEW s \in Session, Create(s) PROVE Claimed'
  BY <1>1 DEF Create, Claimed, SessionsTypeOK
<1>2. ASSUME NEW s \in Session, Lose(s) PROVE Claimed'
  BY <1>2 DEF Lose, Claimed, SessionsTypeOK
<1>3. ASSUME NEW s \in Session, Delete(s) PROVE Claimed'
  BY <1>3 DEF Delete, Claimed, SessionsTypeOK, Remove, Stopped
<1>4. ASSUME NEW s \in Session, Overdue(s) PROVE Claimed'
  BY <1>4 DEF Overdue, Claimed, SessionsTypeOK
<1>5. ASSUME NEW s \in Session, Fire(s) PROVE Claimed'
  BY <1>5 DEF Fire, Claimed, SessionsTypeOK
<1>6. ASSUME NEW s \in Session, Expire(s) PROVE Claimed'
  BY <1>6 DEF Expire, Claimed, SessionsTypeOK, Expirable
<1>7. ASSUME NEW s \in Session, CloseAttachment(s) PROVE Claimed'
  BY <1>7 DEF CloseAttachment, Claimed, SessionsTypeOK
<1>8. ASSUME NEW k \in Socket, Refuse(k) PROVE Claimed'
  BY <1>8 DEF Refuse, Claimed, SessionsTypeOK, Step
<1>9. ASSUME NEW k \in Socket, Accept(k) PROVE Claimed'
  BY <1>9 DEF Accept, Claimed, SessionsTypeOK, Step
<1>10. ASSUME NEW k \in Socket, Hello(k) PROVE Claimed'
  BY <1>10 DEF Hello, Claimed, SessionsTypeOK, Step
<1>11. ASSUME NEW k \in Socket, Hangup(k) PROVE Claimed'
  BY <1>11 DEF Hangup, Claimed, SessionsTypeOK, Step
<1>12. ASSUME NEW k \in Socket, BadHello(k) PROVE Claimed'
  BY <1>12 DEF BadHello, Claimed, SessionsTypeOK, Step, Remove, Stopped
<1>13. ASSUME NEW k \in Socket, Claim(k) PROVE Claimed'
  BY <1>13 DEF Claim, Claimed, SessionsTypeOK, Step, Remove, Stopped, Claimable
<1>14. ASSUME NEW k \in Socket, StreamOver(k) PROVE Claimed'
  BY <1>14 DEF StreamOver, Claimed, SessionsTypeOK, Step
<1>15. ASSUME NEW k \in Socket, Finish(k) PROVE Claimed'
  BY <1>15 DEF Finish, Claimed, SessionsTypeOK, Step, Stopped
<1>16. CASE UNCHANGED sessionVars
  BY <1>16 DEF sessionVars, Claimed, SessionsTypeOK
<1> QED
  BY <1>1, <1>2, <1>3, <1>4, <1>5, <1>6, <1>7, <1>8, <1>9, <1>10, <1>11, <1>12, <1>13,
     <1>14, <1>15, <1>16 DEF SessionsNext, Timers, Handler

\* However many sockets present the token at once, one of them streams the session.
THEOREM StreamedOnce == SessionsSpec => []OneStream
<1>1. SessionsInit => Claimed
  BY DEF SessionsInit, Claimed
<1>2. Claimed => OneStream
  BY DEF Claimed, OneStream, Streaming
<1> QED
  BY <1>1, <1>2, SessionsTyped, ClaimedNext, PTL DEF SessionsSpec

-----------------------------------------------------------------------------
\* A timer that fired finds its session overdue: it will not leave it alone.
Fired == \A s \in Session : timer[s] = "fired" => s \in overdue

\* Somebody will close it (NobodyForgets, for one session).
Minded(s) ==
  \/ closers[s] > 0
  \/ \E k \in Socket : of[k] = s /\ at[k] \in {"stream", "ended"}
  \/ s \in items /\ s \notin connected /\ timer[s] # "off"

MInv == Fired /\ \A s \in Session : s \in held => Minded(s)

\* Whoever takes an attachment from its keeper becomes its keeper.
LEMMA MindedNext == SessionsTypeOK /\ MInv /\ [SessionsNext]_sessionVars => MInv'
<1> SUFFICES ASSUME SessionsTypeOK, MInv, [SessionsNext]_sessionVars PROVE MInv'
  OBVIOUS
<1>1. ASSUME NEW s \in Session, Create(s) PROVE MInv'
  BY <1>1 DEF Create, MInv, Fired, Minded, SessionsTypeOK
<1>2. ASSUME NEW s \in Session, Lose(s) PROVE MInv'
  BY <1>2 DEF Lose, MInv, Fired, Minded, SessionsTypeOK
<1>3. ASSUME NEW s \in Session, Delete(s) PROVE MInv'
  BY <1>3 DEF Delete, MInv, Fired, Minded, SessionsTypeOK, Remove, Stopped
<1>4. ASSUME NEW s \in Session, Overdue(s) PROVE MInv'
  BY <1>4 DEF Overdue, MInv, Fired, Minded, SessionsTypeOK
<1>5. ASSUME NEW s \in Session, Fire(s) PROVE MInv'
  BY <1>5 DEF Fire, MInv, Fired, Minded, SessionsTypeOK
<1>6. ASSUME NEW s \in Session, Expire(s) PROVE MInv'
  BY <1>6 DEF Expire, MInv, Fired, Minded, SessionsTypeOK, Expirable
<1>7. ASSUME NEW s \in Session, CloseAttachment(s) PROVE MInv'
  BY <1>7 DEF CloseAttachment, MInv, Fired, Minded, SessionsTypeOK
<1>8. ASSUME NEW k \in Socket, Refuse(k) PROVE MInv'
  BY <1>8 DEF Refuse, MInv, Fired, Minded, SessionsTypeOK, Step
<1>9. ASSUME NEW k \in Socket, Accept(k) PROVE MInv'
  BY <1>9 DEF Accept, MInv, Fired, Minded, SessionsTypeOK, Step
<1>10. ASSUME NEW k \in Socket, Hello(k) PROVE MInv'
  BY <1>10 DEF Hello, MInv, Fired, Minded, SessionsTypeOK, Step
<1>11. ASSUME NEW k \in Socket, Hangup(k) PROVE MInv'
  BY <1>11 DEF Hangup, MInv, Fired, Minded, SessionsTypeOK, Step
<1>12. ASSUME NEW k \in Socket, BadHello(k) PROVE MInv'
  BY <1>12 DEF BadHello, MInv, Fired, Minded, SessionsTypeOK, Step, Remove, Stopped
<1>13. ASSUME NEW k \in Socket, Claim(k) PROVE MInv'
  BY <1>13 DEF Claim, MInv, Fired, Minded, SessionsTypeOK, Step, Remove, Stopped, Claimable
<1>14. ASSUME NEW k \in Socket, StreamOver(k) PROVE MInv'
  BY <1>14 DEF StreamOver, MInv, Fired, Minded, SessionsTypeOK, Step
<1>15. ASSUME NEW k \in Socket, Finish(k) PROVE MInv'
  BY <1>15 DEF Finish, MInv, Fired, Minded, SessionsTypeOK, Step, Stopped
<1>16. CASE UNCHANGED sessionVars
  BY <1>16 DEF sessionVars, MInv, Fired, Minded, SessionsTypeOK
<1> QED
  BY <1>1, <1>2, <1>3, <1>4, <1>5, <1>6, <1>7, <1>8, <1>9, <1>10, <1>11, <1>12, <1>13,
     <1>14, <1>15, <1>16 DEF SessionsNext, Timers, Handler

\* An open attachment always has somebody who will close it, for any timers, sockets and tokens.
THEOREM AttachmentsMinded == SessionsSpec => []NobodyForgets
<1>1. SessionsInit => MInv
  BY DEF SessionsInit, MInv, Fired
<1>2. SessionsTypeOK /\ MInv => NobodyForgets
  BY DEF SessionsTypeOK, MInv, Minded, NobodyForgets, Streaming
<1> QED
  BY <1>1, <1>2, SessionsTyped, MindedNext, PTL DEF SessionsSpec
=============================================================================
