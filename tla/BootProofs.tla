----------------------------- MODULE BootProofs -----------------------------
(***************************************************************************)
(* The boot for any set of files and ports and any event buffer: what a    *)
(* success means, and what a run that returned has left behind; and one of *)
(* its transfers, for every number of blocks and every width of the block  *)
(* numbers, as long as no packet is late by more than Life of them.        *)
(***************************************************************************)
EXTENDS XilinxRunner, TftpTransfer, SequenceTheorems, TLAPS

Event == {"started", "completed", "failed"} \X File

-----------------------------------------------------------------------------
(* Types.                                                                   *)

\* A report takes the channel's last place at most.
LEMMA EmitType ==
  ASSUME TypeOK, NEW status \in {"started", "completed", "failed"}, NEW k \in Key, Emit(status, k)
  PROVE  events' \in Seq(Event) /\ Len(events') <= EventBuffer
<1>1. <<status, FileOf(k)>> \in Event /\ events \in Seq(Event)
  BY DEF Event, FileOf, Key, TypeOK, ServerTypeOK
<1>2. events' = Append(events, <<status, FileOf(k)>>) /\ Len(events) < EventBuffer
  BY DEF Emit, Room
<1>3. Len(events) \in Nat /\ Len(events') = Len(events) + 1 /\ events' \in Seq(Event)
  BY <1>1, <1>2, AppendProperties, LenProperties
<1> QED
  BY <1>2, <1>3, ServerOK

\* Every variable keeps its type, and no report exceeds the channel.
THEOREM RunnerTyped == Spec => []TypeOK
<1>1. Init => TypeOK
  <2> SUFFICES ASSUME Init PROVE TypeOK
    OBVIOUS
  <2>1. events \in Seq(Event) /\ Len(events) <= EventBuffer
    BY EmptySeq, ServerOK DEF Init, ServerInit
  <2>2. transfer \in [Key -> {"none", "start", "serving", "completed", "failed", "leave"}]
    BY DEF Init, ServerInit
  <2> QED
    BY <2>1, <2>2 DEF Init, ServerInit, TypeOK, ServerTypeOK, Event
<1>2. TypeOK /\ [Next]_vars => TypeOK'
  <2> SUFFICES ASSUME TypeOK, [Next]_vars PROVE TypeOK'
    OBVIOUS
  <2> USE DEF TypeOK, ServerTypeOK, run, monitoring
  <2>1. ASSUME NEW k \in Key, Alone(Accept(k)) PROVE TypeOK'
    BY <2>1 DEF Alone, Accept
  <2>2. ASSUME NEW k \in Key, Alone(ReportStart(k)) PROVE TypeOK'
    <3>1. events' \in Seq(Event) /\ Len(events') <= EventBuffer
      BY <2>2, EmitType DEF Alone, ReportStart
    <3> QED
      BY <2>2, <3>1 DEF Alone, ReportStart, Event
  <2>3. ASSUME NEW k \in Key, NEW o \in {"completed", "failed"}, Alone(TransferEnds(k, o))
        PROVE  TypeOK'
    BY <2>3 DEF Alone, TransferEnds, FileOf, Key
  <2>4. ASSUME NEW k \in Key, Alone(ReportEnd(k)) PROVE TypeOK'
    <3>1. events' \in Seq(Event) /\ Len(events') <= EventBuffer
      BY <2>4, EmitType DEF Alone, ReportEnd
    <3> QED
      BY <2>4, <3>1 DEF Alone, ReportEnd, Event
  <2>5. ASSUME NEW k \in Key, Alone(Leave(k)) PROVE TypeOK'
    BY <2>5 DEF Alone, Leave
  <2>6. ASSUME Alone(CloseOnCancel) \/ Alone(ReadFails) \/ Alone(Waited) PROVE TypeOK'
    BY ZenonT(40), <2>6 DEF Alone, CloseOnCancel, ReadFails, Waited
  <2>7. CASE Expire \/ CancelJob
    BY ZenonT(40), <2>7 DEF Expire, CancelJob, server
  <2>8. CASE Observe
    <3>1. /\ events' = Tail(events) /\ events # <<>> /\ events \in Seq(Event)
          /\ Head(events) \in Event
      BY <2>8, HeadTailProperties DEF Observe, Event
    <3>2. events' \in Seq(Event) /\ Len(events') <= EventBuffer
      BY <3>1, HeadTailProperties, LenProperties, ServerOK
    <3>3. completed' \subseteq File /\ allDone' \in BOOLEAN
      BY <2>8, <3>1 DEF Observe, Event
    <3> QED
      BY <2>8, <3>2, <3>3 DEF Observe, Event
  <2>9. CASE MonitorStops
    BY <2>9 DEF MonitorStops, server
  <2>10. CASE Run
    BY ZenonT(40), <2>10 DEF Run, Phase, Stop, AllTransferred, RunEnded, ServeEnded, JoinServe, Return, server
  <2>11. CASE UNCHANGED vars
    BY <2>11 DEF vars, server
  <2> QED
    BY <2>1, <2>2, <2>3, <2>4, <2>5, <2>6, <2>7, <2>8, <2>9, <2>10, <2>11
    DEF Next, ServerNext, Transfer, Alone
<1> QED
  BY <1>1, <1>2, PTL DEF Spec

-----------------------------------------------------------------------------
(* From the transfer of a file to the success of the run.                   *)

\* A completion reported, counted or about to be reported is that of a file sent,
\* and the run succeeds only by the signal that all are counted.
Counting ==
  /\ completed \subseteq sent /\ (allDone => sent = File)
  /\ \A n \in 1..Len(events) : events[n][1] = "completed" => events[n][2] \in sent
  /\ \A k \in Key : transfer[k] = "completed" => FileOf(k) \in sent
  /\ verdict = "ok" => allDone
  /\ runner \in {"tasks", "xsdb", "wait"} => result = "none"
  /\ result = "ok" => verdict = "ok"

\* The runner passes Serve's end before the monitor's.
Joining ==
  /\ serve = "stopped" => TransfersDone
  /\ runner \in {"joinEvents", "returned"} => serve \in {"stopped", "error"}
  /\ runner = "returned" => closed /\ monitor = "done"

\* A report appended to the channel is either no completion or that of a file sent.
LEMMA EmitCounts ==
  ASSUME TypeOK, Counting, NEW status \in {"started", "completed", "failed"}, NEW k \in Key,
         Emit(status, k), status = "completed" => FileOf(k) \in sent
  PROVE  \A n \in 1..Len(events') : events'[n][1] = "completed" => events'[n][2] \in sent
<1> DEFINE e == <<status, FileOf(k)>>
<1>1. e \in Event /\ events \in Seq(Event) /\ e[1] = status /\ e[2] = FileOf(k)
  BY DEF Event, FileOf, Key, TypeOK, ServerTypeOK
<1>2. events' = Append(events, e)
  BY DEF Emit
<1> HIDE DEF e
<1>3. /\ Len(events) \in Nat /\ Len(events') = Len(events) + 1
      /\ \A n \in 1..Len(events) : events'[n] = events[n]
      /\ events'[Len(events) + 1] = e
  BY <1>1, <1>2, AppendProperties, LenProperties
<1>4. SUFFICES ASSUME NEW n \in 1..Len(events'), events'[n][1] = "completed"
               PROVE  events'[n][2] \in sent
  OBVIOUS
<1>5. CASE n \in 1..Len(events)
  BY <1>3, <1>4, <1>5 DEF Counting
<1>6. CASE n = Len(events) + 1
  BY <1>1, <1>3, <1>4, <1>6
<1> QED
  BY <1>3, <1>5, <1>6

THEOREM RunnerInductive == Spec => [](Counting /\ Joining)
<1>1. Init => Counting /\ Joining
  BY EmptySeq DEF Init, ServerInit, Counting, Joining, TransfersDone
<1>2. TypeOK /\ Counting /\ Joining /\ [Next]_vars => Counting' /\ Joining'
  <2> SUFFICES ASSUME TypeOK, Counting, Joining, [Next]_vars PROVE Counting' /\ Joining'
    OBVIOUS
  <2> USE DEF Joining, run, monitoring, TransfersDone
  <2>1. ASSUME NEW k \in Key, Alone(Accept(k)) PROVE Counting' /\ Joining'
    BY <2>1 DEF Alone, Accept, Counting, TypeOK, ServerTypeOK
  <2>2. ASSUME NEW k \in Key, Alone(ReportStart(k)) PROVE Counting' /\ Joining'
    <3>1. /\ Emit("started", k) /\ transfer[k] = "start"
          /\ transfer' = [transfer EXCEPT ![k] = "serving"]
          /\ UNCHANGED <<closed, serve, sent, run, monitoring>>
      BY <2>2 DEF Alone, ReportStart
    <3>2. \A n \in 1..Len(events') : events'[n][1] = "completed" => events'[n][2] \in sent
      BY <3>1, EmitCounts
    <3> QED
      BY <3>1, <3>2 DEF Counting, TypeOK, ServerTypeOK
  <2>3. ASSUME NEW k \in Key, NEW o \in {"completed", "failed"}, Alone(TransferEnds(k, o))
        PROVE  Counting' /\ Joining'
    <3>1. sent \subseteq sent' /\ sent' \subseteq File
      BY <2>3 DEF Alone, TransferEnds, FileOf, Key, TypeOK, ServerTypeOK
    <3>2. /\ transfer[k] = "serving" /\ transfer' = [transfer EXCEPT ![k] = o]
          /\ o = "completed" => FileOf(k) \in sent'
          /\ UNCHANGED <<closed, serve, events, run, monitoring>>
      BY <2>3 DEF Alone, TransferEnds
    <3>3. Counting'
      BY <3>1, <3>2 DEF Counting, TypeOK, ServerTypeOK
    <3> QED
      BY <3>2, <3>3 DEF TypeOK, ServerTypeOK
  <2>4. ASSUME NEW k \in Key, Alone(ReportEnd(k)) PROVE Counting' /\ Joining'
    <3>1. /\ transfer[k] \in {"completed", "failed"} /\ Emit(transfer[k], k)
          /\ transfer' = [transfer EXCEPT ![k] = "leave"]
          /\ UNCHANGED <<closed, serve, sent, run, monitoring>>
      BY <2>4 DEF Alone, ReportEnd
    <3>2. \A n \in 1..Len(events') : events'[n][1] = "completed" => events'[n][2] \in sent
      BY <3>1, EmitCounts DEF Counting
    <3> QED
      BY <3>1, <3>2 DEF Counting, TypeOK, ServerTypeOK
  <2>5. ASSUME NEW k \in Key, Alone(Leave(k)) PROVE Counting' /\ Joining'
    BY <2>5 DEF Alone, Leave, Counting, TypeOK, ServerTypeOK
  <2>6. ASSUME Alone(CloseOnCancel) \/ Alone(ReadFails) \/ Alone(Waited)
        PROVE  Counting' /\ Joining'
    BY <2>6 DEF Alone, CloseOnCancel, ReadFails, Waited, Counting
  <2>7. CASE Expire \/ CancelJob
    BY <2>7 DEF Expire, CancelJob, server, Counting
  <2>8. CASE Observe
    <3> DEFINE e == Head(events)
    <3>1. /\ events' = Tail(events) /\ events # <<>> /\ events \in Seq(Event)
          /\ UNCHANGED <<closed, serve, transfer, sent, run, monitor>>
      BY <2>8 DEF Observe, TypeOK, ServerTypeOK, Event
    <3>2. /\ Len(events) \in Nat \ {0} /\ e = events[1]
          /\ Len(events') = Len(events) - 1
          /\ \A n \in 1..Len(events') : events'[n] = events[n + 1]
      BY <3>1, EmptySeq, HeadTailProperties
    <3>3. \A n \in 1..Len(events') : n + 1 \in 1..Len(events)
      BY <3>2
    <3>4. e[1] = "completed" => e[2] \in sent
      BY <3>2 DEF Counting
    <3>5. completed' \subseteq sent
      BY <2>8, <3>4 DEF Observe, Counts, Counting
    <3>6. allDone' => sent = File
      BY <2>8, <3>5 DEF Observe, Counts, Counting, TypeOK, ServerTypeOK
    <3>7. allDone => allDone'
      BY <2>8 DEF Observe
    <3> HIDE DEF e
    <3>8. Counting'
      BY <3>1, <3>2, <3>3, <3>5, <3>6, <3>7 DEF Counting
    <3> QED
      BY <3>1, <3>8
  <2>9. CASE MonitorStops
    BY <2>9 DEF MonitorStops, server, Counting
  <2>10. CASE Run
    <3>1. CASE Phase("tasks", "xsdb") \/ Phase("xsdb", "wait")
      BY <3>1 DEF Phase, Stop, server, Counting
    <3>2. CASE AllTransferred \/ RunEnded
      BY <3>2 DEF AllTransferred, RunEnded, Stop, Counting
    <3>3. CASE ServeEnded \/ JoinServe
      BY <3>3 DEF ServeEnded, JoinServe, server, Counting
    <3>4. CASE Return
      BY <3>4 DEF Return, Counting
    <3> QED
      BY <2>10, <3>1, <3>2, <3>3, <3>4 DEF Run
  <2>11. CASE UNCHANGED vars
    BY <2>11 DEF vars, server, Counting
  <2> QED
    BY <2>1, <2>2, <2>3, <2>4, <2>5, <2>6, <2>7, <2>8, <2>9, <2>10, <2>11
    DEF Next, ServerNext, Transfer, Alone
<1> QED
  BY <1>1, <1>2, RunnerTyped, PTL DEF Spec

\* A successful boot has sent every file.
THEOREM SuccessSentAll == Spec => []SuccessMeansAllSent
<1>1. Counting => SuccessMeansAllSent
  BY DEF Counting, SuccessMeansAllSent
<1> QED
  BY <1>1, RunnerInductive, PTL

\* A run that returned has closed its socket and left no goroutine behind, unless
\* the server died of a read error.
THEOREM NothingLeftBehind == Spec => []LeavesNothingBehind
<1>1. Joining => LeavesNothingBehind
  BY DEF Joining, LeavesNothingBehind, TransfersDone
<1> QED
  BY <1>1, RunnerInductive, PTL

-----------------------------------------------------------------------------
(* One transfer (TftpTransfer).                                             *)

\* Two numbers less than BlockMod apart that the wire shows alike are equal.
LEMMA Wrap ==
  ASSUME NEW m \in Int, NEW n \in Int, Same(m, n), m <= n, n - m < BlockMod
  PROVE  m = n
<1> DEFINE q == m \div BlockMod
           p == n \div BlockMod
           r == m % BlockMod
<1>1. BlockMod \in Nat \ {0}
  BY TransferOK
<1>2. q \in Int /\ p \in Int /\ r \in 0..(BlockMod - 1)
  BY <1>1
<1>3. m = BlockMod * q + r /\ n = BlockMod * p + r
  BY <1>1 DEF Same
<1>4. n - m = BlockMod * (p - q)
  BY <1>1, <1>2, <1>3
<1>5. CASE p - q >= 1
  <2>1. BlockMod * (p - q) >= BlockMod
    BY <1>1, <1>2, <1>5
  <2> QED
    BY <1>1, <1>4, <2>1
<1>6. CASE p - q <= -1
  <2>1. BlockMod * (p - q) <= -BlockMod
    BY <1>1, <1>2, <1>6
  <2> QED
    BY <1>1, <1>4, <2>1
<1>7. CASE p = q
  BY <1>2, <1>3, <1>7
<1> QED
  BY <1>2, <1>5, <1>6, <1>7

-----------------------------------------------------------------------------

\* Every variable keeps its type.
THEOREM TransferTyped == TransferSpec => []TransferTypeOK
<1>1. TransferInit => TransferTypeOK
  <2> SUFFICES ASSUME TransferInit PROVE TransferTypeOK
    OBVIOUS
  <2>1. got \in Seq(0..Blocks) /\ Len(got) = 0 /\ net = {}
    BY DEF TransferInit
  <2>2. /\ block \in 0..Blocks /\ attempt \in 0..Retries /\ Len(got) <= Blocks
        /\ phase \in {"send", "receive", "completed", "failed"}
    BY <2>1, TransferOK DEF TransferInit
  <2>3. cut \in BOOLEAN /\ ready \in BOOLEAN
    BY Zenon DEF TransferInit
  <2> QED
    BY <2>1, <2>2, <2>3 DEF TransferTypeOK
<1>2. TransferTypeOK /\ [TransferNext]_transferVars => TransferTypeOK'
  <2> SUFFICES ASSUME TransferTypeOK, [TransferNext]_transferVars PROVE TransferTypeOK'
    OBVIOUS
  <2> USE TransferOK DEF TransferTypeOK
  <2>1. CASE Send
    BY <2>1 DEF Send, Unexhausted
  <2>2. CASE Timeout
    BY <2>2 DEF Timeout
  <2>3. CASE Fails
    BY <2>3 DEF Fails
  <2>4. CASE Cancel
    BY <2>4 DEF Cancel
  <2>5. CASE TakeOptions
    BY <2>5 DEF TakeOptions, Reply
  <2>6. CASE GiveUp
    BY <2>6 DEF GiveUp, Reply
  <2>7. ASSUME NEW n \in 0..Blocks, Acknowledged(n) PROVE TransferTypeOK'
    BY <2>7 DEF Acknowledged
  <2>8. ASSUME NEW n \in 0..Blocks, TakeBlock(n) PROVE TransferTypeOK'
    BY <2>8 DEF TakeBlock, Reply
  <2>9. ASSUME NEW n \in 0..Blocks, RepeatAck(n) PROVE TransferTypeOK'
    BY <2>9 DEF RepeatAck, Reply
  <2>10. ASSUME NEW p \in net, Lose(p) PROVE TransferTypeOK'
    BY <2>10 DEF Lose
  <2>11. CASE UNCHANGED transferVars
    BY <2>11 DEF transferVars
  <2> QED
    BY <2>1, <2>2, <2>3, <2>4, <2>5, <2>6, <2>7, <2>8, <2>9, <2>10, <2>11 DEF TransferNext
<1> QED
  BY <1>1, <1>2, PTL DEF TransferSpec

\* What every packet under way says of the two ends.
Packets ==
  /\ \A n \in 0..Blocks : <<"data", n>> \in net => n <= block /\ block - n <= Life
  /\ \A n \in 0..Blocks : <<"ack", n>> \in net =>
       n <= Len(got) /\ block - n <= Life /\ ready

Progress ==
  /\ Lockstep /\ BlocksInOrder /\ CompletedMeansReceived
  /\ block > 0 => ready
  /\ Packets

\* An acknowledgement that looks current is current, and so is a block.
LEMMA CurrentAck ==
  ASSUME TransferTypeOK, Progress, NEW n \in 0..Blocks, <<"ack", n>> \in net, Same(n, block)
  PROVE  n = block /\ Len(got) = block /\ ready
<1>1. n <= Len(got) /\ block - n <= Life /\ ready /\ Len(got) <= block
  BY DEF Progress, Packets, Lockstep, TransferTypeOK
<1>2. n \in Int /\ block \in Int /\ Len(got) \in Int /\ n <= block /\ block - n < BlockMod
  BY <1>1, TransferOK DEF TransferTypeOK
<1>3. n = block
  BY <1>2, Wrap
<1> QED
  BY <1>1, <1>2, <1>3

LEMMA CurrentBlock ==
  ASSUME TransferTypeOK, Progress, NEW n \in 0..Blocks, <<"data", n>> \in net, Same(n, Len(got) + 1)
  PROVE  n = Len(got) + 1 /\ n = block
<1>1. n <= block /\ block - n <= Life /\ block <= Len(got) + 1 /\ Len(got) <= block
  BY DEF Progress, Packets, Lockstep, TransferTypeOK
<1>2. /\ n \in Int /\ Len(got) + 1 \in Int /\ n <= Len(got) + 1
      /\ (Len(got) + 1) - n < BlockMod
  BY <1>1, TransferOK DEF TransferTypeOK
<1>3. n = Len(got) + 1
  BY <1>2, Wrap
<1> QED
  BY <1>1, <1>3, TransferOK DEF TransferTypeOK

LEMMA RepeatedBlock ==
  ASSUME TransferTypeOK, Progress, NEW n \in 0..Blocks, <<"data", n>> \in net, Same(n, Len(got))
  PROVE  n = Len(got)
<1>1. n <= block /\ block - n <= Life /\ block <= Len(got) + 1 /\ Len(got) <= block
  BY DEF Progress, Packets, Lockstep, TransferTypeOK
<1>2. n \in Int /\ Len(got) \in Int /\ BlockMod >= 2
  BY TransferOK DEF TransferTypeOK
<1>3. CASE n <= Len(got)
  <2>1. Len(got) - n < BlockMod
    BY <1>1, <1>2, TransferOK DEF TransferTypeOK
  <2> QED
    BY <1>2, <1>3, <2>1, Wrap
<1>4. CASE n > Len(got)
  <2>1. n - Len(got) < BlockMod /\ Len(got) <= n
    BY <1>1, <1>2, <1>4, TransferOK DEF TransferTypeOK
  <2>2. Same(Len(got), n)
    BY DEF Same
  <2> QED
    BY <1>2, <2>1, <2>2, Wrap
<1> QED
  BY <1>2, <1>3, <1>4

\* The two ends advance together.
THEOREM ProgressInductive == TransferSpec => []Progress
<1>1. TransferInit => Progress
  <2> SUFFICES ASSUME TransferInit PROVE Progress
    OBVIOUS
  <2>1. Len(got) = 0 /\ net = {} /\ phase = "send" /\ block \in {0, 1}
    BY DEF TransferInit
  <2>2. block = 1 => ready
    BY Zenon DEF TransferInit
  <2> QED
    BY <2>1, <2>2 DEF Progress, Packets, Lockstep, BlocksInOrder, CompletedMeansReceived
<1>2. TransferTypeOK /\ TransferTypeOK' /\ Progress /\ [TransferNext]_transferVars => Progress'
  <2> SUFFICES ASSUME TransferTypeOK, TransferTypeOK', Progress, [TransferNext]_transferVars PROVE Progress'
    OBVIOUS
  <2> USE TransferOK DEF TransferTypeOK, Progress, Packets, Lockstep, BlocksInOrder,
                         CompletedMeansReceived
  <2>1. CASE Send
    BY <2>1 DEF Send
  <2>2. CASE Timeout
    BY <2>2 DEF Timeout
  <2>3. CASE Fails
    BY <2>3 DEF Fails
  <2>4. CASE Cancel
    BY <2>4 DEF Cancel
  <2>5. CASE TakeOptions
    BY <2>5 DEF TakeOptions, Reply
  <2>6. CASE GiveUp
    BY <2>6 DEF GiveUp, Reply
  <2>7. ASSUME NEW n \in 0..Blocks, Acknowledged(n) PROVE Progress'
    <3>1. n = block /\ Len(got) = block /\ ready
      BY <2>7, CurrentAck DEF Acknowledged, Expected
    <3>2. CASE block = Blocks
      BY <2>7, <3>1, <3>2 DEF Acknowledged
    <3>3. CASE block # Blocks
      <4>1. /\ phase' = "send" /\ block' = block + 1 /\ got' = got /\ ready' = ready
            /\ net' = {p \in net : block + 1 - p[2] <= Life}
        BY <2>7, <3>3 DEF Acknowledged
      <4>2. \A k \in 0..Blocks : <<"data", k>> \in net' =>
              <<"data", k>> \in net /\ block + 1 - k <= Life
        BY <4>1
      <4>3. \A k \in 0..Blocks : <<"ack", k>> \in net' =>
              <<"ack", k>> \in net /\ block + 1 - k <= Life
        BY <4>1
      <4> QED
        BY <3>1, <4>1, <4>2, <4>3
    <3> QED
      BY <3>2, <3>3
  <2>8. ASSUME NEW n \in 0..Blocks, TakeBlock(n) PROVE Progress'
    <3>1. n = Len(got) + 1 /\ n = block
      BY <2>8, CurrentBlock DEF TakeBlock
    <3>2. got' = Append(got, n) /\ Len(got') = n
      BY <2>8, <3>1 DEF TakeBlock
    <3>3. \A i \in 1..Len(got') : got'[i] = i
      BY <3>1, <3>2
    <3> QED
      BY <2>8, <3>1, <3>2, <3>3 DEF TakeBlock, Reply
  <2>9. ASSUME NEW n \in 0..Blocks, RepeatAck(n) PROVE Progress'
    <3>1. n = Len(got)
      BY <2>9, RepeatedBlock DEF RepeatAck
    <3> QED
      BY <2>9, <3>1 DEF RepeatAck, Reply
  <2>10. ASSUME NEW p \in net, Lose(p) PROVE Progress'
    BY <2>10 DEF Lose
  <2>11. CASE UNCHANGED transferVars
    BY <2>11 DEF transferVars
  <2> QED
    BY <2>1, <2>2, <2>3, <2>4, <2>5, <2>6, <2>7, <2>8, <2>9, <2>10, <2>11 DEF TransferNext
<1> QED
  BY <1>1, <1>2, TransferTyped, PTL DEF TransferSpec

\* The board takes the blocks of the file in order, each once.
THEOREM DeliversInOrder == TransferSpec => []BlocksInOrder
<1>1. Progress => BlocksInOrder
  BY DEF Progress
<1> QED
  BY <1>1, ProgressInductive, PTL

\* The server and the client never differ by more than the packet under way.
THEOREM StaysInLockstep == TransferSpec => []Lockstep
<1>1. Progress => Lockstep
  BY DEF Progress
<1> QED
  BY <1>1, ProgressInductive, PTL

\* A transfer reported completed was received to the last block.
THEOREM CompletedReceived == TransferSpec => []CompletedMeansReceived
<1>1. Progress => CompletedMeansReceived
  BY DEF Progress
<1> QED
  BY <1>1, ProgressInductive, PTL
=============================================================================
