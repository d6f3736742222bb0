----------------------------- MODULE TftpServer -----------------------------
(***************************************************************************)
(* The TFTP server of one boot (internal/tftp): Serve reads requests from  *)
(* one socket and starts a goroutine per transfer; transfers report their  *)
(* start and their end on a bounded channel; a canceled context closes the *)
(* socket and makes the transfers fail; Serve then waits for all of them.  *)
(*                                                                         *)
(* The board is external: it asks for any file from any of its ports, as   *)
(* often as it likes, and a transfer to it may succeed or fail at any time.*)
(* Requests from other addresses, malformed ones and duplicates of an      *)
(* active one are answered without a change of state.                      *)
(***************************************************************************)
EXTENDS Integers, Sequences, FiniteSets

CONSTANTS
  File,        \* the files the boot waits for (others change nothing it sees)
  Port,        \* ports the board sends requests from
  EventBuffer  \* capacity of Server.events (64)

ASSUME ServerOK == EventBuffer \in Nat \ {0}

\* Server.active names a transfer by its remote address and file.
Key == Port \X File
FileOf(k) == k[2]

VARIABLES
  canceled,  \* the context of the run: timed out, canceled from outside, or by the runner
  closed,    \* the server's socket is closed
  serve,     \* Serve: reading, waiting for its transfers, or returned with nil or an error
  transfer,  \* of each key: none, start and completed/failed (an event to report), serving, leave
  events,    \* Server.events: <<status, file>>
  sent       \* history: files a transfer sent completely

server == <<closed, serve, transfer, events, sent>>

ServerTypeOK ==
  /\ canceled \in BOOLEAN /\ closed \in BOOLEAN
  /\ serve \in {"reading", "waiting", "stopped", "error"}
  /\ transfer \in [Key -> {"none", "start", "serving", "completed", "failed", "leave"}]
  /\ events \in Seq({"started", "completed", "failed"} \X File)
  /\ Len(events) <= EventBuffer
  /\ sent \subseteq File

ServerInit ==
  /\ canceled = FALSE /\ closed = FALSE
  /\ serve = "reading"
  /\ transfer = [k \in Key |-> "none"]
  /\ events = <<>> /\ sent = {}

-----------------------------------------------------------------------------

Inactive(k) == transfer[k] = "none"

Accept(k) ==
  /\ serve = "reading" /\ ~closed /\ Inactive(k)
  /\ transfer' = [transfer EXCEPT ![k] = "start"]
  /\ UNCHANGED <<canceled, closed, serve, events, sent>>

\* A send on a channel waits for room.
Room == Len(events) < EventBuffer
Emit(status, k) == Room /\ events' = Append(events, <<status, FileOf(k)>>)

ReportStart(k) ==
  /\ transfer[k] = "start"
  /\ Emit("started", k)
  /\ transfer' = [transfer EXCEPT ![k] = "serving"]
  /\ UNCHANGED <<canceled, closed, serve, sent>>

TransferEnds(k, outcome) ==
  /\ transfer[k] = "serving"
  /\ transfer' = [transfer EXCEPT ![k] = outcome]
  /\ sent' = IF outcome = "completed" THEN sent \cup {FileOf(k)} ELSE sent
  /\ UNCHANGED <<canceled, closed, serve, events>>

ReportEnd(k) ==
  /\ transfer[k] \in {"completed", "failed"}
  /\ Emit(transfer[k], k)
  /\ transfer' = [transfer EXCEPT ![k] = "leave"]
  /\ UNCHANGED <<canceled, closed, serve, sent>>

\* The key is active no more, and Serve's wait group has one member less.
Leave(k) ==
  /\ transfer[k] = "leave"
  /\ transfer' = [transfer EXCEPT ![k] = "none"]
  /\ UNCHANGED <<canceled, closed, serve, events, sent>>

\* The goroutine Serve starts: a canceled context closes the socket.
CloseOnCancel ==
  /\ canceled /\ ~closed
  /\ closed' = TRUE
  /\ UNCHANGED <<canceled, serve, transfer, events, sent>>

\* A read error ends Serve; one caused by the end of the run waits first.
ReadFails ==
  /\ serve = "reading"
  /\ serve' = IF canceled \/ closed THEN "waiting" ELSE "error"
  /\ UNCHANGED <<canceled, closed, transfer, events, sent>>

TransfersDone_Unwaited == TRUE
TransfersDone == \A k \in Key : transfer[k] = "none"
Waited ==
  /\ serve = "waiting" /\ TransfersDone
  /\ serve' = "stopped"
  /\ UNCHANGED <<canceled, closed, transfer, events, sent>>

Transfer(k) ==
  ReportStart(k) \/ (\E o \in {"completed", "failed"} : TransferEnds(k, o)) \/ ReportEnd(k) \/ Leave(k)

ServerNext ==
  \/ \E k \in Key : Accept(k) \/ Transfer(k)
  \/ CloseOnCancel \/ ReadFails \/ Waited
=============================================================================
