--------------------------- MODULE SerialSessions ---------------------------
(***************************************************************************)
(* The browser's serial sessions (internal/httpapi/serial.go): a request   *)
(* attaches to the console and leaves a session under an identifier and a  *)
(* token that is good once; a websocket claims it, streams, and ends it; a *)
(* timer closes a session nobody claims.  Whoever takes a session out of   *)
(* the map closes its attachment after the mutex is released.              *)
(*                                                                         *)
(* An attachment that stays open with nobody to close it keeps its port,   *)
(* and a controller's lease with it, until the daemon is restarted.        *)
(***************************************************************************)
EXTENDS Integers

CONSTANTS
  Session,   \* identifiers, each handed out once
  Socket     \* websocket connections

VARIABLES
  born,       \* sessions ever created
  items,      \* serialSessions.items
  connected,  \* sessions whose Connected is set
  overdue,    \* sessions whose ExpiresUTC has passed
  timer,      \* timer[s]: "off", "armed", or "fired": its function is about to run
  held,       \* sessions whose attachment is open
  closers,    \* closers[s]: handlers and timers about to call Attachment.Close
  at,         \* at[k]: control point of k's handler
  of,         \* of[k]: the session of k's path
  good        \* sockets that present the session's token

sessionVars == <<born, items, connected, overdue, timer, held, closers, at, of, good>>

SessionsTypeOK ==
  /\ born \subseteq Session /\ items \subseteq born /\ connected \subseteq born /\ overdue \subseteq born
  /\ held \subseteq born /\ closers \in [Session -> Nat]
  /\ timer \in [Session -> {"off", "armed", "fired"}]
  /\ at \in [Socket -> {"idle", "hello", "claim", "stream", "ended", "gone"}]
  /\ of \in [Socket -> Session] /\ good \subseteq Socket

SessionsInit ==
  /\ born = {} /\ items = {} /\ connected = {} /\ overdue = {} /\ held = {}
  /\ timer = [s \in Session |-> "off"] /\ closers = [s \in Session |-> 0]
  /\ at = [k \in Socket |-> "idle"] /\ of \in [Socket -> Session] /\ good = {}

-----------------------------------------------------------------------------
(* The operations of the map, each under its mutex.                         *)

\* createSerialSession, with add.
Create(s) ==
  /\ s \notin born
  /\ born' = born \cup {s} /\ held' = held \cup {s} /\ items' = items \cup {s}
  /\ timer' = [timer EXCEPT ![s] = "armed"]
  /\ UNCHANGED <<connected, overdue, closers, at, of, good>>

\* remove: who gets the session closes its attachment; Stop is too late for a timer that fired.
Stopped(s) == [timer EXCEPT ![s] = IF @ = "armed" THEN "off" ELSE @]
Remove(s) ==
  /\ items' = items \ {s}
  /\ IF s \in items THEN timer' = Stopped(s) /\ closers' = [closers EXCEPT ![s] = @ + 1]
     ELSE UNCHANGED <<timer, closers>>

Pending(s) == s \in items /\ s \notin connected /\ s \notin overdue

Claimable(k) == of[k] \in items /\ of[k] \notin connected /\ of[k] \notin overdue /\ k \in good

Expirable(s) == s \in items /\ s \notin connected /\ s \in overdue

\* A call of Attachment.Close; closing twice is harmless.
CloseAttachment(s) ==
  /\ closers[s] > 0
  /\ closers' = [closers EXCEPT ![s] = @ - 1] /\ held' = held \ {s}
  /\ UNCHANGED <<born, items, connected, overdue, timer, at, of, good>>

\* The console manager ends the attachment: the port is gone, or its stream is too slow.
Lose(s) ==
  /\ s \in held /\ held' = held \ {s}
  /\ UNCHANGED <<born, items, connected, overdue, timer, closers, at, of, good>>

Delete(s) ==
  /\ s \in items /\ Remove(s)
  /\ UNCHANGED <<born, connected, overdue, held, at, of, good>>

-----------------------------------------------------------------------------
(* Time.                                                                    *)

Overdue(s) ==
  /\ s \in born \ overdue /\ overdue' = overdue \cup {s}
  /\ UNCHANGED <<born, items, connected, timer, held, closers, at, of, good>>

Fire(s) ==
  /\ timer[s] = "armed" /\ s \in overdue /\ timer' = [timer EXCEPT ![s] = "fired"]
  /\ UNCHANGED <<born, items, connected, overdue, held, closers, at, of, good>>

\* expire, in the timer's function.
Expire(s) ==
  /\ timer[s] = "fired" /\ timer' = [timer EXCEPT ![s] = "off"]
  /\ IF Expirable(s) THEN items' = items \ {s} /\ closers' = [closers EXCEPT ![s] = @ + 1]
     ELSE UNCHANGED <<items, closers>>
  /\ UNCHANGED <<born, connected, overdue, held, at, of, good>>

-----------------------------------------------------------------------------
(* A websocket: streamSerialSession.                                        *)

Step(k, next) == at' = [at EXCEPT ![k] = next] /\ UNCHANGED <<born, overdue, of>>

Refuse(k) ==
  /\ at[k] = "idle" /\ of[k] \in born /\ ~Pending(of[k])
  /\ Step(k, "gone") /\ UNCHANGED <<items, connected, timer, held, closers, good>>

Accept(k) ==
  /\ at[k] = "idle" /\ Pending(of[k])
  /\ Step(k, "hello") /\ UNCHANGED <<items, connected, timer, held, closers, good>>

\* No message within serialAuthTTL, or not one that asks to attach.
BadHello(k) ==
  /\ at[k] = "hello" /\ Remove(of[k])
  /\ Step(k, "gone") /\ UNCHANGED <<connected, held, good>>

Hello(k) ==
  /\ at[k] = "hello" /\ good' \in {good, good \cup {k}}
  /\ Step(k, "claim") /\ UNCHANGED <<items, connected, timer, held, closers>>

\* claim: the token is good once; a socket that comes second ends the session of the first.
Claim(k) ==
  /\ at[k] = "claim"
  /\ IF Claimable(k)
     THEN /\ connected' = connected \cup {of[k]} /\ timer' = Stopped(of[k])
          /\ Step(k, "stream") /\ UNCHANGED <<items, closers>>
     ELSE Remove(of[k]) /\ Step(k, "gone") /\ UNCHANGED connected
  /\ UNCHANGED <<held, good>>

\* The client leaves, sends what it may not, or reads too slowly.
Hangup(k) ==
  /\ at[k] = "stream"
  /\ Step(k, "ended") /\ UNCHANGED <<items, connected, timer, held, closers, good>>

\* The attachment ended: its channel is closed.
StreamOver(k) ==
  /\ at[k] = "stream" /\ of[k] \notin held
  /\ Step(k, "ended") /\ UNCHANGED <<items, connected, timer, held, closers, good>>

\* The deferred remove and Close: a handler closes its session's attachment even when somebody
\* else has taken the session out of the map.
Finish_NoClose(k) ==
  /\ at[k] = "ended" /\ items' = items \ {of[k]}
  /\ timer' = IF of[k] \in items THEN Stopped(of[k]) ELSE timer
  /\ closers' = closers
  /\ Step(k, "gone") /\ UNCHANGED <<connected, held, good>>
Finish(k) ==
  /\ at[k] = "ended" /\ items' = items \ {of[k]}
  /\ timer' = IF of[k] \in items THEN Stopped(of[k]) ELSE timer
  /\ closers' = [closers EXCEPT ![of[k]] = @ + 1]
  /\ Step(k, "gone") /\ UNCHANGED <<connected, held, good>>

-----------------------------------------------------------------------------
Timers(s) == Overdue(s) \/ Fire(s) \/ Expire(s) \/ CloseAttachment(s)
Handler(k) == BadHello(k) \/ Claim(k) \/ StreamOver(k) \/ Finish(k)

SessionsNext ==
  \/ \E s \in Session : Create(s) \/ Lose(s) \/ Delete(s) \/ Timers(s)
  \/ \E k \in Socket : Refuse(k) \/ Accept(k) \/ Hello(k) \/ Hangup(k) \/ Handler(k)

SessionsSpec == SessionsInit /\ [][SessionsNext]_sessionVars

\* The clock runs and the runtime schedules timers and handlers; clients owe nothing: the
\* read of the first message has a deadline of its own (BadHello).
FairSessions ==
  /\ SessionsSpec
  /\ \A s \in Session : WF_sessionVars(Overdue(s)) /\ WF_sessionVars(Fire(s)) /\ WF_sessionVars(Expire(s)) /\ WF_sessionVars(CloseAttachment(s))
  /\ \A k \in Socket : WF_sessionVars(Handler(k))

-----------------------------------------------------------------------------
(* Properties.                                                              *)

Streaming(s) == {k \in Socket : of[k] = s /\ at[k] \in {"stream", "ended"}}

\* A session is streamed by one websocket: two that present the token at once never both get the
\* board's input.
OneStream == \A s \in Session : \A k, l \in Streaming(s) : k = l

\* An open attachment always has somebody who will close it: a timer, its stream's handler, or a
\* handler that has just taken it out of the map.
NobodyForgets ==
  \A s \in held :
    \/ closers[s] > 0 \/ Streaming(s) # {}
    \/ s \in items /\ s \notin connected /\ timer[s] # "off"

\* Every attachment is closed in the end, unless a websocket streams it.
AttachmentsEnd == \A s \in Session : s \in held ~> (s \notin held \/ Streaming(s) # {})
=============================================================================
