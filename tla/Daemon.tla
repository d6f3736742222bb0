------------------------------- MODULE Daemon -------------------------------
(***************************************************************************)
(* The daemon (internal/daemon, internal/statelock): the lock on its state *)
(* directory, the order in which it opens its parts, and the order in      *)
(* which it takes them down while requests are in flight, an upload's      *)
(* client may have stalled with the storage gate in hand, event streams    *)
(* and serial sessions are open, and a job runs.                           *)
(*                                                                         *)
(* Several processes may be started on one directory.  The parts are       *)
(* reduced to what the order of shutdown depends on: the gate (Storage),   *)
(* the worker (JobManager), a run's end (JobRun), event streams            *)
(* (JobEvents), and the console's port (SerialConsole).                    *)
(***************************************************************************)
EXTENDS Integers

CONSTANTS
  MaxStarts, \* bound: daemon processes started
  Handler,   \* requests in flight
  Nobody

Process == 1..MaxStarts   \* in the order in which they are started

ASSUME DaemonAssumption == MaxStarts \in Nat /\ Nobody \notin Process \cup Handler

VARIABLES
  lock,      \* owner of the lock on the state directory
  at,        \* at[p]: how far Run has come
  told,      \* processes whose shutdownContext is done
  console,   \* processes whose console manager is open
  worker,    \* worker[p]: the job manager's goroutine
  queued,    \* processes with a job in the queue
  fired,     \* processes whose running job is canceled
  gate,      \* gate[p]: the handler that holds it for longer than a step
  serves,    \* serves[h]: the process that handles h
  step,      \* step[h]: the handler's control point
  cut        \* handlers whose connection is closed

jobs == <<console, worker, queued, fired>>
web == <<serves, step, cut>>
vars == <<lock, at, told, jobs, gate, web>>

Starting == {"locked", "store", "console", "jobs"}
Stopping == {"drain", "http", "close jobs", "close console", "unlock", "exit"}

TypeOK ==
  /\ lock \in Process \cup {Nobody}
  /\ at \in [Process -> {"off", "serve", "gone"} \cup Starting \cup Stopping]
  /\ told \subseteq Process /\ console \subseteq Process /\ queued \subseteq Process /\ fired \subseteq Process
  /\ worker \in [Process -> {"none", "idle", "run", "retain", "exited"}]
  /\ gate \in [Process -> Handler \cup {Nobody}]
  /\ serves \in [Handler -> Process \cup {Nobody}]
  /\ step \in [Handler -> {"none", "upload", "body", "store", "submit", "cancel", "sweep", "stream", "attach", "session"}]
  /\ cut \subseteq Handler

Init ==
  /\ lock = Nobody /\ at = [p \in Process |-> "off"] /\ told = {}
  /\ console = {} /\ worker = [p \in Process |-> "none"] /\ queued = {} /\ fired = {}
  /\ gate = [p \in Process |-> Nobody]
  /\ serves = [h \in Handler |-> Nobody] /\ step = [h \in Handler |-> "none"] /\ cut = {}

\* The manager's context is done.
Closed(p) == at[p] \in {"close jobs", "close console", "unlock", "exit"}

Handlers(p) == {h \in Handler : serves[h] = p}

\* A serial session has taken its connection over from the server (websocket.Accept), which neither
\* waits for it nor closes it any more.
Awaited(p) == {h \in Handlers(p) : step[h] # "session"}

Go(p, next) == at' = [at EXCEPT ![p] = next]

-----------------------------------------------------------------------------
(* Start: each part may fail to open, and Run then takes down what is open. *)

Acquire_Any(p) == TRUE
Acquire(p) == lock = Nobody

Begin(p) ==
  /\ at[p] = "off" /\ \A q \in Process : q < p => at[q] # "off"
  /\ IF Acquire(p) THEN lock' = p /\ Go(p, "locked") ELSE Go(p, "gone") /\ UNCHANGED lock
  /\ UNCHANGED <<told, jobs, gate, web>>

\* Where Run's deferred calls begin, by what it has opened.
Unwind == [locked |-> "unlock", store |-> "unlock", console |-> "close console", jobs |-> "close jobs"]

OpenFails(p) ==
  /\ at[p] \in Starting /\ Go(p, Unwind[at[p]])
  /\ UNCHANGED <<lock, told, jobs, gate, web>>

OpenStore(p) ==
  /\ at[p] = "locked" /\ Go(p, "store")
  /\ UNCHANGED <<lock, told, jobs, gate, web>>

OpenConsole(p) ==
  /\ at[p] = "store" /\ Go(p, "console") /\ console' = console \cup {p}
  /\ UNCHANGED <<lock, told, worker, queued, fired, gate, web>>

OpenJobs(p) ==
  /\ at[p] = "console" /\ Go(p, "jobs") /\ worker' = [worker EXCEPT ![p] = "idle"]
  /\ UNCHANGED <<lock, told, console, queued, fired, gate, web>>

Listen(p) ==
  /\ at[p] = "jobs" /\ Go(p, "serve")
  /\ UNCHANGED <<lock, told, jobs, gate, web>>

-----------------------------------------------------------------------------
(* Stop: shutdownContext or a failed Serve, then the deferred calls.        *)

\* Later signals find Run past looking at the context.
Signal(p) ==
  /\ at[p] \in Starting \cup {"serve"} /\ told' = told \cup {p}
  /\ UNCHANGED <<lock, at, jobs, gate, web>>

Drain(p) ==
  /\ at[p] = "serve" /\ p \in told /\ Go(p, "drain")
  /\ UNCHANGED <<lock, told, jobs, gate, web>>

ServeFails(p) ==
  /\ at[p] = "serve" /\ Go(p, "http")
  /\ UNCHANGED <<lock, told, jobs, gate, web>>

\* httpServer.Shutdown: until the last of the awaited handlers has returned or ten seconds have
\* passed, whichever is first; Run goes on alike, to return nothing or an error.
Shutdown(p) ==
  /\ at[p] = "drain" /\ Go(p, "http")
  /\ UNCHANGED <<lock, told, jobs, gate, web>>

\* httpServer.Close: the connections it knows of, not the handlers.
CutBy_Listener(p) == {}
CutBy(p) == Awaited(p)

CloseHTTP(p) ==
  /\ at[p] = "http" /\ cut' = cut \cup CutBy(p) /\ Go(p, "close jobs")
  /\ UNCHANGED <<lock, told, jobs, gate, serves, step>>

\* The deferred calls run last to first.
Then(p) ==
  CASE at[p] = "close jobs" -> "close console" [] at[p] = "close console" -> "unlock" [] OTHER -> "exit"

\* jobManager.Close: cancel everything, and wait for the worker.
CancelJobs(p) ==
  /\ at[p] = "close jobs" /\ worker[p] = "run" /\ p \notin fired /\ fired' = fired \cup {p}
  /\ UNCHANGED <<lock, at, told, console, worker, queued, gate, web>>

Waited_Not(p) == TRUE
Waited(p) == worker[p] = "exited"

CloseJobs(p) ==
  /\ at[p] = "close jobs" /\ Waited(p) /\ Go(p, Then(p))
  /\ UNCHANGED <<lock, told, jobs, gate, web>>

CloseConsole(p) ==
  /\ at[p] = "close console" /\ console' = console \ {p} /\ Go(p, Then(p))
  /\ UNCHANGED <<lock, told, worker, queued, fired, gate, web>>

Unlock(p) ==
  /\ at[p] = "unlock" /\ lock' = Nobody /\ Go(p, Then(p))
  /\ UNCHANGED <<told, jobs, gate, web>>

\* The process is gone, with whatever still ran in it; the kernel drops the lock.
Vanish(p) ==
  /\ Go(p, "gone") /\ lock' = IF lock = p THEN Nobody ELSE lock
  /\ console' = console \ {p} /\ worker' = [worker EXCEPT ![p] = "none"]
  /\ queued' = queued \ {p} /\ fired' = fired \ {p} /\ gate' = [gate EXCEPT ![p] = Nobody]
  /\ serves' = [h \in Handler |-> IF serves[h] = p THEN Nobody ELSE serves[h]]
  /\ step' = [h \in Handler |-> IF serves[h] = p THEN "none" ELSE step[h]]
  /\ cut' = cut \ Handlers(p) /\ told' = told \ {p}

Exit(p) == at[p] = "exit" /\ Vanish(p)

Kill(p) == at[p] \notin {"off", "gone"} /\ Vanish(p)

-----------------------------------------------------------------------------
(* Requests.                                                                *)

Quiet == UNCHANGED <<lock, at, told, console>>
Take(p, who) == gate[p] = Nobody /\ gate' = [gate EXCEPT ![p] = who]
Drop(p) == gate' = [gate EXCEPT ![p] = Nobody]

Request(h, p) ==
  /\ at[p] = "serve" /\ serves[h] = Nobody
  /\ serves' = [serves EXCEPT ![h] = p]
  /\ \E kind \in {"upload", "submit", "cancel", "attach"} \cup (IF worker[p] = "run" THEN {"stream"} ELSE {}) :
       step' = [step EXCEPT ![h] = kind]
  /\ Quiet /\ UNCHANGED <<worker, queued, fired, gate, cut>>

Answered(h) ==
  /\ serves' = [serves EXCEPT ![h] = Nobody] /\ step' = [step EXCEPT ![h] = "none"] /\ cut' = cut \ {h}

Turn(h, next) == step' = [step EXCEPT ![h] = next] /\ UNCHANGED <<serves, cut>>

\* The client of a request that waits for it goes away; it may also just stall.
Leave(h) ==
  /\ step[h] \in {"upload", "body", "stream", "attach", "session"} /\ cut' = cut \cup {h}
  /\ Quiet /\ UNCHANGED <<worker, queued, fired, gate, serves, step>>

\* Import holds the gate while the body arrives.
UploadBegin(h) ==
  /\ step[h] = "upload" /\ Take(serves[h], h) /\ Turn(h, "body")
  /\ Quiet /\ UNCHANGED <<worker, queued, fired>>

BodyArrives(h) ==
  /\ step[h] = "body" /\ h \notin cut /\ Turn(h, "store")
  /\ Quiet /\ UNCHANGED <<worker, queued, fired, gate>>

UploadEnds(h) ==
  /\ step[h] = "store" \/ (step[h] = "body" /\ h \in cut)
  /\ Drop(serves[h]) /\ Answered(h)
  /\ Quiet /\ UNCHANGED <<worker, queued, fired>>

\* CreateSubmissionContext, under the gate: refused when the manager shuts down, among others.
Submit(h) ==
  /\ step[h] = "submit" /\ gate[serves[h]] = Nobody /\ Answered(h)
  /\ \/ UNCHANGED queued
     \/ ~Closed(serves[h]) /\ queued' = queued \cup {serves[h]}
  /\ Quiet /\ UNCHANGED <<worker, fired, gate>>

\* Cancel, then its own retention.
CancelJob(h) ==
  /\ step[h] = "cancel" /\ Turn(h, "sweep")
  /\ fired' = IF worker[serves[h]] = "run" THEN fired \cup {serves[h]} ELSE fired
  /\ Quiet /\ UNCHANGED <<worker, queued, gate>>

Sweep(h) ==
  /\ step[h] = "sweep" /\ gate[serves[h]] = Nobody /\ Answered(h)
  /\ Quiet /\ UNCHANGED <<worker, queued, fired, gate>>

\* An event stream ends with its job or its connection.
StreamEnds(h) ==
  /\ step[h] = "stream" /\ (worker[serves[h]] # "run" \/ h \in cut) /\ Answered(h)
  /\ Quiet /\ UNCHANGED <<worker, queued, fired, gate>>

\* streamSerialSession: refused, or the connection is the session's own.
Hijack(h) ==
  /\ step[h] = "attach"
  /\ \/ Answered(h)
     \/ h \notin cut /\ Turn(h, "session")
  /\ Quiet /\ UNCHANGED <<worker, queued, fired, gate>>

\* A session ends with its client, which may also fail to attach to it, or with the console, which
\* closes its attachment.
SessionEnds(h) ==
  /\ step[h] = "session" /\ (h \in cut \/ serves[h] \notin console) /\ Answered(h)
  /\ Quiet /\ UNCHANGED <<worker, queued, fired, gate>>

-----------------------------------------------------------------------------
(* The worker.                                                              *)

Work(p, next) == worker' = [worker EXCEPT ![p] = next] /\ Quiet /\ UNCHANGED web

RunJob(p) ==
  /\ worker[p] = "idle" /\ p \in queued /\ queued' = queued \ {p}
  /\ Work(p, "run") /\ fired' = IF Closed(p) THEN fired \cup {p} ELSE fired \ {p}
  /\ UNCHANGED gate

\* The deployment ends, by itself or because it is told to; subscribers are told.
JobEnds(p) == worker[p] = "run" /\ Work(p, "retain") /\ UNCHANGED <<queued, fired, gate>>

CanceledEnds(p) == p \in fired /\ JobEnds(p)

\* Its cleanup runs under the gate.
Retain(p) == worker[p] = "retain" /\ gate[p] = Nobody /\ Work(p, "idle") /\ UNCHANGED <<queued, fired, gate>>

WorkerExits(p) == worker[p] = "idle" /\ Closed(p) /\ Work(p, "exited") /\ UNCHANGED <<queued, fired, gate>>

-----------------------------------------------------------------------------
Open(p) == OpenStore(p) \/ OpenConsole(p) \/ OpenJobs(p) \/ Listen(p)
Stop(p) ==
  \/ Drain(p) \/ Shutdown(p) \/ CloseHTTP(p) \/ CancelJobs(p) \/ CloseJobs(p) \/ CloseConsole(p)
  \/ Unlock(p) \/ Exit(p)
Worker(p) == RunJob(p) \/ JobEnds(p) \/ Retain(p) \/ WorkerExits(p)
Handle(h) ==
  \/ UploadBegin(h) \/ UploadEnds(h) \/ Submit(h) \/ CancelJob(h) \/ Sweep(h) \/ StreamEnds(h) \/ Hijack(h) \/ SessionEnds(h)

Next ==
  \/ \E p \in Process :
       \/ Begin(p) \/ OpenFails(p) \/ Open(p) \/ Signal(p) \/ ServeFails(p) \/ Stop(p) \/ Kill(p) \/ Worker(p)
       \/ \E h \in Handler : Request(h, p)
  \/ \E h \in Handler : Leave(h) \/ BodyArrives(h) \/ Handle(h)

Spec == Init /\ [][Next]_vars

\* The daemon's own goroutines run, and the gate is not kept from its worker for ever (Go's mutexes
\* are handed on); a deployment ends when it is canceled.  Clients promise nothing: a body may never
\* arrive, a stream never be closed; and no request but an upload needs to end.
FairSpec ==
  /\ Spec
  /\ \A p \in Process :
       /\ WF_vars(Open(p)) /\ WF_vars(Stop(p)) /\ SF_vars(Retain(p))
       /\ WF_vars(RunJob(p) \/ CanceledEnds(p) \/ WorkerExits(p))
  /\ \A h \in Handler : WF_vars(UploadEnds(h))

-----------------------------------------------------------------------------
(* Properties.                                                              *)

\* What works on the state - the console's port, the job manager's worker - is gone before the
\* lock is: no second daemon finds a job running on the state it has just opened.
StateIsOwned == \A p \in Process : p \in console \/ worker[p] \notin {"none", "exited"} => lock = p

\* The console outlives every run: a capture is never cut short by the shutdown itself.
CapturesComplete == \A p \in Process : worker[p] \in {"idle", "run", "retain"} => p \in console

\* A daemon told to stop ends, whatever its clients do and whoever holds the storage gate.
StopsEnd == \A p \in Process : p \in told ~> at[p] = "gone"
=============================================================================
