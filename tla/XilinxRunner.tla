---------------------------- MODULE XilinxRunner ----------------------------
(***************************************************************************)
(* The Xilinx runner (internal/runner) of one boot, composed with its TFTP *)
(* server: tasks before the boot, the XSDB loader, then the wait for the   *)
(* board to fetch every file; monitorTransfers consumes the server's       *)
(* events.  Whatever ends the run, the runner cancels its context, closes  *)
(* the server and waits for Serve and for the monitor before it returns.   *)
(***************************************************************************)
EXTENDS TftpServer

VARIABLES
  runner,     \* control point of Run
  verdict,    \* why it stops: all transferred, a failure, or the context (or Serve) ended
  result,     \* what Run returns
  parent,     \* the job's own context was canceled
  expired,    \* history: the job timeout cut the run short
  monitor,    \* monitorTransfers runs or has returned
  completed,  \* its set of files reported completed
  allDone     \* allTransfersDone is closed

run == <<runner, verdict, result, parent, expired>>
monitoring == <<monitor, completed, allDone>>
vars == <<canceled, server, run, monitoring>>

TypeOK ==
  /\ ServerTypeOK
  /\ runner \in {"tasks", "xsdb", "wait", "joinServe", "joinEvents", "returned"}
  /\ verdict \in {"none", "ok", "failed", "ended"}
  /\ result \in {"none", "ok", "failed", "canceled", "timeout"}
  /\ parent \in BOOLEAN /\ expired \in BOOLEAN
  /\ monitor \in {"running", "done"} /\ completed \subseteq File /\ allDone \in BOOLEAN

Init ==
  /\ ServerInit
  /\ runner = "tasks" /\ verdict = "none" /\ result = "none"
  /\ parent = FALSE /\ expired = FALSE
  /\ monitor = "running" /\ completed = {} /\ allDone = FALSE

-----------------------------------------------------------------------------

\* The job timeout, or an operator or shutdown canceling the job.
Expire ==
  /\ ~canceled /\ canceled' = TRUE /\ expired' = TRUE
  /\ UNCHANGED <<server, runner, verdict, result, parent, monitoring>>

CancelJob ==
  /\ ~parent /\ parent' = TRUE /\ canceled' = TRUE
  /\ UNCHANGED <<server, runner, verdict, result, expired, monitoring>>

-----------------------------------------------------------------------------
(* monitorTransfers: a select between the context and the next event.       *)

Counts_Any(status) == status # "started"
Counts(status) == status = "completed"
Observe ==
  LET event == Head(events)
      seen == IF Counts(event[1]) THEN completed \cup {event[2]} ELSE completed
  IN
  /\ monitor = "running" /\ events # <<>>
  /\ events' = Tail(events)
  /\ completed' = seen
  /\ allDone' = (allDone \/ (event[1] = "completed" /\ seen = File))
  /\ UNCHANGED <<canceled, closed, serve, transfer, sent, run, monitor>>

MayStop_Finished == allDone
MayStop == canceled
MonitorStops ==
  /\ monitor = "running" /\ MayStop
  /\ monitor' = "done"
  /\ UNCHANGED <<canceled, server, run, completed, allDone>>

-----------------------------------------------------------------------------
(* Run.                                                                     *)

\* cancel and Close; then the joins.
Stop(why) ==
  /\ canceled' = TRUE /\ closed' = TRUE
  /\ runner' = "joinServe" /\ verdict' = why
  /\ UNCHANGED <<serve, transfer, events, sent, result, parent, expired, monitoring>>

\* The tasks before the boot, or the loader, succeed or fail.
Phase(from, to) ==
  /\ runner = from
  /\ \/ runner' = to /\ UNCHANGED <<canceled, server, verdict, result, parent, expired, monitoring>>
     \/ Stop("failed")

\* The select takes any channel that is ready.
AllTransferred == runner = "wait" /\ allDone /\ Stop("ok")
RunEnded == runner = "wait" /\ canceled /\ Stop("ended")

\* This branch cancels the context before it looks at the context's error.
ServeEnded ==
  /\ runner = "wait" /\ serve \in {"stopped", "error"}
  /\ runner' = "joinEvents" /\ canceled' = TRUE /\ verdict' = "ended"
  /\ UNCHANGED <<server, result, parent, expired, monitoring>>

JoinServe ==
  /\ runner = "joinServe" /\ serve \in {"stopped", "error"}
  /\ runner' = "joinEvents"
  /\ UNCHANGED <<canceled, server, verdict, result, parent, expired, monitoring>>

\* Returning runs the deferred Close.
Return ==
  /\ runner = "joinEvents" /\ monitor = "done"
  /\ runner' = "returned" /\ closed' = TRUE
  /\ result' = IF verdict # "ended" THEN verdict ELSE IF parent THEN "canceled" ELSE "timeout"
  /\ UNCHANGED <<canceled, serve, transfer, events, sent, verdict, parent, expired, monitoring>>

Run ==
  \/ Phase("tasks", "xsdb") \/ Phase("xsdb", "wait")
  \/ AllTransferred \/ RunEnded \/ ServeEnded \/ JoinServe \/ Return

\* A step of the server leaves the runner and the monitor where they are.
Alone(A) == A /\ UNCHANGED <<run, monitoring>>

Next ==
  \/ Alone(ServerNext)
  \/ Expire \/ CancelJob \/ Observe \/ MonitorStops \/ Run

Spec == Init /\ [][Next]_vars

\* Goroutines that can run do.  A transfer ends: exchange gives up after its
\* retries.  A closed socket fails the next read, an open one may stay silent.
\* Tasks and the loader stop when the context ends.
Fairness ==
  /\ \A k \in Key :
       /\ WF_vars(Alone(ReportStart(k))) /\ WF_vars(Alone(ReportEnd(k)))
       /\ WF_vars(Alone(\E o \in {"completed", "failed"} : TransferEnds(k, o)))
       /\ WF_vars(Alone(Leave(k)))
  /\ WF_vars(Alone(CloseOnCancel)) /\ WF_vars(closed /\ Alone(ReadFails))
  /\ WF_vars(Alone(Waited))
  /\ WF_vars(Observe) /\ WF_vars(MonitorStops)
  /\ WF_vars(canceled /\ (Phase("tasks", "xsdb") \/ Phase("xsdb", "wait")))
  /\ WF_vars(AllTransferred \/ RunEnded \/ ServeEnded) /\ WF_vars(JoinServe) /\ WF_vars(Return)

FairSpec == Spec /\ Fairness

-----------------------------------------------------------------------------

\* A boot is successful only when every file of the artifact was sent completely,
\* however often the board asked for each (monitorTransfers, Run).
SuccessMeansAllSent == result = "ok" => sent = File

\* A run that returns has closed its socket and joined every goroutine it started,
\* so the next job finds the port free and no transfer reads an artifact that
\* may now be evicted; not so when Serve died of a read error.
LeavesNothingBehind ==
  runner = "returned" /\ serve # "error" =>
    closed /\ monitor = "done" /\ \A k \in Key : transfer[k] = "none"

\* Only a full event buffer that nobody reads any more can hold up a run whose
\* context has ended.
OnlyEventsHoldUp ==
  canceled ~> \/ runner = "returned"
              \/ monitor = "done" /\ Len(events) = EventBuffer

\* DEPLOYMENT_TASKS.md: the job timeout "bounds the Xilinx boot phase".
BootBounded == canceled ~> runner = "returned"

\* Run says "JTAG boot timed out" only when the job timeout has passed.
TimeoutIsTimeout == result = "timeout" => expired
=============================================================================
