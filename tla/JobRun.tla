------------------------------- MODULE JobRun -------------------------------
(***************************************************************************)
(* One run of one job by the worker (run in internal/jobs/manager.go), with *)
(* the runner's goroutine, the serial capture's goroutine                   *)
(* (internal/jobs/serial_capture.go), the deployment tasks before the boot  *)
(* and of the one outcome phase (internal/tasks/tasks.go), an operator who  *)
(* cancels at any time, and a kill with the next start's repair of the      *)
(* record.  Each section under Manager.mutex is one action.                 *)
(***************************************************************************)
EXTENDS Naturals

CONSTANTS
  Tasks,       \* number of tasks of each phase
  Limit,       \* maxConsoleLogBytes, in chunks
  MaxChunks,   \* bound: chunks the capture receives
  MaxFaults,   \* bound: job.json writes that fail
  MaxKills     \* bound: kills of the station

Phases == {"beforeBoot", "onSuccess", "onFailure", "onCancel"}
Outcomes == {"succeeded", "failed", "canceled"}

ASSUME RunAssumption ==
  /\ Tasks \in [Phases -> Nat]
  /\ Limit \in Nat /\ MaxChunks \in Nat /\ MaxFaults \in Nat /\ MaxKills \in Nat

VARIABLES
  pc,        \* control point of run
  runErr,    \* none, canceled (context.Canceled), or failed
  canceled,  \* runContext is canceled
  stopped,   \* executionContext is canceled by stopExecution
  runner,    \* the runner's goroutine
  bootErr,   \* what it sent to runnerDone
  phase,     \* the phase whose tasks run
  index,     \* its next or current task
  task,      \* control point of tasks.Run
  late,      \* history: tasks launched after the cancellation, but for those of OnFailure and OnCancel
  expired,   \* the OnCancel phase's timeout
  propagated,\* the AfterFunc of the OnFailure phase has run
  wanted,    \* the request asks for a capture
  capture,   \* the capture's goroutine
  link,      \* its attachment: open, broken by the multiplexer, or closed by Stop
  capErr,    \* failureErr or writeErr is set
  failure,   \* an error waits in the failure channel
  received, retained, \* its metadata
  size,      \* length of serial-console.bin
  job,       \* the job in memory
  disk,      \* job.json
  faults, kills

contexts == <<canceled, stopped, expired, propagated>>
tasking == <<phase, index, task, late>>
capturing == <<wanted, capture, link, capErr, failure, received, retained, size>>
booting == <<runner, bootErr>>
environment == <<faults, kills>>
vars == <<pc, runErr, contexts, booting, tasking, capturing, job, disk, environment>>

TaskId == UNION {{p} \X (1..Tasks[p]) : p \in Phases}
Record ==
  [state : {"running"} \cup Outcomes, deployed : {"none"} \cup Outcomes,
   tasks : [TaskId -> {"none", "running", "succeeded", "failed", "canceled", "interrupted"}],
   capture : {"none", "capturing", "complete", "truncated", "failed"}, retained : Nat]

TypeOK ==
  /\ pc \in {"load", "attach", "announce", "wait", "drain", "stop", "join",
             "select", "hooks", "publish", "ended", "down"}
  /\ runErr \in {"none", "canceled", "failed"} /\ bootErr \in {"none", "canceled", "failed"}
  /\ canceled \in BOOLEAN /\ stopped \in BOOLEAN /\ expired \in BOOLEAN /\ propagated \in BOOLEAN
  /\ runner \in {"idle", "tasks", "boot", "done"}
  /\ phase \in {"none"} \cup Phases /\ index \in Nat \ {0} /\ late \in Nat
  /\ task \in {"check", "launch", "running"}
  /\ wanted \in BOOLEAN /\ capture \in {"none", "running", "done"}
  /\ link \in {"open", "broken", "closed"} /\ capErr \in BOOLEAN /\ failure \in BOOLEAN
  /\ received \in Nat /\ retained \in Nat /\ size \in Nat
  /\ job \in Record /\ disk \in Record
  /\ faults \in Nat /\ kills \in Nat

\* The job was marked running and persisted before the mutex was released.
Init ==
  /\ pc = "load" /\ runErr = "none"
  /\ canceled = FALSE /\ stopped = FALSE /\ expired = FALSE /\ propagated = FALSE
  /\ runner = "idle" /\ bootErr = "none"
  /\ phase = "none" /\ index = 1 /\ task = "check" /\ late = 0
  /\ wanted \in BOOLEAN /\ capture = "none" /\ link = "closed"
  /\ capErr = FALSE /\ failure = FALSE /\ received = 0 /\ retained = 0 /\ size = 0
  /\ job = [state |-> "running", deployed |-> "none", tasks |-> [t \in TaskId |-> "none"],
            capture |-> "none", retained |-> 0]
  /\ disk = job
  /\ faults = 0 /\ kills = 0

Up == pc \notin {"ended", "down"}

\* persistLocked: its error is ignored.
Save(record) ==
  /\ job' = record
  /\ \/ disk' = record /\ UNCHANGED environment
     \/ faults < MaxFaults /\ faults' = faults + 1 /\ UNCHANGED <<disk, kills>>

-----------------------------------------------------------------------------
(* The operator, or the manager's shutdown.                                 *)

Cancel ==
  /\ Up /\ ~canceled /\ canceled' = TRUE
  /\ UNCHANGED <<pc, runErr, stopped, expired, propagated, booting, tasking, capturing, job, disk, environment>>

-----------------------------------------------------------------------------
(* tasks.Run: one phase, one task after the other, the first failure ends it. *)

Stopped(p) ==
  CASE p = "beforeBoot" -> canceled \/ stopped
    [] p = "onSuccess" -> canceled
    [] p = "onFailure" -> propagated
    [] p = "onCancel" -> expired

Current == <<phase, index>>

StartPhase(p) == phase' = p /\ index' = 1 /\ task' = "check" /\ UNCHANGED late

\* The context is asked before each task...
MayLaunch == ~Stopped(phase)
CheckTask ==
  /\ phase # "none" /\ task = "check" /\ index <= Tasks[phase] /\ MayLaunch
  /\ task' = "launch"
  /\ UNCHANGED <<pc, runErr, contexts, booting, phase, index, late, capturing, job, disk, environment>>

\* ... and the task is observed as running and started.
LaunchTask ==
  /\ phase # "none" /\ task = "launch"
  /\ task' = "running"
  /\ late' = IF canceled /\ phase \in {"beforeBoot", "onSuccess"} THEN late + 1 ELSE late
  /\ Save([job EXCEPT !.tasks[Current] = "running"])
  /\ UNCHANGED <<pc, runErr, contexts, booting, phase, index, capturing>>

TaskSucceeds ==
  /\ phase # "none" /\ task = "running" /\ ~Stopped(phase)
  /\ task' = "check" /\ index' = index + 1
  /\ Save([job EXCEPT !.tasks[Current] = "succeeded"])
  /\ UNCHANGED <<pc, runErr, contexts, booting, phase, late, capturing>>

\* What the phase returns, to the runner or to run.
Return(err) ==
  /\ phase' = "none" /\ UNCHANGED <<index, task, late>>
  /\ IF phase = "beforeBoot"
     THEN /\ IF err = "none" THEN runner' = "boot" /\ UNCHANGED bootErr
             ELSE runner' = "done" /\ bootErr' = err
          /\ UNCHANGED <<pc, runErr>>
     ELSE /\ pc' = "publish" /\ runErr' = IF runErr = "none" THEN err ELSE runErr
          /\ UNCHANGED booting

\* Only the OnCancel phase has a deadline of its own instead of a cancellation.
Reason(p) == IF p = "onCancel" THEN "failed" ELSE "canceled"

\* The task fails, times out, or is told to stop by its context.
TaskFails ==
  /\ phase # "none" /\ task = "running"
  /\ LET why == IF Stopped(phase) THEN Reason(phase) ELSE "failed" IN
     /\ Save([job EXCEPT !.tasks[Current] = why])
     /\ Return(why)
  /\ UNCHANGED <<contexts, capturing>>

PhaseStops ==
  /\ phase # "none" /\ task = "check" /\ index <= Tasks[phase] /\ ~MayLaunch
  /\ Return(Reason(phase))
  /\ UNCHANGED <<contexts, capturing, job, disk, environment>>

PhaseEnds ==
  /\ phase # "none" /\ task = "check" /\ index > Tasks[phase]
  /\ Return("none")
  /\ UNCHANGED <<contexts, capturing, job, disk, environment>>

\* Five seconds of OnCancel; the AfterFunc that carries a cancellation to OnFailure.
Expire ==
  /\ phase = "onCancel" /\ ~expired /\ expired' = TRUE
  /\ UNCHANGED <<pc, runErr, canceled, stopped, propagated, booting, tasking, capturing, job, disk, environment>>

Propagate ==
  /\ phase = "onFailure" /\ canceled /\ ~propagated /\ propagated' = TRUE
  /\ UNCHANGED <<pc, runErr, canceled, stopped, expired, booting, tasking, capturing, job, disk, environment>>

-----------------------------------------------------------------------------
(* The runner's goroutine; its inside is XilinxRunner.                      *)

\* It may end well although its context ended, and it fails on its own timeout.
BootEnds ==
  /\ runner = "boot"
  /\ runner' = "done"
  /\ bootErr' \in {"none", "failed"} \cup IF canceled \/ stopped THEN {"canceled"} ELSE {}
  /\ UNCHANGED <<pc, runErr, contexts, tasking, capturing, job, disk, environment>>

-----------------------------------------------------------------------------
(* The capture's goroutine.                                                 *)

Min(a, b) == IF a < b THEN a ELSE b

\* A chunk: kept up to the limit; the write may fail.
Receive ==
  /\ capture = "running" /\ link # "closed" /\ received < MaxChunks
  /\ received' = received + 1
  /\ \/ /\ retained' = Min(received + 1, Limit) /\ size' = retained'
        /\ UNCHANGED <<capture, capErr, failure>>
     \/ /\ retained < Limit
        /\ capture' = "done" /\ capErr' = TRUE /\ failure' = TRUE
        /\ UNCHANGED <<retained, size>>
  /\ UNCHANGED <<pc, runErr, contexts, booting, tasking, wanted, link, job, disk, environment>>

\* The multiplexer ends the attachment: too slow, or the device is gone.
Break ==
  /\ link = "open" /\ link' = "broken"
  /\ UNCHANGED <<pc, runErr, contexts, booting, tasking, wanted, capture, capErr, failure, received, retained,
                 size, job, disk, environment>>

LostStream ==
  /\ capture = "running" /\ link = "broken"
  /\ capture' = "done" /\ capErr' = TRUE /\ failure' = TRUE
  /\ UNCHANGED <<pc, runErr, contexts, booting, tasking, wanted, link, received, retained, size, job, disk, environment>>

\* The stop channel is closed: whatever else is ready may be left.
CaptureStops ==
  /\ capture = "running" /\ pc = "join"
  /\ capture' = "done"
  /\ UNCHANGED <<pc, runErr, contexts, booting, tasking, wanted, link, capErr, failure, received, retained, size,
                 job, disk, environment>>

-----------------------------------------------------------------------------
(* run.                                                                     *)

Load ==
  /\ pc = "load"
  /\ \/ pc' = "attach" /\ UNCHANGED runErr
     \/ pc' = "select" /\ runErr' = "failed"
     \/ canceled /\ pc' = "select" /\ runErr' = "canceled"
  /\ UNCHANGED <<contexts, booting, tasking, capturing, job, disk, environment>>

StartRunner == runner' = "tasks" /\ StartPhase("beforeBoot") /\ UNCHANGED bootErr

Attach ==
  /\ pc = "attach"
  /\ \/ ~wanted /\ pc' = "wait" /\ StartRunner /\ UNCHANGED <<runErr, capturing>>
     \/ wanted /\ pc' = "select" /\ runErr' = "failed" /\ UNCHANGED <<booting, tasking, capturing>>
     \/ /\ wanted /\ pc' = "announce" /\ capture' = "running" /\ link' = "open"
        /\ UNCHANGED <<runErr, booting, tasking, wanted, capErr, failure, received, retained, size>>
  /\ UNCHANGED <<contexts, job, disk, environment>>

Announce ==
  /\ pc = "announce" /\ pc' = "wait"
  /\ Save([job EXCEPT !.capture = "capturing", !.retained = retained])
  /\ StartRunner
  /\ UNCHANGED <<runErr, contexts, capturing>>

\* The select takes either channel when both are ready.
RunnerDone ==
  /\ pc = "wait" /\ runner = "done"
  /\ pc' = "stop" /\ runErr' = bootErr /\ stopped' = TRUE
  /\ UNCHANGED <<canceled, expired, propagated, booting, tasking, capturing, job, disk, environment>>

StopExecution_Forgotten == UNCHANGED stopped
StopExecution == stopped' = TRUE
CaptureFailed ==
  /\ pc = "wait" /\ failure
  /\ pc' = "drain" /\ failure' = FALSE /\ StopExecution
  /\ UNCHANGED <<runErr, canceled, expired, propagated, booting, tasking, wanted, capture, link, capErr, received,
                 retained, size, job, disk, environment>>

Drained_RunnersOwn == bootErr
Drained == "failed"
Drain ==
  /\ pc = "drain" /\ runner = "done"
  /\ pc' = "stop" /\ runErr' = Drained
  /\ UNCHANGED <<contexts, booting, tasking, capturing, job, disk, environment>>

\* Stop: the stop channel, the attachment, then the goroutine is awaited.
StopCapture ==
  /\ pc = "stop"
  /\ IF wanted THEN pc' = "join" /\ link' = "closed" ELSE pc' = "select" /\ UNCHANGED link
  /\ UNCHANGED <<runErr, contexts, booting, tasking, wanted, capture, capErr, failure, received, retained, size,
                 job, disk, environment>>

Verdict == IF runErr # "none" \/ capErr THEN "failed" ELSE IF received > Limit THEN "truncated" ELSE "complete"
CaptureErr_Ignored(err) == err
CaptureErr(err) == IF err = "none" /\ capErr THEN "failed" ELSE err
\* Closing the file may fail as well, after its state was decided.
JoinCapture ==
  /\ pc = "join" /\ capture = "done"
  /\ pc' = "select"
  /\ Save([job EXCEPT !.capture = Verdict, !.retained = retained])
  /\ runErr' \in {CaptureErr(runErr), CaptureErr(IF runErr = "none" THEN "failed" ELSE runErr)}
  /\ UNCHANGED <<contexts, booting, tasking, capturing>>

Outcome(err) == CASE err = "canceled" -> "canceled" [] err = "failed" -> "failed" [] OTHER -> "succeeded"
PhaseOf(outcome) ==
  CASE outcome = "succeeded" -> "onSuccess" [] outcome = "failed" -> "onFailure" [] OTHER -> "onCancel"

\* The context is asked again, before the phase is chosen and before the end is published.
FinalErr == IF canceled THEN "canceled" ELSE runErr

DeploymentOutcome_BeforeCheck == Outcome(runErr)
DeploymentOutcome == Outcome(FinalErr)
Select ==
  /\ pc = "select" /\ pc' = "hooks"
  /\ runErr' = FinalErr
  /\ Save([job EXCEPT !.deployed = DeploymentOutcome])
  /\ StartPhase(PhaseOf(Outcome(FinalErr)))
  /\ UNCHANGED <<contexts, booting, capturing>>

Publish ==
  /\ pc = "publish" /\ pc' = "ended"
  /\ runErr' = FinalErr
  /\ Save([job EXCEPT !.state = Outcome(FinalErr)])
  /\ UNCHANGED <<contexts, booting, tasking, capturing>>

-----------------------------------------------------------------------------
(* Kill, and load at the next start.                                        *)

Kill ==
  /\ kills < MaxKills /\ pc # "down"
  /\ kills' = kills + 1 /\ pc' = "down"
  /\ runner' = "idle" /\ phase' = "none" /\ capture' = "none" /\ link' = "closed"
  /\ UNCHANGED <<runErr, contexts, bootErr, index, task, late, wanted, capErr, failure, received, retained, size,
                 job, disk, faults>>

Interrupted(tasks) == [t \in TaskId |-> IF tasks[t] = "running" THEN "interrupted" ELSE tasks[t]]

RepairedCapture_None(r) == r
RepairedCapture(r) ==
  IF r.capture = "capturing" THEN [r EXCEPT !.capture = "failed", !.retained = size] ELSE r
Repaired(r) == [RepairedCapture(r) EXCEPT !.state = "failed", !.tasks = Interrupted(r.tasks)]

Restart ==
  /\ pc = "down" /\ pc' = "ended"
  /\ disk' = IF disk.state = "running" THEN Repaired(disk) ELSE disk
  /\ job' = disk'
  /\ UNCHANGED <<runErr, contexts, booting, tasking, capturing, environment>>

-----------------------------------------------------------------------------
TaskStep == CheckTask \/ LaunchTask \/ TaskSucceeds \/ TaskFails \/ PhaseStops \/ PhaseEnds
RunStep ==
  \/ Load \/ Attach \/ Announce \/ RunnerDone \/ CaptureFailed \/ Drain \/ StopCapture \/ JoinCapture
  \/ Select \/ Publish

Next ==
  \/ Cancel \/ TaskStep \/ Expire \/ Propagate \/ BootEnds
  \/ Receive \/ Break \/ LostStream \/ CaptureStops
  \/ RunStep \/ Kill \/ Restart

Spec == Init /\ [][Next]_vars

\* Tasks and the runner return once their context is done (the runner's own wait is bounded by
\* its timeout); nothing says that a task fails or the device breaks.
FairSpec ==
  /\ Spec
  /\ WF_vars(TaskStep) /\ WF_vars(RunStep) /\ WF_vars(Expire) /\ WF_vars(Propagate)
  /\ WF_vars(BootEnds /\ (canceled \/ stopped)) /\ WF_vars(LostStream) /\ WF_vars(CaptureStops)

-----------------------------------------------------------------------------
(* Properties.                                                              *)

Terminal(r) == r.state # "running"

\* The tasks of exactly one outcome phase run, that of the recorded deployment outcome,
\* though hooks fail, the operator cancels between or during them, or the station restarts.
OnePhase ==
  \A r \in {job, disk} : \A t \in TaskId :
    r.tasks[t] # "none" /\ t[1] # "beforeBoot" => r.deployed # "none" /\ t[1] = PhaseOf(r.deployed)

\* A job ends canceled exactly when a cancellation was accepted before its end was
\* published; in particular the runner that run itself stops does not look canceled.
CancelExact == pc = "ended" /\ kills = 0 => (job.state = "canceled" <=> canceled)

\* A record of an ended job, in memory and on disk, shows nothing that still runs, whichever
\* writes of it failed and whenever the station was killed.
RecordClosed ==
  \A r \in {job, disk} : Terminal(r) =>
    /\ \A t \in TaskId : r.tasks[t] # "running"
    /\ r.capture # "capturing"

\* Success is clean: the boot, every task before it and after it, and the capture.
SucceededMeansClean ==
  \A r \in {job, disk} : r.state = "succeeded" =>
    /\ bootErr = "none" /\ ~capErr /\ r.deployed = "succeeded"
    /\ \A t \in TaskId : t[1] \in {"beforeBoot", "onSuccess"} => r.tasks[t] = "succeeded"
    /\ r.capture = IF ~wanted THEN "none" ELSE IF received > Limit THEN "truncated" ELSE "complete"

\* What an ended job says it retained of the console is what the file holds.
RetainedTrue == \A r \in {job, disk} : Terminal(r) /\ r.capture # "none" => r.retained = size

\* After a cancellation at most one more task of the deployment is launched, the one that was
\* already past the check: "cancellation stops further launches".  (OnFailure learns of it
\* through another goroutine, later; OnCancel is meant to run.)
LaunchesStop == late <= 1

\* A canceled run ends, and so does one whose capture failed.
RunEnds == (Up /\ (canceled \/ failure)) ~> ~Up
=============================================================================
