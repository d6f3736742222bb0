---------------------------- MODULE JobRunProofs ----------------------------
(***************************************************************************)
(* One run for any number of tasks, chunks, failed writes and kills: one   *)
(* outcome phase, a cancellation that is never mistaken, records that are  *)
(* closed when their job has ended, and what a success means.              *)
(***************************************************************************)
EXTENDS JobRun, TLAPS

Hooks == {"onSuccess", "onFailure", "onCancel"}
TaskState == {"none", "running", "succeeded", "failed", "canceled", "interrupted"}

\* A task beyond the check is one of its phase's.
Launched == phase # "none" /\ task # "check" => index \in 1..Tasks[phase]

TInv == TypeOK /\ Launched

-----------------------------------------------------------------------------
(* Lemmas on the helpers the actions share.                                 *)

\* A write changes memory, and the disk unless it fails.
LEMMA SaveRecord ==
  ASSUME TypeOK, NEW r \in Record, Save(r)
  PROVE  /\ job' = r /\ disk' \in {job', disk} /\ job' \in Record /\ disk' \in Record
         /\ faults' \in Nat /\ kills' = kills
BY DEF Save, TypeOK, environment

\* An observed task changes the state of that task alone.
LEMMA SaveTask ==
  ASSUME TypeOK, phase \in Phases, index \in 1..Tasks[phase], NEW v \in TaskState,
         Save([job EXCEPT !.tasks[Current] = v])
  PROVE  /\ Current \in TaskId /\ Current[1] = phase
         /\ job' \in Record /\ disk' \in {job', disk} /\ disk' \in Record
         /\ faults' \in Nat /\ kills' = kills
         /\ job'.state = job.state /\ job'.deployed = job.deployed
         /\ job'.capture = job.capture /\ job'.retained = job.retained
         /\ \A t \in TaskId : job'.tasks[t] = IF t = Current THEN v ELSE job.tasks[t]
<1>1. Current \in TaskId /\ Current[1] = phase
  BY DEF Current, TaskId
<1>2. job.tasks \in [TaskId -> TaskState]
  BY DEF TypeOK, Record, TaskState
<1> DEFINE r == [job EXCEPT !.tasks[Current] = v]
<1>3. /\ r \in Record
      /\ r.state = job.state /\ r.deployed = job.deployed /\ r.capture = job.capture /\ r.retained = job.retained
      /\ r.tasks = [job.tasks EXCEPT ![Current] = v]
  BY <1>1, <1>2 DEF TypeOK, Record, TaskState
<1>4. \A t \in TaskId : r.tasks[t] = IF t = Current THEN v ELSE job.tasks[t]
  BY <1>2, <1>3
<1> HIDE DEF r
<1>5. Save(r)
  BY DEF r
<1> QED
  BY <1>1, <1>3, <1>4, <1>5, SaveRecord

\* What a start makes of the record it finds.
LEMMA RepairRecord ==
  ASSUME TypeOK, disk' = IF disk.state = "running" THEN Repaired(disk) ELSE disk
  PROVE  /\ disk' \in Record /\ disk'.deployed = disk.deployed
         /\ \A t \in TaskId : disk'.tasks[t] = "none" <=> disk.tasks[t] = "none"
         /\ disk.state # "running" => disk' = disk
         /\ disk.state = "running" =>
              /\ disk'.state = "failed"
              /\ \A t \in TaskId : disk'.tasks[t] # "running"
              /\ disk'.capture = IF disk.capture = "capturing" THEN "failed" ELSE disk.capture
              /\ disk'.retained = IF disk.capture = "capturing" THEN size ELSE disk.retained
<1>1. disk.tasks \in [TaskId -> TaskState] /\ disk \in Record /\ size \in Nat
  BY DEF TypeOK, Record, TaskState
<1>2. /\ Interrupted(disk.tasks) \in [TaskId -> TaskState]
      /\ \A t \in TaskId : /\ Interrupted(disk.tasks)[t] # "running"
                           /\ Interrupted(disk.tasks)[t] = "none" <=> disk.tasks[t] = "none"
  BY <1>1 DEF Interrupted, TaskState
<1>3. RepairedCapture(disk) \in Record
  BY <1>1 DEF RepairedCapture, Record
<1>4. CASE disk.state = "running"
  <2>1. disk' = [RepairedCapture(disk) EXCEPT !.state = "failed", !.tasks = Interrupted(disk.tasks)]
    BY <1>4 DEF Repaired
  <2> QED
    BY ZenonT(40), <1>1, <1>2, <1>3, <1>4, <2>1 DEF RepairedCapture, Record, TaskState, Outcomes
<1>5. CASE disk.state # "running"
  BY <1>1, <1>5
<1> QED
  BY <1>4, <1>5

-----------------------------------------------------------------------------
(* Types.                                                                   *)

\* A step keeps the types.
LEMMA TypedNext == TInv /\ [Next]_vars => TInv'
<1> SUFFICES ASSUME TInv, [Next]_vars PROVE TInv'
  OBVIOUS
<1> USE DEF TInv, Launched, contexts, booting, tasking, capturing, environment
<1>1. ASSUME Cancel PROVE TInv'
  BY <1>1 DEF Cancel, TypeOK
<1>2. ASSUME CheckTask PROVE TInv'
  BY <1>2 DEF CheckTask, TypeOK
<1>3. ASSUME LaunchTask PROVE TInv'
  <2>1. phase \in Phases /\ index \in 1..Tasks[phase]
    BY <1>3 DEF LaunchTask, TypeOK
  <2>2. job' \in Record /\ disk' \in Record /\ faults' \in Nat /\ kills' = kills
    BY <1>3, <2>1, SaveTask DEF LaunchTask, TaskState
  <2> QED
    BY <1>3, <2>1, <2>2 DEF LaunchTask, TypeOK
<1>4. ASSUME TaskSucceeds PROVE TInv'
  <2>1. phase \in Phases /\ index \in 1..Tasks[phase]
    BY <1>4 DEF TaskSucceeds, TypeOK
  <2>2. job' \in Record /\ disk' \in Record /\ faults' \in Nat /\ kills' = kills
    BY <1>4, <2>1, SaveTask DEF TaskSucceeds, TaskState
  <2> QED
    BY <1>4, <2>1, <2>2 DEF TaskSucceeds, TypeOK
<1>5. ASSUME TaskFails PROVE TInv'
  <2>1. phase \in Phases /\ index \in 1..Tasks[phase]
    BY <1>5 DEF TaskFails, TypeOK
  <2>2. job' \in Record /\ disk' \in Record /\ faults' \in Nat /\ kills' = kills
    BY <1>5, <2>1, SaveTask DEF TaskFails, TaskState, Reason
  <2> QED
    BY <1>5, <2>1, <2>2 DEF TaskFails, TypeOK, Reason, Return
<1>6. ASSUME PhaseStops PROVE TInv'
  BY <1>6 DEF PhaseStops, TypeOK, Reason, Return
<1>7. ASSUME PhaseEnds PROVE TInv'
  BY <1>7 DEF PhaseEnds, TypeOK, Return
<1>8. ASSUME Expire PROVE TInv'
  BY <1>8 DEF Expire, TypeOK
<1>9. ASSUME Propagate PROVE TInv'
  BY <1>9 DEF Propagate, TypeOK
<1>10. ASSUME BootEnds PROVE TInv'
  BY <1>10 DEF BootEnds, TypeOK
<1>11. ASSUME Receive PROVE TInv'
  <2>1. Min(received + 1, Limit) \in Nat
    BY RunAssumption DEF Min, TypeOK
  <2>2. received' \in Nat /\ retained' \in Nat /\ size' \in Nat /\ capture' \in {"running", "done"}
    BY <1>11, <2>1 DEF Receive, TypeOK
  <2>3. capErr' \in BOOLEAN /\ failure' \in BOOLEAN
    BY <1>11 DEF Receive, TypeOK
  <2>4. UNCHANGED <<pc, runErr, contexts, booting, tasking, wanted, link, job, disk, environment>>
    BY <1>11 DEF Receive
  <2> QED
    BY <2>2, <2>3, <2>4 DEF TypeOK
<1>12. ASSUME Break PROVE TInv'
  BY <1>12 DEF Break, TypeOK
<1>13. ASSUME LostStream PROVE TInv'
  BY <1>13 DEF LostStream, TypeOK
<1>14. ASSUME CaptureStops PROVE TInv'
  BY <1>14 DEF CaptureStops, TypeOK
<1>15. ASSUME Load PROVE TInv'
  BY <1>15 DEF Load, TypeOK
<1>16. ASSUME Attach PROVE TInv'
  BY <1>16 DEF Attach, TypeOK, Phases, StartRunner, StartPhase
<1>17. ASSUME Announce PROVE TInv'
  <2>1. [job EXCEPT !.capture = "capturing", !.retained = retained] \in Record
    BY <1>17 DEF TypeOK, Record
  <2>2. job' \in Record /\ disk' \in Record /\ faults' \in Nat /\ kills' = kills
    BY <1>17, <2>1, SaveRecord DEF Announce
  <2> QED
    BY <1>17, <2>2 DEF Announce, TypeOK, Phases, StartPhase, StartRunner
<1>18. ASSUME RunnerDone PROVE TInv'
  BY <1>18 DEF RunnerDone, TypeOK
<1>19. ASSUME CaptureFailed PROVE TInv'
  <2>1. pc' = "drain" /\ failure' \in BOOLEAN /\ stopped' \in BOOLEAN
    BY <1>19 DEF CaptureFailed, StopExecution
  <2>2. UNCHANGED <<runErr, canceled, expired, propagated, booting, tasking, wanted, capture, link, capErr,
                   received, retained, size, job, disk, environment>>
    BY <1>19 DEF CaptureFailed
  <2> QED
    BY <2>1, <2>2 DEF TypeOK
<1>20. ASSUME Drain PROVE TInv'
  BY <1>20 DEF Drain, TypeOK, Drained
<1>21. ASSUME StopCapture PROVE TInv'
  BY <1>21 DEF StopCapture, TypeOK
<1>22. ASSUME JoinCapture PROVE TInv'
  <2>1. [job EXCEPT !.capture = Verdict, !.retained = retained] \in Record
    BY <1>22 DEF TypeOK, Record, Verdict
  <2>2. job' \in Record /\ disk' \in Record /\ faults' \in Nat /\ kills' = kills
    BY <1>22, <2>1, SaveRecord DEF JoinCapture
  <2> QED
    BY <1>22, <2>2 DEF JoinCapture, TypeOK, CaptureErr
<1>23. ASSUME Select PROVE TInv'
  <2>1. [job EXCEPT !.deployed = DeploymentOutcome] \in Record
    BY <1>23 DEF TypeOK, Record, Outcomes, DeploymentOutcome, Outcome
  <2>2. job' \in Record /\ disk' \in Record /\ faults' \in Nat /\ kills' = kills
    BY <1>23, <2>1, SaveRecord DEF Select
  <2> QED
    BY <1>23, <2>2 DEF Select, TypeOK, Phases, StartPhase, PhaseOf, FinalErr
<1>24. ASSUME Publish PROVE TInv'
  <2>1. [job EXCEPT !.state = Outcome(FinalErr)] \in Record
    BY <1>24 DEF TypeOK, Record, Outcomes, Outcome
  <2>2. job' \in Record /\ disk' \in Record /\ faults' \in Nat /\ kills' = kills
    BY <1>24, <2>1, SaveRecord DEF Publish
  <2> QED
    BY <1>24, <2>2 DEF Publish, TypeOK, FinalErr
<1>25. ASSUME Kill PROVE TInv'
  BY <1>25 DEF Kill, TypeOK
<1>26. ASSUME Restart PROVE TInv'
  BY <1>26, RepairRecord DEF Restart, TypeOK
<1>27. CASE UNCHANGED vars
  BY <1>27 DEF vars, TypeOK
<1> QED
  BY <1>1, <1>2, <1>3, <1>4, <1>5, <1>6, <1>7, <1>8, <1>9, <1>10, <1>11, <1>12, <1>13,
     <1>14, <1>15, <1>16, <1>17, <1>18, <1>19, <1>20, <1>21, <1>22, <1>23, <1>24, <1>25,
     <1>26, <1>27 DEF Next, TaskStep, RunStep

\* Every variable keeps its type, and only tasks of the phase are launched.
THEOREM RunTyped == Spec => []TInv
<1>1. Init => TInv
  <2> SUFFICES ASSUME Init PROVE TInv
    OBVIOUS
  <2>1. job \in Record
    BY DEF Init, Record
  <2>2. disk \in Record
    BY <2>1 DEF Init
  <2>3. wanted \in BOOLEAN /\ canceled \in BOOLEAN /\ stopped \in BOOLEAN /\ expired \in BOOLEAN
        /\ propagated \in BOOLEAN /\ capErr \in BOOLEAN /\ failure \in BOOLEAN
    BY DEF Init
  <2>4. /\ pc = "load" /\ runErr = "none" /\ runner = "idle" /\ bootErr = "none" /\ phase = "none"
        /\ index = 1 /\ task = "check" /\ late = 0 /\ capture = "none" /\ link = "closed"
        /\ received = 0 /\ retained = 0 /\ size = 0 /\ faults = 0 /\ kills = 0
    BY DEF Init
  <2>5. TypeOK
    BY <2>1, <2>2, <2>3, <2>4 DEF TypeOK
  <2>6. Launched
    BY DEF Init, Launched
  <2> QED
    BY <2>5, <2>6 DEF TInv
<1> QED
  BY <1>1, TypedNext, PTL DEF Spec

-----------------------------------------------------------------------------
(* One outcome phase.                                                       *)

\* Where the goroutines may be while run is at a control point.
Placed ==
  /\ phase = "beforeBoot" => runner = "tasks" /\ pc \in {"wait", "drain"}
  /\ phase \in Hooks => pc = "hooks" /\ job.deployed # "none" /\ phase = PhaseOf(job.deployed)
  /\ runner \in {"tasks", "boot"} => pc \in {"wait", "drain"}
  /\ pc \in {"load", "attach", "announce"} => runner = "idle"

\* Until the outcome is selected no record names one.
Unchosen ==
  pc \in {"load", "attach", "announce", "wait", "drain", "stop", "join", "select"} =>
    job.deployed = "none" /\ disk.deployed = "none"

OInv == Placed /\ Unchosen /\ OnePhase

\* A step keeps the one phase, wherever the goroutines are.
LEMMA OneNext == TInv /\ OInv /\ [Next]_vars => OInv'
<1> SUFFICES ASSUME TInv, OInv, [Next]_vars PROVE OInv'
  OBVIOUS
<1> USE DEF TInv, Launched, contexts, booting, tasking, capturing, environment
<1>1. ASSUME Cancel PROVE OInv'
  BY <1>1 DEF Cancel, OInv, Placed, Unchosen, OnePhase
<1>2. ASSUME CheckTask PROVE OInv'
  BY <1>2 DEF CheckTask, OInv, Placed, Unchosen, OnePhase
<1>3. ASSUME LaunchTask PROVE OInv'
  <2>1. phase \in Phases /\ index \in 1..Tasks[phase]
    BY <1>3 DEF LaunchTask, TypeOK
  <2>2. /\ Current \in TaskId /\ Current[1] = phase /\ disk' \in {job', disk}
        /\ job'.state = job.state /\ job'.deployed = job.deployed
        /\ job'.capture = job.capture /\ job'.retained = job.retained
        /\ \A t \in TaskId : t # Current => job'.tasks[t] = job.tasks[t]
        /\ job'.tasks[Current] = "running"
    BY <1>3, <2>1, SaveTask DEF LaunchTask, TaskState
  <2>3. Placed'
    BY <1>3, <2>1, <2>2 DEF LaunchTask, OInv, Placed
  <2>4. Unchosen'
    BY <1>3, <2>1, <2>2 DEF LaunchTask, OInv, Unchosen
  <2>5. OnePhase'
    BY <1>3, <2>1, <2>2 DEF OInv, Placed, OnePhase, Hooks, Phases
  <2> QED
    BY <2>3, <2>4, <2>5 DEF OInv
<1>4. ASSUME TaskSucceeds PROVE OInv'
  <2>1. phase \in Phases /\ index \in 1..Tasks[phase]
    BY <1>4 DEF TaskSucceeds, TypeOK
  <2>2. /\ Current \in TaskId /\ Current[1] = phase /\ disk' \in {job', disk}
        /\ job'.state = job.state /\ job'.deployed = job.deployed
        /\ job'.capture = job.capture /\ job'.retained = job.retained
        /\ \A t \in TaskId : t # Current => job'.tasks[t] = job.tasks[t]
        /\ job'.tasks[Current] = "succeeded"
    BY <1>4, <2>1, SaveTask DEF TaskSucceeds, TaskState
  <2>3. Placed'
    BY <1>4, <2>1, <2>2 DEF TaskSucceeds, OInv, Placed
  <2>4. Unchosen'
    BY <1>4, <2>1, <2>2 DEF TaskSucceeds, OInv, Unchosen
  <2>5. OnePhase'
    BY <1>4, <2>1, <2>2 DEF OInv, Placed, OnePhase, Hooks, Phases
  <2> QED
    BY <2>3, <2>4, <2>5 DEF OInv
<1>5. ASSUME TaskFails PROVE OInv'
  <2>1. phase \in Phases /\ index \in 1..Tasks[phase]
    BY <1>5 DEF TaskFails, TypeOK
  <2>2. /\ Current \in TaskId /\ Current[1] = phase /\ disk' \in {job', disk}
        /\ job'.state = job.state /\ job'.deployed = job.deployed
        /\ job'.capture = job.capture /\ job'.retained = job.retained
        /\ \A t \in TaskId : t # Current => job'.tasks[t] = job.tasks[t]
        /\ job'.tasks[Current] \in {"failed", "canceled"}
    BY <1>5, <2>1, SaveTask DEF TaskFails, TaskState, Reason
  <2>3. Placed'
    BY <1>5, <2>1, <2>2 DEF TaskFails, OInv, Placed, Hooks, Phases, Return
  <2>4. Unchosen'
    BY <1>5, <2>1, <2>2 DEF TaskFails, OInv, Unchosen, Return
  <2>5. OnePhase'
    BY <1>5, <2>1, <2>2 DEF OInv, Placed, OnePhase, Hooks, Phases
  <2> QED
    BY <2>3, <2>4, <2>5 DEF OInv
<1>6. ASSUME PhaseStops PROVE OInv'
  BY <1>6 DEF PhaseStops, OInv, Placed, Unchosen, OnePhase, Hooks, Phases, TypeOK, Return
<1>7. ASSUME PhaseEnds PROVE OInv'
  BY <1>7 DEF PhaseEnds, OInv, Placed, Unchosen, OnePhase, Hooks, Phases, TypeOK, Return
<1>8. ASSUME Expire PROVE OInv'
  BY <1>8 DEF Expire, OInv, Placed, Unchosen, OnePhase
<1>9. ASSUME Propagate PROVE OInv'
  BY <1>9 DEF Propagate, OInv, Placed, Unchosen, OnePhase
<1>10. ASSUME BootEnds PROVE OInv'
  BY <1>10 DEF BootEnds, OInv, Placed, Unchosen, OnePhase
<1>11. ASSUME Receive PROVE OInv'
  BY <1>11 DEF Receive, OInv, Placed, Unchosen, OnePhase
<1>12. ASSUME Break PROVE OInv'
  BY <1>12 DEF Break, OInv, Placed, Unchosen, OnePhase
<1>13. ASSUME LostStream PROVE OInv'
  BY <1>13 DEF LostStream, OInv, Placed, Unchosen, OnePhase
<1>14. ASSUME CaptureStops PROVE OInv'
  BY <1>14 DEF CaptureStops, OInv, Placed, Unchosen, OnePhase
<1>15. ASSUME Load PROVE OInv'
  BY <1>15 DEF Load, OInv, Placed, Unchosen, OnePhase
<1>16. ASSUME Attach PROVE OInv'
  BY <1>16 DEF Attach, OInv, Placed, Unchosen, OnePhase, Hooks, StartRunner, StartPhase
<1>17. ASSUME Announce PROVE OInv'
  <2>1. [job EXCEPT !.capture = "capturing", !.retained = retained] \in Record
    BY <1>17 DEF TypeOK, Record
  <2>2. job' = [job EXCEPT !.capture = "capturing", !.retained = retained]
    BY <1>17, <2>1, SaveRecord DEF Announce
  <2>3. /\ job'.state = job.state /\ job'.deployed = job.deployed /\ job'.tasks = job.tasks
        /\ job'.capture = "capturing" /\ job'.retained = retained
    BY <2>2
  <2>4. disk' \in {job', disk} /\ kills' = kills
    BY <1>17, <2>1, SaveRecord DEF Announce
  <2>5. Placed'
    BY <1>17, <2>3, <2>4 DEF Announce, Placed, Hooks, StartRunner, StartPhase
  <2>6. Unchosen'
    BY <1>17, <2>3, <2>4 DEF Announce, OInv, Unchosen
  <2>7. OnePhase'
    BY <1>17, <2>3, <2>4 DEF OInv, OnePhase
  <2> QED
    BY <2>5, <2>6, <2>7 DEF OInv
<1>18. ASSUME RunnerDone PROVE OInv'
  BY <1>18 DEF RunnerDone, OInv, Placed, Unchosen, OnePhase
<1>19. ASSUME CaptureFailed PROVE OInv'
  BY <1>19 DEF CaptureFailed, OInv, Placed, Unchosen, OnePhase
<1>20. ASSUME Drain PROVE OInv'
  BY <1>20 DEF Drain, OInv, Placed, Unchosen, OnePhase
<1>21. ASSUME StopCapture PROVE OInv'
  BY <1>21 DEF StopCapture, OInv, Placed, Unchosen, OnePhase
<1>22. ASSUME JoinCapture PROVE OInv'
  <2>1. [job EXCEPT !.capture = Verdict, !.retained = retained] \in Record
    BY <1>22 DEF TypeOK, Record, Verdict
  <2>2. job' = [job EXCEPT !.capture = Verdict, !.retained = retained]
    BY <1>22, <2>1, SaveRecord DEF JoinCapture
  <2>3. /\ job'.state = job.state /\ job'.deployed = job.deployed /\ job'.tasks = job.tasks
        /\ job'.capture = Verdict /\ job'.retained = retained
    BY <2>2
  <2>4. disk' \in {job', disk} /\ kills' = kills
    BY <1>22, <2>1, SaveRecord DEF JoinCapture
  <2>5. Placed'
    BY <1>22, <2>3, <2>4 DEF JoinCapture, OInv, Placed
  <2>6. Unchosen'
    BY <1>22, <2>3, <2>4 DEF JoinCapture, OInv, Unchosen
  <2>7. OnePhase'
    BY <1>22, <2>3, <2>4 DEF OInv, OnePhase
  <2> QED
    BY <2>5, <2>6, <2>7 DEF OInv
<1>23. ASSUME Select PROVE OInv'
  <2>1. [job EXCEPT !.deployed = DeploymentOutcome] \in Record
    BY <1>23 DEF TypeOK, Record, Outcomes, DeploymentOutcome, Outcome
  <2>2. job' = [job EXCEPT !.deployed = DeploymentOutcome]
    BY <1>23, <2>1, SaveRecord DEF Select
  <2>3. /\ job'.state = job.state /\ job'.tasks = job.tasks /\ job'.capture = job.capture
        /\ job'.retained = job.retained /\ job'.deployed = DeploymentOutcome
    BY <2>2
  <2>4. disk' \in {job', disk} /\ kills' = kills
    BY <1>23, <2>1, SaveRecord DEF Select
  <2>5. Placed'
    BY <1>23, <2>3, <2>4 DEF Select, OInv, Placed, StartPhase, DeploymentOutcome,
       Outcome, PhaseOf
  <2>6. Unchosen'
    BY <1>23, <2>3, <2>4 DEF Select, Unchosen
  <2>7. OnePhase'
    BY <1>23, <2>3, <2>4 DEF Select, OInv, Unchosen, OnePhase
  <2> QED
    BY <2>5, <2>6, <2>7 DEF OInv
<1>24. ASSUME Publish PROVE OInv'
  <2>1. [job EXCEPT !.state = Outcome(FinalErr)] \in Record
    BY <1>24 DEF TypeOK, Record, Outcomes, Outcome
  <2>2. job' = [job EXCEPT !.state = Outcome(FinalErr)]
    BY <1>24, <2>1, SaveRecord DEF Publish
  <2>3. /\ job'.deployed = job.deployed /\ job'.tasks = job.tasks /\ job'.capture = job.capture
        /\ job'.retained = job.retained /\ job'.state = Outcome(FinalErr)
    BY <2>2
  <2>4. disk' \in {job', disk} /\ kills' = kills
    BY <1>24, <2>1, SaveRecord DEF Publish
  <2>5. Placed'
    BY <1>24, <2>3, <2>4 DEF Publish, OInv, Placed
  <2>6. Unchosen'
    BY <1>24, <2>3, <2>4 DEF Publish, Unchosen
  <2>7. OnePhase'
    BY <1>24, <2>3, <2>4 DEF OInv, OnePhase
  <2> QED
    BY <2>5, <2>6, <2>7 DEF OInv
<1>25. ASSUME Kill PROVE OInv'
  BY <1>25 DEF Kill, OInv, Placed, Unchosen, OnePhase, Hooks
<1>26. ASSUME Restart PROVE OInv'
  BY <1>26, RepairRecord DEF Restart, OInv, Placed, Unchosen, OnePhase
<1>27. CASE UNCHANGED vars
  BY <1>27 DEF vars, OInv, Placed, Unchosen, OnePhase
<1> QED
  BY <1>1, <1>2, <1>3, <1>4, <1>5, <1>6, <1>7, <1>8, <1>9, <1>10, <1>11, <1>12, <1>13,
     <1>14, <1>15, <1>16, <1>17, <1>18, <1>19, <1>20, <1>21, <1>22, <1>23, <1>24, <1>25,
     <1>26, <1>27 DEF Next, TaskStep, RunStep

\* The invariant holds throughout a run.
LEMMA RunPlaced == Spec => []OInv
<1>1. Init => OInv
  <2> SUFFICES ASSUME Init PROVE OInv
    OBVIOUS
  <2>1. disk = job /\ job.deployed = "none" /\ \A t \in TaskId : job.tasks[t] = "none"
    BY DEF Init
  <2>2. phase = "none" /\ runner = "idle"
    BY DEF Init
  <2> QED
    BY <2>1, <2>2 DEF OInv, Placed, Unchosen, OnePhase, Hooks
<1> QED
  BY <1>1, RunTyped, OneNext, PTL DEF Spec

\* The tasks of exactly one outcome phase run, that of the recorded outcome, in memory and on
\* disk, whatever fails and whenever the station is canceled, killed and started again.
THEOREM OnePhaseOnly == Spec => []OnePhase
<1>1. OInv => OnePhase
  BY DEF OInv
<1> QED
  BY <1>1, RunPlaced, PTL

-----------------------------------------------------------------------------
(* A cancellation is neither lost nor invented.                             *)

\* Where an error says canceled, a context was; the runner that run itself stops is not asked.
Blamed ==
  /\ runErr = "canceled" => canceled
  /\ bootErr = "canceled" => canceled \/ stopped
  /\ pc \in {"load", "attach", "announce", "wait"} => ~stopped
  /\ propagated => canceled
  /\ pc = "down" => kills # 0

CInv == Blamed /\ CancelExact

\* A step keeps the blame where it belongs.
LEMMA BlameNext == TInv /\ OInv /\ CInv /\ [Next]_vars => CInv'
<1> SUFFICES ASSUME TInv, OInv, CInv, [Next]_vars PROVE CInv'
  OBVIOUS
<1> USE DEF TInv, Launched, contexts, booting, tasking, capturing, environment
<1>1. ASSUME Cancel PROVE CInv'
  BY <1>1 DEF Cancel, CInv, Blamed, CancelExact, Up
<1>2. ASSUME CheckTask PROVE CInv'
  BY <1>2 DEF CheckTask, CInv, Blamed, CancelExact
<1>3. ASSUME LaunchTask PROVE CInv'
  <2>1. phase \in Phases /\ index \in 1..Tasks[phase]
    BY <1>3 DEF LaunchTask, TypeOK
  <2>2. /\ Current \in TaskId /\ Current[1] = phase /\ disk' \in {job', disk}
        /\ job'.state = job.state /\ job'.deployed = job.deployed
        /\ job'.capture = job.capture /\ job'.retained = job.retained
        /\ \A t \in TaskId : t # Current => job'.tasks[t] = job.tasks[t]
        /\ job'.tasks[Current] = "running"
    BY <1>3, <2>1, SaveTask DEF LaunchTask, TaskState
  <2>3. Blamed'
    BY <1>3, <2>1, <2>2 DEF LaunchTask, CInv, Blamed, OInv, Placed, Hooks, Phases
  <2>4. CancelExact'
    BY <1>3, <2>1, <2>2 DEF LaunchTask, CancelExact, OInv, Placed, Hooks, Phases
  <2> QED
    BY <2>3, <2>4 DEF CInv
<1>4. ASSUME TaskSucceeds PROVE CInv'
  <2>1. phase \in Phases /\ index \in 1..Tasks[phase]
    BY <1>4 DEF TaskSucceeds, TypeOK
  <2>2. /\ Current \in TaskId /\ Current[1] = phase /\ disk' \in {job', disk}
        /\ job'.state = job.state /\ job'.deployed = job.deployed
        /\ job'.capture = job.capture /\ job'.retained = job.retained
        /\ \A t \in TaskId : t # Current => job'.tasks[t] = job.tasks[t]
        /\ job'.tasks[Current] = "succeeded"
    BY <1>4, <2>1, SaveTask DEF TaskSucceeds, TaskState
  <2>3. Blamed'
    BY <1>4, <2>1, <2>2 DEF TaskSucceeds, CInv, Blamed, OInv, Placed, Hooks, Phases
  <2>4. CancelExact'
    BY <1>4, <2>1, <2>2 DEF TaskSucceeds, CancelExact, OInv, Placed, Hooks, Phases
  <2> QED
    BY <2>3, <2>4 DEF CInv
<1>5. ASSUME TaskFails PROVE CInv'
  <2>1. phase \in Phases /\ index \in 1..Tasks[phase]
    BY <1>5 DEF TaskFails, TypeOK
  <2>2. /\ Current \in TaskId /\ Current[1] = phase /\ disk' \in {job', disk}
        /\ job'.state = job.state /\ job'.deployed = job.deployed
        /\ job'.capture = job.capture /\ job'.retained = job.retained
        /\ \A t \in TaskId : t # Current => job'.tasks[t] = job.tasks[t]
        /\ job'.tasks[Current] \in {"failed", "canceled"}
    BY <1>5, <2>1, SaveTask DEF TaskFails, TaskState, Reason
  <2>3. Blamed'
    BY <1>5, <2>1, <2>2 DEF TaskFails, CInv, Blamed, OInv, Placed, Phases, Stopped,
       Reason, Return
  <2>4. CancelExact'
    BY <1>5, <2>1, <2>2 DEF TaskFails, CancelExact, OInv, Placed, Return
  <2> QED
    BY <2>3, <2>4 DEF CInv
<1>6. ASSUME PhaseStops PROVE CInv'
  BY <1>6 DEF PhaseStops, CInv, Blamed, CancelExact, Phases, TypeOK, Return, Reason,
     MayLaunch, Stopped
<1>7. ASSUME PhaseEnds PROVE CInv'
  BY <1>7 DEF PhaseEnds, CInv, Blamed, CancelExact, Return
<1>8. ASSUME Expire PROVE CInv'
  BY <1>8 DEF Expire, CInv, Blamed, CancelExact
<1>9. ASSUME Propagate PROVE CInv'
  BY <1>9 DEF Propagate, CInv, Blamed, CancelExact
<1>10. ASSUME BootEnds PROVE CInv'
  BY <1>10 DEF BootEnds, CInv, Blamed, CancelExact
<1>11. ASSUME Receive PROVE CInv'
  BY <1>11 DEF Receive, CInv, Blamed, CancelExact
<1>12. ASSUME Break PROVE CInv'
  BY <1>12 DEF Break, CInv, Blamed, CancelExact
<1>13. ASSUME LostStream PROVE CInv'
  BY <1>13 DEF LostStream, CInv, Blamed, CancelExact
<1>14. ASSUME CaptureStops PROVE CInv'
  BY <1>14 DEF CaptureStops, CInv, Blamed, CancelExact
<1>15. ASSUME Load PROVE CInv'
  BY <1>15 DEF Load, CInv, Blamed, CancelExact
<1>16. ASSUME Attach PROVE CInv'
  BY <1>16 DEF Attach, CInv, Blamed, CancelExact, StartRunner
<1>17. ASSUME Announce PROVE CInv'
  <2>1. [job EXCEPT !.capture = "capturing", !.retained = retained] \in Record
    BY <1>17 DEF TypeOK, Record
  <2>2. job' = [job EXCEPT !.capture = "capturing", !.retained = retained]
    BY <1>17, <2>1, SaveRecord DEF Announce
  <2>3. /\ job'.state = job.state /\ job'.deployed = job.deployed /\ job'.tasks = job.tasks
        /\ job'.capture = "capturing" /\ job'.retained = retained
    BY <2>2
  <2>4. disk' \in {job', disk} /\ kills' = kills
    BY <1>17, <2>1, SaveRecord DEF Announce
  <2>5. Blamed'
    BY <1>17, <2>3, <2>4 DEF Announce, CInv, Blamed, StartRunner
  <2>6. CancelExact'
    BY <1>17, <2>3, <2>4 DEF Announce, CancelExact
  <2> QED
    BY <2>5, <2>6 DEF CInv
<1>18. ASSUME RunnerDone PROVE CInv'
  BY <1>18 DEF RunnerDone, CInv, Blamed, CancelExact
<1>19. ASSUME CaptureFailed PROVE CInv'
  BY <1>19 DEF CaptureFailed, CInv, Blamed, CancelExact
<1>20. ASSUME Drain PROVE CInv'
  BY <1>20 DEF Drain, CInv, Blamed, CancelExact, Drained
<1>21. ASSUME StopCapture PROVE CInv'
  BY <1>21 DEF StopCapture, CInv, Blamed, CancelExact
<1>22. ASSUME JoinCapture PROVE CInv'
  <2>1. [job EXCEPT !.capture = Verdict, !.retained = retained] \in Record
    BY <1>22 DEF TypeOK, Record, Verdict
  <2>2. job' = [job EXCEPT !.capture = Verdict, !.retained = retained]
    BY <1>22, <2>1, SaveRecord DEF JoinCapture
  <2>3. /\ job'.state = job.state /\ job'.deployed = job.deployed /\ job'.tasks = job.tasks
        /\ job'.capture = Verdict /\ job'.retained = retained
    BY <2>2
  <2>4. disk' \in {job', disk} /\ kills' = kills
    BY <1>22, <2>1, SaveRecord DEF JoinCapture
  <2>5. Blamed'
    BY <1>22, <2>3, <2>4 DEF JoinCapture, CInv, Blamed, CaptureErr
  <2>6. CancelExact'
    BY <1>22, <2>3, <2>4 DEF JoinCapture, CancelExact
  <2> QED
    BY <2>5, <2>6 DEF CInv
<1>23. ASSUME Select PROVE CInv'
  <2>1. [job EXCEPT !.deployed = DeploymentOutcome] \in Record
    BY <1>23 DEF TypeOK, Record, Outcomes, DeploymentOutcome, Outcome
  <2>2. job' = [job EXCEPT !.deployed = DeploymentOutcome]
    BY <1>23, <2>1, SaveRecord DEF Select
  <2>3. /\ job'.state = job.state /\ job'.tasks = job.tasks /\ job'.capture = job.capture
        /\ job'.retained = job.retained /\ job'.deployed = DeploymentOutcome
    BY <2>2
  <2>4. disk' \in {job', disk} /\ kills' = kills
    BY <1>23, <2>1, SaveRecord DEF Select
  <2>5. Blamed'
    BY <1>23, <2>3, <2>4 DEF Select, CInv, Blamed, FinalErr
  <2>6. CancelExact'
    BY <1>23, <2>3, <2>4 DEF Select, CancelExact
  <2> QED
    BY <2>5, <2>6 DEF CInv
<1>24. ASSUME Publish PROVE CInv'
  <2>1. [job EXCEPT !.state = Outcome(FinalErr)] \in Record
    BY <1>24 DEF TypeOK, Record, Outcomes, Outcome
  <2>2. job' = [job EXCEPT !.state = Outcome(FinalErr)]
    BY <1>24, <2>1, SaveRecord DEF Publish
  <2>3. /\ job'.deployed = job.deployed /\ job'.tasks = job.tasks /\ job'.capture = job.capture
        /\ job'.retained = job.retained /\ job'.state = Outcome(FinalErr)
    BY <2>2
  <2>4. disk' \in {job', disk} /\ kills' = kills
    BY <1>24, <2>1, SaveRecord DEF Publish
  <2>5. Blamed'
    BY <1>24, <2>3, <2>4 DEF Publish, CInv, Blamed, FinalErr
  <2>6. CancelExact'
    BY <1>24, <2>3, <2>4 DEF Publish, CInv, Blamed, CancelExact, Outcome, FinalErr
  <2> QED
    BY <2>5, <2>6 DEF CInv
<1>25. ASSUME Kill PROVE CInv'
  BY <1>25 DEF Kill, CInv, Blamed, CancelExact, TypeOK
<1>26. ASSUME Restart PROVE CInv'
  BY <1>26 DEF Restart, CInv, Blamed, CancelExact
<1>27. CASE UNCHANGED vars
  BY <1>27 DEF vars, CInv, Blamed, CancelExact
<1> QED
  BY <1>1, <1>2, <1>3, <1>4, <1>5, <1>6, <1>7, <1>8, <1>9, <1>10, <1>11, <1>12, <1>13,
     <1>14, <1>15, <1>16, <1>17, <1>18, <1>19, <1>20, <1>21, <1>22, <1>23, <1>24, <1>25,
     <1>26, <1>27 DEF Next, TaskStep, RunStep

\* A job ends canceled exactly when a cancellation was accepted before its end was published.
THEOREM CancelsExact == Spec => []CancelExact
<1>1. Init => CInv
  BY DEF Init, CInv, Blamed, CancelExact
<1>2. CInv => CancelExact
  BY DEF CInv
<1> QED
  BY <1>1, <1>2, RunTyped, RunPlaced, BlameNext, PTL DEF Spec

-----------------------------------------------------------------------------
(* Closed records.                                                          *)

\* While the job runs its records say so, and only the task and the capture that run do.
Recording ==
  /\ Up => job.state = "running" /\ disk.state = "running"
  /\ Up => \A t \in TaskId :
       job.tasks[t] = "running" => phase # "none" /\ task = "running" /\ t = Current
  /\ Up /\ job.capture = "capturing" => wanted /\ pc \in {"wait", "drain", "stop", "join"}
  /\ pc = "announce" => wanted

RInv == Recording /\ RecordClosed

\* A step leaves nothing running in the record of an ended job.
LEMMA ClosedNext == TInv /\ OInv /\ RInv /\ [Next]_vars => RInv'
<1> SUFFICES ASSUME TInv, OInv, RInv, [Next]_vars PROVE RInv'
  OBVIOUS
<1> USE DEF TInv, Launched, contexts, booting, tasking, capturing, environment
<1>1. ASSUME Cancel PROVE RInv'
  BY <1>1 DEF Cancel, RInv, Recording, RecordClosed, Current
<1>2. ASSUME CheckTask PROVE RInv'
  BY <1>2 DEF CheckTask, RInv, Recording, RecordClosed, Up
<1>3. ASSUME LaunchTask PROVE RInv'
  <2>1. phase \in Phases /\ index \in 1..Tasks[phase]
    BY <1>3 DEF LaunchTask, TypeOK
  <2>2. /\ Current \in TaskId /\ Current[1] = phase /\ disk' \in {job', disk}
        /\ job'.state = job.state /\ job'.deployed = job.deployed
        /\ job'.capture = job.capture /\ job'.retained = job.retained
        /\ \A t \in TaskId : t # Current => job'.tasks[t] = job.tasks[t]
        /\ job'.tasks[Current] = "running"
    BY <1>3, <2>1, SaveTask DEF LaunchTask, TaskState
  <2>3. Recording'
    BY <1>3, <2>1, <2>2 DEF LaunchTask, RInv, Recording, Up, Current
  <2>4. RecordClosed'
    BY <1>3, <2>1, <2>2 DEF RInv, Recording, RecordClosed, Terminal, OInv, Placed,
       Hooks, Phases, Up
  <2> QED
    BY <2>3, <2>4 DEF RInv
<1>4. ASSUME TaskSucceeds PROVE RInv'
  <2>1. phase \in Phases /\ index \in 1..Tasks[phase]
    BY <1>4 DEF TaskSucceeds, TypeOK
  <2>2. /\ Current \in TaskId /\ Current[1] = phase /\ disk' \in {job', disk}
        /\ job'.state = job.state /\ job'.deployed = job.deployed
        /\ job'.capture = job.capture /\ job'.retained = job.retained
        /\ \A t \in TaskId : t # Current => job'.tasks[t] = job.tasks[t]
        /\ job'.tasks[Current] = "succeeded"
    BY <1>4, <2>1, SaveTask DEF TaskSucceeds, TaskState
  <2>3. Recording'
    BY <1>4, <2>1, <2>2 DEF TaskSucceeds, RInv, Recording, Up
  <2>4. RecordClosed'
    BY <1>4, <2>1, <2>2 DEF RInv, RecordClosed, Terminal
  <2> QED
    BY <2>3, <2>4 DEF RInv
<1>5. ASSUME TaskFails PROVE RInv'
  <2>1. phase \in Phases /\ index \in 1..Tasks[phase]
    BY <1>5 DEF TaskFails, TypeOK
  <2>2. /\ Current \in TaskId /\ Current[1] = phase /\ disk' \in {job', disk}
        /\ job'.state = job.state /\ job'.deployed = job.deployed
        /\ job'.capture = job.capture /\ job'.retained = job.retained
        /\ \A t \in TaskId : t # Current => job'.tasks[t] = job.tasks[t]
        /\ job'.tasks[Current] \in {"failed", "canceled"}
    BY <1>5, <2>1, SaveTask DEF TaskFails, TaskState, Reason
  <2>3. Recording'
    BY <1>5, <2>1, <2>2 DEF TaskFails, RInv, Recording, OInv, Placed, Hooks, Phases, Up, Return
  <2>4. RecordClosed'
    BY <1>5, <2>1, <2>2 DEF RInv, RecordClosed, Terminal
  <2> QED
    BY <2>3, <2>4 DEF RInv
<1>6. ASSUME PhaseStops PROVE RInv'
  BY <1>6 DEF PhaseStops, RInv, Recording, RecordClosed, OInv, Placed, Hooks, Phases, Up,
     TypeOK, Return
<1>7. ASSUME PhaseEnds PROVE RInv'
  BY <1>7 DEF PhaseEnds, RInv, Recording, RecordClosed, OInv, Placed, Hooks, Phases, Up,
     TypeOK, Return
<1>8. ASSUME Expire PROVE RInv'
  BY <1>8 DEF Expire, RInv, Recording, RecordClosed, Up, Current
<1>9. ASSUME Propagate PROVE RInv'
  BY <1>9 DEF Propagate, RInv, Recording, RecordClosed, Up, Current
<1>10. ASSUME BootEnds PROVE RInv'
  BY <1>10 DEF BootEnds, RInv, Recording, RecordClosed, Up, Current
<1>11. ASSUME Receive PROVE RInv'
  BY <1>11 DEF Receive, RInv, Recording, RecordClosed, Up, Current
<1>12. ASSUME Break PROVE RInv'
  BY <1>12 DEF Break, RInv, Recording, RecordClosed, Up, Current
<1>13. ASSUME LostStream PROVE RInv'
  BY <1>13 DEF LostStream, RInv, Recording, RecordClosed, Up, Current
<1>14. ASSUME CaptureStops PROVE RInv'
  BY <1>14 DEF CaptureStops, RInv, Recording, RecordClosed, Up, Current
<1>15. ASSUME Load PROVE RInv'
  BY <1>15 DEF Load, RInv, Recording, RecordClosed, Up, Current
<1>16. ASSUME Attach PROVE RInv'
  BY <1>16 DEF Attach, RInv, Recording, RecordClosed, OInv, Placed, Hooks, Phases, Up, TypeOK
<1>17. ASSUME Announce PROVE RInv'
  <2>1. [job EXCEPT !.capture = "capturing", !.retained = retained] \in Record
    BY <1>17 DEF TypeOK, Record
  <2>2. job' = [job EXCEPT !.capture = "capturing", !.retained = retained]
    BY <1>17, <2>1, SaveRecord DEF Announce
  <2>3. /\ job'.state = job.state /\ job'.deployed = job.deployed /\ job'.tasks = job.tasks
        /\ job'.capture = "capturing" /\ job'.retained = retained
    BY <2>2
  <2>4. disk' \in {job', disk} /\ kills' = kills
    BY <1>17, <2>1, SaveRecord DEF Announce
  <2>5. Recording'
    BY <1>17, <2>3, <2>4 DEF Announce, RInv, Recording, OInv, Placed, Hooks, Phases, Up, TypeOK
  <2>6. RecordClosed'
    BY <1>17, <2>3, <2>4 DEF Announce, RInv, Recording, RecordClosed, Terminal, Up
  <2> QED
    BY <2>5, <2>6 DEF RInv
<1>18. ASSUME RunnerDone PROVE RInv'
  BY <1>18 DEF RunnerDone, RInv, Recording, RecordClosed, Up, Current
<1>19. ASSUME CaptureFailed PROVE RInv'
  BY <1>19 DEF CaptureFailed, RInv, Recording, RecordClosed, Up, Current
<1>20. ASSUME Drain PROVE RInv'
  BY <1>20 DEF Drain, RInv, Recording, RecordClosed, Up, Current
<1>21. ASSUME StopCapture PROVE RInv'
  BY <1>21 DEF StopCapture, RInv, Recording, RecordClosed, Up, Current
<1>22. ASSUME JoinCapture PROVE RInv'
  <2>1. [job EXCEPT !.capture = Verdict, !.retained = retained] \in Record
    BY <1>22 DEF TypeOK, Record, Verdict
  <2>2. job' = [job EXCEPT !.capture = Verdict, !.retained = retained]
    BY <1>22, <2>1, SaveRecord DEF JoinCapture
  <2>3. /\ job'.state = job.state /\ job'.deployed = job.deployed /\ job'.tasks = job.tasks
        /\ job'.capture = Verdict /\ job'.retained = retained
    BY <2>2
  <2>4. disk' \in {job', disk} /\ kills' = kills
    BY <1>22, <2>1, SaveRecord DEF JoinCapture
  <2>5. Recording'
    BY <1>22, <2>3, <2>4 DEF JoinCapture, RInv, Recording, Up, Current, Verdict
  <2>6. RecordClosed'
    BY <1>22, <2>3, <2>4 DEF RInv, RecordClosed, Terminal, Verdict
  <2> QED
    BY <2>5, <2>6 DEF RInv
<1>23. ASSUME Select PROVE RInv'
  <2>1. [job EXCEPT !.deployed = DeploymentOutcome] \in Record
    BY <1>23 DEF TypeOK, Record, Outcomes, DeploymentOutcome, Outcome
  <2>2. job' = [job EXCEPT !.deployed = DeploymentOutcome]
    BY <1>23, <2>1, SaveRecord DEF Select
  <2>3. /\ job'.state = job.state /\ job'.tasks = job.tasks /\ job'.capture = job.capture
        /\ job'.retained = job.retained /\ job'.deployed = DeploymentOutcome
    BY <2>2
  <2>4. disk' \in {job', disk} /\ kills' = kills
    BY <1>23, <2>1, SaveRecord DEF Select
  <2>5. Recording'
    BY <1>23, <2>3, <2>4 DEF Select, RInv, Recording, OInv, Placed, Hooks, Phases, Up, TypeOK
  <2>6. RecordClosed'
    BY <1>23, <2>3, <2>4 DEF RInv, RecordClosed, Terminal
  <2> QED
    BY <2>5, <2>6 DEF RInv
<1>24. ASSUME Publish PROVE RInv'
  <2>1. [job EXCEPT !.state = Outcome(FinalErr)] \in Record
    BY <1>24 DEF TypeOK, Record, Outcomes, Outcome
  <2>2. job' = [job EXCEPT !.state = Outcome(FinalErr)]
    BY <1>24, <2>1, SaveRecord DEF Publish
  <2>3. /\ job'.deployed = job.deployed /\ job'.tasks = job.tasks /\ job'.capture = job.capture
        /\ job'.retained = job.retained /\ job'.state = Outcome(FinalErr)
    BY <2>2
  <2>4. disk' \in {job', disk} /\ kills' = kills
    BY <1>24, <2>1, SaveRecord DEF Publish
  <2>5. Recording'
    BY <1>24, <2>3, <2>4 DEF Publish, Recording, Up
  <2>6. RecordClosed'
    BY <1>24, <2>3, <2>4 DEF Publish, RInv, Recording, RecordClosed, OInv, Placed,
       Hooks, Phases, Up, TypeOK
  <2> QED
    BY <2>5, <2>6 DEF RInv
<1>25. ASSUME Kill PROVE RInv'
  BY <1>25 DEF Kill, RInv, Recording, RecordClosed, Up
<1>26. ASSUME Restart PROVE RInv'
  BY <1>26, RepairRecord DEF Restart, RInv, Recording, RecordClosed, Up
<1>27. CASE UNCHANGED vars
  BY <1>27 DEF vars, RInv, Recording, RecordClosed, Up, Current
<1> QED
  BY <1>1, <1>2, <1>3, <1>4, <1>5, <1>6, <1>7, <1>8, <1>9, <1>10, <1>11, <1>12, <1>13,
     <1>14, <1>15, <1>16, <1>17, <1>18, <1>19, <1>20, <1>21, <1>22, <1>23, <1>24, <1>25,
     <1>26, <1>27 DEF Next, TaskStep, RunStep

\* The invariant holds throughout a run.
LEMMA RunRecorded == Spec => []RInv
<1>1. Init => RInv
  <2> SUFFICES ASSUME Init PROVE RInv
    OBVIOUS
  <2>1. disk = job /\ job.state = "running" /\ job.capture = "none" /\ \A t \in TaskId : job.tasks[t] = "none"
    BY DEF Init
  <2>2. pc = "load"
    BY DEF Init
  <2> QED
    BY <2>1, <2>2 DEF RInv, Recording, RecordClosed
<1> QED
  BY <1>1, RunTyped, RunPlaced, ClosedNext, PTL DEF Spec

\* The record of an ended job shows nothing that still runs, whichever writes failed and
\* whenever the station was killed.
THEOREM RecordsClosed == Spec => []RecordClosed
<1>1. RInv => RecordClosed
  BY DEF RInv
<1> QED
  BY <1>1, RunRecorded, PTL

-----------------------------------------------------------------------------
(* The capture's length, and launches after a cancellation.                 *)

\* What a record says of an ended capture is the length of the file, which no longer grows.
Settled(r) == r.capture \notin {"none", "capturing"} => r.retained = size /\ capture # "running"

KInv ==
  /\ retained = size
  /\ Settled(job) /\ Settled(disk)
  /\ pc \in {"load", "attach", "announce"} => job.capture = "none" /\ disk.capture = "none"
  /\ pc = "down" => capture = "none"

\* A step keeps the length of the log and what records say of it together.
LEMMA RetainNext == TInv /\ OInv /\ KInv /\ [Next]_vars => KInv'
<1> SUFFICES ASSUME TInv, OInv, KInv, [Next]_vars PROVE KInv'
  OBVIOUS
<1> USE DEF TInv, Launched, contexts, booting, tasking, capturing, environment
<1>1. ASSUME Cancel PROVE KInv'
  BY <1>1 DEF Cancel, KInv, Settled
<1>2. ASSUME CheckTask PROVE KInv'
  BY <1>2 DEF CheckTask, KInv, Settled
<1>3. ASSUME LaunchTask PROVE KInv'
  <2>1. phase \in Phases /\ index \in 1..Tasks[phase]
    BY <1>3 DEF LaunchTask, TypeOK
  <2>2. /\ Current \in TaskId /\ Current[1] = phase /\ disk' \in {job', disk}
        /\ job'.state = job.state /\ job'.deployed = job.deployed
        /\ job'.capture = job.capture /\ job'.retained = job.retained
        /\ \A t \in TaskId : t # Current => job'.tasks[t] = job.tasks[t]
        /\ job'.tasks[Current] = "running"
    BY <1>3, <2>1, SaveTask DEF LaunchTask, TaskState
  <2> QED
    BY <1>3, <2>1, <2>2 DEF LaunchTask, KInv, Settled
<1>4. ASSUME TaskSucceeds PROVE KInv'
  <2>1. phase \in Phases /\ index \in 1..Tasks[phase]
    BY <1>4 DEF TaskSucceeds, TypeOK
  <2>2. /\ Current \in TaskId /\ Current[1] = phase /\ disk' \in {job', disk}
        /\ job'.state = job.state /\ job'.deployed = job.deployed
        /\ job'.capture = job.capture /\ job'.retained = job.retained
        /\ \A t \in TaskId : t # Current => job'.tasks[t] = job.tasks[t]
        /\ job'.tasks[Current] = "succeeded"
    BY <1>4, <2>1, SaveTask DEF TaskSucceeds, TaskState
  <2> QED
    BY <1>4, <2>1, <2>2 DEF TaskSucceeds, KInv, Settled
<1>5. ASSUME TaskFails PROVE KInv'
  <2>1. phase \in Phases /\ index \in 1..Tasks[phase]
    BY <1>5 DEF TaskFails, TypeOK
  <2>2. /\ Current \in TaskId /\ Current[1] = phase /\ disk' \in {job', disk}
        /\ job'.state = job.state /\ job'.deployed = job.deployed
        /\ job'.capture = job.capture /\ job'.retained = job.retained
        /\ \A t \in TaskId : t # Current => job'.tasks[t] = job.tasks[t]
        /\ job'.tasks[Current] \in {"failed", "canceled"}
    BY <1>5, <2>1, SaveTask DEF TaskFails, TaskState, Reason
  <2> QED
    BY <1>5, <2>1, <2>2 DEF TaskFails, KInv, Settled, Return
<1>6. ASSUME PhaseStops PROVE KInv'
  BY <1>6 DEF PhaseStops, KInv, Settled, Return
<1>7. ASSUME PhaseEnds PROVE KInv'
  BY <1>7 DEF PhaseEnds, KInv, Settled, Return
<1>8. ASSUME Expire PROVE KInv'
  BY <1>8 DEF Expire, KInv, Settled
<1>9. ASSUME Propagate PROVE KInv'
  BY <1>9 DEF Propagate, KInv, Settled
<1>10. ASSUME BootEnds PROVE KInv'
  BY <1>10 DEF BootEnds, KInv, Settled
<1>11. ASSUME Receive PROVE KInv'
  BY <1>11 DEF Receive, KInv, Settled
<1>12. ASSUME Break PROVE KInv'
  BY <1>12 DEF Break, KInv, Settled
<1>13. ASSUME LostStream PROVE KInv'
  BY <1>13 DEF LostStream, KInv, Settled
<1>14. ASSUME CaptureStops PROVE KInv'
  BY <1>14 DEF CaptureStops, KInv, Settled
<1>15. ASSUME Load PROVE KInv'
  BY <1>15 DEF Load, KInv, Settled
<1>16. ASSUME Attach PROVE KInv'
  BY <1>16 DEF Attach, KInv, Settled
<1>17. ASSUME Announce PROVE KInv'
  <2>1. [job EXCEPT !.capture = "capturing", !.retained = retained] \in Record
    BY <1>17 DEF TypeOK, Record
  <2>2. job' = [job EXCEPT !.capture = "capturing", !.retained = retained]
    BY <1>17, <2>1, SaveRecord DEF Announce
  <2>3. /\ job'.state = job.state /\ job'.deployed = job.deployed /\ job'.tasks = job.tasks
        /\ job'.capture = "capturing" /\ job'.retained = retained
    BY <2>2
  <2>4. disk' \in {job', disk} /\ kills' = kills
    BY <1>17, <2>1, SaveRecord DEF Announce
  <2> QED
    BY <1>17, <2>3, <2>4 DEF Announce, KInv, Settled
<1>18. ASSUME RunnerDone PROVE KInv'
  BY <1>18 DEF RunnerDone, KInv, Settled
<1>19. ASSUME CaptureFailed PROVE KInv'
  BY <1>19 DEF CaptureFailed, KInv, Settled
<1>20. ASSUME Drain PROVE KInv'
  BY <1>20 DEF Drain, KInv, Settled
<1>21. ASSUME StopCapture PROVE KInv'
  BY <1>21 DEF StopCapture, KInv, Settled
<1>22. ASSUME JoinCapture PROVE KInv'
  <2>1. [job EXCEPT !.capture = Verdict, !.retained = retained] \in Record
    BY <1>22 DEF TypeOK, Record, Verdict
  <2>2. job' = [job EXCEPT !.capture = Verdict, !.retained = retained]
    BY <1>22, <2>1, SaveRecord DEF JoinCapture
  <2>3. /\ job'.state = job.state /\ job'.deployed = job.deployed /\ job'.tasks = job.tasks
        /\ job'.capture = Verdict /\ job'.retained = retained
    BY <2>2
  <2>4. disk' \in {job', disk} /\ kills' = kills
    BY <1>22, <2>1, SaveRecord DEF JoinCapture
  <2> QED
    BY <1>22, <2>3, <2>4 DEF JoinCapture, KInv, Settled
<1>23. ASSUME Select PROVE KInv'
  <2>1. [job EXCEPT !.deployed = DeploymentOutcome] \in Record
    BY <1>23 DEF TypeOK, Record, Outcomes, DeploymentOutcome, Outcome
  <2>2. job' = [job EXCEPT !.deployed = DeploymentOutcome]
    BY <1>23, <2>1, SaveRecord DEF Select
  <2>3. /\ job'.state = job.state /\ job'.tasks = job.tasks /\ job'.capture = job.capture
        /\ job'.retained = job.retained /\ job'.deployed = DeploymentOutcome
    BY <2>2
  <2>4. disk' \in {job', disk} /\ kills' = kills
    BY <1>23, <2>1, SaveRecord DEF Select
  <2> QED
    BY <1>23, <2>3, <2>4 DEF Select, KInv, Settled
<1>24. ASSUME Publish PROVE KInv'
  <2>1. [job EXCEPT !.state = Outcome(FinalErr)] \in Record
    BY <1>24 DEF TypeOK, Record, Outcomes, Outcome
  <2>2. job' = [job EXCEPT !.state = Outcome(FinalErr)]
    BY <1>24, <2>1, SaveRecord DEF Publish
  <2>3. /\ job'.deployed = job.deployed /\ job'.tasks = job.tasks /\ job'.capture = job.capture
        /\ job'.retained = job.retained /\ job'.state = Outcome(FinalErr)
    BY <2>2
  <2>4. disk' \in {job', disk} /\ kills' = kills
    BY <1>24, <2>1, SaveRecord DEF Publish
  <2> QED
    BY <1>24, <2>3, <2>4 DEF Publish, KInv, Settled
<1>25. ASSUME Kill PROVE KInv'
  BY <1>25 DEF Kill, KInv, Settled
<1>26. ASSUME Restart PROVE KInv'
  BY <1>26, RepairRecord DEF Restart, KInv, Settled
<1>27. CASE UNCHANGED vars
  BY <1>27 DEF vars, KInv, Settled
<1> QED
  BY <1>1, <1>2, <1>3, <1>4, <1>5, <1>6, <1>7, <1>8, <1>9, <1>10, <1>11, <1>12, <1>13,
     <1>14, <1>15, <1>16, <1>17, <1>18, <1>19, <1>20, <1>21, <1>22, <1>23, <1>24, <1>25,
     <1>26, <1>27 DEF Next, TaskStep, RunStep

\* What an ended job says it retained of the console is what the file holds.
THEOREM RetainedIsTrue == Spec => []RetainedTrue
<1>1. Init => KInv
  BY DEF Init, KInv, Settled
<1>2. KInv /\ RecordClosed => RetainedTrue
  BY DEF KInv, Settled, RecordClosed, RetainedTrue
<1> QED
  BY <1>1, <1>2, RunTyped, RunPlaced, RecordsClosed, RetainNext, PTL DEF Spec

\* One late launch is possible, and after it the phases that a cancellation stops launch none.
LInv ==
  \/ late = 0
  \/ late = 1 /\ canceled /\ ~(phase \in {"beforeBoot", "onSuccess"} /\ task = "launch")

\* A step launches late only what was past the check.
LEMMA LaunchNext == TInv /\ LInv /\ [Next]_vars => LInv'
<1> SUFFICES ASSUME TInv, LInv, [Next]_vars PROVE LInv'
  OBVIOUS
<1> USE DEF TInv, Launched, contexts, booting, tasking, capturing, environment
<1>1. ASSUME Cancel PROVE LInv'
  BY <1>1 DEF Cancel, LInv
<1>2. ASSUME CheckTask PROVE LInv'
  BY <1>2 DEF CheckTask, LInv, MayLaunch, Stopped
<1>3. ASSUME LaunchTask PROVE LInv'
  <2>1. phase \in Phases /\ index \in 1..Tasks[phase]
    BY <1>3 DEF LaunchTask, TypeOK
  <2>2. /\ Current \in TaskId /\ Current[1] = phase /\ disk' \in {job', disk}
        /\ job'.state = job.state /\ job'.deployed = job.deployed
        /\ job'.capture = job.capture /\ job'.retained = job.retained
        /\ \A t \in TaskId : t # Current => job'.tasks[t] = job.tasks[t]
        /\ job'.tasks[Current] = "running"
    BY <1>3, <2>1, SaveTask DEF LaunchTask, TaskState
  <2> QED
    BY <1>3, <2>1, <2>2 DEF LaunchTask, LInv
<1>4. ASSUME TaskSucceeds PROVE LInv'
  <2>1. phase \in Phases /\ index \in 1..Tasks[phase]
    BY <1>4 DEF TaskSucceeds, TypeOK
  <2>2. /\ Current \in TaskId /\ Current[1] = phase /\ disk' \in {job', disk}
        /\ job'.state = job.state /\ job'.deployed = job.deployed
        /\ job'.capture = job.capture /\ job'.retained = job.retained
        /\ \A t \in TaskId : t # Current => job'.tasks[t] = job.tasks[t]
        /\ job'.tasks[Current] = "succeeded"
    BY <1>4, <2>1, SaveTask DEF TaskSucceeds, TaskState
  <2> QED
    BY <1>4, <2>1, <2>2 DEF TaskSucceeds, LInv
<1>5. ASSUME TaskFails PROVE LInv'
  <2>1. phase \in Phases /\ index \in 1..Tasks[phase]
    BY <1>5 DEF TaskFails, TypeOK
  <2>2. /\ Current \in TaskId /\ Current[1] = phase /\ disk' \in {job', disk}
        /\ job'.state = job.state /\ job'.deployed = job.deployed
        /\ job'.capture = job.capture /\ job'.retained = job.retained
        /\ \A t \in TaskId : t # Current => job'.tasks[t] = job.tasks[t]
        /\ job'.tasks[Current] \in {"failed", "canceled"}
    BY <1>5, <2>1, SaveTask DEF TaskFails, TaskState, Reason
  <2> QED
    BY <1>5, <2>1, <2>2 DEF TaskFails, LInv, Return
<1>6. ASSUME PhaseStops PROVE LInv'
  BY <1>6 DEF PhaseStops, LInv, Return
<1>7. ASSUME PhaseEnds PROVE LInv'
  BY <1>7 DEF PhaseEnds, LInv, Return
<1>8. ASSUME Expire PROVE LInv'
  BY <1>8 DEF Expire, LInv
<1>9. ASSUME Propagate PROVE LInv'
  BY <1>9 DEF Propagate, LInv
<1>10. ASSUME BootEnds PROVE LInv'
  BY <1>10 DEF BootEnds, LInv
<1>11. ASSUME Receive PROVE LInv'
  BY <1>11 DEF Receive, LInv
<1>12. ASSUME Break PROVE LInv'
  BY <1>12 DEF Break, LInv
<1>13. ASSUME LostStream PROVE LInv'
  BY <1>13 DEF LostStream, LInv
<1>14. ASSUME CaptureStops PROVE LInv'
  BY <1>14 DEF CaptureStops, LInv
<1>15. ASSUME Load PROVE LInv'
  BY <1>15 DEF Load, LInv
<1>16. ASSUME Attach PROVE LInv'
  BY <1>16 DEF Attach, LInv, StartRunner, StartPhase
<1>17. ASSUME Announce PROVE LInv'
  <2>1. [job EXCEPT !.capture = "capturing", !.retained = retained] \in Record
    BY <1>17 DEF TypeOK, Record
  <2>2. job' = [job EXCEPT !.capture = "capturing", !.retained = retained]
    BY <1>17, <2>1, SaveRecord DEF Announce
  <2>3. /\ job'.state = job.state /\ job'.deployed = job.deployed /\ job'.tasks = job.tasks
        /\ job'.capture = "capturing" /\ job'.retained = retained
    BY <2>2
  <2>4. disk' \in {job', disk} /\ kills' = kills
    BY <1>17, <2>1, SaveRecord DEF Announce
  <2> QED
    BY <1>17, <2>3, <2>4 DEF Announce, LInv, StartRunner, StartPhase
<1>18. ASSUME RunnerDone PROVE LInv'
  BY <1>18 DEF RunnerDone, LInv
<1>19. ASSUME CaptureFailed PROVE LInv'
  BY <1>19 DEF CaptureFailed, LInv
<1>20. ASSUME Drain PROVE LInv'
  BY <1>20 DEF Drain, LInv
<1>21. ASSUME StopCapture PROVE LInv'
  BY <1>21 DEF StopCapture, LInv
<1>22. ASSUME JoinCapture PROVE LInv'
  <2>1. [job EXCEPT !.capture = Verdict, !.retained = retained] \in Record
    BY <1>22 DEF TypeOK, Record, Verdict
  <2>2. job' = [job EXCEPT !.capture = Verdict, !.retained = retained]
    BY <1>22, <2>1, SaveRecord DEF JoinCapture
  <2>3. /\ job'.state = job.state /\ job'.deployed = job.deployed /\ job'.tasks = job.tasks
        /\ job'.capture = Verdict /\ job'.retained = retained
    BY <2>2
  <2>4. disk' \in {job', disk} /\ kills' = kills
    BY <1>22, <2>1, SaveRecord DEF JoinCapture
  <2> QED
    BY <1>22, <2>3, <2>4 DEF JoinCapture, LInv
<1>23. ASSUME Select PROVE LInv'
  <2>1. [job EXCEPT !.deployed = DeploymentOutcome] \in Record
    BY <1>23 DEF TypeOK, Record, Outcomes, DeploymentOutcome, Outcome
  <2>2. job' = [job EXCEPT !.deployed = DeploymentOutcome]
    BY <1>23, <2>1, SaveRecord DEF Select
  <2>3. /\ job'.state = job.state /\ job'.tasks = job.tasks /\ job'.capture = job.capture
        /\ job'.retained = job.retained /\ job'.deployed = DeploymentOutcome
    BY <2>2
  <2>4. disk' \in {job', disk} /\ kills' = kills
    BY <1>23, <2>1, SaveRecord DEF Select
  <2> QED
    BY <1>23, <2>3, <2>4 DEF Select, LInv, StartPhase
<1>24. ASSUME Publish PROVE LInv'
  <2>1. [job EXCEPT !.state = Outcome(FinalErr)] \in Record
    BY <1>24 DEF TypeOK, Record, Outcomes, Outcome
  <2>2. job' = [job EXCEPT !.state = Outcome(FinalErr)]
    BY <1>24, <2>1, SaveRecord DEF Publish
  <2>3. /\ job'.deployed = job.deployed /\ job'.tasks = job.tasks /\ job'.capture = job.capture
        /\ job'.retained = job.retained /\ job'.state = Outcome(FinalErr)
    BY <2>2
  <2>4. disk' \in {job', disk} /\ kills' = kills
    BY <1>24, <2>1, SaveRecord DEF Publish
  <2> QED
    BY <1>24, <2>3, <2>4 DEF Publish, LInv
<1>25. ASSUME Kill PROVE LInv'
  BY <1>25 DEF Kill, LInv
<1>26. ASSUME Restart PROVE LInv'
  BY <1>26 DEF Restart, LInv
<1>27. CASE UNCHANGED vars
  BY <1>27 DEF vars, LInv
<1> QED
  BY <1>1, <1>2, <1>3, <1>4, <1>5, <1>6, <1>7, <1>8, <1>9, <1>10, <1>11, <1>12, <1>13,
     <1>14, <1>15, <1>16, <1>17, <1>18, <1>19, <1>20, <1>21, <1>22, <1>23, <1>24, <1>25,
     <1>26, <1>27 DEF Next, TaskStep, RunStep

\* "Cancellation stops further launches": at most the task that was past the check is launched.
THEOREM LaunchesStopped == Spec => []LaunchesStop
<1>1. Init => LInv
  <2> SUFFICES ASSUME Init PROVE LInv
    OBVIOUS
  <2>1. late = 0
    BY DEF Init
  <2> QED
    BY <2>1 DEF LInv
<1>2. LInv => LaunchesStop
  BY DEF LInv, LaunchesStop
<1> QED
  BY <1>1, <1>2, RunTyped, LaunchNext, PTL DEF Spec

-----------------------------------------------------------------------------
(* What a success means.                                                    *)

\* A task's place in its phase.
LEMMA TaskPlace ==
  ASSUME NEW t \in TaskId
  PROVE  t[1] \in Phases /\ t[2] \in 1..Tasks[t[1]] /\ t = <<t[1], t[2]>>
BY DEF TaskId

\* The tasks before the current one have succeeded.
Passed == phase # "none" => \A t \in TaskId : t[1] = phase /\ t[2] < index => job.tasks[t] = "succeeded"

Prepared == \A t \in TaskId : t[1] = "beforeBoot" => job.tasks[t] = "succeeded"

\* No boot without its tasks; no clean run without a clean boot.
Booted ==
  /\ Up /\ (runner = "boot" \/ (runner = "done" /\ bootErr = "none")) => Prepared
  /\ pc \in {"stop", "join", "select", "hooks", "publish"} /\ runErr = "none" =>
       runner = "done" /\ bootErr = "none"

\* The capture runs between its start and the join, and only if the request asks for it.
Observed ==
  /\ ~wanted => capture = "none" /\ ~capErr /\ job.capture = "none" /\ disk.capture = "none"
  /\ pc \in {"announce", "join"} => wanted
  /\ capture = "running" => pc \in {"announce", "wait", "drain", "stop", "join"}

Captured ==
  pc \in {"select", "hooks", "publish"} /\ runErr = "none" =>
    ~capErr /\ job.capture = IF ~wanted THEN "none" ELSE IF received > Limit THEN "truncated" ELSE "complete"

Hooked ==
  /\ pc \in {"hooks", "publish"} /\ runErr = "none" => job.deployed = "succeeded"
  /\ pc = "publish" /\ runErr = "none" =>
       \A t \in TaskId : t[1] = "onSuccess" => job.tasks[t] = "succeeded"

SInv == Passed /\ Booted /\ Observed /\ Captured /\ Hooked /\ SucceededMeansClean

\* A step keeps what a success will rest on.
LEMMA CleanNext == TInv /\ OInv /\ RInv /\ SInv /\ [Next]_vars => SInv'
<1> SUFFICES ASSUME TInv, OInv, RInv, SInv, [Next]_vars PROVE SInv'
  OBVIOUS
<1> USE DEF TInv, Launched, contexts, booting, tasking, capturing, environment
<1>1. ASSUME Cancel PROVE SInv'
  <2>1. Passed'
    BY <1>1 DEF Cancel, SInv, Passed
  <2>2. Booted'
    BY <1>1 DEF Cancel, SInv, Booted, Prepared
  <2>3. Observed'
    BY <1>1 DEF Cancel, SInv, Observed
  <2>4. Captured'
    BY <1>1 DEF Cancel, SInv, Captured
  <2>5. Hooked'
    BY <1>1 DEF Cancel, SInv, Hooked
  <2>6. SucceededMeansClean'
    BY <1>1 DEF Cancel, SucceededMeansClean, RInv, Recording
  <2> QED
    BY <2>1, <2>2, <2>3, <2>4, <2>5, <2>6 DEF SInv
<1>2. ASSUME CheckTask PROVE SInv'
  <2>1. Passed'
    BY <1>2 DEF CheckTask, SInv, Passed
  <2>2. Booted'
    BY <1>2 DEF CheckTask, SInv, Up, Booted, Prepared
  <2>3. Observed'
    BY <1>2 DEF CheckTask, SInv, Observed
  <2>4. Captured'
    BY <1>2 DEF CheckTask, SInv, Captured
  <2>5. Hooked'
    BY <1>2 DEF CheckTask, SInv, Hooked
  <2>6. SucceededMeansClean'
    BY <1>2 DEF CheckTask, SInv, SucceededMeansClean
  <2> QED
    BY <2>1, <2>2, <2>3, <2>4, <2>5, <2>6 DEF SInv
<1>3. ASSUME LaunchTask PROVE SInv'
  <2>1. phase \in Phases /\ index \in 1..Tasks[phase]
    BY <1>3 DEF LaunchTask, TypeOK
  <2>2. /\ Current \in TaskId /\ Current[1] = phase /\ disk' \in {job', disk}
        /\ job'.state = job.state /\ job'.deployed = job.deployed
        /\ job'.capture = job.capture /\ job'.retained = job.retained
        /\ \A t \in TaskId : t # Current => job'.tasks[t] = job.tasks[t]
        /\ job'.tasks[Current] = "running"
    BY <1>3, <2>1, SaveTask DEF LaunchTask, TaskState
  <2>3. Passed'
    BY <1>3, <2>1, <2>2 DEF LaunchTask, SInv, Passed, Current
  <2>4. Booted'
    BY <1>3, <2>1, <2>2 DEF LaunchTask, SInv, OInv, Placed, Up, Booted, Prepared
  <2>5. Observed'
    BY <1>3, <2>1, <2>2 DEF LaunchTask, SInv, Observed
  <2>6. Captured'
    BY <1>3, <2>1, <2>2 DEF LaunchTask, SInv, Captured
  <2>7. Hooked'
    BY <1>3, <2>1, <2>2 DEF LaunchTask, SInv, OInv, Placed, Hooks, Hooked
  <2>8. SucceededMeansClean'
    BY <1>3, <2>1, <2>2 DEF LaunchTask, SInv, OInv, Placed, Hooks, Up,
       SucceededMeansClean, RInv, Recording
  <2> QED
    BY <2>3, <2>4, <2>5, <2>6, <2>7, <2>8 DEF SInv
<1>4. ASSUME TaskSucceeds PROVE SInv'
  <2>1. phase \in Phases /\ index \in 1..Tasks[phase]
    BY <1>4 DEF TaskSucceeds, TypeOK
  <2>2. /\ Current \in TaskId /\ Current[1] = phase /\ disk' \in {job', disk}
        /\ job'.state = job.state /\ job'.deployed = job.deployed
        /\ job'.capture = job.capture /\ job'.retained = job.retained
        /\ \A t \in TaskId : t # Current => job'.tasks[t] = job.tasks[t]
        /\ job'.tasks[Current] = "succeeded"
    BY <1>4, <2>1, SaveTask DEF TaskSucceeds, TaskState
  <2>3. Passed'
    BY <1>4, TaskPlace, <2>1, <2>2 DEF TaskSucceeds, SInv, Passed, Current
  <2>4. Booted'
    BY <1>4, <2>1, <2>2 DEF TaskSucceeds, SInv, Up, Booted, Prepared
  <2>5. Observed'
    BY <1>4, <2>1, <2>2 DEF TaskSucceeds, SInv, Observed
  <2>6. Captured'
    BY <1>4, <2>1, <2>2 DEF TaskSucceeds, SInv, Captured
  <2>7. Hooked'
    BY <1>4, <2>1, <2>2 DEF TaskSucceeds, SInv, Hooked
  <2>8. SucceededMeansClean'
    BY <1>4, <2>1, <2>2 DEF TaskSucceeds, SInv, SucceededMeansClean
  <2> QED
    BY <2>3, <2>4, <2>5, <2>6, <2>7, <2>8 DEF SInv
<1>5. ASSUME TaskFails PROVE SInv'
  <2>1. phase \in Phases /\ index \in 1..Tasks[phase]
    BY <1>5 DEF TaskFails, TypeOK
  <2>2. /\ Current \in TaskId /\ Current[1] = phase /\ disk' \in {job', disk}
        /\ job'.state = job.state /\ job'.deployed = job.deployed
        /\ job'.capture = job.capture /\ job'.retained = job.retained
        /\ \A t \in TaskId : t # Current => job'.tasks[t] = job.tasks[t]
        /\ job'.tasks[Current] \in {"failed", "canceled"}
    BY <1>5, <2>1, SaveTask DEF TaskFails, TaskState, Reason
  <2>3. Passed'
    BY <1>5, <2>1, <2>2 DEF TaskFails, Passed, Return
  <2>4. Booted'
    BY <1>5, <2>1, <2>2 DEF TaskFails, SInv, OInv, Placed, Hooks, Phases, Up, Booted,
       Prepared, Reason, Return
  <2>5. Observed'
    BY <1>5, <2>1, <2>2 DEF TaskFails, SInv, OInv, Placed, Hooks, Phases, Observed, Return
  <2>6. Captured'
    BY <1>5, <2>1, <2>2 DEF TaskFails, SInv, Captured, Reason, Return
  <2>7. Hooked'
    BY <1>5, <2>1, <2>2 DEF TaskFails, SInv, Hooked, Reason, Return
  <2>8. SucceededMeansClean'
    BY <1>5, <2>1, <2>2 DEF TaskFails, SInv, OInv, Placed, Hooks, Up,
       SucceededMeansClean, RInv, Recording, Return
  <2> QED
    BY <2>3, <2>4, <2>5, <2>6, <2>7, <2>8 DEF SInv
<1>6. ASSUME PhaseStops PROVE SInv'
  <2>1. Passed'
    BY <1>6 DEF PhaseStops, Passed, Return
  <2>2. Booted'
    BY <1>6 DEF PhaseStops, SInv, OInv, Placed, Hooks, Phases, Up, Booted, Prepared,
       TypeOK, Return, Reason
  <2>3. Observed'
    BY <1>6 DEF PhaseStops, SInv, OInv, Placed, Hooks, Phases, Observed, TypeOK, Return
  <2>4. Captured'
    BY <1>6 DEF PhaseStops, SInv, Captured, Return, Reason
  <2>5. Hooked'
    BY <1>6 DEF PhaseStops, SInv, Hooked, Return, Reason
  <2>6. SucceededMeansClean'
    BY <1>6 DEF PhaseStops, SInv, OInv, Placed, Up, SucceededMeansClean, RInv,
       Recording, Return
  <2> QED
    BY <2>1, <2>2, <2>3, <2>4, <2>5, <2>6 DEF SInv
<1>7. ASSUME PhaseEnds PROVE SInv'
  <2>1. \A t \in TaskId : t[1] = phase => job.tasks[t] = "succeeded"
    BY <1>7, TaskPlace, RunAssumption DEF PhaseEnds, TypeOK, SInv, Passed
  <2>2. Passed'
    BY <1>7 DEF PhaseEnds, Passed, Return
  <2>3. Booted'
    BY <1>7, <2>1 DEF PhaseEnds, SInv, OInv, Placed, Hooks, Phases, Up, Booted,
       Prepared, TypeOK, Return
  <2>4. Observed'
    BY <1>7 DEF PhaseEnds, SInv, OInv, Placed, Hooks, Phases, Observed, TypeOK, Return
  <2>5. Captured'
    BY <1>7 DEF PhaseEnds, SInv, OInv, Placed, Hooks, Phases, Captured, TypeOK, Return
  <2>6. Hooked'
    BY <1>7, <2>1 DEF PhaseEnds, SInv, OInv, Placed, Hooks, Phases, Hooked, PhaseOf,
       TypeOK, Return
  <2>7. SucceededMeansClean'
    BY <1>7 DEF PhaseEnds, SInv, SucceededMeansClean, Return
  <2> QED
    BY <2>2, <2>3, <2>4, <2>5, <2>6, <2>7 DEF SInv
<1>8. ASSUME Expire PROVE SInv'
  <2>1. Passed'
    BY <1>8 DEF Expire, SInv, Passed
  <2>2. Booted'
    BY <1>8 DEF Expire, SInv, Up, Booted, Prepared
  <2>3. Observed'
    BY <1>8 DEF Expire, SInv, Observed
  <2>4. Captured'
    BY <1>8 DEF Expire, SInv, Captured
  <2>5. Hooked'
    BY <1>8 DEF Expire, SInv, Hooked
  <2>6. SucceededMeansClean'
    BY <1>8 DEF Expire, SInv, SucceededMeansClean
  <2> QED
    BY <2>1, <2>2, <2>3, <2>4, <2>5, <2>6 DEF SInv
<1>9. ASSUME Propagate PROVE SInv'
  <2>1. Passed'
    BY <1>9 DEF Propagate, SInv, Passed
  <2>2. Booted'
    BY <1>9 DEF Propagate, SInv, Up, Booted, Prepared
  <2>3. Observed'
    BY <1>9 DEF Propagate, SInv, Observed
  <2>4. Captured'
    BY <1>9 DEF Propagate, SInv, Captured
  <2>5. Hooked'
    BY <1>9 DEF Propagate, SInv, Hooked
  <2>6. SucceededMeansClean'
    BY <1>9 DEF Propagate, SInv, SucceededMeansClean
  <2> QED
    BY <2>1, <2>2, <2>3, <2>4, <2>5, <2>6 DEF SInv
<1>10. ASSUME BootEnds PROVE SInv'
  <2>1. pc \in {"wait", "drain"} /\ runner = "boot" /\ runner' = "done" /\ pc' = pc /\ job' = job
    BY <1>10 DEF BootEnds, OInv, Placed
  <2>2. Passed'
    BY <1>10 DEF BootEnds, SInv, Passed
  <2>3. Booted'
    <3>1. Prepared
      BY <2>1 DEF SInv, Up, Booted
    <3>2. Prepared'
      BY <2>1, <3>1 DEF Prepared
    <3> QED
      BY <2>1, <3>2 DEF Booted
  <2>4. Observed'
    BY <1>10 DEF BootEnds, SInv, Observed
  <2>5. Captured'
    BY <1>10 DEF BootEnds, SInv, Captured
  <2>6. Hooked'
    BY <1>10 DEF BootEnds, SInv, Hooked
  <2>7. SucceededMeansClean'
    BY <1>10 DEF BootEnds, OInv, Placed, Up, SucceededMeansClean, RInv, Recording
  <2> QED
    BY <2>2, <2>3, <2>4, <2>5, <2>6, <2>7 DEF SInv
<1>11. ASSUME Receive PROVE SInv'
  <2>1. Passed'
    BY <1>11 DEF Receive, SInv, Passed
  <2>2. Booted'
    BY <1>11 DEF Receive, SInv, Up, Booted, Prepared
  <2>3. Observed'
    BY <1>11 DEF Receive, SInv, Observed
  <2>4. Captured'
    BY <1>11 DEF Receive, SInv, Captured, Observed
  <2>5. Hooked'
    BY <1>11 DEF Receive, SInv, Hooked
  <2>6. SucceededMeansClean'
    BY <1>11 DEF Receive, SInv, Up, SucceededMeansClean, Observed, RInv, Recording
  <2> QED
    BY <2>1, <2>2, <2>3, <2>4, <2>5, <2>6 DEF SInv
<1>12. ASSUME Break PROVE SInv'
  <2>1. Passed'
    BY <1>12 DEF Break, SInv, Passed
  <2>2. Booted'
    BY <1>12 DEF Break, SInv, Up, Booted, Prepared
  <2>3. Observed'
    BY <1>12 DEF Break, SInv, Observed
  <2>4. Captured'
    BY <1>12 DEF Break, SInv, Captured
  <2>5. Hooked'
    BY <1>12 DEF Break, SInv, Hooked
  <2>6. SucceededMeansClean'
    BY <1>12 DEF Break, SInv, SucceededMeansClean
  <2> QED
    BY <2>1, <2>2, <2>3, <2>4, <2>5, <2>6 DEF SInv
<1>13. ASSUME LostStream PROVE SInv'
  <2>1. Passed'
    BY <1>13 DEF LostStream, SInv, Passed
  <2>2. Booted'
    BY <1>13 DEF LostStream, SInv, Up, Booted, Prepared
  <2>3. Observed'
    BY <1>13 DEF LostStream, SInv, Observed
  <2>4. Captured'
    BY <1>13 DEF LostStream, SInv, Captured, Observed
  <2>5. Hooked'
    BY <1>13 DEF LostStream, SInv, Hooked
  <2>6. SucceededMeansClean'
    BY <1>13 DEF LostStream, SInv, Up, SucceededMeansClean, Observed, RInv, Recording
  <2> QED
    BY <2>1, <2>2, <2>3, <2>4, <2>5, <2>6 DEF SInv
<1>14. ASSUME CaptureStops PROVE SInv'
  <2>1. Passed'
    BY <1>14 DEF CaptureStops, SInv, Passed
  <2>2. Booted'
    BY <1>14 DEF CaptureStops, SInv, Up, Booted, Prepared
  <2>3. Observed'
    BY <1>14 DEF CaptureStops, SInv, Observed
  <2>4. Captured'
    BY <1>14 DEF CaptureStops, Captured
  <2>5. Hooked'
    BY <1>14 DEF CaptureStops, Hooked
  <2>6. SucceededMeansClean'
    BY <1>14 DEF CaptureStops, SInv, SucceededMeansClean
  <2> QED
    BY <2>1, <2>2, <2>3, <2>4, <2>5, <2>6 DEF SInv
<1>15. ASSUME Load PROVE SInv'
  <2>1. Passed'
    BY <1>15 DEF Load, SInv, Passed
  <2>2. Booted'
    BY <1>15 DEF Load, SInv, Up, Booted, Prepared
  <2>3. Observed'
    BY <1>15 DEF Load, SInv, Observed
  <2>4. Captured'
    BY <1>15 DEF Load, Captured
  <2>5. Hooked'
    BY <1>15 DEF Load, Hooked
  <2>6. SucceededMeansClean'
    BY <1>15 DEF Load, SInv, SucceededMeansClean
  <2> QED
    BY <2>1, <2>2, <2>3, <2>4, <2>5, <2>6 DEF SInv
<1>16. ASSUME Attach PROVE SInv'
  <2>1. Passed'
    BY <1>16, TaskPlace DEF Attach, SInv, Passed, StartRunner, StartPhase
  <2>2. Booted'
    BY <1>16 DEF Attach, SInv, Up, Booted, Prepared, StartRunner
  <2>3. Observed'
    BY <1>16 DEF Attach, SInv, Observed
  <2>4. Captured'
    BY <1>16 DEF Attach, Captured
  <2>5. Hooked'
    BY <1>16 DEF Attach, Hooked
  <2>6. SucceededMeansClean'
    BY <1>16 DEF Attach, SInv, SucceededMeansClean, StartRunner
  <2> QED
    BY <2>1, <2>2, <2>3, <2>4, <2>5, <2>6 DEF SInv
<1>17. ASSUME Announce PROVE SInv'
  <2>1. [job EXCEPT !.capture = "capturing", !.retained = retained] \in Record
    BY <1>17 DEF TypeOK, Record
  <2>2. job' = [job EXCEPT !.capture = "capturing", !.retained = retained]
    BY <1>17, <2>1, SaveRecord DEF Announce
  <2>3. /\ job'.state = job.state /\ job'.deployed = job.deployed /\ job'.tasks = job.tasks
        /\ job'.capture = "capturing" /\ job'.retained = retained
    BY <2>2
  <2>4. disk' \in {job', disk} /\ kills' = kills
    BY <1>17, <2>1, SaveRecord DEF Announce
  <2>5. Passed'
    BY <1>17, TaskPlace, <2>3, <2>4 DEF Announce, Passed, StartRunner, StartPhase
  <2>6. Booted'
    BY <1>17, <2>3, <2>4 DEF Announce, Booted, StartRunner
  <2>7. Observed'
    BY <1>17, <2>3, <2>4 DEF Announce, SInv, Observed
  <2>8. Captured'
    BY <1>17, <2>3, <2>4 DEF Announce, Captured
  <2>9. Hooked'
    BY <1>17, <2>3, <2>4 DEF Announce, Hooked
  <2>10. SucceededMeansClean'
    BY <1>17, <2>3, <2>4 DEF Announce, Up, SucceededMeansClean, RInv, Recording
  <2> QED
    BY <2>5, <2>6, <2>7, <2>8, <2>9, <2>10 DEF SInv
<1>18. ASSUME RunnerDone PROVE SInv'
  <2>1. Passed'
    BY <1>18 DEF RunnerDone, SInv, Passed
  <2>2. Booted'
    BY <1>18 DEF RunnerDone, SInv, Up, Booted, Prepared
  <2>3. Observed'
    BY <1>18 DEF RunnerDone, SInv, Observed
  <2>4. Captured'
    BY <1>18 DEF RunnerDone, Captured
  <2>5. Hooked'
    BY <1>18 DEF RunnerDone, Hooked
  <2>6. SucceededMeansClean'
    BY <1>18 DEF RunnerDone, SInv, SucceededMeansClean
  <2> QED
    BY <2>1, <2>2, <2>3, <2>4, <2>5, <2>6 DEF SInv
<1>19. ASSUME CaptureFailed PROVE SInv'
  <2>1. Passed'
    BY <1>19 DEF CaptureFailed, SInv, Passed
  <2>2. Booted'
    BY <1>19 DEF CaptureFailed, SInv, Up, Booted, Prepared
  <2>3. Observed'
    BY <1>19 DEF CaptureFailed, SInv, Observed
  <2>4. Captured'
    BY <1>19 DEF CaptureFailed, Captured
  <2>5. Hooked'
    BY <1>19 DEF CaptureFailed, Hooked
  <2>6. SucceededMeansClean'
    BY <1>19 DEF CaptureFailed, SInv, SucceededMeansClean
  <2> QED
    BY <2>1, <2>2, <2>3, <2>4, <2>5, <2>6 DEF SInv
<1>20. ASSUME Drain PROVE SInv'
  <2>1. Passed'
    BY <1>20 DEF Drain, SInv, Passed
  <2>2. Booted'
    BY <1>20 DEF Drain, SInv, Up, Booted, Prepared, Drained
  <2>3. Observed'
    BY <1>20 DEF Drain, SInv, Observed
  <2>4. Captured'
    BY <1>20 DEF Drain, Captured
  <2>5. Hooked'
    BY <1>20 DEF Drain, Hooked
  <2>6. SucceededMeansClean'
    BY <1>20 DEF Drain, SInv, SucceededMeansClean
  <2> QED
    BY <2>1, <2>2, <2>3, <2>4, <2>5, <2>6 DEF SInv
<1>21. ASSUME StopCapture PROVE SInv'
  <2>1. Passed'
    BY <1>21 DEF StopCapture, SInv, Passed
  <2>2. Booted'
    BY <1>21 DEF StopCapture, SInv, Up, Booted, Prepared
  <2>3. Observed'
    BY <1>21 DEF StopCapture, SInv, Observed
  <2>4. Captured'
    BY <1>21 DEF StopCapture, SInv, Captured, Observed
  <2>5. Hooked'
    BY <1>21 DEF StopCapture, Hooked
  <2>6. SucceededMeansClean'
    BY <1>21 DEF StopCapture, SInv, SucceededMeansClean
  <2> QED
    BY <2>1, <2>2, <2>3, <2>4, <2>5, <2>6 DEF SInv
<1>22. ASSUME JoinCapture PROVE SInv'
  <2>1. [job EXCEPT !.capture = Verdict, !.retained = retained] \in Record
    BY <1>22 DEF TypeOK, Record, Verdict
  <2>2. job' = [job EXCEPT !.capture = Verdict, !.retained = retained]
    BY <1>22, <2>1, SaveRecord DEF JoinCapture
  <2>3. /\ job'.state = job.state /\ job'.deployed = job.deployed /\ job'.tasks = job.tasks
        /\ job'.capture = Verdict /\ job'.retained = retained
    BY <2>2
  <2>4. disk' \in {job', disk} /\ kills' = kills
    BY <1>22, <2>1, SaveRecord DEF JoinCapture
  <2>5. Passed'
    BY <1>22, <2>3, <2>4 DEF JoinCapture, SInv, Passed
  <2>6. Booted'
    BY <1>22, <2>3, <2>4 DEF JoinCapture, SInv, Up, Booted, Prepared, CaptureErr
  <2>7. Observed'
    BY <1>22, <2>3, <2>4 DEF JoinCapture, SInv, Observed
  <2>8. Captured'
    BY <1>22, <2>3, <2>4 DEF JoinCapture, SInv, Captured, Observed, Verdict, CaptureErr
  <2>9. Hooked'
    BY <1>22, <2>3, <2>4 DEF JoinCapture, Hooked
  <2>10. SucceededMeansClean'
    BY <1>22, <2>3, <2>4 DEF JoinCapture, Up, SucceededMeansClean, RInv, Recording
  <2> QED
    BY <2>5, <2>6, <2>7, <2>8, <2>9, <2>10 DEF SInv
<1>23. ASSUME Select PROVE SInv'
  <2>1. [job EXCEPT !.deployed = DeploymentOutcome] \in Record
    BY <1>23 DEF TypeOK, Record, Outcomes, DeploymentOutcome, Outcome
  <2>2. job' = [job EXCEPT !.deployed = DeploymentOutcome]
    BY <1>23, <2>1, SaveRecord DEF Select
  <2>3. /\ job'.state = job.state /\ job'.tasks = job.tasks /\ job'.capture = job.capture
        /\ job'.retained = job.retained /\ job'.deployed = DeploymentOutcome
    BY <2>2
  <2>4. disk' \in {job', disk} /\ kills' = kills
    BY <1>23, <2>1, SaveRecord DEF Select
  <2>5. Passed'
    BY <1>23, TaskPlace, <2>3, <2>4 DEF Select, Passed, StartPhase
  <2>6. Booted'
    BY <1>23, <2>3, <2>4 DEF Select, SInv, Up, Booted, Prepared, FinalErr
  <2>7. Observed'
    BY <1>23, <2>3, <2>4 DEF Select, SInv, Observed
  <2>8. Captured'
    BY <1>23, <2>3, <2>4 DEF Select, SInv, Captured, FinalErr
  <2>9. Hooked'
    BY <1>23, <2>3, <2>4 DEF Select, Hooked, DeploymentOutcome, Outcome
  <2>10. SucceededMeansClean'
    BY <1>23, <2>3, <2>4 DEF Select, Up, SucceededMeansClean, RInv, Recording
  <2> QED
    BY <2>5, <2>6, <2>7, <2>8, <2>9, <2>10 DEF SInv
<1>24. ASSUME Publish PROVE SInv'
  <2>1. [job EXCEPT !.state = Outcome(FinalErr)] \in Record
    BY <1>24 DEF TypeOK, Record, Outcomes, Outcome
  <2>2. job' = [job EXCEPT !.state = Outcome(FinalErr)]
    BY <1>24, <2>1, SaveRecord DEF Publish
  <2>3. /\ job'.deployed = job.deployed /\ job'.tasks = job.tasks /\ job'.capture = job.capture
        /\ job'.retained = job.retained /\ job'.state = Outcome(FinalErr)
    BY <2>2
  <2>4. disk' \in {job', disk} /\ kills' = kills
    BY <1>24, <2>1, SaveRecord DEF Publish
  <2>5. Passed'
    BY <1>24, <2>3, <2>4 DEF Publish, SInv, Passed
  <2>6. Booted'
    BY <1>24, <2>3, <2>4 DEF Publish, Up, Booted
  <2>7. Observed'
    BY <1>24, <2>3, <2>4 DEF Publish, SInv, Observed
  <2>8. Captured'
    BY <1>24, <2>3, <2>4 DEF Publish, Captured
  <2>9. Hooked'
    BY <1>24, <2>3, <2>4 DEF Publish, Hooked
  <2>10. SucceededMeansClean'
    BY <1>24, <2>3, <2>4 DEF Publish, SInv, Up, SucceededMeansClean, Booted, Prepared,
       Captured, Hooked, TypeOK, Outcome, FinalErr
  <2> QED
    BY <2>5, <2>6, <2>7, <2>8, <2>9, <2>10 DEF SInv
<1>25. ASSUME Kill PROVE SInv'
  <2>1. Passed'
    BY <1>25 DEF Kill, Passed
  <2>2. Booted'
    BY <1>25 DEF Kill, Booted
  <2>3. Observed'
    BY <1>25 DEF Kill, SInv, Observed
  <2>4. Captured'
    BY <1>25 DEF Kill, Captured
  <2>5. Hooked'
    BY <1>25 DEF Kill, Hooked
  <2>6. SucceededMeansClean'
    BY <1>25 DEF Kill, SInv, SucceededMeansClean
  <2> QED
    BY <2>1, <2>2, <2>3, <2>4, <2>5, <2>6 DEF SInv
<1>26. ASSUME Restart PROVE SInv'
  <2>1. Passed'
    BY <1>26, TaskPlace DEF Restart, OInv, Placed, Hooks, Phases, Passed
  <2>2. Booted'
    BY <1>26 DEF Restart, Up, Booted
  <2>3. Observed'
    BY <1>26, RepairRecord DEF Restart, SInv, Observed
  <2>4. Captured'
    BY <1>26 DEF Restart, Captured
  <2>5. Hooked'
    BY <1>26 DEF Restart, Hooked
  <2>6. SucceededMeansClean'
    BY <1>26, RepairRecord DEF Restart, SInv, SucceededMeansClean
  <2> QED
    BY <2>1, <2>2, <2>3, <2>4, <2>5, <2>6 DEF SInv
<1>27. CASE UNCHANGED vars
  BY <1>27 DEF vars, SInv, Passed, Booted, Prepared, Observed, Captured, Hooked,
     SucceededMeansClean, Up
<1> QED
  BY <1>1, <1>2, <1>3, <1>4, <1>5, <1>6, <1>7, <1>8, <1>9, <1>10, <1>11, <1>12, <1>13,
     <1>14, <1>15, <1>16, <1>17, <1>18, <1>19, <1>20, <1>21, <1>22, <1>23, <1>24, <1>25,
     <1>26, <1>27 DEF Next, TaskStep, RunStep

\* A job that succeeded booted cleanly, ran every task before and after the boot, and captured
\* its console as far as the limit allows.
THEOREM SuccessIsClean == Spec => []SucceededMeansClean
<1>1. Init => SInv
  <2> SUFFICES ASSUME Init PROVE SInv
    OBVIOUS
  <2>1. disk = job /\ job.state = "running" /\ job.capture = "none"
    BY DEF Init
  <2>2. pc = "load" /\ phase = "none" /\ runner = "idle" /\ capture = "none"
    BY DEF Init
  <2>3. capErr = FALSE
    BY DEF Init
  <2> QED
    BY <2>1, <2>2, <2>3 DEF SInv, Passed, Booted, Observed, Captured, Hooked,
       SucceededMeansClean
<1>2. SInv => SucceededMeansClean
  BY DEF SInv
<1> QED
  BY <1>1, <1>2, RunTyped, RunPlaced, RunRecorded, CleanNext, PTL DEF Spec

=============================================================================
