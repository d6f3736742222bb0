-------------------------- MODULE JobManagerProofs --------------------------
(***************************************************************************)
(* Theorems about JobManager, for every number of clients, keys, artifacts *)
(* and jobs, every queue capacity and retention limit, and any number of   *)
(* failures, kills and power losses.                                       *)
(***************************************************************************)
EXTENDS JobManager, FiniteSetTheorems, TLAPS

(* What the control points say about the locals they carry. *)
Control ==
  /\ gate = Free => step = "none"
  /\ step \in {"admit", "send", "reserve"} => goal = "create"
  /\ step \in {"ensure", "recheck"} => goal \in {"create", "import"}
  /\ step = "publish" => goal = "import"
  /\ goal \in {"create", "import"} => curArt \in Artifact
  /\ goal = "create" /\ step \notin {"send", "reserve"} => nextId \in JobId
  /\ step \in {"send", "reserve", "remove"} => curJob \in JobId
  /\ wpc \in {"take", "run"} => job \in JobId

TInv == TypeOK /\ Control

-----------------------------------------------------------------------------
(* Lemmas on the helpers the actions share.                                 *)

\* A record written leaves the types of the disk alone.
LEMMA PersistType ==
  ASSUME TypeOK, NEW j \in JobId, NEW s \in JState, NEW r \in Outcome, Persist(j, s, r)
  PROVE  /\ disk' \in [JobId -> JState]
         /\ older' \in [JobId -> SUBSET JState]
         /\ faults' \in 0..MaxFaults
BY ConstantsOK DEF TypeOK, DiskType, Persist, Fault, Outcome

\* ... and every other record.
LEMMA PersistElsewhere ==
  ASSUME TypeOK, NEW j \in JobId, NEW s, NEW r \in Outcome, Persist(j, s, r)
  PROVE  \A i \in JobId : i # j => disk'[i] = disk[i] /\ older'[i] = older[i]
BY DEF TypeOK, DiskType, Persist, Outcome

\* Removing a record keeps the types of the disk.
LEMMA UnlinkType ==
  ASSUME TypeOK, NEW j \in JobId, Unlink(j)
  PROVE  disk' \in [JobId -> JState] /\ older' \in [JobId -> SUBSET JState]
BY DEF TypeOK, DiskType, Unlink, JState

\* Failures stay within the model's bound.
LEMMA FaultType ==
  ASSUME TypeOK, NEW r \in Outcome, Fault(r)
  PROVE  faults' \in 0..MaxFaults
BY ConstantsOK DEF TypeOK, DiskType, Fault

\* A process that is gone leaves well-typed, empty locals.
LEMMA ForgetTInv ==
  ASSUME TInv, Forget,
         disk' \in [JobId -> JState], older' \in [JobId -> SUBSET JState],
         tomb' \in [Key -> JobRef], tombSoft' \subseteq Key, faults' \in 0..MaxFaults
  PROVE  TInv'
<1>1. /\ state' \in [JobId -> JState]
      /\ submissions' \in [Key -> JobRef] /\ expired' \in [Key -> JobRef]
  BY DEF Forget, JState, JobRef
<1>2. MemoryType'
  <2>1. queue' \in Seq(JobId) /\ reserved' \subseteq JobId /\ owing' \subseteq Client
    BY DEF Forget
  <2>2. phase' = "down" /\ boots' = boots /\ admissionErr' = FALSE
    BY DEF Forget
  <2> QED
    BY <1>1, <2>1, <2>2 DEF TInv, TypeOK, MemoryType
<1>3. HolderType' /\ WorkerType'
  BY DEF HolderType, WorkerType, Forget, Release, JobRef
<1>4. DiskType' /\ HistoryType'
  BY DEF TInv, TypeOK, DiskType, HistoryType, Forget, ids
<1>5. Control'
  BY ConstantsOK DEF Control, Forget, Release
<1> QED
  BY <1>2, <1>3, <1>4, <1>5 DEF TInv, TypeOK

\* Every variable keeps its type, and every control point carries the locals its
\* next step uses.
THEOREM TypeInductive == Spec => []TInv
<1>1. Init => TInv
  <2> SUFFICES ASSUME Init PROVE TInv
    OBVIOUS
  <2>1. /\ state \in [JobId -> JState] /\ disk \in [JobId -> JState]
        /\ older \in [JobId -> SUBSET JState]
    BY DEF Init, JState
  <2>2. /\ submissions \in [Key -> JobRef] /\ expired \in [Key -> JobRef]
        /\ tomb \in [Key -> JobRef] /\ bound \in [Key -> JobRef]
    BY DEF Init, JobRef
  <2>3. MemoryType
    <3>1. queue \in Seq(JobId) /\ reserved \subseteq JobId /\ owing \subseteq Client
      BY DEF Init
    <3>2. phase = "up" /\ boots \in Nat /\ admissionErr = FALSE
      BY ConstantsOK DEF Init
    <3> QED
      BY <2>1, <2>2, <3>1, <3>2 DEF MemoryType
  <2>4. HolderType /\ WorkerType
    BY ConstantsOK DEF Init, HolderType, WorkerType, JobRef
  <2>5. DiskType /\ HistoryType
    BY <2>1, <2>2, ConstantsOK DEF Init, DiskType, HistoryType
  <2>6. Control
    BY ConstantsOK DEF Init, Control
  <2> QED
    BY <2>3, <2>4, <2>5, <2>6 DEF TInv, TypeOK
<1>2. TInv /\ [Next]_vars => TInv'
  <2> SUFFICES ASSUME TInv, [Next]_vars PROVE TInv'
    OBVIOUS
  <2> USE ConstantsOK DEF TInv, Take, Release, GoTo, life, memory, holder, worker, tombs,
     ids,
      history, JobRef, Actor
  <2>1. ASSUME Boot PROVE TInv'
    BY <2>1 DEF Boot, LoadedTombstones, TypeOK, MemoryType, HolderType, WorkerType,
       DiskType, HistoryType, Control
  <2>2. ASSUME NEW j \in JobId, LoadPruned(j) PROVE TInv'
    BY <2>2, UnlinkType DEF LoadPruned, TypeOK, MemoryType, HolderType, WorkerType,
       DiskType, HistoryType, Control
  <2>3. ASSUME NEW j \in JobId, LoadPublished(j) PROVE TInv'
    <3>1. disk' \in [JobId -> JState] /\ older' \in [JobId -> SUBSET JState] /\ faults' \in 0..MaxFaults
      BY <2>3, PersistType DEF LoadPublished, JState, Terminal, Outcome, TypeOK, DiskType
    <3>2. state' \in [JobId -> JState]
      BY <2>3 DEF LoadPublished, JState, Terminal, TypeOK, MemoryType, DiskType
    <3>3. submissions' \in [Key -> JobRef] /\ bound' \in [Key -> JobRef]
      BY <2>3 DEF LoadPublished, TypeOK, MemoryType, HistoryType
    <3>4. MemoryType'
      BY <2>3, <3>2, <3>3 DEF LoadPublished, TypeOK, MemoryType
    <3>5. HolderType' /\ WorkerType' /\ Control'
      BY <2>3 DEF LoadPublished, TypeOK, HolderType, WorkerType, Control
    <3>6. DiskType' /\ HistoryType'
      BY <2>3, <3>1, <3>3 DEF LoadPublished, TypeOK, DiskType, HistoryType
    <3> QED
      BY <3>4, <3>5, <3>6 DEF TypeOK
  <2>4. ASSUME NEW j \in JobId, NEW r \in Outcome, LoadFails(j, r) PROVE TInv'
    BY <2>4, PersistType, ForgetTInv DEF JState, Active, Terminal, LoadFails, TypeOK,
       MemoryType, HolderType, WorkerType, DiskType, HistoryType, Control
  <2>5. ASSUME LoadDone PROVE TInv'
    BY <2>5 DEF LoadDone, TypeOK, MemoryType, HolderType, WorkerType, DiskType,
       HistoryType, Control
  <2>6. ASSUME NEW c \in Client, NEW k \in Key \cup {NoKey}, NEW a \in Artifact,
     CreateBegin(c, k, a)
        PROVE  TInv'
    BY <2>6 DEF CreateBegin, JobId, TypeOK, MemoryType, HolderType, WorkerType, DiskType,
       HistoryType, Control
  <2>7. ASSUME NEW c \in Client, NEW a \in Artifact, ImportBegin(c, a) PROVE TInv'
    BY <2>7 DEF ImportBegin, TypeOK, MemoryType, HolderType, WorkerType, DiskType,
       HistoryType, Control
  <2>8. ASSUME Ensure PROVE TInv'
    BY <2>8 DEF Ensure, TypeOK, MemoryType, HolderType, WorkerType, DiskType, HistoryType,
       Control
  <2>9. ASSUME AdmitReject PROVE TInv'
    BY <2>9 DEF AdmitReject, TypeOK, MemoryType, HolderType, WorkerType, DiskType,
       HistoryType, Control
  <2>10. ASSUME NEW r \in Outcome, AdmitInsert(r) PROVE TInv'
    <3>1. nextId \in JobId
      BY <2>10 DEF AdmitInsert, Control
    <3>2. disk' \in [JobId -> JState] /\ older' \in [JobId -> SUBSET JState] /\ faults' \in 0..MaxFaults
      BY <2>10, <3>1, PersistType DEF AdmitInsert, JState, Active
    <3>3. MemoryType'
      BY <2>10, <3>1 DEF AdmitInsert, TypeOK, MemoryType, HolderType, JState, Active
    <3>4. HolderType' /\ WorkerType'
      BY <2>10, <3>1 DEF AdmitInsert, TypeOK, HolderType, WorkerType
    <3>5. DiskType'
      BY <2>10, <3>2 DEF AdmitInsert, TypeOK, DiskType
    <3>6. HistoryType'
      BY <2>10, <3>1 DEF AdmitInsert, TypeOK, HistoryType, HolderType, JobId
    <3>7. Control'
      BY <2>10, <3>1 DEF AdmitInsert, Control
    <3> QED
      BY <3>3, <3>4, <3>5, <3>6, <3>7 DEF TypeOK
  <2>11. ASSUME Send PROVE TInv'
    <3>1. queue' \in Seq(JobId)
      BY <2>11 DEF Send, TypeOK, MemoryType, Control
    <3>2. MemoryType'
      BY <2>11, <3>1 DEF Send, TypeOK, MemoryType
    <3>3. HolderType' /\ WorkerType'
      BY <2>11 DEF Send, TypeOK, HolderType, WorkerType
    <3>4. DiskType' /\ HistoryType'
      BY <2>11 DEF Send, TypeOK, DiskType, HistoryType
    <3>5. Control'
      BY <2>11 DEF Send, Control
    <3> QED
      BY <3>2, <3>3, <3>4, <3>5 DEF TypeOK
  <2>12. ASSUME Reserve PROVE TInv'
    BY <2>12 DEF Reserve, TypeOK, MemoryType, HolderType, WorkerType, DiskType,
       HistoryType, Control
  <2>13. ASSUME ImportEnd PROVE TInv'
    BY <2>13 DEF ImportEnd, TypeOK, MemoryType, HolderType, WorkerType, DiskType,
       HistoryType, Control
  <2>14. ASSUME ImportMore PROVE TInv'
    BY <2>14 DEF ImportMore, TypeOK, MemoryType, HolderType, WorkerType, DiskType,
       HistoryType, Control
  <2>15. ASSUME Dequeue PROVE TInv'
    BY <2>15 DEF Dequeue, TypeOK, MemoryType, HolderType, WorkerType, DiskType,
       HistoryType, Control
  <2>16. ASSUME WorkerExit PROVE TInv'
    BY <2>16 DEF WorkerExit, TypeOK, MemoryType, HolderType, WorkerType, DiskType,
       HistoryType, Control
  <2>17. ASSUME NEW r \in Outcome, Start(r) PROVE TInv'
    <3>1. job \in JobId
      BY <2>17 DEF Start, Control
    <3>2. disk' \in [JobId -> JState] /\ older' \in [JobId -> SUBSET JState] /\ faults' \in 0..MaxFaults
      BY <2>17, <3>1, PersistType DEF Start, JState, Active, TypeOK, DiskType
    <3>3. MemoryType' /\ HolderType'
      BY <2>17, <3>1 DEF Start, TypeOK, MemoryType, HolderType, JState, Active
    <3>4. WorkerType' /\ Control'
      BY <2>17, <3>1 DEF Start, TypeOK, WorkerType, Control
    <3>5. DiskType'
      BY <2>17, <3>2 DEF Start, TypeOK, DiskType
    <3>6. execs' \in [Key -> 0..2]
      BY <2>17, <3>1 DEF Start, TypeOK, HistoryType
    <3>7. HistoryType'
      BY <2>17, <3>6 DEF Start, TypeOK, HistoryType
    <3> QED
      BY <3>3, <3>4, <3>5, <3>7 DEF TypeOK
  <2>18. ASSUME NEW r \in Outcome, Progress(r) PROVE TInv'
    BY <2>18, PersistType DEF JState, Active, Terminal, Progress, TypeOK, MemoryType,
       HolderType, WorkerType, DiskType, HistoryType, Control
  <2>19. ASSUME NEW o \in Terminal, NEW r \in Outcome, Finish(o, r) PROVE TInv'
    <3>1. job \in JobId
      BY <2>19 DEF Finish, Control
    <3>2. disk' \in [JobId -> JState] /\ older' \in [JobId -> SUBSET JState] /\ faults' \in 0..MaxFaults
      BY <2>19, <3>1, PersistType DEF Finish, JState
    <3>3. MemoryType'
      BY <2>19, <3>1 DEF Finish, TypeOK, MemoryType, JState
    <3>4. HolderType' /\ WorkerType' /\ Control'
      BY ZenonT(40), <2>19 DEF Finish, TypeOK, HolderType, WorkerType, Control
    <3>5. DiskType' /\ HistoryType'
      BY <2>19, <3>2 DEF Finish, TypeOK, DiskType, HistoryType
    <3> QED
      BY <3>3, <3>4, <3>5 DEF TypeOK
  <2>20. ASSUME NEW c \in Client, NEW j \in JobId, NEW r \in Outcome, Cancel(c, j, r)
         PROVE  TInv'
    <3>1. /\ disk' \in [JobId -> JState] /\ older' \in [JobId -> SUBSET JState] /\ faults' \in 0..MaxFaults
          /\ UNCHANGED <<tombs, store>>
      BY <2>20, PersistType DEF JState, Terminal, Cancel, TypeOK, DiskType
    <3>2. MemoryType'
      BY <2>20 DEF JState, Terminal, Cancel, TypeOK, MemoryType
    <3>3. HolderType' /\ WorkerType' /\ Control'
      BY <2>20 DEF Cancel, TypeOK, HolderType, WorkerType, Control
    <3>4. DiskType'
      BY <3>1 DEF TypeOK, DiskType
    <3>5. HistoryType'
      BY <2>20 DEF Cancel, TypeOK, HistoryType
    <3> QED
      BY <3>2, <3>3, <3>4, <3>5 DEF TypeOK
  <2>21. ASSUME NEW a \in Client \cup {Worker}, RetainBegin(a) PROVE TInv'
    BY <2>21 DEF RetainBegin, TypeOK, MemoryType, HolderType, WorkerType, DiskType,
       HistoryType, Control
  <2>22. ASSUME Retain PROVE TInv'
    BY <2>22 DEF Retain, TypeOK, MemoryType, HolderType, WorkerType, DiskType,
       HistoryType, Control
  <2>23. ASSUME NEW c \in Client, CleanupBegin(c) PROVE TInv'
    BY <2>23 DEF CleanupBegin, TypeOK, MemoryType, HolderType, WorkerType, DiskType,
       HistoryType, Control
  <2>24. ASSUME Sweep PROVE TInv'
    BY <2>24 DEF Sweep, Prunable, Completed, TypeOK, MemoryType, HolderType, WorkerType,
       DiskType, HistoryType, Control
  <2>25. ASSUME NEW j \in JobId, NEW r \in Outcome, Tombstone(j, r) PROVE TInv'
    <3>1. key[j] # NoKey => key[j] \in Key
      BY <2>25 DEF TypeOK, HistoryType
    <3>2. MemoryType'
      BY <2>25, <3>1 DEF Tombstone, TypeOK, MemoryType, JobRef
    <3>3. HolderType' /\ WorkerType' /\ Control'
      BY <2>25 DEF Tombstone, TypeOK, HolderType, WorkerType, Control
    <3>4. faults' \in 0..MaxFaults
      BY <2>25, FaultType DEF Tombstone, WriteTombstone, TypeOK, DiskType
    <3>5. DiskType'
      BY <2>25, <3>1, <3>4 DEF Tombstone, WriteTombstone, TypeOK, DiskType, JobRef
    <3>6. HistoryType'
      BY <2>25 DEF Tombstone, TypeOK, HistoryType
    <3> QED
      BY <3>2, <3>3, <3>5, <3>6 DEF TypeOK
  <2>26. ASSUME NEW r \in Outcome, Remove(r) PROVE TInv'
    BY <2>26, UnlinkType, FaultType DEF JState, Remove, TypeOK, MemoryType, HolderType,
       WorkerType, DiskType, HistoryType, Control
  <2>27. ASSUME Pruned PROVE TInv'
    BY <2>27 DEF Pruned, TypeOK, MemoryType, HolderType, WorkerType, DiskType,
       HistoryType, Control
  <2>28. ASSUME NEW a \in Artifact, Evict(a) PROVE TInv'
    BY <2>28 DEF Evict, TypeOK, MemoryType, HolderType, WorkerType, DiskType, HistoryType,
       Control
  <2>29. ASSUME CleanupDone PROVE TInv'
    BY <2>29 DEF CleanupDone, TypeOK, MemoryType, HolderType, WorkerType, DiskType,
       HistoryType, Control
  <2>30. ASSUME CleanupFails PROVE TInv'
    BY <2>30, ForgetTInv DEF CleanupFails, TypeOK, MemoryType, HolderType, WorkerType,
       DiskType, HistoryType, Control
  <2>31. ASSUME Close PROVE TInv'
    BY <2>31 DEF Close, TypeOK, MemoryType, HolderType, WorkerType, DiskType, HistoryType,
       Control
  <2>32. ASSUME Exit PROVE TInv'
    BY <2>32, ForgetTInv DEF Exit, TypeOK, MemoryType, HolderType, WorkerType, DiskType,
       HistoryType, Control
  <2>33. ASSUME Kill PROVE TInv'
    BY <2>33, ForgetTInv DEF Kill, TypeOK, MemoryType, HolderType, WorkerType, DiskType,
       HistoryType, Control
  <2>34. ASSUME PowerLoss PROVE TInv'
    BY <2>34, ForgetTInv DEF PowerLoss, TypeOK, MemoryType, HolderType, WorkerType,
       DiskType, HistoryType, Control
  <2>35. CASE UNCHANGED vars
    BY <2>35 DEF vars, TypeOK, MemoryType, HolderType, WorkerType, DiskType, HistoryType,
       Control
  <2> QED
    BY <2>1, <2>2, <2>3, <2>4, <2>5, <2>6, <2>7, <2>8, <2>9, <2>10, <2>11, <2>12, <2>13,
       <2>14, <2>15, <2>16, <2>17, <2>18, <2>19, <2>20, <2>21, <2>22, <2>23, <2>24, <2>25,
       <2>26, <2>27, <2>28, <2>29, <2>30, <2>31, <2>32, <2>33, <2>34, <2>35 DEF Next,
       Opening, Growing, Working,
       Retaining, GoingDown

<1>3. QED
  BY <1>1, <1>2, PTL DEF Spec

-----------------------------------------------------------------------------
(* The inductive invariant behind the properties of a serving manager.      *)

\* A number not handed out yet names nothing, in memory or on disk.
Numbered ==
  \A j \in JobId : state[j] # "absent" \/ disk[j] # "absent" \/ older[j] # {} \/ j \in cancelAcked =>
    j < nextId

Reserving ==
  \A j \in ActiveJobs :
    Serving /\ (j \in reserved \/ (step \in {"send", "reserve"} /\ curJob = j))

Keeping == \A j \in ActiveJobs : art[j] \in store

\* The running job is the worker's.
Running ==
  /\ \A j \in JobId : state[j] = "running" => wpc = "run" /\ job = j
  /\ wpc = "run" => state[job] = "running"
  /\ gate = Worker => wpc = "retain" /\ goal = "retain"

Canceling ==
  /\ phase \in {"down", "loading"} => cancelAcked = {}
  /\ \A j \in cancelAcked :
       /\ state[j] \in {"running", "canceled", "absent"}
       /\ state[j] = "running" => fired

\* What a cleanup prunes is completed, what a start reads is not in memory yet.
Pruning ==
  /\ phase = "down" => \A j \in JobId : state[j] = "absent"
  /\ goal = "start" => phase = "loading" \/ (phase = "refused" /\ step = "load")
  /\ step = "load" =>
       goal = "start" /\ \A j \in prune : state[j] = "absent" /\ disk[j] # "absent"
  /\ step \in {"prune", "remove"} => prune \subseteq Completed
  /\ step = "remove" => curJob \in Completed

SInv == SendNeverBlocks /\ Numbered /\ Reserving /\ Keeping /\ Running /\ Canceling /\ Pruning

\* The serving invariant holds in every reachable state, through stops, kills,
\* power losses and restarts.
THEOREM ServingInductive == Spec => []SInv
<1>1. Init => SInv
  BY ConstantsOK DEF Init, SInv, SendNeverBlocks, Numbered, Reserving, Keeping, Running,
     Canceling,
     Pruning, ActiveJobs, Active, None, Actor
<1>2. TInv /\ TInv' /\ SInv /\ [Next]_vars => SInv'
  <2> SUFFICES ASSUME TInv, TInv', SInv, [Next]_vars PROVE SInv'
    OBVIOUS
  <2> USE ConstantsOK DEF TInv, Take, Release, GoTo, life, memory, holder, worker, tombs,
     ids,
      history, Actor, TypeOK, MemoryType, HolderType, WorkerType, DiskType, HistoryType, Control
  <2>1. ASSUME Boot PROVE SInv'
    BY <2>1 DEF Boot, SInv, SendNeverBlocks, Numbered, Reserving, Keeping, Running,
       Canceling, Pruning, Serving, Completed, ActiveJobs, Active, Terminal
  <2>2. ASSUME NEW j \in JobId, LoadPruned(j) PROVE SInv'
    BY <2>2 DEF LoadPruned, SInv, SendNeverBlocks, Numbered, Reserving, Keeping, Running,
       Canceling, Pruning, Serving, Completed, ActiveJobs, Active, Terminal, Unlink,
       MutexFree
  <2>3. ASSUME NEW j \in JobId, LoadPublished(j) PROVE SInv'
    <3>1. /\ state[j] = "absent" /\ disk[j] # "absent"
          /\ \A i \in JobId : i # j => state'[i] = state[i]
          /\ state'[j] \in {"absent"} \cup Terminal
      BY <2>3 DEF LoadPublished, SInv, Pruning, JState, Active, Terminal
    <3>2. SendNeverBlocks' /\ Numbered'
      BY <2>3, <3>1 DEF LoadPublished, Persist, SInv, SendNeverBlocks, Numbered
    <3>3. Reserving' /\ Keeping'
      BY <2>3, <3>1 DEF LoadPublished, SInv, Reserving, Keeping, ActiveJobs, Active,
         Terminal, Serving
    <3>4. Running'
      BY <2>3, <3>1 DEF LoadPublished, SInv, Running, Terminal
    <3>5. Canceling'
      BY <2>3, <3>1 DEF LoadPublished, SInv, Canceling, Pruning
    <3>6. Pruning'
      BY <2>3, <3>1 DEF LoadPublished, Persist, SInv, Pruning
    <3> QED
      BY <3>2, <3>3, <3>4, <3>5, <3>6 DEF SInv
  <2>4. ASSUME NEW j \in JobId, NEW r \in Outcome, LoadFails(j, r) PROVE SInv'
    BY <2>4 DEF LoadFails, SInv, SendNeverBlocks, Numbered, Reserving, Keeping, Running,
       Canceling, Pruning, Serving, Completed, ActiveJobs, Active, Terminal, Persist,
       MutexFree, Outcome, Forget
  <2>5. ASSUME LoadDone PROVE SInv'
    BY <2>5 DEF LoadDone, SInv, SendNeverBlocks, Numbered, Reserving, Keeping, Running,
       Canceling, Pruning, Serving, Completed, ActiveJobs, Active, Terminal
  <2>6. ASSUME NEW c \in Client, NEW k \in Key \cup {NoKey}, NEW a \in Artifact,
     CreateBegin(c, k, a)
        PROVE  SInv'
    BY <2>6 DEF CreateBegin, SInv, SendNeverBlocks, Numbered, Reserving, Keeping, Running,
       Canceling, Pruning, Serving, Completed, ActiveJobs, Active, Terminal
  <2>7. ASSUME NEW c \in Client, NEW a \in Artifact, ImportBegin(c, a) PROVE SInv'
    BY <2>7 DEF ImportBegin, SInv, SendNeverBlocks, Numbered, Reserving, Keeping, Running,
       Canceling, Pruning, Serving, Completed, ActiveJobs, Active, Terminal
  <2>8. ASSUME Ensure PROVE SInv'
    BY <2>8 DEF Ensure, SInv, SendNeverBlocks, Numbered, Reserving, Keeping, Running,
       Canceling, Pruning, Serving, Completed, ActiveJobs, Active, Terminal
  <2>9. ASSUME AdmitReject PROVE SInv'
    BY <2>9 DEF AdmitReject, SInv, SendNeverBlocks, Numbered, Reserving, Keeping, Running,
       Canceling, Pruning, Serving, Completed, ActiveJobs, Active, Terminal
  <2>10. ASSUME NEW r \in Outcome, AdmitInsert(r) PROVE SInv'
    <3>1. /\ \A j \in JobId : state'[j] \in {state[j], IF j = nextId THEN "queued" ELSE state[j]}
          /\ state'[nextId] = "queued" => step' = "send" /\ curJob' = nextId
          /\ state[nextId] = "absent" /\ nextId \in JobId
      BY <2>10 DEF AdmitInsert, SInv, Numbered
    <3>2. SendNeverBlocks' /\ Pruning'
      BY <2>10, <3>1 DEF AdmitInsert, HasCapacity, MutexFree, Serving, SInv,
         SendNeverBlocks, Pruning
    <3>3. Numbered'
      BY <2>10, <3>1, PersistElsewhere DEF AdmitInsert, SInv, Numbered, JobId
    <3>4. Reserving'
      BY <2>10, <3>1 DEF AdmitInsert, SInv, Reserving, ActiveJobs, Active, MutexFree,
         Serving
    <3>5. Keeping'
      BY <2>10, <3>1 DEF AdmitInsert, SInv, Keeping, ActiveJobs, Active
    <3>6. Running'
      <4>1. gate' # Worker
        BY <2>10 DEF AdmitInsert, SInv, Running
      <4>2. wpc' = wpc /\ job' = job
        BY <2>10 DEF AdmitInsert
      <4> QED
        BY ZenonT(40), <3>1, <4>1, <4>2 DEF SInv, Running
    <3>7. Canceling'
      BY <2>10, <3>1 DEF AdmitInsert, SInv, Canceling, Numbered
    <3> QED
      BY <3>2, <3>3, <3>4, <3>5, <3>6, <3>7 DEF SInv
  <2>11. ASSUME Send PROVE SInv'
    BY <2>11 DEF Send, SInv, SendNeverBlocks, Numbered, Reserving, Keeping, Running,
       Canceling, Pruning, Serving, Completed, ActiveJobs, Active, Terminal
  <2>12. ASSUME Reserve PROVE SInv'
    BY <2>12 DEF Reserve, SInv, SendNeverBlocks, Numbered, Reserving, Keeping, Running,
       Canceling, Pruning, Serving, Completed, ActiveJobs, Active, Terminal
  <2>13. ASSUME ImportEnd PROVE SInv'
    BY <2>13 DEF ImportEnd, SInv, SendNeverBlocks, Numbered, Reserving, Keeping, Running,
       Canceling, Pruning, Serving, Completed, ActiveJobs, Active, Terminal
  <2>14. ASSUME ImportMore PROVE SInv'
    BY <2>14 DEF ImportMore, SInv, SendNeverBlocks, Numbered, Reserving, Keeping, Running,
       Canceling, Pruning, Serving, Completed, ActiveJobs, Active, Terminal
  <2>15. ASSUME Dequeue PROVE SInv'
    BY <2>15 DEF Dequeue, SInv, SendNeverBlocks, Numbered, Reserving, Keeping, Running,
       Canceling, Pruning, Serving, Completed, ActiveJobs, Active, Terminal
  <2>16. ASSUME WorkerExit PROVE SInv'
    BY <2>16 DEF WorkerExit, SInv, SendNeverBlocks, Numbered, Reserving, Keeping, Running,
       Canceling, Pruning, Serving, Completed, ActiveJobs, Active, Terminal
  <2>17. ASSUME NEW r \in Outcome, Start(r) PROVE SInv'
    BY <2>17 DEF Start, SInv, SendNeverBlocks, Numbered, Reserving, Keeping, Running,
       Canceling, Pruning, Serving, Completed, ActiveJobs, Active, Terminal, Persist,
       MutexFree, Outcome, Runnable
  <2>18. ASSUME NEW r \in Outcome, Progress(r) PROVE SInv'
    BY <2>18 DEF Progress, SInv, SendNeverBlocks, Numbered, Reserving, Keeping, Running,
       Canceling, Pruning, Serving, Completed, ActiveJobs, Active, Terminal, Persist,
       MutexFree, Outcome
  <2>19. ASSUME NEW o \in Terminal, NEW r \in Outcome, Finish(o, r) PROVE SInv'
    BY <2>19 DEF Finish, SInv, SendNeverBlocks, Numbered, Reserving, Keeping, Running,
       Canceling, Pruning, Serving, Completed, ActiveJobs, Active, Terminal, Persist,
       MutexFree, Outcome, Verdicts
  <2>20. ASSUME NEW c \in Client, NEW j \in JobId, NEW r \in Outcome, Cancel(c, j, r)
         PROVE  SInv'
    <3>1. /\ state' \in [JobId -> JState]
          /\ \A i \in JobId : state'[i] = IF i = j /\ state[j] = "queued" THEN "canceled" ELSE state[i]
      BY <2>20 DEF Cancel
    <3>2. /\ SendNeverBlocks'
          /\ Numbered'
      BY <2>20, <3>1, PersistElsewhere DEF Cancel, SInv, SendNeverBlocks, Numbered
    <3>3. Reserving' /\ Keeping'
      BY <2>20, <3>1 DEF Cancel, SInv, Reserving, Keeping, ActiveJobs, Active, Serving
    <3>4. Running'
      BY <2>20, <3>1 DEF Cancel, SInv, Running
    <3>5. Canceling'
      BY <2>20, <3>1 DEF Cancel, MutexFree, Serving, SInv, Canceling, Active
    <3>6. Pruning'
      BY <2>20, <3>1 DEF Cancel, Persist, MutexFree, Serving, SInv, Pruning
    <3> QED
      BY <3>2, <3>3, <3>4, <3>5, <3>6 DEF SInv
  <2>21. ASSUME NEW a \in Client \cup {Worker}, RetainBegin(a) PROVE SInv'
    BY <2>21 DEF RetainBegin, SInv, SendNeverBlocks, Numbered, Reserving, Keeping,
       Running, Canceling, Pruning, Serving, Completed, ActiveJobs, Active, Terminal
  <2>22. ASSUME Retain PROVE SInv'
    BY <2>22 DEF Retain, SInv, SendNeverBlocks, Numbered, Reserving, Keeping, Running,
       Canceling, Pruning, Serving, Completed, ActiveJobs, Active, Terminal, Released,
       MutexFree
  <2>23. ASSUME NEW c \in Client, CleanupBegin(c) PROVE SInv'
    BY <2>23 DEF CleanupBegin, SInv, SendNeverBlocks, Numbered, Reserving, Keeping,
       Running, Canceling, Pruning, Serving, Completed, ActiveJobs, Active, Terminal
  <2>24. ASSUME Sweep PROVE SInv'
    BY <2>24 DEF Sweep, SInv, SendNeverBlocks, Numbered, Reserving, Keeping, Running,
       Canceling, Pruning, Serving, Completed, ActiveJobs, Active, Terminal, Prunable
  <2>25. ASSUME NEW j \in JobId, NEW r \in Outcome, Tombstone(j, r) PROVE SInv'
    BY <2>25 DEF Tombstone, SInv, SendNeverBlocks, Numbered, Reserving, Keeping, Running,
       Canceling, Pruning, Serving, Completed, ActiveJobs, Active, Terminal
  <2>26. ASSUME NEW r \in Outcome, Remove(r) PROVE SInv'
    BY <2>26 DEF Remove, SInv, SendNeverBlocks, Numbered, Reserving, Keeping, Running,
       Canceling, Pruning, Serving, Completed, ActiveJobs, Active, Terminal, Unlink,
       MutexFree
  <2>27. ASSUME Pruned PROVE SInv'
    BY <2>27 DEF Pruned, SInv, SendNeverBlocks, Numbered, Reserving, Keeping, Running,
       Canceling, Pruning, Serving, Completed, ActiveJobs, Active, Terminal
  <2>28. ASSUME NEW a \in Artifact, Evict(a) PROVE SInv'
    BY <2>28 DEF Evict, SInv, SendNeverBlocks, Numbered, Reserving, Keeping, Running,
       Canceling, Pruning, Serving, Completed, ActiveJobs, Active, Terminal, Evictable,
       Protected, Referenced
  <2>29. ASSUME CleanupDone PROVE SInv'
    <3>1. SendNeverBlocks' /\ Numbered' /\ Keeping' /\ Canceling'
      BY <2>29 DEF CleanupDone, SInv, SendNeverBlocks, Numbered, Keeping, Canceling,
         ActiveJobs
    <3>2. Reserving' /\ Pruning'
      BY <2>29 DEF CleanupDone, SInv, Reserving, Pruning, ActiveJobs, Serving
    <3>3. Running'
      BY <2>29 DEF CleanupDone, SInv, Running
    <3> QED
      BY <3>1, <3>2, <3>3 DEF SInv
  <2>30. ASSUME CleanupFails PROVE SInv'
    <3>1. CASE goal = "start"
      BY <2>30, <3>1 DEF CleanupFails, Forget, SInv, SendNeverBlocks, Numbered, Reserving,
         Keeping,
         Running, Canceling, Pruning, ActiveJobs, Active
    <3>2. CASE goal # "start"
      <4>1. SendNeverBlocks' /\ Numbered' /\ Keeping' /\ Canceling'
        BY <2>30, <3>2 DEF CleanupFails, SInv, SendNeverBlocks, Numbered, Keeping,
           Canceling, ActiveJobs
      <4>2. Reserving' /\ Pruning'
        BY <2>30, <3>2 DEF CleanupFails, SInv, Reserving, Pruning, ActiveJobs, Serving
      <4>3. Running'
        BY <2>30, <3>2 DEF CleanupFails, SInv, Running
      <4> QED
        BY <4>1, <4>2, <4>3 DEF SInv
    <3> QED
      BY <3>1, <3>2
  <2>31. ASSUME Close PROVE SInv'
    BY <2>31 DEF Close, SInv, SendNeverBlocks, Numbered, Reserving, Keeping, Running,
       Canceling, Pruning, Serving, Completed, ActiveJobs, Active, Terminal
  <2>32. ASSUME Exit PROVE SInv'
    BY <2>32 DEF Exit, SInv, SendNeverBlocks, Numbered, Reserving, Keeping, Running,
       Canceling, Pruning, Serving, Completed, ActiveJobs, Active, Terminal, Forget
  <2>33. ASSUME Kill PROVE SInv'
    BY <2>33 DEF Kill, SInv, SendNeverBlocks, Numbered, Reserving, Keeping, Running,
       Canceling, Pruning, Serving, Completed, ActiveJobs, Active, Terminal, Forget
  <2>34. ASSUME PowerLoss PROVE SInv'
    BY <2>34 DEF PowerLoss, SInv, SendNeverBlocks, Numbered, Reserving, Keeping, Running,
       Canceling, Pruning, Serving, Completed, ActiveJobs, Active, Terminal, Forget
  <2>35. CASE UNCHANGED vars
    BY <2>35 DEF vars, SInv, SendNeverBlocks, Numbered, Reserving, Keeping, Running,
       Canceling, Pruning, Serving, Completed, ActiveJobs, Active, Terminal
  <2> QED
    BY <2>1, <2>2, <2>3, <2>4, <2>5, <2>6, <2>7, <2>8, <2>9, <2>10, <2>11, <2>12, <2>13,
       <2>14, <2>15, <2>16, <2>17, <2>18, <2>19, <2>20, <2>21, <2>22, <2>23, <2>24, <2>25,
       <2>26, <2>27, <2>28, <2>29, <2>30, <2>31, <2>32, <2>33, <2>34, <2>35 DEF Next,
       Opening, Growing, Working,
       Retaining, GoingDown

<1>3. QED
  BY <1>1, <1>2, TypeInductive, PTL DEF Spec

-----------------------------------------------------------------------------
(* The properties.                                                          *)

\* Every variable keeps its type.
THEOREM TypeCorrect == Spec => []TypeOK
BY TypeInductive, PTL DEF TInv

\* An admission never waits for the worker while it holds the gate, whatever the
\* capacity of the queue (createContext).
THEOREM SendsNeverBlock == Spec => []SendNeverBlocks
BY ServingInductive, PTL DEF SInv

\* Every queued or running job has its space reserved.
THEOREM ActiveStaysReserved == Spec => []ActiveReserved
<1>1. SInv => ActiveReserved
  BY DEF SInv, Reserving, ActiveReserved
<1> QED
  BY <1>1, ServingInductive, PTL

\* No cleanup takes the artifact of a queued or running job.
THEOREM ActiveArtifactsKept == Spec => []ActiveKeepsArtifact
<1>1. SInv => ActiveKeepsArtifact
  BY DEF SInv, Keeping, ActiveKeepsArtifact
<1> QED
  BY <1>1, ServingInductive, PTL

\* A cancellation that was acknowledged is never overtaken by another outcome.
THEOREM CancellationsHonoured == Spec => []CancelHonoured
<1>1. SInv => CancelHonoured
  BY DEF SInv, Canceling, CancelHonoured
<1> QED
  BY <1>1, ServingInductive, PTL

\* An outcome, once shown, is final: canceled jobs never start, finished ones
\* never change; they only leave.
THEOREM OutcomesFinal == Spec => OutcomeFinal
<1> DEFINE Kept == \A j \in JobId :
             state[j] \in Terminal /\ phase' # "down" => state'[j] \in {state[j], "absent"}
<1>1. TInv /\ SInv /\ Next => Kept
  <2> SUFFICES ASSUME TInv, SInv, Next PROVE Kept
    OBVIOUS
  <2> USE DEF life, memory, ids, history
  <2>1. ASSUME Opening PROVE Kept
    <3>1. ASSUME NEW i \in JobId, LoadPublished(i) PROVE Kept
      BY <3>1 DEF LoadPublished, TInv, TypeOK, MemoryType, SInv, Pruning, Terminal
    <3> QED
      BY <2>1, <3>1 DEF Opening, Boot, LoadPruned, LoadFails, LoadDone, Forget
  <2>2. ASSUME Growing PROVE Kept
    <3>1. ASSUME NEW r \in Outcome, AdmitInsert(r) PROVE Kept
      <4>1. nextId \in JobId /\ state[nextId] = "absent"
        BY <3>1 DEF AdmitInsert, TInv, Control, SInv, Numbered, JobId
      <4> QED
        BY <3>1, <4>1 DEF AdmitInsert, TInv, TypeOK, MemoryType, Terminal
    <3> QED
      BY <2>2, <3>1 DEF Growing, CreateBegin, ImportBegin, Ensure, AdmitReject, Send,
         Reserve,
         ImportEnd, ImportMore
  <2>3. ASSUME Working PROVE Kept
    <3>1. ASSUME NEW r \in Outcome, Start(r) PROVE Kept
      BY <3>1 DEF Start, Runnable, TInv, TypeOK, MemoryType, Control, Terminal
    <3>2. ASSUME NEW o \in Terminal, NEW r \in Outcome, Finish(o, r) PROVE Kept
      BY <3>2 DEF Finish, TInv, TypeOK, MemoryType, Control, SInv, Running, Terminal
    <3> QED
      BY <2>3, <3>1, <3>2 DEF Working, Dequeue, WorkerExit, Progress
  <2>4. ASSUME Retaining PROVE Kept
    <3>1. ASSUME NEW c \in Client, NEW j \in JobId, NEW r \in Outcome, Cancel(c, j, r)
          PROVE  Kept
      BY <3>1 DEF Cancel, TInv, TypeOK, MemoryType, Terminal
    <3>2. ASSUME NEW r \in Outcome, Remove(r) PROVE Kept
      BY <3>2 DEF Remove, TInv, TypeOK, MemoryType, Control
    <3> QED
      BY <2>4, <3>1, <3>2 DEF Retaining, RetainBegin, Retain, CleanupBegin, Sweep,
         Tombstone,
         Pruned, Evict, CleanupDone, CleanupFails, Forget
  <2>5. ASSUME GoingDown PROVE Kept
    BY <2>5 DEF GoingDown, Close, Exit, Kill, PowerLoss, Forget
  <2> QED
    BY <2>1, <2>2, <2>3, <2>4, <2>5 DEF Next
<1> QED
  BY <1>1, TypeInductive, ServingInductive, PTL DEF Spec, OutcomeFinal

\* Making room for a submission never evicts the artifact it is for.
THEOREM PinsHeld == Spec => PinHeld
<1> DEFINE Held == goal = "create" /\ goal' = "create" /\ curArt \in store => curArt \in store'
<1>1. Next => Held
  <2> SUFFICES ASSUME Next PROVE Held
    OBVIOUS
  <2>1. ASSUME Opening PROVE Held
    BY <2>1 DEF Opening, Boot, LoadPruned, LoadPublished, LoadFails, LoadDone, Forget
  <2>2. ASSUME Growing PROVE Held
    BY <2>2 DEF Growing, CreateBegin, ImportBegin, Ensure, AdmitReject, AdmitInsert, Send,
       Reserve,
       ImportEnd, ImportMore
  <2>3. ASSUME Working PROVE Held
    BY <2>3 DEF Working, Dequeue, WorkerExit, Start, Progress, Finish
  <2>4. ASSUME Retaining PROVE Held
    <3>1. ASSUME NEW a \in Artifact, Evict(a) PROVE Held
      BY <3>1 DEF Evict, Evictable, Protected
    <3> QED
      BY <2>4, <3>1 DEF Retaining, Cancel, RetainBegin, Retain, CleanupBegin, Sweep,
         Tombstone,
         Remove, Pruned, CleanupDone, CleanupFails, Forget
  <2>5. ASSUME GoingDown PROVE Held
    BY <2>5 DEF GoingDown, Close, Exit, Kill, PowerLoss, Forget
  <2> QED
    BY <2>1, <2>2, <2>3, <2>4, <2>5 DEF Next
<1> QED
  BY <1>1, PTL DEF Spec, PinHeld

-----------------------------------------------------------------------------
(* Durability, power losses included.                                       *)

\* Without file errors memory shows what is on disk for good; a start has still
\* to read what it has not read yet.
Durable ==
  faults = 0 =>
    \A j \in JobId :
      /\ state[j] # "absent" => state[j] = disk[j]
      /\ disk[j] # "absent" => older[j] = {}
      /\ phase \in {"loading", "up", "closing"} /\ disk[j] # "absent" =>
           state[j] # "absent" \/ (step = "load" /\ j \in prune)

\* A write that met no failure is on disk for good, one that did is counted.
LEMMA PersistOk ==
  ASSUME TypeOK, NEW j \in JobId, NEW s \in JState, NEW r \in Outcome, Persist(j, s, r), faults' = 0
  PROVE  /\ faults = 0
         /\ disk' = [disk EXCEPT ![j] = s] /\ older' = [older EXCEPT ![j] = {}]
BY ConstantsOK DEF TypeOK, DiskType, Persist, Fault

\* Memory stays durable through every step of every instance.
THEOREM DurableInductive == Spec => []Durable
<1>1. Init => Durable
  BY DEF Init, Durable
<1>2. TInv /\ TInv' /\ SInv /\ Durable /\ [Next]_vars => Durable'
  <2> SUFFICES ASSUME TInv, TInv', SInv, Durable, [Next]_vars PROVE Durable'
    OBVIOUS
  <2> USE ConstantsOK DEF TInv, Take, Release, GoTo, life, memory, holder, worker, tombs,
     ids,
      history, TypeOK, MemoryType, HolderType, WorkerType, DiskType, HistoryType, Control
  <2>1. ASSUME Boot PROVE Durable'
    BY <2>1 DEF Boot, Durable, Fault, SInv, Pruning
  <2>2. ASSUME NEW j \in JobId, LoadPruned(j) PROVE Durable'
    BY <2>2 DEF LoadPruned, Durable, Fault, Unlink, SInv, Pruning
  <2>3. ASSUME NEW j \in JobId, LoadPublished(j) PROVE Durable'
    <3> SUFFICES ASSUME faults' = 0 PROVE Durable'
      BY DEF Durable
    <3>1. /\ step = "load" /\ phase = "loading" /\ j \in prune /\ state[j] = "absent"
          /\ step' = step /\ prune' = prune \ {j} /\ phase' \in {"loading", "refused"}
      BY <2>3 DEF LoadPublished, SInv, Pruning
    <3>2. CASE Conflict(j)
      BY <2>3, <3>1, <3>2 DEF LoadPublished, Durable
    <3>3. CASE ~Conflict(j) /\ disk[j] \in Active
      <4>1. /\ state' = [state EXCEPT ![j] = "failed"] /\ faults = 0
            /\ disk' = [disk EXCEPT ![j] = "failed"] /\ older' = [older EXCEPT ![j] = {}]
        BY <2>3, <3>3, PersistOk DEF LoadPublished, JState, Terminal, Outcome
      <4> QED
        BY <3>1, <4>1 DEF Durable
    <3>4. CASE ~Conflict(j) /\ disk[j] \notin Active
      <4>1. state' = [state EXCEPT ![j] = disk[j]] /\ UNCHANGED <<disk, older, faults>>
        BY <2>3, <3>4 DEF LoadPublished
      <4> QED
        BY <3>1, <4>1 DEF Durable
    <3> QED
      BY <3>2, <3>3, <3>4
  <2>4. ASSUME NEW j \in JobId, NEW r \in Outcome, LoadFails(j, r) PROVE Durable'
    BY <2>4, PersistOk DEF LoadFails, Durable, Fault, JState, Active, Terminal, MutexFree,
       Serving, SInv, Running, Forget
  <2>5. ASSUME LoadDone PROVE Durable'
    BY <2>5 DEF LoadDone, Durable, Fault
  <2>6. ASSUME NEW c \in Client, NEW k \in Key \cup {NoKey}, NEW a \in Artifact, CreateBegin(c, k, a)
        PROVE  Durable'
    BY <2>6 DEF CreateBegin, Durable, Fault
  <2>7. ASSUME NEW c \in Client, NEW a \in Artifact, ImportBegin(c, a) PROVE Durable'
    BY <2>7 DEF ImportBegin, Durable, Fault
  <2>8. ASSUME Ensure PROVE Durable'
    BY <2>8 DEF Ensure, Durable, Fault
  <2>9. ASSUME AdmitReject PROVE Durable'
    BY <2>9 DEF AdmitReject, Durable, Fault
  <2>10. ASSUME NEW r \in Outcome, AdmitInsert(r) PROVE Durable'
    <3> SUFFICES ASSUME faults' = 0 PROVE Durable'
      BY DEF Durable
    <3>1. /\ nextId \in JobId /\ Persist(nextId, "queued", r) /\ faults = 0 /\ r = "ok"
      BY <2>10, PersistOk DEF AdmitInsert, Persist, Fault, JState, Active
    <3>2. /\ disk' = [disk EXCEPT ![nextId] = "queued"] /\ older' = [older EXCEPT ![nextId] = {}]
      BY <3>1, PersistOk DEF JState, Active
    <3>3. /\ state' = [state EXCEPT ![nextId] = "queued"] /\ phase \in {"up", "closing"}
          /\ phase' = phase /\ step # "load"
      BY <2>10, <3>1 DEF AdmitInsert, MutexFree, Serving
    <3> QED
      BY <3>1, <3>2, <3>3 DEF Durable
  <2>11. ASSUME Send PROVE Durable'
    BY <2>11 DEF Send, Durable, Fault
  <2>12. ASSUME Reserve PROVE Durable'
    BY <2>12 DEF Reserve, Durable, Fault
  <2>13. ASSUME ImportEnd PROVE Durable'
    BY <2>13 DEF ImportEnd, Durable, Fault
  <2>14. ASSUME ImportMore PROVE Durable'
    BY <2>14 DEF ImportMore, Durable, Fault
  <2>15. ASSUME Dequeue PROVE Durable'
    BY <2>15 DEF Dequeue, Durable, Fault
  <2>16. ASSUME WorkerExit PROVE Durable'
    BY <2>16 DEF WorkerExit, Durable, Fault
  <2>17. ASSUME NEW r \in Outcome, Start(r) PROVE Durable'
    BY <2>17, PersistOk DEF Start, Durable, Fault, JState, Active, Terminal, MutexFree,
       Serving, SInv, Running
  <2>18. ASSUME NEW r \in Outcome, Progress(r) PROVE Durable'
    BY <2>18, PersistOk DEF Progress, Durable, Fault, JState, Active, Terminal, MutexFree,
       Serving, SInv, Running
  <2>19. ASSUME NEW o \in Terminal, NEW r \in Outcome, Finish(o, r) PROVE Durable'
    BY <2>19, PersistOk DEF Finish, Durable, Fault, JState, Active, Terminal, MutexFree,
       Serving, SInv, Running
  <2>20. ASSUME NEW c \in Client, NEW j \in JobId, NEW r \in Outcome, Cancel(c, j, r)
         PROVE  Durable'
    BY <2>20, PersistOk DEF Cancel, Durable, Fault, JState, Active, Terminal, MutexFree,
       Serving, SInv, Running
  <2>21. ASSUME NEW a \in Client \cup {Worker}, RetainBegin(a) PROVE Durable'
    BY <2>21 DEF RetainBegin, Durable, Fault
  <2>22. ASSUME Retain PROVE Durable'
    BY <2>22 DEF Retain, Durable, Fault
  <2>23. ASSUME NEW c \in Client, CleanupBegin(c) PROVE Durable'
    BY <2>23 DEF CleanupBegin, Durable, Fault
  <2>24. ASSUME Sweep PROVE Durable'
    BY <2>24 DEF Sweep, Durable, Fault
  <2>25. ASSUME NEW j \in JobId, NEW r \in Outcome, Tombstone(j, r) PROVE Durable'
    BY <2>25 DEF Tombstone, Durable, Fault, WriteTombstone
  <2>26. ASSUME NEW r \in Outcome, Remove(r) PROVE Durable'
    BY <2>26 DEF Remove, Durable, Fault, Unlink, SInv, Pruning
  <2>27. ASSUME Pruned PROVE Durable'
    BY <2>27 DEF Pruned, Durable, Fault
  <2>28. ASSUME NEW a \in Artifact, Evict(a) PROVE Durable'
    BY <2>28 DEF Evict, Durable, Fault
  <2>29. ASSUME CleanupDone PROVE Durable'
    BY <2>29 DEF CleanupDone, Durable, SInv, Pruning
  <2>30. ASSUME CleanupFails PROVE Durable'
    BY <2>30 DEF CleanupFails, Durable, Fault, Forget
  <2>31. ASSUME Close PROVE Durable'
    BY <2>31 DEF Close, Durable, Fault
  <2>32. ASSUME Exit PROVE Durable'
    BY <2>32 DEF Exit, Durable, Fault, Forget
  <2>33. ASSUME Kill PROVE Durable'
    BY <2>33 DEF Kill, Durable, Fault, Forget
  <2>34. ASSUME PowerLoss PROVE Durable'
    BY <2>34 DEF PowerLoss, Durable, Fault, Forget
  <2>35. CASE UNCHANGED vars
    BY <2>35 DEF vars, Durable
  <2> QED
    BY <2>1, <2>2, <2>3, <2>4, <2>5, <2>6, <2>7, <2>8, <2>9, <2>10, <2>11, <2>12, <2>13,
       <2>14, <2>15, <2>16, <2>17, <2>18, <2>19, <2>20, <2>21, <2>22, <2>23, <2>24, <2>25,
       <2>26, <2>27, <2>28, <2>29, <2>30, <2>31, <2>32, <2>33, <2>34, <2>35 DEF Next,
       Opening, Growing, Working,
       Retaining, GoingDown

<1>3. QED
  BY <1>1, <1>2, TypeInductive, ServingInductive, PTL DEF Spec

\* Without file errors no restart and no power loss revises what a client saw.
THEOREM TruthIsDurable == Spec => []DurableTruth
<1>1. TInv /\ SInv /\ Durable => DurableTruth
  BY DEF TInv, TypeOK, MemoryType, DiskType, SInv, Pruning, Durable, DurableTruth, Serving
<1> QED
  BY <1>1, TypeInductive, ServingInductive, DurableInductive, PTL

-----------------------------------------------------------------------------
(* Retention.                                                               *)

NewerDone(j) == {k \in Completed : k > j}

\* What a cleanup is about to prune has Keep newer histories that stay: the ones
\* already pruned in this cleanup do not count, because the newest goes first.
Newer ==
  /\ step \in {"prune", "remove"} => \A j \in prune : Cardinality(NewerDone(j)) >= Keep
  /\ step = "remove" => curJob \in prune /\ \A i \in prune : i <= curJob

\* Sets of jobs are finite, and a larger one has no fewer members.
LEMMA JobSets ==
  ASSUME NEW S \in SUBSET JobId, NEW T \in SUBSET S
  PROVE  Cardinality(S) \in Nat /\ Cardinality(T) \in Nat /\ Cardinality(T) <= Cardinality(S)
<1>1. IsFiniteSet(JobId)
  BY ConstantsOK, FS_Interval DEF JobId
<1>2. IsFiniteSet(S)
  BY <1>1, FS_Subset
<1> QED
  BY <1>2, FS_Subset, FS_CardinalityType

\* Every cleanup, whatever was pruned or failed before it, prunes from the old end.
THEOREM NewerInductive == Spec => []Newer
<1>1. Init => Newer
  BY DEF Init, Newer
<1>2. TInv /\ TInv' /\ SInv /\ SInv' /\ Newer /\ [Next]_vars => Newer'
  <2> SUFFICES ASSUME TInv, TInv', SInv, SInv', Newer, [Next]_vars PROVE Newer'
    OBVIOUS
  <2> USE ConstantsOK DEF TInv, Take, Release, GoTo, life, memory, holder, worker, tombs,
     ids,
      history, TypeOK, MemoryType, HolderType, WorkerType, DiskType, HistoryType, Control
  <2>1. ASSUME Boot PROVE Newer'
    BY <2>1 DEF Boot, Newer, NewerDone, Completed, SInv, Pruning
  <2>2. ASSUME NEW j \in JobId, LoadPruned(j) PROVE Newer'
    BY <2>2 DEF LoadPruned, Newer, NewerDone, Completed, SInv, Pruning
  <2>3. ASSUME NEW j \in JobId, LoadPublished(j) PROVE Newer'
    BY <2>3 DEF LoadPublished, Newer, NewerDone, Completed, SInv, Pruning, MutexFree,
       Serving
  <2>4. ASSUME NEW j \in JobId, NEW r \in Outcome, LoadFails(j, r) PROVE Newer'
    BY <2>4 DEF LoadFails, Newer, NewerDone, Completed, SInv, Pruning, Forget
  <2>5. ASSUME LoadDone PROVE Newer'
    BY <2>5 DEF LoadDone, Newer, NewerDone, Completed, SInv, Pruning
  <2>6. ASSUME NEW c \in Client, NEW k \in Key \cup {NoKey}, NEW a \in Artifact, CreateBegin(c, k, a)
        PROVE  Newer'
    BY <2>6 DEF CreateBegin, Newer, NewerDone, Completed, SInv, Pruning
  <2>7. ASSUME NEW c \in Client, NEW a \in Artifact, ImportBegin(c, a) PROVE Newer'
    BY <2>7 DEF ImportBegin, Newer, NewerDone, Completed, SInv, Pruning
  <2>8. ASSUME Ensure PROVE Newer'
    BY <2>8 DEF Ensure, Newer, NewerDone, Completed, SInv, Pruning
  <2>9. ASSUME AdmitReject PROVE Newer'
    BY <2>9 DEF AdmitReject, Newer, NewerDone, Completed, SInv, Pruning
  <2>10. ASSUME NEW r \in Outcome, AdmitInsert(r) PROVE Newer'
    BY <2>10 DEF AdmitInsert, Newer, NewerDone, Completed, SInv, Pruning, MutexFree, Serving
  <2>11. ASSUME Send PROVE Newer'
    BY <2>11 DEF Send, Newer, NewerDone, Completed, SInv, Pruning
  <2>12. ASSUME Reserve PROVE Newer'
    BY <2>12 DEF Reserve, Newer, NewerDone, Completed, SInv, Pruning
  <2>13. ASSUME ImportEnd PROVE Newer'
    BY <2>13 DEF ImportEnd, Newer, NewerDone, Completed, SInv, Pruning
  <2>14. ASSUME ImportMore PROVE Newer'
    BY <2>14 DEF ImportMore, Newer, NewerDone, Completed, SInv, Pruning
  <2>15. ASSUME Dequeue PROVE Newer'
    BY <2>15 DEF Dequeue, Newer, NewerDone, Completed, SInv, Pruning
  <2>16. ASSUME WorkerExit PROVE Newer'
    BY <2>16 DEF WorkerExit, Newer, NewerDone, Completed, SInv, Pruning
  <2>17. ASSUME NEW r \in Outcome, Start(r) PROVE Newer'
    BY <2>17 DEF Start, Newer, NewerDone, Completed, SInv, Pruning, MutexFree, Serving
  <2>18. ASSUME NEW r \in Outcome, Progress(r) PROVE Newer'
    BY <2>18 DEF Progress, Newer, NewerDone, Completed, SInv, Pruning, MutexFree, Serving
  <2>19. ASSUME NEW o \in Terminal, NEW r \in Outcome, Finish(o, r) PROVE Newer'
    BY <2>19 DEF Finish, Newer, NewerDone, Completed, SInv, Pruning, MutexFree, Serving
  <2>20. ASSUME NEW c \in Client, NEW j \in JobId, NEW r \in Outcome, Cancel(c, j, r)
         PROVE  Newer'
    BY <2>20 DEF Cancel, Newer, NewerDone, Completed, SInv, Pruning, MutexFree, Serving
  <2>21. ASSUME NEW a \in Client \cup {Worker}, RetainBegin(a) PROVE Newer'
    BY <2>21 DEF RetainBegin, Newer, NewerDone, Completed, SInv, Pruning
  <2>22. ASSUME Retain PROVE Newer'
    BY <2>22 DEF Retain, Newer, NewerDone, Completed, SInv, Pruning
  <2>23. ASSUME NEW c \in Client, CleanupBegin(c) PROVE Newer'
    BY <2>23 DEF CleanupBegin, Newer, NewerDone, Completed, SInv, Pruning
  <2>24. ASSUME Sweep PROVE Newer'
    BY <2>24 DEF Sweep, Newer, NewerDone, Completed, SInv, Pruning, Prunable
  <2>25. ASSUME NEW j \in JobId, NEW r \in Outcome, Tombstone(j, r) PROVE Newer'
    BY <2>25 DEF Tombstone, Newer, NewerDone, Completed, SInv, Pruning
  <2>26. ASSUME NEW r \in Outcome, Remove(r) PROVE Newer'
    <3> SUFFICES ASSUME step' \in {"prune", "remove"} PROVE Newer'
      BY DEF Newer
    <3>1. /\ step = "remove" /\ step' = "prune" /\ prune' = prune \ {curJob} /\ curJob \in prune
          /\ state' = [state EXCEPT ![curJob] = "absent"]
      BY <2>26 DEF Remove, Newer
    <3>2. \A j \in prune' : Cardinality(NewerDone(j)') >= Keep
      <4> SUFFICES ASSUME NEW j \in prune' PROVE Cardinality(NewerDone(j)') >= Keep
        OBVIOUS
      <4>1. j \in JobId /\ curJob \in JobId /\ j < curJob
        BY <2>26, <3>1 DEF Remove, Newer, JobId
      <4>2. NewerDone(curJob) \in SUBSET NewerDone(j)'
        BY <3>1, <4>1 DEF NewerDone, Completed, JobId
      <4>3. NewerDone(j)' \in SUBSET JobId
        BY DEF NewerDone, Completed
      <4>4. Cardinality(NewerDone(curJob)) >= Keep
        BY <3>1 DEF Newer
      <4>5. /\ Cardinality(NewerDone(curJob)) <= Cardinality(NewerDone(j)')
            /\ Cardinality(NewerDone(curJob)) \in Nat /\ Cardinality(NewerDone(j)') \in Nat
        BY ONLY <4>2, <4>3, JobSets
      <4>6. Keep \in Nat
        BY ConstantsOK
      <4> QED
        BY ONLY <4>4, <4>5, <4>6
    <3> QED
      BY <3>1, <3>2 DEF Newer
  <2>27. ASSUME Pruned PROVE Newer'
    BY <2>27 DEF Pruned, Newer, NewerDone, Completed, SInv, Pruning
  <2>28. ASSUME NEW a \in Artifact, Evict(a) PROVE Newer'
    BY <2>28 DEF Evict, Newer, NewerDone, Completed, SInv, Pruning
  <2>29. ASSUME CleanupDone PROVE Newer'
    BY <2>29 DEF CleanupDone, Newer, NewerDone, Completed, SInv, Pruning
  <2>30. ASSUME CleanupFails PROVE Newer'
    BY <2>30 DEF CleanupFails, Newer, NewerDone, Completed, SInv, Pruning, Forget
  <2>31. ASSUME Close PROVE Newer'
    BY <2>31 DEF Close, Newer, NewerDone, Completed, SInv, Pruning
  <2>32. ASSUME Exit PROVE Newer'
    BY <2>32 DEF Exit, Newer, NewerDone, Completed, SInv, Pruning, Forget
  <2>33. ASSUME Kill PROVE Newer'
    BY <2>33 DEF Kill, Newer, NewerDone, Completed, SInv, Pruning, Forget
  <2>34. ASSUME PowerLoss PROVE Newer'
    BY <2>34 DEF PowerLoss, Newer, NewerDone, Completed, SInv, Pruning, Forget
  <2>35. CASE UNCHANGED vars
    BY <2>35 DEF vars, Newer, NewerDone, Completed
  <2> QED
    BY <2>1, <2>2, <2>3, <2>4, <2>5, <2>6, <2>7, <2>8, <2>9, <2>10, <2>11, <2>12, <2>13,
       <2>14, <2>15, <2>16, <2>17, <2>18, <2>19, <2>20, <2>21, <2>22, <2>23, <2>24, <2>25,
       <2>26, <2>27, <2>28, <2>29, <2>30, <2>31, <2>32, <2>33, <2>34, <2>35 DEF Next,
       Opening, Growing, Working,
       Retaining, GoingDown

<1>3. QED
  BY <1>1, <1>2, TypeInductive, ServingInductive, PTL DEF Spec

\* A history leaves only when it is completed and older than Keep completed ones.
THEOREM NewestSurvive == Spec => PruneKeepsNewest
<1> DEFINE Aged == \A j \in JobId :
             state[j] # "absent" /\ state'[j] = "absent" /\ phase' # "down" =>
               /\ state[j] \in Terminal
               /\ Cardinality({k \in Completed : k > j}) >= Keep
<1>1. TInv /\ SInv /\ Newer /\ Next => Aged
  <2> SUFFICES ASSUME TInv, SInv, Newer, Next PROVE Aged
    OBVIOUS
  <2> USE DEF life, memory
  <2>1. ASSUME NEW r \in Outcome, Remove(r) PROVE Aged
    BY <2>1 DEF Remove, TInv, TypeOK, MemoryType, SInv, Pruning, Newer, NewerDone, Completed
  <2>2. CASE Opening
    <3>1. ASSUME NEW i \in JobId, LoadPublished(i) PROVE Aged
      BY <3>1 DEF LoadPublished, TInv, TypeOK, MemoryType, SInv, Pruning
    <3> QED
      BY <2>2, <3>1 DEF Opening, Boot, LoadPruned, LoadFails, LoadDone, Forget
  <2>3. CASE Growing
    <3>1. ASSUME NEW r \in Outcome, AdmitInsert(r) PROVE Aged
      BY <3>1 DEF AdmitInsert, TInv, TypeOK, MemoryType
    <3> QED
      BY <2>3, <3>1 DEF Growing, CreateBegin, ImportBegin, Ensure, AdmitReject, Send,
         Reserve,
         ImportEnd, ImportMore
  <2>4. CASE Working
    BY <2>4 DEF Working, Dequeue, WorkerExit, Start, Progress, Finish, TInv, TypeOK,
       MemoryType, Terminal
  <2>5. CASE Retaining
    <3>1. ASSUME NEW c \in Client, NEW j \in JobId, NEW r \in Outcome, Cancel(c, j, r)
          PROVE  Aged
      BY <3>1 DEF Cancel, TInv, TypeOK, MemoryType
    <3> QED
      BY <2>1, <2>5, <3>1 DEF Retaining, RetainBegin, Retain, CleanupBegin, Sweep,
         Tombstone,
         Pruned, Evict, CleanupDone, CleanupFails, Forget
  <2>6. CASE GoingDown
    BY <2>6 DEF GoingDown, Close, Exit, Kill, PowerLoss, Forget
  <2> QED
    BY <2>2, <2>3, <2>4, <2>5, <2>6 DEF Next
<1> QED
  BY <1>1, TypeInductive, ServingInductive, NewerInductive, PTL DEF Spec, PruneKeepsNewest

-----------------------------------------------------------------------------
(***************************************************************************)
(* The job manager keeps the submission ledger: for every instance, through *)
(* any number of file errors, stops and kills, a requestId stays bound to   *)
(* the job it was accepted for, runs at most once, and the manager never    *)
(* writes a record its own next start rejects.  Power losses may follow too *)
(* if what a start believes is durable by then; without that the claim is   *)
(* false (MCJobManager_unsynced.cfg).                                       *)
(***************************************************************************)

\* No power loss can take back what a start finds and believes as it is: the tombstones, and the
\* records it does not write again (loadTombstones and load sync nothing).
Durably ==
  phase = "down" /\ phase' = "loading" /\ "power" \in Restarts =>
    tombSoft = {} /\ \A j \in JobId : disk[j] \in Terminal => "absent" \notin older[j]
StartsOnDurable == [][Durably]_vars

(* The inductive invariant.  bound, the history of accepted keys, ties      *)
(* memory and disk together.                                                *)

Known(k) == submissions[k] = bound[k] \/ expired[k] = bound[k]

\* The job of an accepted key is on disk or behind its tombstone.
Recorded ==
  \A k \in Key : bound[k] # None =>
    /\ bound[k] \in JobId /\ bound[k] < nextId /\ key[bound[k]] = k
    /\ disk[bound[k]] # "absent" \/ tomb[k] = bound[k]

\* Tombstones, live and expired keys, and jobs in memory agree with the binding.
Agreeing ==
  /\ \A k \in Key :
       /\ tomb[k] \in {None, bound[k]}
       /\ submissions[k] \in {None, bound[k]}
       /\ expired[k] \in {None, tomb[k]}
       /\ expired[k] # None => submissions[k] = None
       /\ submissions[k] # None => state[submissions[k]] # "absent"
  /\ \A j \in JobId : state[j] # "absent" /\ key[j] # NoKey => bound[key[j]] = j

\* No two records on disk share a key; a record never accepted (its admission
\* failed after the rename) is the only one of its key.
Unique ==
  /\ \A i, j \in JobId :
       disk[i] # "absent" /\ disk[j] # "absent" /\ key[i] = key[j] /\ key[i] # NoKey => i = j
  /\ \A j \in JobId : disk[j] # "absent" /\ key[j] # NoKey => bound[key[j]] \in {None, j}

\* Such a record closes admissions until a start has read it.
Accounted ==
  /\ step = "load" => phase = "loading" /\ goal = "start"
  /\ goal = "start" => phase \in {"loading", "refused"}
  /\ \A j \in JobId : disk[j] # "absent" /\ key[j] # NoKey =>
       \/ bound[key[j]] = j
       \/ IF step = "load" THEN j \in prune ELSE admissionErr \/ phase = "down"

\* The station answers every accepted key, once it has read its record.
Answering ==
  /\ phase = "down" => \A k \in Key : submissions[k] = None
  /\ step = "load" => expired = tomb
  /\ phase \in {"loading", "up", "closing"} =>
       \A k \in Key : bound[k] # None =>
         Known(k) \/ (step = "load" /\ bound[k] \in prune)

\* An admission under way has seen that its key is fresh, and none was closed.
Admission ==
  goal = "create" /\ step \notin {"send", "reserve"} =>
    ~admissionErr /\ (curKey # NoKey => bound[curKey] = None)

RemovalJournalled == step = "remove" /\ key[curJob] # NoKey => expired[key[curJob]] = curJob

Once ==
  /\ \A k \in Key : execs[k] <= 1 /\ (execs[k] # 0 => bound[k] # None)
  /\ \A j \in JobId : state[j] = "queued" /\ key[j] # NoKey => execs[key[j]] = 0

LInv ==
  /\ StartsAgain /\ Recorded /\ Agreeing /\ Unique /\ Accounted /\ Answering /\ Admission
  /\ RemovalJournalled /\ Once

\* What no power loss takes from an accepted key: a record, or a tombstone that is synced.
Kept(k) ==
  \/ disk[bound[k]] # "absent" /\ "absent" \notin older[bound[k]]
  \/ tomb[k] = bound[k] /\ k \notin tombSoft

\* A record that was never accepted does not come back once it is gone; where power may fail, a
\* record goes only behind a synced tombstone, and what a start has still to read stays.
Standing ==
  /\ \A j \in JobId : key[j] # NoKey /\ bound[key[j]] # j /\ disk[j] = "absent" => older[j] = {}
  /\ "power" \in Restarts =>
       /\ \A k \in Key : bound[k] # None => Kept(k)
       /\ \A k \in Key : expired[k] # None => k \notin tombSoft
       /\ step = "load" =>
            \A j \in prune : disk[j] \in Terminal => "absent" \notin older[j]

-----------------------------------------------------------------------------

\* A write changes at most its own record, to the state written.
LEMMA PersistAt ==
  ASSUME TypeOK, NEW j \in JobId, NEW s \in JState, NEW r \in Outcome, Persist(j, s, r)
  PROVE  /\ \A i \in JobId : i # j => disk'[i] = disk[i]
         /\ disk'[j] \in {disk[j], s}
         /\ r = "ok" => disk'[j] = s
BY DEF TypeOK, DiskType, Persist, Outcome

\* Writing the record of a job in memory disturbs nothing but the count of runs.
LEMMA RewriteKeeps ==
  ASSUME TInv, LInv,
         NEW j \in JobId, NEW s \in JState \ {"absent"}, NEW r \in Outcome,
         state[j] # "absent", Persist(j, s, r),
         \A i \in JobId : state'[i] = "absent" <=> state[i] = "absent",
         UNCHANGED <<phase, submissions, expired, admissionErr, goal, step, curKey, curJob, prune,
                     tomb, key, bound, nextId>>
  PROVE  /\ StartsAgain' /\ Recorded' /\ Agreeing' /\ Unique' /\ Accounted' /\ Answering'
         /\ Admission' /\ RemovalJournalled'
<1>1. \A i \in JobId : i # j => disk'[i] = disk[i]
  BY PersistAt DEF TInv
<1>2. disk'[j] \in {disk[j], s}
  BY PersistAt DEF TInv
<1>3. key[j] # NoKey => bound[key[j]] = j
  BY DEF LInv, Agreeing
<1>4. /\ key \in [JobId -> Key \cup {NoKey}] /\ submissions \in [Key -> JobRef]
      /\ expired \in [Key -> JobRef]
  BY DEF TInv, TypeOK, MemoryType, HistoryType
<1>5. StartsAgain' /\ Answering' /\ Admission' /\ RemovalJournalled'
  BY DEF LInv, StartsAgain, Answering, Known, Admission, RemovalJournalled
<1>6. Recorded'
  BY <1>1, <1>2 DEF LInv, Recorded
<1>7. Agreeing'
  BY <1>4, ConstantsOK DEF LInv, Agreeing, JobRef
<1>8. Unique'
  BY <1>1, <1>2, <1>3, <1>4 DEF LInv, Unique, None, JobId
<1>9. Accounted'
  BY <1>1, <1>2, <1>3, <1>4 DEF LInv, Accounted
<1> QED
  BY <1>5, <1>6, <1>7, <1>8, <1>9

\* A power loss brings back only older versions of records that were accepted, and forgets no
\* tombstone that stands for one.
LEMMA PowerKeeps ==
  ASSUME TInv, SInv, LInv, Standing, PowerLoss
  PROVE  LInv' /\ Standing'
<1> USE ConstantsOK DEF TInv, TypeOK, MemoryType, DiskType, HistoryType, JobRef
<1>1. "power" \in Restarts
  BY DEF PowerLoss
<1>2. /\ phase' = "down" /\ step' = "none" /\ goal' = "none"
      /\ \A k \in Key : submissions'[k] = None /\ expired'[k] = None
      /\ \A j \in JobId : state'[j] = "absent" /\ older'[j] = {}
      /\ tombSoft' = {} /\ prune' = {}
      /\ UNCHANGED <<bound, key, execs, nextId>>
  BY DEF PowerLoss, Forget, Release, ids
<1>3. \A j \in JobId : disk'[j] = disk[j] \/ disk'[j] \in older[j]
  BY DEF PowerLoss
<1>4. \A k \in Key : tomb'[k] = tomb[k] \/ (tomb'[k] = None /\ k \in tombSoft)
  BY DEF PowerLoss
<1>5. ASSUME NEW k \in Key, bound[k] # None
      PROVE  disk'[bound[k]] # "absent" \/ tomb'[k] = bound[k]
  <2>1. Kept(k) /\ bound[k] \in JobId
    BY <1>1, <1>5 DEF Standing, LInv, Recorded
  <2> QED
    BY <1>3, <1>4, <2>1 DEF Kept
<1>6. ASSUME NEW j \in JobId, disk'[j] # "absent", key[j] # NoKey
      PROVE  disk[j] # "absent" \/ bound[key[j]] = j
  BY <1>3, <1>6 DEF Standing
<1>7. StartsAgain' /\ Answering' /\ Admission' /\ RemovalJournalled' /\ Accounted'
  BY <1>2 DEF StartsAgain, Answering, Admission, RemovalJournalled, Accounted
<1>8. Recorded'
  BY <1>2, <1>5 DEF LInv, Recorded
<1>9. Agreeing'
  BY <1>2, <1>4 DEF LInv, Agreeing
<1>10. Unique'
  <2>1. \A j \in JobId : disk'[j] # "absent" /\ key[j] # NoKey => bound[key[j]] \in {None, j}
    BY <1>6 DEF LInv, Unique
  <2>2. ASSUME NEW i \in JobId, NEW j \in JobId, disk'[i] # "absent", disk'[j] # "absent",
               key[i] = key[j], key[i] # NoKey
        PROVE  i = j
    <3>1. CASE disk[i] # "absent" /\ disk[j] # "absent"
      BY <2>2, <3>1 DEF LInv, Unique
    <3>2. CASE bound[key[i]] = i \/ bound[key[i]] = j
      <4>1. bound[key[i]] \in {None, i} /\ bound[key[i]] \in {None, j}
        BY <2>1, <2>2
      <4>2. i # None /\ j # None
        BY DEF None, JobId
      <4> QED
        BY <3>2, <4>1, <4>2
    <3> QED
      BY <1>6, <2>2, <3>1, <3>2
  <2> QED
    BY <1>2, <2>1, <2>2 DEF Unique
<1>11. Once'
  BY <1>2 DEF LInv, Once
<1>12. Standing'
  BY <1>2, <1>5 DEF Standing, Kept
<1> QED
  BY <1>7, <1>8, <1>9, <1>10, <1>11, <1>12 DEF LInv

\* The ledger invariant survives every step.
LEMMA LedgerNext ==
  ASSUME TInv, TInv', SInv, SInv', LInv, Standing, [Next]_vars
  PROVE  LInv'
<1> USE ConstantsOK DEF TInv, Take, Release, GoTo, life, memory, holder, worker, tombs,
   ids,
    history, TypeOK, MemoryType, HolderType, WorkerType, DiskType, HistoryType, Control, JobRef
<1>1. ASSUME Boot PROVE LInv'
  BY <1>1 DEF Boot, LInv, StartsAgain, Recorded, Agreeing, Known, Unique, Accounted,
     Answering, Admission, RemovalJournalled, Once, LoadedTombstones, SInv, Numbered, Pruning,
     Running
<1>2. ASSUME NEW j \in JobId, LoadPruned(j) PROVE LInv'
  BY <1>2 DEF LoadPruned, LInv, StartsAgain, Recorded, Agreeing, Known, Unique,
     Accounted, Answering, Admission, RemovalJournalled, Once, Unlink, Journalled, SInv,
     Numbered, Pruning, Running
<1>3. ASSUME NEW j \in JobId, LoadPublished(j) PROVE LInv'
  <2> DEFINE k == key[j]
  <2>1. /\ step = "load" /\ phase = "loading" /\ j \in prune
        /\ state[j] = "absent" /\ disk[j] # "absent" /\ j # None /\ j < nextId
    BY <1>3 DEF LoadPublished, SInv, Numbered, Pruning, None, JobId
  <2>2. k # NoKey => k \in Key /\ bound[k] \in {None, j}
    BY <2>1 DEF LInv, Unique
  <2>3. ~Conflict(j)
    BY <1>3, <2>1, <2>2 DEF LoadPublished, Journalled, Conflict, LInv, Agreeing
  <2>4. /\ phase' = phase /\ step' = step /\ goal' = goal /\ prune' = prune \ {j}
        /\ UNCHANGED <<expired, admissionErr, curKey, curJob, tomb, key, execs, nextId>>
    BY <1>3, <2>3 DEF LoadPublished
  <2>5. /\ submissions' = IF k = NoKey THEN submissions ELSE [submissions EXCEPT ![k] = j]
        /\ bound' = IF k = NoKey THEN bound ELSE [bound EXCEPT ![k] = j]
    BY <1>3, <2>3 DEF LoadPublished
  <2>6. /\ \A i \in JobId : i # j => state'[i] = state[i]
        /\ state'[j] \notin {"absent", "queued"}
    BY <1>3, <2>1, <2>3 DEF LoadPublished, Active, JState
  <2>7. \A i \in JobId : disk'[i] = "absent" <=> disk[i] = "absent"
    <3>1. CASE disk[j] \in Active
      BY <1>3, <2>1, <2>3, <3>1, PersistAt DEF LoadPublished, JState, Terminal, Outcome
    <3>2. CASE disk[j] \notin Active
      BY <1>3, <2>3, <3>2 DEF LoadPublished
    <3> QED
      BY <3>1, <3>2
  <2>8. k # NoKey => expired[k] = None /\ submissions[k] = None /\ tomb[k] = None
    BY <2>1, <2>3 DEF Conflict, LInv, Answering
  <2>9. StartsAgain' /\ Admission' /\ RemovalJournalled'
    BY <2>1, <2>4 DEF LInv, StartsAgain, Admission, RemovalJournalled, Accounted
  <2>10. Recorded'
    BY <2>1, <2>2, <2>4, <2>5, <2>7 DEF LInv, Recorded
  <2>11. Agreeing'
    <3>1. \A l \in Key :
            /\ tomb'[l] \in {None, bound'[l]} /\ submissions'[l] \in {None, bound'[l]}
            /\ expired'[l] \in {None, tomb'[l]}
            /\ expired'[l] # None => submissions'[l] = None
      BY <2>2, <2>4, <2>5, <2>8 DEF LInv, Agreeing
    <3>2. \A l \in Key : submissions'[l] # None => state'[submissions'[l]] # "absent"
      BY <2>1, <2>2, <2>5, <2>6 DEF LInv, Agreeing
    <3>3. \A i \in JobId : state'[i] # "absent" /\ key'[i] # NoKey => bound'[key'[i]] = i
      BY <2>1, <2>2, <2>4, <2>5, <2>6 DEF LInv, Agreeing, None, JobId
    <3> QED
      BY <3>1, <3>2, <3>3 DEF Agreeing
  <2>12. Unique'
    BY <2>1, <2>2, <2>4, <2>5, <2>7 DEF LInv, Unique
  <2>13. Accounted'
    BY <2>1, <2>2, <2>4, <2>5, <2>7 DEF LInv, Accounted, Unique
  <2>14. Answering'
    <3>1. \A l \in Key : bound[l] = j => l = k
      BY <2>1 DEF LInv, Recorded
    <3> QED
      BY <2>1, <2>2, <2>4, <2>5, <3>1 DEF LInv, Answering, Known
  <2>15. Once'
    BY <2>1, <2>2, <2>4, <2>5, <2>6 DEF LInv, Once
  <2> QED
    BY <2>9, <2>10, <2>11, <2>12, <2>13, <2>14, <2>15 DEF LInv
<1>4. ASSUME NEW j \in JobId, NEW r \in Outcome, LoadFails(j, r) PROVE LInv'
  <2>1. StartsAgain' /\ Recorded'
    BY <1>4, PersistAt DEF LoadFails, LInv, JState, Active, Terminal,
         MutexFree, Serving, SInv, Numbered, Pruning, Running, Forget,
         StartsAgain, Recorded, Known, Agreeing, Answering
  <2>2. Agreeing'
    BY <1>4, PersistAt DEF LoadFails, LInv, JState, Active, Terminal,
         MutexFree, Serving, SInv, Numbered, Pruning, Running, Forget,
         Agreeing, Recorded, Known
  <2>3. Unique' /\ Accounted'
    BY <1>4, PersistAt DEF LoadFails, LInv, JState, Active, Terminal,
         MutexFree, Serving, SInv, Numbered, Pruning, Running, Forget,
         Unique, Accounted, Recorded, Agreeing
  <2>4. Answering'
    BY <1>4, PersistAt DEF LoadFails, LInv, JState, Active, Terminal,
         MutexFree, Serving, SInv, Numbered, Pruning, Running, Forget,
         Answering, Known, Recorded, Agreeing
  <2>5. Admission' /\ RemovalJournalled'
    BY <1>4, PersistAt DEF LoadFails, LInv, JState, Active, Terminal,
         MutexFree, Serving, SInv, Numbered, Pruning, Running, Forget,
         Admission, RemovalJournalled, Recorded
  <2>6. Once'
    BY <1>4, PersistAt DEF LoadFails, LInv, JState, Active, Terminal,
         MutexFree, Serving, SInv, Numbered, Pruning, Running, Forget,
         Once, Recorded
  <2> QED
    BY <2>1, <2>2, <2>3, <2>4, <2>5, <2>6 DEF LInv
<1>5. ASSUME LoadDone PROVE LInv'
  BY <1>5 DEF LoadDone, LInv, StartsAgain, Recorded, Agreeing, Known, Unique, Accounted,
     Answering, Admission, RemovalJournalled, Once
<1>6. ASSUME NEW c \in Client, NEW k \in Key \cup {NoKey}, NEW a \in Artifact,
   CreateBegin(c, k, a)
      PROVE  LInv'
  BY <1>6 DEF CreateBegin, LInv, StartsAgain, Recorded, Agreeing, Known, Unique,
     Accounted, Answering, Admission, RemovalJournalled, Once, Admitting, Fresh
<1>7. ASSUME NEW c \in Client, NEW a \in Artifact, ImportBegin(c, a) PROVE LInv'
  BY <1>7 DEF ImportBegin, LInv, StartsAgain, Recorded, Agreeing, Known, Unique,
     Accounted, Answering, Admission, RemovalJournalled, Once
<1>8. ASSUME Ensure PROVE LInv'
  BY <1>8 DEF Ensure, LInv, StartsAgain, Recorded, Agreeing, Known, Unique, Accounted,
     Answering, Admission, RemovalJournalled, Once
<1>9. ASSUME AdmitReject PROVE LInv'
  BY <1>9 DEF AdmitReject, LInv, StartsAgain, Recorded, Agreeing, Known, Unique,
     Accounted, Answering, Admission, RemovalJournalled, Once
<1>10. ASSUME NEW r \in Outcome, AdmitInsert(r) PROVE LInv'
  <2>1. /\ nextId \in JobId /\ nextId # None /\ goal = "create" /\ step = "admit"
        /\ state[nextId] = "absent" /\ disk[nextId] = "absent"
        /\ phase \in {"up", "closing"}
    BY <1>10 DEF AdmitInsert, MutexFree, Serving, SInv, Numbered, None, JobId
  <2>2. ~admissionErr /\ (curKey # NoKey => curKey \in Key /\ bound[curKey] = None)
    BY <1>10, <2>1 DEF AdmitInsert, LInv, Admission
  <2>3. /\ curKey # NoKey => submissions[curKey] = None /\ expired[curKey] = None
                             /\ tomb[curKey] = None /\ execs[curKey] = 0
        /\ \A k \in Key : bound[k] # nextId
    BY <2>1, <2>2 DEF LInv, Agreeing, Once, Recorded
  <2>4. \A j \in JobId : disk[j] # "absent" /\ key[j] # NoKey => key[j] # curKey
    BY <2>1, <2>2 DEF LInv, Accounted, None, JobId
  <2>5. /\ \A j \in JobId : j # nextId => disk'[j] = disk[j] /\ key'[j] = key[j]
        /\ key'[nextId] = curKey /\ disk'[nextId] \in {"absent", "queued"}
        /\ r = "ok" => disk'[nextId] = "queued"
    BY <1>10, <2>1, PersistAt DEF AdmitInsert, JState, Active
  <2>6. UNCHANGED <<phase, expired, tomb, execs>>
    BY <1>10 DEF AdmitInsert
  <2>7. \A j \in JobId : state[j] # "absent" => j # nextId
    BY <2>1
  <2>8. CASE r = "ok"
    <3>1. /\ step' = "send" /\ goal' = goal /\ admissionErr' = admissionErr
          /\ submissions' = IF curKey = NoKey THEN submissions
                            ELSE [submissions EXCEPT ![curKey] = nextId]
          /\ bound' = IF curKey = NoKey THEN bound ELSE [bound EXCEPT ![curKey] = nextId]
          /\ state' = [state EXCEPT ![nextId] = "queued"]
      BY <1>10, <2>8 DEF AdmitInsert
    <3>2. StartsAgain' /\ Admission' /\ RemovalJournalled'
      BY <2>1, <2>6, <3>1 DEF StartsAgain, Admission, RemovalJournalled
    <3>3. Recorded'
      BY <1>10, <2>1, <2>2, <2>3, <2>5, <2>6, <2>8, <3>1 DEF AdmitInsert, LInv,
         Recorded, JobId
    <3>4. Agreeing'
      <4>1. \A l \in Key :
              /\ tomb'[l] \in {None, bound'[l]} /\ submissions'[l] \in {None, bound'[l]}
              /\ expired'[l] \in {None, tomb'[l]}
              /\ expired'[l] # None => submissions'[l] = None
        BY <2>1, <2>2, <2>3, <2>6, <3>1 DEF LInv, Agreeing
      <4>2. \A l \in Key : submissions'[l] # None => state'[submissions'[l]] # "absent"
        BY <2>1, <2>2, <3>1 DEF LInv, Agreeing
      <4>3. \A i \in JobId : state'[i] # "absent" /\ key'[i] # NoKey => bound'[key'[i]] = i
        BY <2>1, <2>2, <2>5, <2>7, <3>1 DEF LInv, Agreeing, None, JobId
      <4> QED
        BY <4>1, <4>2, <4>3 DEF Agreeing
    <3>5. Unique'
      <4>1. \A i, j \in JobId :
              disk'[i] # "absent" /\ disk'[j] # "absent" /\ key'[i] = key'[j] /\ key'[i] # NoKey
                => i = j
        BY <2>4, <2>5 DEF LInv, Unique
      <4>2. ASSUME NEW j \in JobId, disk'[j] # "absent", key'[j] # NoKey
            PROVE  bound'[key'[j]] \in {None, j}
        <5>1. CASE j = nextId
          BY <2>2, <2>5, <3>1, <4>2, <5>1
        <5>2. CASE j # nextId
          <6>1. disk[j] # "absent" /\ key'[j] = key[j] /\ key[j] # curKey
            BY <2>4, <2>5, <4>2, <5>2
          <6>2. bound[key[j]] \in {None, j}
            BY <4>2, <6>1 DEF LInv, Unique
          <6> QED
            BY <3>1, <6>1, <6>2
        <5> QED
          BY <5>1, <5>2
      <4> QED
        BY <4>1, <4>2 DEF Unique
    <3>6. Accounted'
      BY <2>1, <2>2, <2>4, <2>5, <2>6, <3>1 DEF LInv, Accounted
    <3>7. Answering'
      BY <2>1, <2>2, <2>3, <2>6, <3>1 DEF LInv, Answering, Known
    <3>8. Once'
      BY <2>1, <2>2, <2>3, <2>5, <2>6, <2>7, <3>1 DEF LInv, Once
    <3> QED
      BY <3>2, <3>3, <3>4, <3>5, <3>6, <3>7, <3>8 DEF LInv
  <2>9. CASE r # "ok"
    <3>1. /\ step' = "none" /\ goal' = "none" /\ admissionErr' = TRUE
          /\ UNCHANGED <<submissions, bound, state>>
      BY <1>10, <2>9 DEF AdmitInsert
    <3>2. StartsAgain' /\ Admission' /\ RemovalJournalled' /\ Accounted' /\ Once'
      BY <2>1, <2>5, <2>6, <2>7, <3>1 DEF LInv, StartsAgain, Admission, RemovalJournalled,
         Accounted, Once
    <3>3. Recorded'
      BY <1>10, <2>1, <2>3, <2>5, <2>6, <3>1 DEF AdmitInsert, LInv, Recorded, JobId
    <3>4. Agreeing'
      BY <2>1, <2>5, <2>6, <2>7, <3>1 DEF LInv, Agreeing, Known
    <3>6. Answering'
      BY <2>1, <2>5, <2>6, <2>7, <3>1 DEF LInv, Answering, Known
    <3>5. Unique'
      <4>1. \A i, j \in JobId :
              disk'[i] # "absent" /\ disk'[j] # "absent" /\ key'[i] = key'[j] /\ key'[i] # NoKey
                => i = j
        BY <2>4, <2>5 DEF LInv, Unique
      <4>2. \A j \in JobId : disk'[j] # "absent" /\ key'[j] # NoKey => bound'[key'[j]] \in {None, j}
        BY <2>2, <2>4, <2>5, <3>1 DEF LInv, Unique
      <4> QED
        BY <4>1, <4>2 DEF Unique
    <3> QED
      BY <3>2, <3>3, <3>4, <3>5, <3>6 DEF LInv
  <2> QED
    BY <2>8, <2>9
<1>11. ASSUME Send PROVE LInv'
  BY <1>11 DEF Send, LInv, StartsAgain, Recorded, Agreeing, Known, Unique, Accounted,
     Answering, Admission, RemovalJournalled, Once
<1>12. ASSUME Reserve PROVE LInv'
  BY <1>12 DEF Reserve, LInv, StartsAgain, Recorded, Agreeing, Known, Unique, Accounted,
     Answering, Admission, RemovalJournalled, Once
<1>13. ASSUME ImportEnd PROVE LInv'
  BY <1>13 DEF ImportEnd, LInv, StartsAgain, Recorded, Agreeing, Known, Unique,
     Accounted, Answering, Admission, RemovalJournalled, Once
<1>14. ASSUME ImportMore PROVE LInv'
  BY <1>14 DEF ImportMore, LInv, StartsAgain, Recorded, Agreeing, Known, Unique,
     Accounted, Answering, Admission, RemovalJournalled, Once
<1>15. ASSUME Dequeue PROVE LInv'
  BY <1>15 DEF Dequeue, LInv, StartsAgain, Recorded, Agreeing, Known, Unique, Accounted,
     Answering, Admission, RemovalJournalled, Once
<1>16. ASSUME WorkerExit PROVE LInv'
  BY <1>16 DEF WorkerExit, LInv, StartsAgain, Recorded, Agreeing, Known, Unique,
     Accounted, Answering, Admission, RemovalJournalled, Once
<1>17. ASSUME NEW r \in Outcome, Start(r) PROVE LInv'
  <2>1. CASE Runnable(job)
    <3>1. /\ job \in JobId /\ state[job] = "queued" /\ Persist(job, "running", r)
          /\ \A i \in JobId : state'[i] = IF i = job THEN "running" ELSE state[i]
      BY <1>17, <2>1 DEF Start, Runnable
    <3>2. /\ StartsAgain' /\ Recorded' /\ Agreeing' /\ Unique' /\ Accounted' /\ Answering'
          /\ Admission' /\ RemovalJournalled'
      BY <1>17, <3>1, RewriteKeeps DEF Start, JState, Active
    <3>3. Once'
      <4>1. CASE key[job] = NoKey
        BY <1>17, <2>1, <3>1, <4>1 DEF Start, LInv, Once
      <4>2. CASE key[job] # NoKey
        <5>1. /\ key[job] \in Key /\ bound[key[job]] = job /\ job # None
              /\ execs[key[job]] = 0
          BY <3>1, <4>2 DEF LInv, Agreeing, Once, None, JobId
        <5>2. \A i \in JobId : state'[i] = "queued" => key[i] # key[job]
          BY <3>1, <4>2, <5>1 DEF LInv, Agreeing
        <5>3. execs' = [execs EXCEPT ![key[job]] = 1]
          BY <1>17, <2>1, <4>2, <5>1 DEF Start
        <5> QED
          BY <1>17, <3>1, <5>1, <5>2, <5>3 DEF Start, LInv, Once
      <4> QED
        BY <4>1, <4>2
    <3> QED
      BY <3>2, <3>3 DEF LInv
  <2>2. CASE ~Runnable(job)
    BY <1>17, <2>2 DEF Start, LInv, StartsAgain, Recorded, Agreeing, Known, Unique,
       Accounted,
       Answering, Admission, RemovalJournalled, Once
  <2> QED
    BY <2>1, <2>2
<1>18. ASSUME NEW r \in Outcome, Progress(r) PROVE LInv'
  <2>1. job \in JobId /\ state[job] = "running"
    BY <1>18 DEF Progress, SInv, Running
  <2>2. /\ StartsAgain' /\ Recorded' /\ Agreeing' /\ Unique' /\ Accounted' /\ Answering'
        /\ Admission' /\ RemovalJournalled'
    BY <1>18, <2>1, RewriteKeeps DEF Progress, JState, Active
  <2>3. Once'
    BY <1>18 DEF Progress, LInv, Once
  <2> QED
    BY <2>2, <2>3 DEF LInv
<1>19. ASSUME NEW o \in Terminal, NEW r \in Outcome, Finish(o, r) PROVE LInv'
  <2>1. /\ job \in JobId /\ state[job] = "running"
        /\ \A i \in JobId : state'[i] = IF i = job THEN o ELSE state[i]
    BY <1>19 DEF Finish, SInv, Running
  <2>2. /\ StartsAgain' /\ Recorded' /\ Agreeing' /\ Unique' /\ Accounted' /\ Answering'
        /\ Admission' /\ RemovalJournalled'
    BY <1>19, <2>1, RewriteKeeps DEF Finish, JState, Terminal
  <2>3. Once'
    BY <1>19, <2>1 DEF Finish, LInv, Once, Terminal
  <2> QED
    BY <2>2, <2>3 DEF LInv
<1>20. ASSUME NEW c \in Client, NEW j \in JobId, NEW r \in Outcome, Cancel(c, j, r)
       PROVE  LInv'
  <2>1. CASE state[j] = "queued"
    <3>1. \A i \in JobId : state'[i] = IF i = j THEN "canceled" ELSE state[i]
      BY <1>20, <2>1 DEF Cancel
    <3>2. /\ StartsAgain' /\ Recorded' /\ Agreeing' /\ Unique' /\ Accounted' /\ Answering'
          /\ Admission' /\ RemovalJournalled'
      BY <1>20, <2>1, <3>1, RewriteKeeps DEF Cancel, JState, Terminal
    <3>3. Once'
      BY <1>20, <3>1 DEF Cancel, LInv, Once
    <3> QED
      BY <3>2, <3>3 DEF LInv
  <2>2. CASE state[j] # "queued"
    BY <1>20, <2>2 DEF Cancel, LInv, StartsAgain, Recorded, Agreeing, Known, Unique,
       Accounted,
       Answering, Admission, RemovalJournalled, Once
  <2> QED
    BY <2>1, <2>2
<1>21. ASSUME NEW a \in Client \cup {Worker}, RetainBegin(a) PROVE LInv'
  BY <1>21 DEF RetainBegin, LInv, StartsAgain, Recorded, Agreeing, Known, Unique,
     Accounted, Answering, Admission, RemovalJournalled, Once
<1>22. ASSUME Retain PROVE LInv'
  BY <1>22 DEF Retain, LInv, StartsAgain, Recorded, Agreeing, Known, Unique, Accounted,
     Answering, Admission, RemovalJournalled, Once
<1>23. ASSUME NEW c \in Client, CleanupBegin(c) PROVE LInv'
  BY <1>23 DEF CleanupBegin, LInv, StartsAgain, Recorded, Agreeing, Known, Unique,
     Accounted, Answering, Admission, RemovalJournalled, Once
<1>24. ASSUME Sweep PROVE LInv'
  BY <1>24 DEF Sweep, LInv, StartsAgain, Recorded, Agreeing, Known, Unique, Accounted,
     Answering, Admission, RemovalJournalled, Once
<1>25. ASSUME NEW j \in JobId, NEW r \in Outcome, Tombstone(j, r) PROVE LInv'
  <2>1. /\ step = "prune" /\ state[j] # "absent"
        /\ UNCHANGED <<phase, goal, state, admissionErr, curKey, prune, disk, key, bound, execs,
                     nextId>>
    BY <1>25 DEF Tombstone, SInv, Pruning, Completed, Terminal
  <2>2. CASE key[j] = NoKey
    BY <1>25, <2>1, <2>2 DEF Tombstone, LInv, StartsAgain, Recorded, Agreeing, Known,
       Unique,
       Accounted, Answering, Admission, RemovalJournalled, Once
  <2>3. CASE key[j] # NoKey
    <3> DEFINE k == key[j]
    <3>1. k \in Key /\ bound[k] = j /\ j # None
      BY <2>1, <2>3 DEF LInv, Agreeing, None, JobId
    <3>2. tomb' = tomb \/ tomb' = [tomb EXCEPT ![k] = j]
      BY <1>25, <2>3 DEF Tombstone, WriteTombstone
    <3>3. /\ step' \in {"remove", "abort"} /\ curJob' = IF r = "ok" THEN j ELSE None
          /\ step' = "remove" => r = "ok"
      BY <1>25 DEF Tombstone
    <3>4. \/ /\ r = "ok" /\ tomb' = [tomb EXCEPT ![k] = j]
             /\ expired' = [expired EXCEPT ![k] = j]
             /\ submissions' = [submissions EXCEPT ![k] = None]
          \/ r # "ok" /\ UNCHANGED <<expired, submissions>>
      BY <1>25, <2>3 DEF Tombstone, WriteTombstone
    <3>5. StartsAgain' /\ Recorded' /\ Unique' /\ Once'
      BY <2>1, <3>1, <3>2 DEF LInv, StartsAgain, Recorded, Unique, Once
    <3>6. Agreeing'
      <4>1. \A l \in Key :
              /\ tomb'[l] \in {None, bound'[l]} /\ submissions'[l] \in {None, bound'[l]}
              /\ expired'[l] \in {None, tomb'[l]}
              /\ expired'[l] # None => submissions'[l] = None
        BY <2>1, <3>1, <3>2, <3>4 DEF LInv, Agreeing
      <4>2. \A l \in Key : submissions'[l] # None => state'[submissions'[l]] # "absent"
        BY <2>1, <3>1, <3>4 DEF LInv, Agreeing
      <4> QED
        BY <2>1, <4>1, <4>2 DEF LInv, Agreeing
    <3>7. Accounted' /\ Admission'
      BY <2>1, <3>3 DEF LInv, Accounted, Admission
    <3>8. RemovalJournalled'
      BY <2>1, <3>1, <3>3, <3>4 DEF RemovalJournalled
    <3>9. Answering'
      <4>1. ASSUME NEW l \in Key, Known(l) PROVE Known(l)'
        <5>1. CASE l = k
          BY <2>1, <3>1, <3>4, <4>1, <5>1 DEF Known
        <5>2. CASE l # k
          BY <2>1, <3>4, <4>1, <5>2 DEF Known
        <5> QED
          BY <5>1, <5>2
      <4>2. phase = "down" => \A l \in Key : submissions'[l] = None
        BY <3>4 DEF LInv, Answering
      <4> QED
        BY <2>1, <3>3, <4>1, <4>2 DEF LInv, Answering
    <3> QED
      BY <3>5, <3>6, <3>7, <3>8, <3>9 DEF LInv
  <2> QED
    BY <2>2, <2>3
<1>26. ASSUME NEW r \in Outcome, Remove(r) PROVE LInv'
  BY <1>26 DEF Remove, LInv, StartsAgain, Recorded, Agreeing, Known, Unique, Accounted,
     Answering, Admission, RemovalJournalled, Once, Unlink, Journalled, SInv, Numbered, Pruning,
     Running, Completed
<1>27. ASSUME Pruned PROVE LInv'
  BY <1>27 DEF Pruned, LInv, StartsAgain, Recorded, Agreeing, Known, Unique, Accounted,
     Answering, Admission, RemovalJournalled, Once
<1>28. ASSUME NEW a \in Artifact, Evict(a) PROVE LInv'
  BY <1>28 DEF Evict, LInv, StartsAgain, Recorded, Agreeing, Known, Unique, Accounted,
     Answering, Admission, RemovalJournalled, Once
<1>29. ASSUME CleanupDone PROVE LInv'
  BY <1>29 DEF CleanupDone, LInv, StartsAgain, Recorded, Agreeing, Known, Unique,
     Accounted, Answering, Admission, RemovalJournalled, Once
<1>30. ASSUME CleanupFails PROVE LInv'
  BY <1>30 DEF CleanupFails, LInv, StartsAgain, Recorded, Agreeing, Known, Unique,
     Accounted, Answering, Admission, RemovalJournalled, Once, Forget, Serving
<1>31. ASSUME Close PROVE LInv'
  BY <1>31 DEF Close, LInv, StartsAgain, Recorded, Agreeing, Known, Unique, Accounted,
     Answering, Admission, RemovalJournalled, Once
<1>32. ASSUME Exit PROVE LInv'
  BY <1>32 DEF Exit, LInv, StartsAgain, Recorded, Agreeing, Known, Unique, Accounted,
     Answering, Admission, RemovalJournalled, Once, Forget
<1>33. ASSUME Kill PROVE LInv'
  BY <1>33 DEF Kill, LInv, StartsAgain, Recorded, Agreeing, Known, Unique, Accounted,
     Answering, Admission, RemovalJournalled, Once, Forget
<1>34. ASSUME PowerLoss PROVE LInv'
  BY <1>34, PowerKeeps
<1>35. CASE UNCHANGED vars
  BY <1>35 DEF vars, LInv, StartsAgain, Recorded, Agreeing, Known, Unique, Accounted,
     Answering,
     Admission, RemovalJournalled, Once
<1> QED
  BY <1>1, <1>2, <1>3, <1>4, <1>5, <1>6, <1>7, <1>8, <1>9, <1>10, <1>11, <1>12, <1>13,
     <1>14, <1>15, <1>16, <1>17, <1>18, <1>19, <1>20, <1>21, <1>22, <1>23, <1>24, <1>25,
     <1>26, <1>27, <1>28, <1>29, <1>30, <1>31, <1>32, <1>33, <1>34, <1>35 DEF Next,
     Opening, Growing, Working,
     Retaining, GoingDown

\* The record of an accepted job that is written again is still kept.
LEMMA WriteStands ==
  ASSUME TInv, LInv, Standing,
         NEW j \in JobId, NEW s \in JState \ {"absent"}, NEW r \in Outcome,
         state[j] # "absent", Persist(j, s, r), step # "load", step' # "load",
         UNCHANGED <<expired, tomb, tombSoft, key, bound>>
  PROVE  Standing'
<1> USE DEF TInv, TypeOK, MemoryType, DiskType, HistoryType, JobRef
<1>1. /\ \A i \in JobId : i # j => disk'[i] = disk[i] /\ older'[i] = older[i]
      /\ disk'[j] \in {disk[j], s}
      /\ older'[j] \in {older[j], {}, older[j] \cup {disk[j]}}
  BY DEF Persist, Outcome
<1>2. key[j] # NoKey => bound[key[j]] = j
  BY DEF LInv, Agreeing
<1>3. \A i \in JobId : key[i] # NoKey /\ bound[key[i]] # i => i # j
  BY <1>2
<1>4. ASSUME "power" \in Restarts, NEW k \in Key, bound[k] # None PROVE Kept(k)'
  <2>1. Kept(k) /\ bound[k] \in JobId
    BY <1>4 DEF Standing, LInv, Recorded
  <2> QED
    BY <1>1, <2>1 DEF Kept
<1> QED
  BY <1>1, <1>3, <1>4 DEF Standing

LEMMA StandingNext ==
  ASSUME TInv, TInv', SInv, SInv', LInv, Standing, [Next]_vars, [Durably]_vars
  PROVE  Standing'
<1> USE ConstantsOK DEF TInv, Take, Release, GoTo, life, memory, holder, worker, tombs, ids,
    history, TypeOK, MemoryType, HolderType, WorkerType, DiskType, HistoryType, Control, JobRef
<1>0. UNCHANGED <<disk, older, key, bound, expired, tombSoft, tomb>> /\ step' # "load"
        => Standing'
  BY DEF Standing, Kept
<1>1. ASSUME Boot PROVE Standing'
  <2>1. /\ expired' = tomb /\ phase = "down" /\ phase' = "loading"
        /\ UNCHANGED <<disk, older, key, bound, tombSoft, tomb>>
    BY <1>1 DEF Boot, LoadedTombstones
  <2>2. "power" \in Restarts =>
          tombSoft = {} /\ \A j \in JobId : disk[j] \in Terminal => "absent" \notin older[j]
    BY <2>1 DEF Durably, vars
  <2>3. prune' \subseteq JobId
    OBVIOUS
  <2> QED
    BY <2>1, <2>2, <2>3 DEF Standing, Kept
<1>2. ASSUME NEW j \in JobId, LoadPruned(j) PROVE Standing'
  <2>1. /\ step = "load" /\ step' = "load" /\ Unlink(j) /\ prune' = prune \ {j} /\ Journalled(j)
        /\ UNCHANGED <<key, bound, expired, tombSoft, tomb>>
    BY <1>2 DEF LoadPruned
  <2>2. \A i \in JobId : i # j => disk'[i] = disk[i] /\ older'[i] = older[i]
    BY <2>1 DEF Unlink
  <2>3. key[j] \in Key /\ expired[key[j]] = j /\ j # None
    BY <2>1 DEF Journalled, None, JobId
  <2>4. bound[key[j]] = j /\ tomb[key[j]] = j
    BY <2>3 DEF LInv, Agreeing, None, JobId
  <2>5. ASSUME "power" \in Restarts, NEW k \in Key, bound[k] # None PROVE Kept(k)'
    <3>1. Kept(k) /\ bound[k] \in JobId /\ key[bound[k]] = k
      BY <2>5 DEF Standing, LInv, Recorded
    <3>2. CASE bound[k] = j
      BY <2>1, <2>3, <2>4, <2>5, <3>1, <3>2 DEF Standing, Kept
    <3>3. CASE bound[k] # j
      BY <2>1, <2>2, <3>1, <3>3 DEF Kept
    <3> QED
      BY <3>2, <3>3
  <2>6. \A i \in JobId : key'[i] # NoKey /\ bound'[key'[i]] # i /\ disk'[i] = "absent" => older'[i] = {}
    BY <2>1, <2>2, <2>4 DEF Standing
  <2>7. "power" \in Restarts =>
          \A i \in prune' : disk'[i] \in Terminal => "absent" \notin older'[i]
    BY <2>1, <2>2 DEF Standing
  <2> QED
    BY <2>1, <2>5, <2>6, <2>7 DEF Standing
<1>3. ASSUME NEW j \in JobId, LoadPublished(j) PROVE Standing'
  <2>1. /\ step = "load" /\ step' = "load" /\ j \in prune /\ prune' = prune \ {j} /\ j # None
        /\ disk[j] # "absent" /\ UNCHANGED <<key, expired, tombSoft, tomb>>
    BY <1>3 DEF LoadPublished, SInv, Pruning, None, JobId
  <2>2. CASE Conflict(j)
    <3>1. UNCHANGED <<bound, disk, older>>
      BY <1>3, <2>2 DEF LoadPublished
    <3> QED
      BY <2>1, <3>1 DEF Standing, Kept
  <2>3. CASE ~Conflict(j)
    <3>1. bound' = IF key[j] = NoKey THEN bound ELSE [bound EXCEPT ![key[j]] = j]
      BY <1>3, <2>3 DEF LoadPublished
    <3>2. /\ \A i \in JobId : i # j => disk'[i] = disk[i] /\ older'[i] = older[i]
          /\ disk'[j] # "absent"
          /\ older'[j] = IF disk[j] \in Active THEN {} ELSE older[j]
      BY <1>3, <2>1, <2>3 DEF LoadPublished, Persist, JState
    <3>3. "power" \in Restarts => "absent" \notin older'[j]
      BY <2>1, <3>2 DEF Standing, JState
    <3>4. key[j] # NoKey => key[j] \in Key /\ bound'[key[j]] = j
      BY <3>1
    <3>5. \A i \in JobId : key'[i] # NoKey /\ bound'[key'[i]] # i /\ disk'[i] = "absent" => older'[i] = {}
      <4>1. ASSUME NEW i \in JobId, key[i] # NoKey, bound'[key[i]] # i, disk'[i] = "absent"
            PROVE  older'[i] = {}
        <5>1. i # j /\ disk[i] = "absent" /\ older'[i] = older[i]
          BY <3>2, <4>1
        <5>2. key[i] \in Key /\ bound[key[i]] # i
          <6>1. CASE key[i] # key[j]
            BY <3>1, <4>1, <6>1
          <6>2. CASE key[i] = key[j]
            <7>1. bound[key[j]] \in {None, j}
              BY <2>1, <4>1, <6>2 DEF LInv, Unique
            <7> QED
              BY <4>1, <5>1, <6>2, <7>1 DEF None, JobId
          <6> QED
            BY <6>1, <6>2
        <5> QED
          BY <4>1, <5>1, <5>2 DEF Standing
      <4> QED
        BY <2>1, <4>1
    <3>6. ASSUME "power" \in Restarts, NEW k \in Key, bound'[k] # None PROVE Kept(k)'
      <4>1. CASE key[j] = k
        <5>1. bound'[k] = j
          BY <3>4, <4>1
        <5> QED
          BY <3>2, <3>3, <3>6, <5>1 DEF Kept
      <4>2. CASE key[j] # k
        <5>1. bound'[k] = bound[k] /\ bound[k] # None
          BY <3>1, <3>6, <4>2
        <5>2. Kept(k) /\ bound[k] \in JobId /\ bound[k] # j
          BY <3>6, <4>2, <5>1 DEF Standing, LInv, Recorded
        <5> QED
          BY <2>1, <3>2, <5>1, <5>2 DEF Kept
      <4> QED
        BY <4>1, <4>2
    <3>7. "power" \in Restarts =>
            \A i \in prune' : disk'[i] \in Terminal => "absent" \notin older'[i]
      BY <2>1, <3>2 DEF Standing
    <3> QED
      BY <2>1, <3>5, <3>6, <3>7 DEF Standing
  <2> QED
    BY <2>2, <2>3
<1>4. ASSUME NEW j \in JobId, NEW r \in Outcome, LoadFails(j, r) PROVE Standing'
  <2>1. /\ step' = "none" /\ disk[j] # "absent" /\ Persist(j, "failed", r)
        /\ \A k \in Key : expired'[k] = None
        /\ UNCHANGED <<key, bound, tombSoft, tomb>>
    BY <1>4 DEF LoadFails, Forget, SInv, Pruning
  <2>2. /\ \A i \in JobId : i # j => disk'[i] = disk[i] /\ older'[i] = older[i]
        /\ disk'[j] # "absent"
        /\ older'[j] \in {older[j], {}, older[j] \cup {disk[j]}}
    BY <2>1 DEF Persist, Outcome, JState
  <2>3. ASSUME "power" \in Restarts, NEW k \in Key, bound[k] # None PROVE Kept(k)'
    <3>1. Kept(k) /\ bound[k] \in JobId
      BY <2>3 DEF Standing, LInv, Recorded
    <3> QED
      BY <2>1, <2>2, <3>1 DEF Kept
  <2>4. \A i \in JobId : key'[i] # NoKey /\ bound'[key'[i]] # i /\ disk'[i] = "absent" => older'[i] = {}
    BY <2>1, <2>2 DEF Standing
  <2> QED
    BY <2>1, <2>3, <2>4 DEF Standing
<1>5. CASE LoadDone
  BY <1>0, <1>5 DEF LoadDone
<1>6. ASSUME NEW r \in Outcome, AdmitInsert(r) PROVE Standing'
  <2>1. /\ nextId \in JobId /\ nextId # None /\ Persist(nextId, "queued", r)
        /\ step = "admit" /\ step' # "load" /\ disk[nextId] = "absent" /\ older[nextId] = {}
        /\ key' = [key EXCEPT ![nextId] = curKey]
        /\ UNCHANGED <<expired, tombSoft, tomb>>
    BY <1>6 DEF AdmitInsert, SInv, Numbered, None, JobId
  <2>2. /\ \A i \in JobId : i # nextId => disk'[i] = disk[i] /\ older'[i] = older[i]
        /\ disk'[nextId] = "absent" => older'[nextId] = {}
        /\ r = "ok" => disk'[nextId] = "queued" /\ older'[nextId] = {}
    BY <2>1 DEF Persist, Outcome
  <2>3. bound' = IF r = "ok" /\ curKey # NoKey THEN [bound EXCEPT ![curKey] = nextId] ELSE bound
    BY <1>6 DEF AdmitInsert
  <2>4. curKey # NoKey => curKey \in Key /\ bound[curKey] = None
    BY <1>6 DEF AdmitInsert, LInv, Admission
  <2>5. ASSUME NEW i \in JobId, key'[i] # NoKey, bound'[key'[i]] # i, disk'[i] = "absent"
        PROVE  older'[i] = {}
    <3>1. CASE i = nextId
      BY <2>2, <2>5, <3>1
    <3>2. CASE i # nextId
      <4>1. key'[i] = key[i] /\ key[i] \in Key
        BY <2>1, <2>5, <3>2
      <4>2. bound[key[i]] # i
        BY <2>1, <2>3, <2>4, <2>5, <4>1 DEF None, JobId
      <4> QED
        BY <2>2, <2>5, <3>2, <4>1, <4>2 DEF Standing
    <3> QED
      BY <3>1, <3>2
  <2>6. ASSUME "power" \in Restarts, NEW k \in Key, bound'[k] # None PROVE Kept(k)'
    <3>1. CASE r = "ok" /\ curKey = k
      <4>1. bound'[k] = nextId
        BY <2>3, <2>4, <3>1, <2>6
      <4> QED
        BY <2>2, <3>1, <4>1 DEF Kept
    <3>2. CASE ~(r = "ok" /\ curKey = k)
      <4>1. bound'[k] = bound[k]
        BY <2>3, <3>2
      <4>2. Kept(k) /\ bound[k] \in JobId /\ bound[k] < nextId
        BY <2>6, <4>1 DEF Standing, LInv, Recorded
      <4>3. bound[k] # nextId
        BY <2>1, <4>2 DEF JobId
      <4> QED
        BY <2>1, <2>2, <4>1, <4>2, <4>3 DEF Kept
    <3> QED
      BY <3>1, <3>2
  <2> QED
    BY <2>1, <2>5, <2>6 DEF Standing
<1>7. CASE Growing /\ \A r \in Outcome : ~AdmitInsert(r)
  BY <1>0, <1>7 DEF Growing, CreateBegin, ImportBegin, Ensure, AdmitReject, Send, Reserve, ImportEnd,
     ImportMore, Standing
<1>8. ASSUME NEW r \in Outcome, Start(r) PROVE Standing'
  <2>1. CASE Runnable(job)
    BY <1>8, <2>1, WriteStands DEF Start, Runnable, JState, Active, MutexFree, Serving, SInv, Pruning
  <2>2. CASE ~Runnable(job)
    BY <1>0, <1>8, <2>2 DEF Start, MutexFree, Serving, SInv, Pruning
  <2> QED
    BY <2>1, <2>2
<1>9. ASSUME NEW r \in Outcome, Progress(r) PROVE Standing'
  BY <1>9, WriteStands DEF Progress, JState, Active, MutexFree, Serving, SInv, Pruning, Running
<1>10. ASSUME NEW o \in Terminal, NEW r \in Outcome, Finish(o, r) PROVE Standing'
  BY <1>10, WriteStands DEF Finish, JState, Terminal, MutexFree, Serving, SInv, Pruning, Running
<1>11. CASE Dequeue \/ WorkerExit
  BY <1>0, <1>11 DEF Dequeue, WorkerExit, Serving, SInv, Pruning
<1>12. ASSUME NEW c \in Client, NEW j \in JobId, NEW r \in Outcome, Cancel(c, j, r)
       PROVE  Standing'
  <2>1. CASE state[j] = "queued"
    BY <1>12, <2>1, WriteStands DEF Cancel, JState, Terminal, MutexFree, Serving, SInv, Pruning
  <2>2. CASE state[j] # "queued"
    BY <1>0, <1>12, <2>2 DEF Cancel, MutexFree, Serving, SInv, Pruning
  <2> QED
    BY <2>1, <2>2
<1>13. ASSUME NEW j \in JobId, NEW r \in Outcome, Tombstone(j, r) PROVE Standing'
  <2>1. /\ step' # "load" /\ state[j] # "absent"
        /\ UNCHANGED <<disk, older, key, bound>>
    BY <1>13 DEF Tombstone, SInv, Pruning, Completed, Terminal
  <2>2. CASE key[j] = NoKey
    BY <1>0, <1>13, <2>1, <2>2 DEF Tombstone
  <2>3. CASE key[j] # NoKey
    <3> DEFINE k == key[j]
    <3>1. k \in Key /\ bound[k] = j /\ j # None
      BY <2>1, <2>3 DEF LInv, Agreeing, None, JobId
    <3>2. CASE r = "ok"
      <4>1. /\ tomb' = [tomb EXCEPT ![k] = j] /\ tombSoft' = tombSoft \ {k}
            /\ expired' = [expired EXCEPT ![k] = j]
        BY <1>13, <2>3, <3>2 DEF Tombstone, WriteTombstone
      <4>2. ASSUME "power" \in Restarts, NEW l \in Key, bound[l] # None PROVE Kept(l)'
        BY <2>1, <3>1, <4>1, <4>2 DEF Standing, Kept
      <4> QED
        BY <2>1, <3>1, <4>1, <4>2 DEF Standing
    <3>3. CASE r # "ok"
      <4>1. /\ tomb' = tomb \/ tomb' = [tomb EXCEPT ![k] = j]
            /\ tombSoft' = tombSoft \/ (tomb[k] # j /\ tombSoft' = tombSoft \cup {k})
            /\ expired' = expired
        BY <1>13, <2>3, <3>3 DEF Tombstone, WriteTombstone
      <4>2. ASSUME "power" \in Restarts, NEW l \in Key, bound[l] # None PROVE Kept(l)'
        BY <2>1, <3>1, <4>1, <4>2 DEF Standing, Kept
      <4>3. ASSUME "power" \in Restarts, NEW l \in Key, expired'[l] # None PROVE l \notin tombSoft'
        BY <3>1, <4>1, <4>3 DEF Standing, LInv, Agreeing
      <4> QED
        BY <2>1, <4>2, <4>3 DEF Standing
    <3> QED
      BY <3>2, <3>3
  <2> QED
    BY <2>2, <2>3
<1>14. ASSUME NEW r \in Outcome, Remove(r) PROVE Standing'
  <2>1. /\ step = "remove" /\ step' # "load" /\ curJob \in JobId /\ state[curJob] # "absent"
        /\ UNCHANGED <<key, bound, expired, tombSoft, tomb>>
    BY <1>14 DEF Remove, SInv, Pruning, Completed, Terminal
  <2>2. /\ \A i \in JobId : i # curJob => disk'[i] = disk[i] /\ older'[i] = older[i]
    BY <1>14, <2>1 DEF Remove, Unlink
  <2>3. key[curJob] # NoKey =>
          /\ key[curJob] \in Key /\ bound[key[curJob]] = curJob /\ tomb[key[curJob]] = curJob
          /\ expired[key[curJob]] # None
    BY <2>1 DEF LInv, Agreeing, RemovalJournalled, None, JobId
  <2>4. ASSUME "power" \in Restarts, NEW k \in Key, bound[k] # None PROVE Kept(k)'
    <3>1. Kept(k) /\ bound[k] \in JobId /\ key[bound[k]] = k
      BY <2>4 DEF Standing, LInv, Recorded
    <3>2. CASE bound[k] = curJob
      BY <2>1, <2>3, <2>4, <3>1, <3>2 DEF Standing, Kept
    <3>3. CASE bound[k] # curJob
      BY <2>1, <2>2, <3>1, <3>3 DEF Kept
    <3> QED
      BY <3>2, <3>3
  <2>5. \A i \in JobId : key'[i] # NoKey /\ bound'[key'[i]] # i /\ disk'[i] = "absent" => older'[i] = {}
    BY <2>1, <2>2, <2>3 DEF Standing
  <2> QED
    BY <2>1, <2>4, <2>5 DEF Standing
<1>15. ASSUME NEW a \in Client \cup {Worker}, RetainBegin(a) PROVE Standing'
  BY <1>0, <1>15 DEF RetainBegin
<1>16. CASE Retain \/ (\E c \in Client : CleanupBegin(c)) \/ Sweep \/ Pruned
            \/ (\E a \in Artifact : Evict(a)) \/ CleanupDone
  BY <1>0, <1>16 DEF Retain, CleanupBegin, Sweep, Pruned, Evict, CleanupDone
<1>17. CASE CleanupFails \/ Exit \/ Kill
  <2>1. /\ UNCHANGED <<disk, older, key, bound, tombSoft, tomb>> /\ step' = "none"
        /\ expired' = expired \/ \A k \in Key : expired'[k] = None
    BY <1>17 DEF CleanupFails, Exit, Kill, Forget
  <2> QED
    BY <2>1 DEF Standing, Kept
<1>18. CASE Close
  BY <1>18 DEF Close, Standing, Kept
<1>19. CASE PowerLoss
  BY <1>19, PowerKeeps
<1>20. CASE UNCHANGED vars
  BY <1>20 DEF vars, Standing, Kept
<1> QED
  BY <1>1, <1>2, <1>3, <1>4, <1>5, <1>6, <1>7, <1>8, <1>9, <1>10, <1>11, <1>12, <1>13, <1>14,
     <1>15, <1>16, <1>17, <1>18, <1>19, <1>20 DEF Next, Opening, Growing, Working, Retaining, GoingDown

\* The ledger invariant holds as long as the disk keeps what a start has believed.
THEOREM LedgerInductive == Spec /\ StartsOnDurable => [](LInv /\ Standing)
<1>1. Init => LInv /\ Standing
  BY ConstantsOK DEF Init, LInv, Standing, Kept, StartsAgain, Recorded, Agreeing, Known, Unique,
     Accounted, Answering, Admission, RemovalJournalled, Once
<1>2. /\ TInv /\ TInv' /\ SInv /\ SInv' /\ LInv /\ Standing /\ [Next]_vars
      /\ [Durably]_vars
      => LInv' /\ Standing'
  BY LedgerNext, StandingNext
<1> QED
  BY <1>1, <1>2, TypeInductive, ServingInductive, PTL DEF Spec, StartsOnDurable

-----------------------------------------------------------------------------
(* The properties.                                                          *)

\* No start rejects what earlier runs of the daemon wrote (load).
THEOREM StartsNeverRefused == Spec /\ StartsOnDurable => []StartsAgain
<1>1. LInv => StartsAgain
  BY DEF LInv
<1> QED
  BY <1>1, LedgerInductive, PTL

\* A serving station answers every key it ever accepted with that key's job.
THEOREM AcceptedAlwaysKept == Spec /\ StartsOnDurable => []AcceptedKept
<1>1. LInv => AcceptedKept
  BY DEF LInv, AcceptedKept, Serving, Accounted, Answering, Known
<1> QED
  BY <1>1, LedgerInductive, PTL

\* No requestId is executed twice, over any number of restarts.
THEOREM ExecutesAtMostOnce == Spec /\ StartsOnDurable => []RunsAtMostOnce
<1>1. LInv => RunsAtMostOnce
  BY DEF LInv, Once, RunsAtMostOnce
<1> QED
  BY <1>1, LedgerInductive, PTL

-----------------------------------------------------------------------------
(* Refinement: every step binds one fresh key, runs one bound key for the   *)
(* first time, or leaves the ledger alone.                                  *)

LEMMA AcceptRefines ==
  ASSUME TInv, LInv, NEW k \in Key, NEW j \in JobId,
         bound' = [bound EXCEPT ![k] = j], UNCHANGED execs,
         bound[k] = None, \A l \in Key : bound[l] # j
  PROVE  Ledger!LNext
BY DEF Ledger!LNext, Ledger!Accept

\* The manager's specification implements the submission ledger.
THEOREM ImplementsLedger == Spec /\ StartsOnDurable => LedgerKept
<1>1. Init => Ledger!LInit
  BY DEF Init, Ledger!LInit
<1>2. TInv /\ SInv /\ LInv /\ [Next]_vars => [Ledger!LNext]_<<bound, execs>>
  <2> SUFFICES ASSUME TInv, SInv, LInv, Next PROVE Ledger!LNext \/ UNCHANGED <<bound, execs>>
    BY DEF vars, history
  <2> USE DEF ids, history
  <2>1. ASSUME NEW j \in JobId, LoadPublished(j)
        PROVE  Ledger!LNext \/ UNCHANGED <<bound, execs>>
    <3>1. j \in prune /\ disk[j] # "absent" /\ UNCHANGED execs
      BY <2>1 DEF LoadPublished, SInv, Pruning
    <3>2. CASE key[j] = NoKey \/ Conflict(j)
      BY <2>1, <3>2 DEF LoadPublished
    <3>3. CASE key[j] # NoKey /\ ~Conflict(j)
      <4>1. key[j] \in Key /\ bound[key[j]] \in {None, j}
        BY <3>1, <3>3 DEF TInv, TypeOK, HistoryType, LInv, Unique
      <4>2. bound' = [bound EXCEPT ![key[j]] = j]
        BY <2>1, <3>3 DEF LoadPublished
      <4>3. CASE bound[key[j]] = j
        BY <3>1, <4>1, <4>2, <4>3 DEF TInv, TypeOK, HistoryType
      <4>4. CASE bound[key[j]] = None /\ j # None
        <5>1. \A l \in Key : bound[l] # j
          BY <4>1, <4>4 DEF LInv, Recorded
        <5> QED
          BY <3>1, <4>1, <4>2, <4>4, <5>1, AcceptRefines
      <4> QED
        BY <4>1, <4>3, <4>4 DEF None, JobId
    <3> QED
      BY <3>2, <3>3
  <2>2. ASSUME NEW r \in Outcome, AdmitInsert(r)
        PROVE  Ledger!LNext \/ UNCHANGED <<bound, execs>>
    <3>1. CASE r # "ok" \/ curKey = NoKey
      BY <2>2, <3>1 DEF AdmitInsert
    <3>2. CASE r = "ok" /\ curKey # NoKey
      <4>1. /\ nextId \in JobId /\ curKey \in Key /\ bound[curKey] = None
            /\ bound' = [bound EXCEPT ![curKey] = nextId] /\ UNCHANGED execs
        BY <2>2, <3>2 DEF AdmitInsert, TInv, TypeOK, HolderType, Control, LInv, Admission
      <4>2. \A l \in Key : bound[l] # nextId
        BY <4>1 DEF LInv, Recorded, None, JobId
      <4> QED
        BY <4>1, <4>2, AcceptRefines
    <3> QED
      BY <3>1, <3>2
  <2>3. ASSUME NEW r \in Outcome, Start(r)
        PROVE  Ledger!LNext \/ UNCHANGED <<bound, execs>>
    <3>1. job \in JobId /\ UNCHANGED bound
      BY <2>3 DEF Start, TInv, Control
    <3>2. CASE Runnable(job) /\ key[job] # NoKey
      <4>1. /\ key[job] \in Key /\ bound[key[job]] # None /\ execs[key[job]] = 0
        BY <3>1, <3>2 DEF Runnable, TInv, TypeOK, HistoryType, LInv, Agreeing, Once, None,
           JobId
      <4>2. execs' = [execs EXCEPT ![key[job]] = 1]
        BY <2>3, <3>2, <4>1 DEF Start
      <4>3. Ledger!Execute(key[job])
        BY <3>1, <4>1, <4>2 DEF Ledger!Execute
      <4> QED
        BY <4>1, <4>3 DEF Ledger!LNext
    <3>3. CASE ~Runnable(job) \/ key[job] = NoKey
      BY <2>3, <3>1, <3>3 DEF Start
    <3> QED
      BY <3>2, <3>3
  <2>4. CASE Opening
    BY <2>1, <2>4 DEF Opening, Boot, LoadPruned, LoadFails, LoadDone, Forget
  <2>5. CASE Growing
    BY <2>2, <2>5 DEF Growing, CreateBegin, ImportBegin, Ensure, AdmitReject, Send, Reserve,
       ImportEnd, ImportMore
  <2>6. CASE Working
    BY <2>3, <2>6 DEF Working, Dequeue, WorkerExit, Progress, Finish
  <2>7. CASE Retaining
    BY <2>7 DEF Retaining, Cancel, RetainBegin, Retain, CleanupBegin, Sweep, Tombstone,
       Remove,
       Pruned, Evict, CleanupDone, CleanupFails, Forget
  <2>8. CASE GoingDown
    BY <2>8 DEF GoingDown, Close, Exit, Kill, PowerLoss, Forget
  <2> QED
    BY <2>4, <2>5, <2>6, <2>7, <2>8 DEF Next
<1> QED
  BY <1>1, <1>2, TypeInductive, ServingInductive, LedgerInductive, PTL
     DEF Spec, LedgerKept, Ledger!LSpec

\* Without power losses nothing is asked of what a start finds: after any stops, kills and file
\* errors the next start goes through, and the ledger is kept.
THEOREM LedgerWithoutPowerLoss ==
  ASSUME "power" \notin Restarts
  PROVE  Spec => []StartsAgain /\ []AcceptedKept /\ []RunsAtMostOnce /\ LedgerKept
<1>1. [Next]_vars => [Durably]_vars
  BY DEF Durably
<1>2. Spec => StartsOnDurable
  BY <1>1, PTL DEF Spec, StartsOnDurable
<1> QED
  BY <1>2, StartsNeverRefused, AcceptedAlwaysKept, ExecutesAtMostOnce, ImplementsLedger, PTL
=============================================================================
