----------------------------- MODULE JobManager -----------------------------
(***************************************************************************)
(* The job manager of the provisioning station (internal/jobs): admission  *)
(* of submissions under an idempotency key, the single worker, operator    *)
(* cancellation, retention (pruning of old histories behind a tombstone,   *)
(* eviction of artifacts), shutdown, crash and restart.                    *)
(*                                                                         *)
(* Two locks order everything.  The storage gate (storagebudget.Gate)      *)
(* serialises admissions, imports and cleanups; what its holder is doing   *)
(* is goal/step.  The job mutex is held through a whole cleanup and        *)
(* through each short critical section; a short section is one action      *)
(* guarded by MutexFree.  submissionMutex is only ever taken by an         *)
(* admission that already holds the gate, so the gate stands for both.     *)
(*                                                                         *)
(* A job is its number: jobs are created one at a time under the gate, so  *)
(* a larger number is a later CreatedUTC.  A request is reduced to its     *)
(* idempotency key and its artifact; answering a known key changes nothing *)
(* and is therefore no action.                                             *)
(***************************************************************************)
EXTENDS Integers, Sequences, FiniteSets

CONSTANTS
  Client,     \* threads of the HTTP server that call the manager
  Worker,     \* the manager's one worker goroutine
  Main,       \* the goroutine that opens the manager
  Free,       \* the gate has no holder
  Key,        \* well-formed requestIds
  NoKey,      \* a request without one
  Artifact,   \* content addresses of artifacts
  NoArtifact, \* none chosen yet
  MaxJobs,    \* bound of the model: jobs ever created
  QueueCap,   \* capacity of the queue channel (128)
  Keep,       \* completedJobLimit (30)
  MaxFaults,  \* bound of the model: file system operations that fail
  MaxBoots,   \* bound of the model: how often the daemon is started again
  Restarts    \* ways the daemon may go down: "stop", "kill", "power"

None == 0
JobId == 1..MaxJobs
Actor == Client \cup {Worker, Main}
Terminal == {"succeeded", "failed", "canceled"}
Active == {"queued", "running"}
JState == {"absent"} \cup Active \cup Terminal
Outcome == {"ok", "lost", "unsynced"}

ASSUME ConstantsOK ==
  /\ Worker \notin Client /\ Main \notin Client /\ Worker # Main
  /\ Free \notin Actor
  /\ NoKey \notin Key /\ NoArtifact \notin Artifact
  /\ MaxJobs \in Nat /\ QueueCap \in Nat \ {0} /\ Keep \in Nat
  /\ MaxFaults \in Nat /\ MaxBoots \in Nat
  /\ Restarts \subseteq {"stop", "kill", "power"}

VARIABLES
  phase,         \* the daemon: down, loading, up, closing, refused (will not start)
  boots,         \* starts left
  \* memory
  state,         \* Manager.jobs: the state of each job, "absent" when not in the map
  submissions,   \* Manager.submissions: key -> job
  expired,       \* Manager.expired: key -> job of its tombstone
  queue,         \* Manager.queue
  admissionErr,  \* Manager.admissionErr # nil
  reserved,      \* Gate.Reservations of jobs
  owing,         \* clients that canceled and still have to run retentionAfterCompletion
  \* the gate and its holder's locals
  gate, goal, step,
  curKey, curArt,  \* the request being admitted, or the artifact being imported
  curJob,          \* the job being admitted, or pruned
  prune,           \* jobs the running cleanup has still to prune
  \* the worker
  wpc, job, fired, \* its control point, its job, and whether the job's canceller fired
  \* disk
  disk,          \* the state recorded in each job.json
  older,         \* versions of job.json that a power loss may still bring back
  tomb,          \* submissions/<key>.json: job of the tombstone
  tombSoft,      \* tombstones renamed into place in a directory not synced since
  store,         \* artifacts in the store
  faults,        \* failures so far
  \* immutable once a job is created
  nextId, key, art,
  \* history
  bound,         \* the job each key was bound to when it was accepted
  execs,         \* how often a job of the key was started (0, 1, or 2 for "more")
  cancelAcked    \* jobs whose cancellation was acknowledged by this run of the daemon

life    == <<phase, boots>>
memory  == <<state, submissions, expired, queue, admissionErr>>
holder  == <<gate, goal, step, curKey, curArt, curJob, prune>>
worker  == <<wpc, job, fired>>
tombs   == <<tomb, tombSoft>>
ids     == <<nextId, key, art>>
history == <<bound, execs, cancelAcked>>
vars == <<life, memory, reserved, owing, holder, worker, disk, older, tombs,
          store, faults, ids, history>>

JobRef == JobId \cup {None}

MemoryType ==
  /\ phase \in {"down", "loading", "up", "closing", "refused"} /\ boots \in Nat
  /\ state \in [JobId -> JState]
  /\ submissions \in [Key -> JobRef] /\ expired \in [Key -> JobRef]
  /\ queue \in Seq(JobId) /\ admissionErr \in BOOLEAN
  /\ reserved \subseteq JobId /\ owing \subseteq Client

HolderType ==
  /\ gate \in Actor \cup {Free}
  /\ goal \in {"none", "create", "import", "cleanup", "retain", "start"}
  /\ step \in {"none", "load", "ensure", "recheck", "admit", "send", "reserve",
               "publish", "retain", "sweep", "prune", "remove", "evict", "abort"}
  /\ curKey \in Key \cup {NoKey} /\ curArt \in Artifact \cup {NoArtifact}
  /\ curJob \in JobRef /\ prune \subseteq JobId

WorkerType ==
  /\ wpc \in {"idle", "take", "run", "retain", "exited"}
  /\ job \in JobRef /\ fired \in BOOLEAN

DiskType ==
  /\ disk \in [JobId -> JState] /\ older \in [JobId -> SUBSET JState]
  /\ tomb \in [Key -> JobRef] /\ tombSoft \subseteq Key
  /\ store \subseteq Artifact /\ faults \in 0..MaxFaults

HistoryType ==
  /\ nextId \in 1..(MaxJobs + 1)
  /\ key \in [JobId -> Key \cup {NoKey}] /\ art \in [JobId -> Artifact \cup {NoArtifact}]
  /\ bound \in [Key -> JobRef] /\ execs \in [Key -> 0..2]
  /\ cancelAcked \subseteq JobId

TypeOK == MemoryType /\ HolderType /\ WorkerType /\ DiskType /\ HistoryType

-----------------------------------------------------------------------------
(* Locks, sets of jobs, disk writes.                                        *)

Serving == phase \in {"up", "closing"}
MutexFree == Serving /\ step \notin {"prune", "remove", "evict", "abort"}

Completed == {j \in JobId : state[j] \in Terminal}
ActiveJobs == {j \in JobId : state[j] \in Active}

\* The histories beyond the newest Keep completed ones.
Prunable == {j \in Completed : Cardinality({k \in Completed : k > j}) >= Keep}

\* Artifacts a cleanup never evicts: Gate.Pins and those of active jobs.
Protected_NoQueued == {art[j] : j \in {i \in JobId : state[i] = "running"}}
                      \cup (IF goal = "create" THEN {curArt} ELSE {})
Protected == {art[j] : j \in ActiveJobs}
             \cup (IF goal = "create" THEN {curArt} ELSE {})

\* Artifacts only completed histories refer to go last.
Referenced == {art[j] : j \in Completed \ Prunable}
Evictable == LET free == store \ Protected
             IN IF free \subseteq Referenced THEN free ELSE free \ Referenced

\* A file operation that fails uses up one of the model's faults.
Fault(r) ==
  /\ r # "ok" => faults < MaxFaults
  /\ faults' = IF r = "ok" THEN faults ELSE faults + 1

\* persistLocked: write a temporary file, rename it over job.json, sync the
\* directories.  It may fail before the rename (lost) or after (unsynced).
Persist_NoSync(j, s, r) ==
  /\ Fault(r)
  /\ disk' = IF r = "lost" THEN disk ELSE [disk EXCEPT ![j] = s]
  /\ older' = IF r = "lost" THEN older ELSE [older EXCEPT ![j] = @ \cup {disk[j]}]
Persist(j, s, r) ==
  /\ Fault(r)
  /\ disk' = IF r = "lost" THEN disk ELSE [disk EXCEPT ![j] = s]
  /\ older' = CASE r = "ok"       -> [older EXCEPT ![j] = {}]
                [] r = "unsynced" -> [older EXCEPT ![j] = @ \cup {disk[j]}]
                [] r = "lost"     -> older

\* removeKnownJob: the files go, the removal is not synced.
Unlink(j) ==
  /\ disk' = [disk EXCEPT ![j] = "absent"]
  /\ older' = IF disk[j] = "absent" THEN older ELSE [older EXCEPT ![j] = @ \cup {disk[j]}]

Take(a, g, s) == gate = Free /\ gate' = a /\ goal' = g /\ step' = s

Release ==
  /\ gate' = Free /\ goal' = "none" /\ step' = "none"
  /\ curKey' = NoKey /\ curArt' = NoArtifact /\ curJob' = None /\ prune' = {}

GoTo(s) == step' = s /\ UNCHANGED <<gate, goal, curKey, curArt, curJob, prune>>

\* What every way down leaves of the process: nothing.
Forget ==
  /\ phase' = "down"
  /\ state' = [j \in JobId |-> "absent"]
  /\ submissions' = [k \in Key |-> None] /\ expired' = [k \in Key |-> None]
  /\ queue' = <<>> /\ admissionErr' = FALSE /\ reserved' = {} /\ owing' = {}
  /\ Release
  /\ wpc' = "idle" /\ job' = None /\ fired' = FALSE
  /\ cancelAcked' = {}
  /\ UNCHANGED <<boots, store, ids, bound, execs>>

-----------------------------------------------------------------------------
(* Opening the manager.                                                     *)

\* A first start on an empty state directory.
Init ==
  /\ phase = "up" /\ boots = MaxBoots
  /\ state = [j \in JobId |-> "absent"] /\ disk = [j \in JobId |-> "absent"]
  /\ older = [j \in JobId |-> {}]
  /\ submissions = [k \in Key |-> None] /\ expired = [k \in Key |-> None]
  /\ tomb = [k \in Key |-> None] /\ tombSoft = {}
  /\ queue = <<>> /\ admissionErr = FALSE /\ reserved = {} /\ owing = {}
  /\ gate = Free /\ goal = "none" /\ step = "none"
  /\ curKey = NoKey /\ curArt = NoArtifact /\ curJob = None /\ prune = {}
  /\ wpc = "idle" /\ job = None /\ fired = FALSE
  /\ store = {} /\ faults = 0
  /\ nextId = 1
  /\ key = [j \in JobId |-> NoKey] /\ art = [j \in JobId |-> NoArtifact]
  /\ bound = [k \in Key |-> None] /\ execs = [k \in Key |-> 0]
  /\ cancelAcked = {}

\* loadTombstones: every tombstone the directory shows is believed.
LoadedTombstones == tomb

\* While loading, prune holds the job directories still to be read.
Boot ==
  /\ phase = "down" /\ boots > 0
  /\ phase' = "loading" /\ boots' = boots - 1
  /\ expired' = LoadedTombstones
  /\ Take(Main, "start", "load")
  /\ prune' = {j \in JobId : disk[j] # "absent"}
  /\ UNCHANGED <<state, submissions, queue, admissionErr, reserved, owing, curKey,
                 curArt, curJob, worker, disk, older, tombs, store, faults, ids, history>>

\* The tombstone is a prune journal: a crash interrupted the removal.
Journalled(j) == key[j] # NoKey /\ expired[key[j]] = j

\* A tombstone of another job, or a second job of one key.
Conflict(j) == key[j] # NoKey /\ (expired[key[j]] # None \/ submissions[key[j]] # None)

LoadPruned(j) ==
  /\ phase = "loading" /\ step = "load" /\ j \in prune /\ Journalled(j)
  /\ Unlink(j)
  /\ prune' = prune \ {j}
  /\ UNCHANGED <<life, memory, reserved, owing, gate, goal, step, curKey, curArt, curJob,
                 worker, tombs, store, faults, ids, history>>

LoadPublished(j) ==
  LET k == key[j] IN
  /\ phase = "loading" /\ step = "load" /\ j \in prune /\ ~Journalled(j)
  /\ IF Conflict(j)
     THEN /\ phase' = "refused"
          /\ UNCHANGED <<state, submissions, bound, disk, older, faults>>
     ELSE /\ submissions' = IF k = NoKey THEN submissions ELSE [submissions EXCEPT ![k] = j]
          /\ bound' = IF k = NoKey THEN bound ELSE [bound EXCEPT ![k] = j]
          /\ IF disk[j] \in Active  \* the station stopped before it completed
             THEN state' = [state EXCEPT ![j] = "failed"] /\ Persist(j, "failed", "ok")
             ELSE state' = [state EXCEPT ![j] = disk[j]] /\ UNCHANGED <<disk, older, faults>>
          /\ phase' = phase
  /\ prune' = prune \ {j}
  /\ UNCHANGED <<boots, expired, queue, admissionErr, reserved, owing, gate, goal, step,
                 curKey, curArt, curJob, worker, tombs, store, ids, execs, cancelAcked>>

\* Any file error ends the start, whatever it left on disk.
LoadFails(j, r) ==
  /\ phase = "loading" /\ step = "load" /\ j \in prune /\ ~Journalled(j) /\ ~Conflict(j)
  /\ disk[j] \in Active /\ r # "ok"
  /\ Persist(j, "failed", r)
  /\ Forget
  /\ UNCHANGED tombs

\* initializeRetention: cleanupLocked(true, 0) before the worker starts.
LoadDone ==
  /\ phase = "loading" /\ step = "load" /\ prune = {}
  /\ GoTo("sweep")
  /\ UNCHANGED <<life, memory, reserved, owing, worker, disk, older, tombs, store, faults,
                 ids, history>>

-----------------------------------------------------------------------------
(* CreateSubmissionContext and Store.Import, both from start to end under   *)
(* the gate.                                                                *)

Idle(c) == c \notin owing /\ gate # c

\* A known key is answered without a new job, an expired one too.
Fresh_LiveOnly(k) == k # NoKey => submissions[k] = None
Fresh(k) == k # NoKey => expired[k] = None /\ submissions[k] = None

Admitting_Always == phase = "up"
Admitting == phase = "up" /\ ~admissionErr

\* Pin the artifact of a fresh request and ensure space.
CreateBegin(c, k, a) ==
  /\ Admitting /\ Idle(c) /\ Fresh(k)
  /\ nextId <= MaxJobs
  /\ Take(c, "create", "ensure")
  /\ curKey' = k /\ curArt' = a
  /\ UNCHANGED <<life, memory, reserved, owing, curJob, prune, worker, disk, older, tombs,
                 store, faults, ids, history>>

ImportBegin(c, a) ==
  /\ Serving /\ Idle(c)
  /\ Take(c, "import", "ensure")
  /\ curArt' = a
  /\ UNCHANGED <<life, memory, reserved, owing, curKey, curJob, prune, worker, disk, older,
                 tombs, store, faults, ids, history>>

\* EnsureLocked: enough space, or a cleanup and a second look.
Ensure ==
  /\ Serving
  /\ \/ step \in {"ensure", "recheck"} /\ GoTo(IF goal = "create" THEN "admit" ELSE "publish")
     \/ step = "ensure" /\ GoTo("sweep")
     \/ step = "recheck" /\ Release
  /\ UNCHANGED <<life, memory, reserved, owing, worker, disk, older, tombs, store, faults,
                 ids, history>>

\* createContext rejects: full queue, unknown artifact, invalid request.
AdmitReject ==
  /\ step = "admit"
  /\ Release
  /\ UNCHANGED <<life, memory, reserved, owing, worker, disk, older, tombs, store, faults,
                 ids, history>>

\* Only admissions fill the queue, so the check still holds when Send is reached.
HasCapacity_Unchecked == TRUE
HasCapacity == Len(queue) < QueueCap

\* createContext accepts: insert and persist the job, bind the key.  When the
\* record cannot be persisted the station admits nothing until restarted.
AdmitInsert(r) ==
  LET j == nextId IN
  /\ step = "admit" /\ MutexFree
  /\ HasCapacity /\ curArt \in store
  /\ Persist(j, "queued", r)
  /\ key' = [key EXCEPT ![j] = curKey] /\ art' = [art EXCEPT ![j] = curArt]
  /\ nextId' = nextId + 1
  /\ IF r = "ok"
     THEN /\ state' = [state EXCEPT ![j] = "queued"]
          /\ submissions' = IF curKey = NoKey THEN submissions
                            ELSE [submissions EXCEPT ![curKey] = j]
          /\ bound' = IF curKey = NoKey THEN bound ELSE [bound EXCEPT ![curKey] = j]
          /\ step' = "send" /\ curJob' = j
          /\ UNCHANGED <<admissionErr, gate, goal, curKey, curArt, prune>>
     ELSE /\ admissionErr' = TRUE
          /\ Release
          /\ UNCHANGED <<state, submissions, bound>>
  /\ UNCHANGED <<life, expired, queue, reserved, owing, worker, tombs, store, execs,
                 cancelAcked>>

\* The send selects between the queue and the manager's cancelled context.
Send ==
  /\ step = "send"
  /\ \/ Len(queue) < QueueCap /\ queue' = Append(queue, curJob)
     \/ phase = "closing" /\ UNCHANGED queue
  /\ GoTo("reserve")
  /\ UNCHANGED <<life, state, submissions, expired, admissionErr, reserved, owing, worker,
                 disk, older, tombs, store, faults, ids, history>>

Reserve ==
  /\ step = "reserve"
  /\ reserved' = reserved \cup {curJob}
  /\ Release
  /\ UNCHANGED <<life, memory, owing, worker, disk, older, tombs, store, faults, ids,
                 history>>

\* Import renames its staging directory into place, or fails.
ImportEnd ==
  /\ step = "publish"
  /\ store' = store \cup {curArt} \/ store' = store
  /\ Release
  /\ UNCHANGED <<life, memory, reserved, owing, worker, disk, older, tombs, faults, ids,
                 history>>

\* The next bytes of the upload need room first.
ImportMore ==
  /\ step = "publish"
  /\ GoTo("ensure")
  /\ UNCHANGED <<life, memory, reserved, owing, worker, disk, older, tombs, store, faults,
                 ids, history>>

-----------------------------------------------------------------------------
(* The worker: worker() and run().  The deployment between start and finish *)
(* touches the manager only through intermediate records of its job.        *)

\* Receiving from the queue takes no lock; a stopping worker may still receive.
Dequeue ==
  /\ Serving /\ wpc = "idle" /\ queue # <<>>
  /\ wpc' = "take" /\ job' = Head(queue) /\ queue' = Tail(queue)
  /\ UNCHANGED <<life, state, submissions, expired, admissionErr, reserved, owing, holder,
                 fired, disk, older, tombs, store, faults, ids, history>>

WorkerExit ==
  /\ phase = "closing" /\ wpc = "idle"
  /\ wpc' = "exited"
  /\ UNCHANGED <<life, memory, reserved, owing, holder, job, fired, disk, older, tombs,
                 store, faults, ids, history>>

\* Only a queued job starts; a canceled or pruned one is dropped.
Runnable_Unfinished(j) == state[j] \notin {"absent", "succeeded", "failed"}
Runnable(j) == state[j] = "queued"

Start(r) ==
  LET k == key[job] IN
  /\ wpc = "take" /\ MutexFree
  /\ IF Runnable(job)
     THEN /\ state' = [state EXCEPT ![job] = "running"]
          /\ Persist(job, "running", r)
          /\ execs' = IF k = NoKey \/ execs[k] = 2 THEN execs ELSE [execs EXCEPT ![k] = @ + 1]
          /\ wpc' = "run" /\ fired' = (phase = "closing") /\ job' = job
     ELSE /\ r = "ok"
          /\ wpc' = "idle" /\ job' = None
          /\ UNCHANGED <<state, disk, older, faults, execs, fired>>
  /\ UNCHANGED <<life, submissions, expired, queue, admissionErr, reserved, owing, holder,
                 tombs, store, ids, bound, cancelAcked>>

\* Serial metadata, the deployment outcome and each task result are recorded.
Progress(r) ==
  /\ wpc = "run" /\ MutexFree
  /\ Persist(job, "running", r)
  /\ UNCHANGED <<life, memory, reserved, owing, holder, worker, tombs, store, ids, history>>

\* A cancellation accepted before this section decides the outcome.
Verdicts_Ignoring == {"succeeded", "failed"}
Verdicts == IF fired THEN {"canceled"} ELSE {"succeeded", "failed"}

Finish(o, r) ==
  /\ wpc = "run" /\ MutexFree
  /\ o \in Verdicts
  /\ state' = [state EXCEPT ![job] = o]
  /\ Persist(job, o, r)
  /\ wpc' = "retain" /\ job' = None /\ fired' = FALSE
  /\ UNCHANGED <<life, submissions, expired, queue, admissionErr, reserved, owing, holder,
                 tombs, store, ids, history>>

-----------------------------------------------------------------------------
(* Cancel, retentionAfterCompletion and Cleanup.                            *)

\* The canceller of a started job is fired; a queued job ends here.
Cancel(c, j, r) ==
  /\ MutexFree /\ Idle(c)
  /\ state[j] # "absent"
  /\ IF state[j] = "queued"
     THEN state' = [state EXCEPT ![j] = "canceled"] /\ Persist(j, "canceled", r)
     ELSE r = "ok" /\ UNCHANGED <<state, disk, older, faults>>
  /\ fired' = (fired \/ state[j] = "running")
  /\ cancelAcked' = IF state[j] \in Active THEN cancelAcked \cup {j} ELSE cancelAcked
  /\ owing' = owing \cup {c}
  /\ UNCHANGED <<life, submissions, expired, queue, admissionErr, reserved, holder, wpc, job,
                 tombs, store, ids, bound, execs>>

\* retentionAfterCompletion waits for the gate after the mutex was released.
RetainBegin(a) ==
  /\ Serving
  /\ a \in owing \/ (a = Worker /\ wpc = "retain")
  /\ Take(a, "retain", "retain")
  /\ owing' = owing \ {a}
  /\ UNCHANGED <<life, memory, reserved, curKey, curArt, curJob, prune, worker, disk, older,
                 tombs, store, faults, ids, history>>

\* Under the gate, with the mutex for reading: finished jobs grow no more.
Released == Completed
Retain ==
  /\ step = "retain" /\ MutexFree
  /\ reserved' = reserved \ Released
  /\ GoTo("sweep")
  /\ UNCHANGED <<life, memory, owing, worker, disk, older, tombs, store, faults, ids,
                 history>>

CleanupBegin(c) ==
  /\ Serving /\ Idle(c)
  /\ Take(c, "cleanup", "sweep")
  /\ UNCHANGED <<life, memory, reserved, owing, curKey, curArt, curJob, prune, worker, disk,
                 older, tombs, store, faults, ids, history>>

-----------------------------------------------------------------------------
(* cleanupLocked, with apply: one critical section of the job mutex, in     *)
(* steps because a crash may come between them.                             *)

Sweep ==
  /\ step = "sweep"
  /\ step' = "prune" /\ prune' = Prunable
  /\ UNCHANGED <<gate, goal, curKey, curArt, curJob>>
  /\ UNCHANGED <<life, memory, reserved, owing, worker, disk, older, tombs, store, faults,
                 ids, history>>

\* As persistLocked, for submissions/<key>.json.
WriteTombstone(k, j, r) ==
  /\ Fault(r)
  /\ tomb' = IF r = "lost" THEN tomb ELSE [tomb EXCEPT ![k] = j]
  /\ tombSoft' = CASE r = "ok" -> tombSoft \ {k}
                   [] r = "unsynced" /\ tomb[k] # j -> tombSoft \cup {k}
                   [] OTHER -> tombSoft

\* The newest goes first.  Its key expires once the tombstone is durable; a
\* record without a key needs none.
Tombstone(j, r) ==
  LET k == key[j] IN
  /\ step = "prune" /\ j \in prune /\ \A i \in prune : i <= j
  /\ IF k = NoKey
     THEN r = "ok" /\ UNCHANGED <<tombs, faults>>
     ELSE WriteTombstone(k, j, r)
  /\ IF k # NoKey /\ r = "ok"
     THEN /\ expired' = [expired EXCEPT ![k] = j]
          /\ submissions' = [submissions EXCEPT ![k] = None]
     ELSE UNCHANGED <<expired, submissions>>
  /\ step' = IF r = "ok" THEN "remove" ELSE "abort"
  /\ curJob' = IF r = "ok" THEN j ELSE None
  /\ UNCHANGED <<life, state, queue, admissionErr, reserved, owing, gate, goal, curKey,
                 curArt, prune, worker, disk, older, store, ids, history>>

\* removeKnownJob may fail before or after job.json is gone; then the job
\* stays in the map and the next cleanup tries again.
Remove(r) ==
  /\ step = "remove"
  /\ Fault(r)
  /\ IF r = "lost" THEN UNCHANGED <<disk, older>> ELSE Unlink(curJob)
  /\ state' = IF r = "ok" THEN [state EXCEPT ![curJob] = "absent"] ELSE state
  /\ step' = IF r = "ok" THEN "prune" ELSE "abort"
  /\ prune' = prune \ {curJob} /\ curJob' = None
  /\ UNCHANGED <<life, submissions, expired, queue, admissionErr, reserved, owing, gate,
                 goal, curKey, curArt, worker, tombs, store, ids, history>>

Pruned ==
  /\ step = "prune" /\ prune = {}
  /\ GoTo("evict")
  /\ UNCHANGED <<life, memory, reserved, owing, worker, disk, older, tombs, store, faults,
                 ids, history>>

\* While more than the target is used.
Evict(a) ==
  /\ step = "evict" /\ a \in Evictable
  /\ store' = store \ {a}
  /\ UNCHANGED <<life, memory, reserved, owing, holder, worker, disk, older, tombs, faults,
                 ids, history>>

\* The gate's holder goes on: the reclaim of a growing operation looks again,
\* the worker receives its next job, and the opened manager serves.
CleanupDone ==
  /\ step = "evict"
  /\ IF goal \in {"create", "import"} THEN GoTo("recheck") ELSE Release
  /\ wpc' = IF gate = Worker THEN "idle" ELSE wpc
  /\ phase' = IF goal = "start" THEN "up" ELSE phase
  /\ UNCHANGED <<boots, memory, reserved, owing, job, fired, disk, older, tombs, store,
                 faults, ids, history>>

\* Unreadable state, no room for a tombstone, or a failed file operation: the
\* growing operation is refused, retention is logged, a start fails.
CleanupFails ==
  /\ step \in {"sweep", "prune", "evict", "abort"}
  /\ IF goal = "start"
     THEN Forget
     ELSE /\ Release
          /\ wpc' = IF gate = Worker THEN "idle" ELSE wpc
          /\ UNCHANGED <<life, memory, reserved, owing, job, fired, store, ids, history>>
  /\ UNCHANGED <<disk, older, tombs, faults>>

-----------------------------------------------------------------------------
(* Going down.                                                              *)

\* Close cancels the manager's context and with it the running job's.
Close ==
  /\ phase = "up" /\ "stop" \in Restarts
  /\ phase' = "closing" /\ fired' = (wpc = "run")
  /\ UNCHANGED <<boots, memory, reserved, owing, holder, wpc, job, disk, older, tombs, store,
                 faults, ids, history>>

\* Close has waited for the worker; the process exits under its other threads.
Exit ==
  /\ phase = "closing" /\ wpc = "exited"
  /\ Forget
  /\ UNCHANGED <<disk, older, tombs, faults>>

Kill ==
  /\ phase \in {"loading", "up", "closing"} /\ "kill" \in Restarts /\ boots > 0
  /\ Forget
  /\ UNCHANGED <<disk, older, tombs, faults>>

\* Each file shows its last version or an older one not yet replaced for good.
PowerLoss ==
  /\ phase \in {"down", "loading", "up", "closing"} /\ "power" \in Restarts /\ boots > 0
  /\ LET stale == {j \in JobId : older[j] # {}} IN
     \E back \in [stale -> JState] :
       /\ \A j \in stale : back[j] \in {disk[j]} \cup older[j]
       /\ disk' = [j \in JobId |-> IF j \in stale THEN back[j] ELSE disk[j]]
  /\ older' = [j \in JobId |-> {}]
  /\ \E S \in SUBSET tombSoft : tomb' = [k \in Key |-> IF k \in S THEN None ELSE tomb[k]]
  /\ tombSoft' = {}
  /\ Forget
  /\ UNCHANGED faults

-----------------------------------------------------------------------------

Opening ==
  \/ Boot
  \/ \E j \in JobId : LoadPruned(j) \/ LoadPublished(j)
  \/ \E j \in JobId, r \in Outcome : LoadFails(j, r)
  \/ LoadDone

Growing ==
  \/ \E c \in Client, k \in Key \cup {NoKey}, a \in Artifact : CreateBegin(c, k, a)
  \/ \E c \in Client, a \in Artifact : ImportBegin(c, a)
  \/ Ensure \/ AdmitReject
  \/ \E r \in Outcome : AdmitInsert(r)
  \/ Send \/ Reserve \/ ImportEnd \/ ImportMore

Working ==
  \/ Dequeue \/ WorkerExit
  \/ \E r \in Outcome : Start(r) \/ Progress(r)
  \/ \E o \in Terminal, r \in Outcome : Finish(o, r)

Retaining ==
  \/ \E c \in Client, j \in JobId, r \in Outcome : Cancel(c, j, r)
  \/ \E a \in Client \cup {Worker} : RetainBegin(a)
  \/ Retain
  \/ \E c \in Client : CleanupBegin(c)
  \/ Sweep
  \/ \E j \in JobId, r \in Outcome : Tombstone(j, r)
  \/ \E r \in Outcome : Remove(r)
  \/ Pruned
  \/ \E a \in Artifact : Evict(a)
  \/ CleanupDone \/ CleanupFails

GoingDown == Close \/ Exit \/ Kill \/ PowerLoss

Next == Opening \/ Growing \/ Working \/ Retaining \/ GoingDown

Spec == Init /\ [][Next]_vars

\* What the gate's holder does by itself; none of it waits for anyone.
HolderStep ==
  \/ Ensure \/ AdmitReject \/ Send \/ Reserve \/ ImportMore \/ Retain \/ Sweep \/ Pruned
  \/ \E r \in Outcome : AdmitInsert(r) \/ Remove(r) \/ \E j \in JobId : Tombstone(j, r)
  \/ \E a \in Artifact : Evict(a)
  \/ CleanupDone \/ CleanupFails

\* Go schedules every runnable goroutine and hands a contended sync.Mutex to
\* its longest waiter, so waiting for a lock that is free again and again ends
\* (strong fairness).  A deployment ends: job-timeout bounds the boot phase and
\* every task has a timeout.  An upload ends: its size is limited; a client
\* that keeps the connection open without sending is assumed away.
Fairness ==
  /\ WF_vars(HolderStep) /\ SF_vars(ImportEnd)
  /\ WF_vars(Dequeue)
  /\ SF_vars(\E r \in Outcome : Start(r))
  /\ SF_vars(\E o \in Terminal, r \in Outcome : Finish(o, r))
  /\ \A a \in Client \cup {Worker} : SF_vars(RetainBegin(a))

FairSpec == Spec /\ Fairness

-----------------------------------------------------------------------------
(* Safety.                                                                  *)

\* The daemon never writes job records and tombstones that its own next start
\* rejects (load: "duplicate requestId", "tombstone does not match").
StartsAgain == phase # "refused"

\* While it serves, the station answers every key it ever accepted with the job
\* it accepted it for, live or expired (CreateSubmissionContext, Submission).
AcceptedKept ==
  Serving => \A k \in Key : bound[k] # None => bound[k] \in {submissions[k], expired[k]}

\* No requestId is executed twice, over all restarts (run, load, cleanupLocked).
RunsAtMostOnce == \A k \in Key : execs[k] <= 1

\* An admission holding the gate never waits for the worker, which itself needs
\* the gate before it drains the queue (createContext).
SendNeverBlocks == step = "send" => Len(queue) < QueueCap \/ phase = "closing"

\* No cleanup evicts the artifact of a queued or running job (cleanupLocked).
ActiveKeepsArtifact == Serving => \A j \in ActiveJobs : art[j] \in store

\* Space for the output of a queued or running job stays reserved, however its
\* admission, execution and other jobs' retention interleave.
ActiveReserved ==
  Serving => \A j \in ActiveJobs : j \in reserved \/ (step \in {"send", "reserve"} /\ curJob = j)

\* Once nobody has retention left to run, every reservation belongs to a job the
\* station still knows: README.md promises space reserved "for active job output
\* and terminal metadata" (Gate.Reservations, retentionAfterCompletion).
ReservationsReturned ==
  Serving /\ gate = Free /\ owing = {} /\ wpc = "idle" =>
    \A j \in reserved : state[j] # "absent"

\* A job whose cancellation was acknowledged ends canceled, or is being stopped.
CancelHonoured ==
  Serving => \A j \in cancelAcked :
    /\ state[j] \in {"running", "canceled", "absent"}
    /\ state[j] = "running" => fired

\* Without file errors a client sees nothing a restart or a power loss revises,
\* but for jobs the restart interrupts.
DurableTruth ==
  Serving /\ faults = 0 =>
    \A j \in JobId : state[j] = disk[j] /\ (state[j] # "absent" => older[j] = {})

\* A history leaves only when completed and older than Keep completed ones.
PruneKeepsNewest ==
  [][\A j \in JobId :
       state[j] # "absent" /\ state'[j] = "absent" /\ phase' # "down" =>
         /\ state[j] \in Terminal
         /\ Cardinality({k \in Completed : k > j}) >= Keep]_vars

\* An outcome shown to a client is final: canceled jobs never run, finished ones
\* never change.
OutcomeFinal ==
  [][\A j \in JobId :
       state[j] \in Terminal /\ phase' # "down" => state'[j] \in {state[j], "absent"}]_vars

\* Making room for a submission never costs it its own artifact (Gate.Pins).
PinHeld ==
  [][goal = "create" /\ goal' = "create" /\ curArt \in store => curArt \in store']_vars

(* The promise to the holder of a key. *)
Ledger == INSTANCE SubmissionLedger WITH Job <- JobId
LedgerKept == Ledger!LSpec

(* Liveness. *)

\* Every accepted job ends, although the worker needs the gate between jobs.
AcceptedEnds == \A j \in JobId : state[j] = "queued" ~> state[j] \in Terminal \cup {"absent"}

\* Whoever canceled a job gets its answer: Cancel returns after its retention.
CancelReturns == \A c \in Client : c \in owing ~> gate # c /\ c \notin owing
=============================================================================
