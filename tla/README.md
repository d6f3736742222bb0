# Verification of the provisioning station

TLA+ models, TLC runs and TLAPS proofs kept beside the Go sources of the
provisioning station: `mpsd`, the daemon, and `mps`, its client. The daemon
accepts deployment jobs for a Xilinx board over HTTP, stores immutable
artifacts, boots the board through XSDB and a built-in TFTP server, multiplexes
its serial console, runs deployment tasks, and keeps the outcome of every job.

Paths below are relative to the repository (`internal/...` is `src/internal/...`
in `PROJECT.json`, whose `map` names, for every definition that models code, the
lines it stands for).

1. [The system](#1-the-system) — 2. [Modules](#2-modules) — 3. [What the runs
show](#3-what-the-runs-show) — 4. [Disagreements](#4-where-code-and-documentation-disagree) —
5. [What is proved](#5-what-is-proved) — 6. [What is not modelled](#6-what-is-not-modelled) —
7. [Plan](#7-plan) — 8. [Running it](#8-running-it)

## 1. The system

| component | state it keeps | operations | talks to |
|---|---|---|---|
| job manager `internal/jobs` | jobs by id, `submissions` and `expired` keys, queue channel, `admissionErr`, each job's events and subscribers; on disk `job.json`, `events.jsonl`, tombstones `submissions/<key>.json` | open/load, submit, run, cancel, subscribe, cleanup, close | storage gate (locks, reservations), artifact store (references, eviction), runner and tasks (calls), HTTP API (called by) |
| storage gate `internal/storagebudget` | one mutex, limit, usage, `Reservations`, `Pins`, a reclaim callback | lock, ensure space, consume, reserve | callback into the job manager's cleanup |
| artifact store `internal/artifact` | content-addressed directories, staging directories | import, open, list, delete | storage gate on every write |
| Xilinx runner `internal/runner` | the run's context, `completed` files, done channels | run one boot, validate | TFTP server (goroutine, events channel), XSDB (child process), tasks |
| TFTP server `internal/tftp` | socket, `active` transfers, events channel, wait group | serve, one goroutine per transfer, close | the board, over UDP |
| deployment tasks `internal/tasks` | none | before boot, then one outcome phase | child processes |
| serial multiplexer `internal/serialconsole` | connections by port, clients, controller lease, replay ring | list, attach, read loop, broadcast, detach, write, close | the device; HTTP sessions and job capture as attachments |
| serial sessions `internal/httpapi/serial.go` | sessions awaiting or holding a websocket | create, connect, expire, remove | multiplexer |
| serial capture `internal/jobs/serial_capture.go` | a bounded log per job | start, stop | multiplexer, as an observer |
| HTTP API, MCP server, CLI, TUI, web UI | none of their own, or presentation | translate calls | managers, `internal/stationclient` |
| daemon `internal/daemon`, state lock `internal/statelock` | the file lock, the listeners | start and shutdown order | all of the above |
| station client `internal/stationclient`, retry loop in `cmd/mps` | the requestId of a submission | submit, follow, retry | HTTP API |
| service control, migration scripts, build information | – | – | – |

What makes it hard:

* **Two locks and a channel.** Admissions, imports and cleanups hold the gate,
  from start to end; records are changed under the manager's mutex; the worker
  drains a bounded queue and needs the gate between jobs. Who may wait for whom
  decides whether the station can stop for good.
* **A promise across restarts.** A `requestId` is executed at most once and its
  holder always learns its job, though jobs are pruned, files fail to be written
  and the process may die between any two system calls.
* **Retention under the feet of the living.** Any import or submission may prune
  histories and evict artifacts while other jobs are queued, running, being
  canceled or just finishing.
* **Work outside the lock.** The multiplexer closes, reads and writes the port
  without its mutex; the runner joins goroutines that report on a channel whose
  reader leaves on its own.
* **A network that loses and repeats**, and 16-bit block numbers that wrap.

What makes each component correct is what its properties say (section 3); the
list of hazards with the line where each bites is in `PROJECT.json`.

## 2. Modules

| module | models | code it stands for |
|---|---|---|
| `SubmissionLedger` | abstract: what a requestId's holder is promised | the contract of `CreateSubmissionContext` and `run` |
| `JobManager` | job manager with gate, queue, worker, retention, disk, restart | `jobs/manager.go`, `jobs/retention.go`, `jobs/persist_other.go`, parts of `storagebudget`, `artifact/store.go` |
| `Storage` | the same gate in bytes: credit, reservations, cleanup, removal part by part | `storagebudget/budget.go`, `artifact/store.go`, `jobs/retention.go` |
| `JobRun` | the inside of one `run`: tasks, runner, capture, outcome phase, record | `jobs/manager.go` 462–605, `jobs/serial_capture.go`, `tasks/tasks.go` |
| `JobEvents` | a job's event log, its HTTP streams, the CLI's follower, restarts | `jobs/manager.go` 606–745, `jobs/retention.go`, `httpapi/server.go` `streamEvents`, `cmd/mps` `followJob` |
| `SerialConsole` | the multiplexer of one port | `serialconsole/manager.go` |
| `SerialSessions` | browser sessions over its attachments | `httpapi/serial.go` |
| `TftpServer`, `XilinxRunner` | the server's goroutines; runner and monitor composed with them | `tftp/server.go`, `runner/xilinx.go` |
| `TftpTransfer` | one transfer, block by block, over a lossy network | `tftp/server.go` 286–425 |
| `Daemon` | several daemons on one state directory: lock, start, shutdown, requests in flight | `daemon/daemon.go`, `statelock`, handlers of `httpapi/server.go`, `cmd/mpsd` |
| `Tui` | the interactive client and the station it talks to | `tui/model.go`, `stationclient/client.go`, `createJob` |
| `MCJobManager`, `MCJobRun`, `MCTui` | instances: symmetry, tasks per phase | |
| `...Proofs` | theorems (section 5) | |

How they fit together. `XilinxRunner` extends `TftpServer`; `TftpTransfer` is the
inside of that server's action `TransferEnds`, whose end it checks (`TransferOver`). `JobRun`
opens up the steps `Start`, `Progress`, `Finish` of `JobManager`, whose worker it
is, and takes from `XilinxRunner` that a runner returns once its context is done
(as far as `OnlyEventsHoldUp` allows) and from `SerialConsole` that an attachment
may break at any time. `JobManager` implements `SubmissionLedger`, which is what
`Tui` assumes of a station. `Daemon` reduces each part to what the order of
shutdown depends on.

### JobManager

A job is its number: jobs are created one at a time under the gate, so a larger
number is a later `CreatedUTC`. A request is its key and its artifact. The
gate's holder is `gate`, with what it is doing in `goal` and `step`; the mutex
is held through a whole cleanup (`MutexFree` is false then) and a short section
under it is one action. `submissionMutex` is only taken by an admission that
holds the gate already, so it needs no variable.

| code | action(s) |
|---|---|
| `OpenManager`, `loadTombstones`, `load`, `initializeRetention` | `Boot`, `LoadPruned`, `LoadPublished`, `LoadFails`, `LoadDone`, then the cleanup below |
| `CreateSubmissionContext`, `createContext` | `CreateBegin`, `Ensure`, `AdmitReject` or `AdmitInsert`, `Send`, `Reserve` |
| `Store.Import`, `checkedWriter.Write` | `ImportBegin`, `Ensure`, `ImportMore`, `ImportEnd` |
| `worker`, `run` | `Dequeue`, `Start`, `Progress`, `Finish`, `WorkerExit` |
| `Cancel` | `Cancel`, then `RetainBegin` by the same client |
| `retentionAfterCompletion` | `RetainBegin`, `Retain`, cleanup |
| `cleanupLocked`, `writeTombstone`, `removeKnownJob` | `CleanupBegin`, `Sweep`, `Tombstone`, `Remove`, `Pruned`, `Evict`, `CleanupDone`/`CleanupFails` |
| `Close`, the daemon's end, `kill -9`, power | `Close`, `Exit`, `Kill`, `PowerLoss` |

Disk: `disk[j]` is the state in `job.json` as the running system sees it,
`older[j]` the versions a power loss may still bring back, `tomb`/`tombSoft` the
tombstones and those whose directory was not synced since. A write may succeed,
be lost before the rename, or fail after it (`Outcome`). What a power loss does
to unsynced renames is external: it is what `publishMetadata`'s syncs guard
against. Whether space suffices is a free choice in `Ensure` and `ImportMore`;
the byte arithmetic is `Storage`.

`SubmissionLedger` keeps two functions, the job a key is bound to and how often
it ran. `JobManager` implements it under the mapping `bound`, `execs`, `Job <-
JobId`; both are history variables of `JobManager`, changed where the code makes
a record visible (`AdmitInsert`, `LoadPublished`) and where it starts a job.

### Storage

Bytes are counted in units in which a record, a tombstone and a chunk of an
upload are one. `Used` is `Usage`'s walk. One operation holds the gate and its
steps are the actions; running jobs write past it (`Write`, on their
reservation), also during a cleanup. A removal deletes `job.json` first
(`RemoveJob`), then the files one by one (`Unlink`), and a kill may come between
any two. A start first cuts the events and the transcript of every history that
is over their limits, written by an earlier version or under another limit
(`BoundHistory`, in place, so that a kill leaves any part of them), then sweeps
staging and leaves orphans (`Start`). A directory that was never the station's own
counts as `unknown`.

### JobRun

`pc` is the control point of `run`; `runner`, `phase`/`index`/`task` and
`capture` are its goroutines. `Stopped(p)` says which context stops a phase:
`runContext` for OnSuccess, that or `executionContext` for the tasks before the
boot, a copy of the cancellation for OnFailure (an `AfterFunc`, so it arrives
later), five seconds for OnCancel. `Save` is `persistLocked`, whose failure the
code ignores. `RunnerDone` and `CaptureFailed` are the two channels of the
`select`: either may be taken when both are ready. After a kill, `Restart` is what
`load` makes of the record.

### JobEvents

Sections under `Manager.mutex` are single actions but for the end of a job,
where the last event is appended before `job.json` is replaced (`ending` holds
the mutex between). `file` is `events.jsonl`: an append may be lost or torn, and
a line that follows a torn one is glued to it, so neither can be read;
`unwritten` remembers the events this befell.

A start first cuts a log over its limit to a prefix and its last event
(`Truncate`), for which it looks in the last 32 KiB only. A line that is torn, glued
or longer than that (`long`: a message may have 16384 bytes before it is encoded,
`manager.go:617`) is `Unreadable`, and another event takes its place (`replaced`).
The file is emptied and written again in place: a kill or a full disk in between
leaves some of its lines, perhaps with a partial one after them (`TruncateFails`).
`gone` remembers the events lost either way. Then, or after another start has tried,
`Restart` reads the lines that parse and numbers on from the highest of them. A
partial line is one that does not parse: that exactly its newline is missing is left
out.

`reader[r]` is an HTTP stream that first writes its history
(`due`), then its channel (`chan`); a full channel drops the event (`missed`).
`follower` is `mps job logs --follow`.

### SerialConsole, SerialSessions

Ports share nothing but the mutex, so `SerialConsole` has one. Each section under
`Manager.mutex` is an action; `handle.Read`, `handle.Write` and `handle.Close`
happen in actions of their own. A connection that was replaced keeps its read
loop, so connections are numbered (`mapped` is the one in the map). `closing`
holds the connections a `detach` or `Close` took out and has still to close.
Data are chunks, numbered in the order the device sends them; `out` and `stream`
are history: what a connection broadcast and what each attachment was sent.

In `SerialSessions` a session is in `items` while the map holds it; whoever takes
it out calls `Attachment.Close` later (`closers`). A timer that has fired
(`"fired"`) can no longer be stopped. A socket goes through hello, claim and
stream, and its deferred `Finish` closes whatever has become of the session.

### TftpServer, XilinxRunner, TftpTransfer

`TftpServer` has no specification of its own: `XilinxRunner` extends it and
conjoins the runner's steps with the server's (`Alone`). The board asks for any
file from any of its ports, as often as it likes, and a transfer completes or
fails at any time; what it does block by block is `TftpTransfer`. The channel of
events is a sequence with a capacity; `transfer[k]` follows one goroutine
through its two reports. `Stop` is the `cancel`/`Close` pair every exit of `Run`
performs, `JoinServe` and `Return` are the receives on `serveDone` and
`eventsDone` and the return.

`TftpTransfer` numbers packets absolutely and compares them modulo `BlockMod`,
as the wire shows no more. The client is external: a boot loader that takes
blocks in order, acknowledges a repeated one again and may give up. The network
loses, repeats and reorders; it delivers nothing more than `Life` blocks old.
That assumption is needed (a datagram that survives a whole round of 65536
blocks would be taken for a new one) and named `TransferOK`.

### Daemon

`at[p]` is how far `daemon.Run` of process `p` has come: opening lock, store,
console, job manager; serving; then its deferred calls last to first. Any part
may fail to open (`OpenFails` enters the calls where `Unwind` says), a signal may
come at any time, a process may be killed and another started. Requests may
stall: an upload keeps the gate until its body arrives or its connection is cut.
A serial session takes its connection over from the HTTP server (`Hijack`); the
shutdown then neither waits for it nor cuts it (`Awaited`). It ends with its client
or with the console, and its handler may outlast the lock.

### Tui

The model of the bubbletea program: the form with the target list of a hardware
server, the confirmation that names a target and freezes a request under a new
identifier (`agreed` remembers the target that was last named, and the server in
the form when it was), one call
at a time, and the log's polls, of which several may be in flight. An answer may
be lost, refused or late, and a submission the client has given up may still
reach the station (`stray`). Quitting ends the model, as the request is kept in
memory only.

## 3. What the runs show

Every property of a passing run has a mutant: a change of one definition, in the
way the code could have been wrong, that makes TLC find the property violated
(`PROJECT.json`, `mutants`).

| run | instance | checks |
|---|---|---|
| `jobs_live` | 2 API threads, 3 jobs without keys, queue of 1, 1 history kept, fairness, deadlock checked | `ActiveKeepsArtifact`, `CancelHonoured`, `OutcomeFinal`, `AcceptedEnds`, `CancelReturns` |
| `jobs_restart` | 2 API threads, 1 key, 2 jobs, no history kept, 1 failed write, then a stop, kill or power loss and a restart | `StartsAgain`, `DurableTruth`, `LedgerKept` (refinement) |
| `outcome` | 1 or 2 tasks per phase, capture of 2 chunks with room for 1, 1 failed write, 1 kill, fairness | `OnePhase`, `CancelExact`, `RecordClosed`, `SucceededMeansClean`, `RunEnds` |
| `events` | 1 stream and 1 follower, channel of 2, log of 3 events, pages of 2, 5 events, lines of any length, 2 kills or failed truncations, 1 lost or torn append, fairness | `StreamFaithful`, `LastWord`, `NumbersIdentify`, `CursorsMonotonic`, `StreamEnds` |
| `storage` | budget of 12 units, 2 artifacts, 3 jobs, histories within and over the limit of output, 1 history kept, unknown files, 1 kill | `WithinLimit`, `TombstonesFit`, `CleanupThorough` |
| `storage_start` | a budget of 6 that was exceeded before the start | `StationStarts`, violated (section 4) |
| `console` | 2 connections, 2 attachments, 3 chunks, channel of 1, replay of 2, fairness | `StreamComplete`, `PortOwned`, `PortReleased`, `ReadLoopNeverStalls` |
| `sessions` | 1 session, 3 sockets with good and bad tokens, timers, fairness | `NobodyForgets`, `AttachmentsEnd` |
| `boot` | 2 files, 1 port, event buffer of 2, fairness | `SuccessMeansAllSent`, `LeavesNothingBehind`, `OnlyEventsHoldUp` |
| `transfer` | 7 blocks modulo 4, life 2, 3 retries, fairness | `BlocksInOrder`, `CompletedMeansReceived`, `TransferOver` |
| `daemon` | 2 daemons on one directory, 2 requests, fairness | `StateIsOwned`, `CapturesComplete`, `StopsEnd` |
| `tui` | 2 servers, 2 targets, 1 identifier, 2 events, 2 polls in flight, pages of 1 | `NothingForgotten`, `ConfirmedTarget`, `LogInOrder` |

Each module's `TypeOK` is proved for every instance (section 5).
`Storage_types.cfg`, `JobEvents_types.cfg` and `MCTui_types.cfg` check three of
them with TLC on the instances of the runs: quicker to consult after a change of
those models than a proof.

**Bounds.** Three jobs are the least for which one can be active, one retained
and one pruned; a queue of one and one retained history put the queue and the
retention at their limit at once. Where two jobs are all that fits
(`jobs_restart`), no history is kept, so that the first is pruned while the second
runs. One key reaches every path of the ledger, as keys never meet except through
`Prunable`; a second API thread gives every interleaving of two submissions,
imports, cancellations. In `storage` two artifacts and three jobs let an eviction,
a pruning and a running job's writes meet, and the budget is one that two imports
and a job exceed; a history of twice the limit (`Legacy`) is cut at the start. A log
of three events is cut by the fourth, and five leave a restart something to number
on from; a truncation that gives up two of them (`Margin`) loses a line a client may
have seen, and two kills let one cut it short and another follow. Two connections
let an old read loop meet its successor, three chunks overrun a channel of one and trim a ring of two. Three
sockets are one that streams, one that comes second and one with a wrong token;
sessions share nothing, so one is enough. Seven blocks modulo four wrap once and
let a number of the previous round look like the current one. Two daemons are a
stopping one and its successor; two requests one that holds the gate and one that
waits for it. In `Tui` a request that has been answered makes room for the next
one with the same code, so one identifier shows every way a request ends; polls
of pages of one event make two of them overlap. Every invariant and action
property in the table is proved for all values of the constants (section 5), the
ledger under the hypothesis stated there, so for these the bounds only serve to
find mistakes early; they matter for liveness.

**Deadlock** is checked in `jobs_live`. The other instances may really stop: the
daemon has gone down for good, the board has nothing left to send, the boot, the
run or the transfer is over, every socket has been used.

**Fairness.** Go runs every runnable goroutine and hands a contended
`sync.Mutex` to its longest waiter, which justifies strong fairness for taking a
lock that is free again and again, and weak fairness for a goroutine that is not
waiting. Beyond that:
* `JobManager`: a deployment ends (`--job-timeout` and the tasks' timeouts), an
  upload ends (its size is limited; a client that keeps the connection open and
  sends nothing is assumed away, see hazards). No fairness for submissions,
  cancellations, cleanups or going down.
* `JobRun`: a task and a runner return once their context is done, for the runner
  as far as `OnlyEventsHoldUp` says; timers fire. A task need not fail, a device
  not break. `RunEnds` is about runs that are canceled or lose their capture.
* `JobEvents`: a running job ends, the handler of a live stream writes. Kills,
  cancellation, pruning and progress are not promised.
* `SerialConsole`: read loops and pending closes proceed, a read of a closed
  handle returns. The device, the attachments and the writers owe nothing.
* `SerialSessions`: the clock runs, timers and handlers are scheduled; a first
  message that never comes ends at its deadline (`BadHello`). Clients owe nothing.
* `XilinxRunner`: goroutines proceed, a transfer ends (`TransferOver` of
  `TftpTransfer` is what justifies it), tasks and loader stop once their context
  ended. The timeout itself need not fire.
* `TftpTransfer`: the server's own steps only.
* `Daemon`: its goroutines run, a canceled deployment ends (`RunEnds`), the gate is
  handed on to the worker that waits. A body may never arrive.

`OnlyEventsHoldUp` states precisely what remains of "the job timeout bounds the
boot" (section 4): an ended run returns, or a full event buffer that no one reads
holds it up. `LeavesNothingBehind` excludes a `Serve` that died of a read error,
after which the code does not wait for transfers.

The event log promises less than one would like, and its properties say how much:

* `LastWord` excepts, once the station was killed or a truncation failed, a log whose
  last event was lost: its append failed (the code notices no failed append), or a
  truncation was cut short or could not read it.
* `NumbersIdentify` excepts the events that were lost in one of these ways: after a
  restart their numbers are free again, and a client whose cursor is beyond the count
  is not shown the events that take them.
* `NumbersIdentify` and the order in `CursorsMonotonic` except logs in which a
  truncation replaced a last line it could not read (section 4).

## 4. Where code and documentation disagree

Run `storage_start` (`jobs/retention.go:243`): with a budget that is exceeded when
the station starts, pruning a history first asks for room for its tombstone, is
refused before any artifact is evicted, and the start fails with it; the
documentation says that such a station starts, reports the state and refuses
growth.

The following configurations are kept beside the runs. Each ends in a
counterexample of the one property it names:

| configuration (`tlc -config C M`) | property | what happens |
|---|---|---|
| `MCJobManager_leak.cfg MCJobManager` | `ReservationsReturned` | `jobs/retention.go:372`: between a job's last section and its own retention another holder of the gate may prune it; nothing releases its reservation then |
| `MCJobManager_unsynced.cfg MCJobManager` | `RunsAtMostOnce` | `jobs/manager.go:683`: a start after a kill believes a tombstone that was renamed but never synced and removes its job; a power loss that forgets the rename and keeps the removal lets the key run again; a start that believes the renamed but unsynced record of a failed admission ends the same way |
| `SerialConsole_turns.cfg SerialConsole` | `ControllersInTurn` | `serialconsole/manager.go:357`: the lease is checked under the mutex, the port written after it |
| `XilinxRunner_stuck.cfg XilinxRunner` | `BootBounded` | `tftp/server.go:488`: with the event channel full and its reader gone, transfers, server and runner wait forever; the buffer of 64 makes it rare, not impossible |
| `XilinxRunner_timeout.cfg XilinxRunner` | `TimeoutIsTimeout` | `runner/xilinx.go:150`: `cancel()` runs before the test for the context's end, so an error of the TFTP server is always reported as a timeout and two return statements are dead |
| `JobEvents_long.cfg JobEvents` | `AlwaysMonotonic` | `jobs/retention.go:502`: "so cursors remain monotonic after truncation" (line 480) holds only if the last line fits in the 32 KiB that are searched for it; a longer one is replaced by an event that takes its number from `job.json`, which is behind the events the prefix keeps when the station was killed while the job ran. No write has to fail for it |
| `JobEvents_rewrite.cfg JobEvents` | `OutcomeKept` | `jobs/retention.go:527`: "Keep a prefix plus the final event's original sequence" (line 479) holds only if the rewrite is not interrupted: the file is emptied before it is written, and a kill in between leaves an ended job's log without its outcome. |
| `JobEvents_follow.cfg JobEvents` | `FollowComplete` | `cmd/mps/main.go:363`: the follower reads a page of events, then the job's state; a job that ends in between makes it return without the last events |

Smaller limits met while modelling, which contradict no document: the stream of a
queued job that is canceled stays open until the job is pruned
(`jobs/manager.go:374`); in the terminal interface a job that is selected again
while an older poll is in flight may show a log with a gap, and a request the
station has definitely refused cannot be discarded after its first attempt;
handlers of connections that were cut, and of serial sessions, for which nobody
waits, may still run between the release of the state lock and the end of the
process.

## 5. What is proved

All theorems hold for every value of the constants under the assumptions stated
in the modules: capacities and limits are natural numbers or positive, names
differ, sets of artifacts are finite, `Life + 2 <= BlockMod`.

**JobManagerProofs, the manager** (kills, power losses and file errors included).
`TypeInductive` strengthens `TypeOK` by `Control`: a holder of the gate at a step
that uses a local has it set. `ServingInductive` proves `SInv`, the conjunction
of `SendNeverBlocks`, `Numbered` (a number not handed out names nothing),
`Reserving`, `Keeping`, `Running` (the running job is the worker's), `Canceling`
and `Pruning` (what is being pruned is completed). None of the properties is
inductive alone: that an active job stays reserved needs that pruning only takes
completed ones, which needs that a completed job is not about to run, which
needs that only the worker's job runs. From it follow `SendsNeverBlock`,
`ActiveStaysReserved`, `ActiveArtifactsKept`, `CancellationsHonoured`,
`OutcomesFinal` and `PinsHeld`. `TruthIsDurable` rests on `Durable` (memory and
disk agree and nothing older can return while no write has failed).
`NewestSurvive` rests on `Newer`: each history still to be pruned has `Keep`
newer completed ones that are not.

**JobManagerProofs, the ledger** (any number of stops, kills, file errors and power
losses). Section 4 shows the claim false when a start believes what is not yet
synced, so these theorems assume exactly that it does not (`StartsOnDurable`): a
start finds no unsynced tombstone, and no outcome whose record could still vanish.
Nothing else is asked of a power loss, which may take back any other unsynced
write, and nothing at all where power does not fail (`LedgerWithoutPowerLoss`).
`LInv` ties memory, disk and tombstones to `bound`: an accepted key's job is on
disk or behind its tombstone (`Recorded`), all tables agree with the binding
(`Agreeing`), no two records share a key (`Unique`), a record of an admission that
failed after its rename closes admissions until a start has read it
(`Accounted`). `Standing` is what survives power: an accepted key has a record that
cannot vanish or a synced tombstone (`Kept`), and a record that was never accepted
does not come back once gone. They give `StartsNeverRefused`,
`AcceptedAlwaysKept`, `ExecutesAtMostOnce`, and `ImplementsLedger`: every step maps
to a step of `SubmissionLedger` or a stutter.

**StorageProofs** (any sizes, jobs, artifacts and kills). Usage is a sum of what
each artifact and each job's files hold, so the first lemmas are about sums over
finite sets: any term may be taken first (`SumWithout`), a sum changes by what one
term changes (`SumChanged`), and grows with its terms (`SumMonotone`). `BudgetInv`
is the argument for `StaysWithinLimit`: charge every running job all it may ever
write (`Charge`) and the operation at the gate what it was promised (`Promised`);
that, what is on disk otherwise and the maintenance reserve are within the limit,
but for one tombstone (`Owed`), which the reserve pays for. A job's writes then change nothing
in the sum, however they interleave with a cleanup. `LifeInv` says which jobs have
a reservation and `ImportInv` what an import has staged at each of its steps.
`CleanupIsThorough` rests on `ExcessInv`: the excess an eviction works off is what
is above the target, at every step of it. `TombstonesAlwaysFit` reads the other half
off `BudgetInv`: as everything charged leaves the maintenance reserve whole, the
tombstone of the next history has room. That the reserve is positive is a constant
of the code (`retention.go:28`).

**JobRunProofs** (any number of tasks, chunks, failed writes, kills). `OInv` adds
to `OnePhase` where the goroutines may be (`Placed`) and that no record names an
outcome before one is selected (`Unchosen`): memory and disk may differ, since
writes fail, so each record has to agree with its own `deployed`. `Blamed` follows
a cancellation from context to error: the point is that the runner may be told to
stop by `run` itself, and that its error is then not read. `Recording` says what
a record may show while the job runs, which is what a kill may leave; with
`RepairRecord` it gives `RecordsClosed`. `KInv` ties the retained count to the
file. `CleanNext` carries what a success rests on from the tasks before the boot
(`Passed`, `Booted`) over the join of the capture (`Captured`) to the tasks of
OnSuccess (`Hooked`). `LaunchesStopped` bounds launches after a cancellation by
one, however many tasks there are.

**JobEventsProofs** (any readers, channels, pages and limits; kills, lost and torn
appends). A log is a sequence that is filtered, cut and appended to. `Beyond`, its
filter, is a recursive function, and the lemmas about it (`BeyondPicks`,
`BeyondAppend`, `BeyondComes`, `BeyondWithout`, ...) are by induction on the
length (`SeqInduction`). `NumbersInv` says that the numbers of the log grow up to
the count, and those of the file while the station serves (`Awake`): between a truncation that replaced a
line and the load after it, the file may be ahead. It gives `NumbersOnlyGrow`, and
bounds what a start numbers on from.
`StreamInv` gives `StreamsShowTheLog`: an open stream of an active job has received
(`got`), is about to be sent (`due`) and finds in its channel exactly what is
beyond its cursor, and neither a cursor nor an event counted as missed is ahead of
the log. `OutcomeInv` gives `LastWordIsOutcome`: between the last event and the
record, and for as long as the record says that the job ended, the file's last line
is the last event emitted and says how, unless that event was lost. That a
truncation cut short anywhere counts its loss needs `LinesInv`: the last event is
nowhere but on the last line. `SeenInv` gives `NumbersAreNames`: what any client has
seen or may see, and was not lost, still has its number to itself in log and file,
and the file goes at least as far, so that no restart can hand its number out again.
Since `gone` speaks of events and a file of lines, it needs `Named`: wherever an
event shows up, it is the same event under the same number. `LifeInv` relates
record, job and mutex.

**SerialProofs, the multiplexer.** `Owned` (with `Opened`: connections open in order
and an unopened one has no past) gives `PortAlwaysOwned` and `LeasesEnd`. `Writers`
(clients know their connection, whoever writes holds its mutex) gives
`PayloadsNeverMixed`, an action property that is only proved, not run. `Streams`
says pointwise that a ring is the end of the output and a stream a part of it
that reaches the end while live; `StreamsComplete` turns that into the equality
of sequences `StreamComplete` states.

**SerialProofs, the sessions.** `Claimed` (who streams has claimed, and a claim needs
an unclaimed session) gives `StreamedOnce`; `MInv` (an attachment's keeper hands it to
another keeper, and a timer that fired finds its session overdue) gives
`AttachmentsMinded`.

**BootProofs, the runner.** `Counting` follows a completion from the transfer through
the channel to the monitor's set: wherever it is on its way, its file was sent;
`Joining` orders the ends of server, monitor and runner. `SuccessSentAll` and
`NothingLeftBehind` follow, for any number of files, ports and buffered events.

**BootProofs, one transfer.** `Progress` bounds every packet in the network from below
by `Life` and from above by what was sent; with `Life + 2 <= BlockMod` the
lemmas `CurrentAck`, `CurrentBlock` and `RepeatedBlock` show that a number equal
modulo `BlockMod` is equal. `DeliversInOrder`, `StaysInLockstep` and
`CompletedReceived` follow.

**DaemonProofs.** `Owned` (between its first and last part a process holds the
lock) and `Nested` (console within the lock, worker within the console) give
`OneOwner` and `ConsoleOutlivesRuns`.

**TuiProofs** (any servers, targets, identifiers, events and polls in flight).
`LogStaysInOrder`: a page is folded into the log event by event (`WithNew`, a
recursive function), and each is taken only beyond the last, whichever of the
polls in flight comes first. `ScreenInv` (a list on the screen was discovered on
the server in the form, and what is typed there was typed for that server) gives
`TargetStaysConfirmed`: a frozen request goes to the target that the last
confirmation named, on the server it named it for. `RequestInv` (what the user
was not told of is the retained request and was attempted; a submission in flight
is about the retained request) gives `NothingIsForgotten`.

**How induction over data is done.** The prover cannot use an induction theorem with
an operator parameter. Sums, `Beyond` and `WithNew` are therefore recursive
*functions*, and a claim about all their arguments is proved by the least
counterexample: the set of arguments for which it fails has a least member, because
the subsets of a finite set are well-founded (`LeastSubset`, `LeastNumber`), and
the function's equation takes it one step down. That such a function exists is
itself proved this way (`SumsExist`, `Recursion`).

**Only proved, in no run:** `SendNeverBlocks`, `ActiveReserved`, `PinHeld`,
`PruneKeepsNewest`, `AcceptedKept`, `RunsAtMostOnce` (but for section 4),
`LeaseOfClient`, `PayloadsWhole`, `Lockstep`, `RetainedTrue`, `LaunchesStop`,
`OneStream`, and the types of all modules.

**Only model-checked:** liveness (`AcceptedEnds`, `CancelReturns`, `RunEnds`,
`StreamEnds`, `PortReleased`, `ReadLoopNeverStalls`, `AttachmentsEnd`,
`OnlyEventsHoldUp`, `TransferOver`, `StopsEnd`), which is out of the prover's
reach, as is `ENABLED`. `jobs_restart` checks `LedgerKept` without the hypothesis
of its theorem: it starts the station again once, so that the kill and the later
power loss of section 4 do not both happen.

## 6. What is not modelled

* **Artifact archives and manifests, task plans, requests**: validation of
  untrusted input, a matter of parsing rather than of state; so are option
  negotiation of the TFTP server and the matching of serial devices.
* **XSDB executor and tasks' child processes**: external programs; `XilinxRunner`
  and `JobRun` take their outcomes as free choices.
* **HTTP API, MCP server, station client, command line**: translations without
  state of their own, apart from what `Daemon`, `JobEvents`, `SerialSessions` and
  `Tui` take from them.
* **Layout, scrolling and the artifact tree of the terminal interface, the web
  user interface**: presentation.
* **Token file, owned hardware server, browser start of the daemon; service control,
  migration scripts, packaging, build information**: calls of the platform.

## 7. Plan

Done: every component that keeps state across steps of several actors has a
module. What remains, in order of what it would add:

1. That `JobRun` implements the worker's steps of `JobManager` as a refinement
   (today they are tied by the text of section 2 and by sharing the code they map).
2. The command line's retry loop (`submitJob`) over a restarting station, as a
   client of `SubmissionLedger`; `Tui` covers the same calls without restarts.
3. The owned hardware server of the daemon: start, readiness and its end.

## 8. Running it

    tlc -workers 2 -config MCJobManager_live.cfg MCJobManager
    tlc -workers 2 -config SerialConsole.cfg SerialConsole
    tlapm JobManagerProofs.tla

Each run of `PROJECT.json` names its module and configuration. No configuration
replaces a definition; those named after a module check that module itself.
