------------------------------ MODULE Storage ------------------------------
(***************************************************************************)
(* The station's storage budget in bytes: the gate's accounting            *)
(* (internal/storagebudget), the growth of imports (internal/artifact) and *)
(* admissions, the output of running jobs that goes past the gate, and the *)
(* cleanup that prunes histories and evicts artifacts                      *)
(* (internal/jobs/retention.go), with kills between any two system calls   *)
(* and starts over state that was there before.                            *)
(*                                                                         *)
(* The gate is held through a whole operation, whose steps are the actions *)
(* of `holder`; a cleanup holds the manager's mutex as well, so that only  *)
(* transcripts grow meanwhile.  Bytes are counted in units in which a      *)
(* record, a tombstone and an upload's chunk are one.                      *)
(***************************************************************************)
EXTENDS Integers, FiniteSets, FiniteSetsExt, Functions

CONSTANTS
  Limit,        \* the budget
  Keep,         \* completedJobLimit
  MaxJobs,      \* bound: jobs ever admitted
  MaxUnknown,   \* bound: bytes of files nobody knows
  MaxKills,     \* bound: kills
  Artifact,
  Upload, Payload,  \* units of an archive and of what it holds
  Credit,       \* units a writer asks for at once (4 MiB)
  Output,       \* units of events and transcript a job may write
  Legacy,       \* units of them that an earlier version, or another limit, let a job write
  Maintenance,  \* maintenanceReserve
  Nobody        \* the artifact of an operation without one

Job == 1..MaxJobs
Reservation_Single == 1 + Output
Reservation == 2 + Output   \* outputReservation: the output, a record and its replacement

ASSUME StorageAssumption ==
  /\ \A n \in {Limit, Keep, MaxJobs, MaxUnknown, MaxKills, Upload, Payload, Credit, Output, Legacy, Maintenance} : n \in Nat
  /\ Legacy >= Output /\ IsFiniteSet(Artifact) /\ Nobody \notin Artifact /\ Credit >= 1 /\ Upload >= 1 /\ Maintenance >= 1

VARIABLES
  published,  \* artifacts in their content-addressed directory
  tainted,    \* of these, ones with a file that is not theirs
  imported,   \* imported[a]: a's place in the order of ImportedUTC
  staging,    \* units in the upload and import directories
  deleting,   \* units in deletion directories
  jobs,       \* per job: state, artifact, and the units of its files
  tombs,      \* jobs with a tombstone
  unknown,    \* units of files nobody knows
  reserved,   \* jobs in Gate.Reservations
  holder,     \* operation that holds the gate
  at,         \* its control point
  target,     \* artifact or job it is about
  need,       \* units it asks for
  excess,     \* cleanup: used bytes above the target
  retaining,  \* jobs whose completion has not taken the gate yet
  fits,       \* history: the state was within the budget when the station was started
  kills

files == <<published, tainted, imported, staging, deleting, jobs, tombs, unknown>>
gate == <<holder, at, target, need, excess>>
vars == <<files, reserved, gate, retaining, fits, kills>>

NoJob == [state |-> "none", artifact |-> Nobody, record |-> 0, temp |-> 0, output |-> 0]
Admitted(a) == [state |-> "active", artifact |-> a, record |-> 1, temp |-> 0, output |-> 0]

TypeOK ==
  /\ published \subseteq Artifact /\ tainted \subseteq Artifact /\ imported \in [Artifact -> Nat]
  /\ staging \in Nat /\ deleting \in Nat /\ unknown \in Nat /\ excess \in Int /\ need \in Nat
  /\ jobs \in [Job -> [state : {"none", "active", "completed", "removing", "orphan"},
                       artifact : Artifact \cup {Nobody}, record : 0..1, temp : 0..1, output : 0..Legacy]]
  /\ tombs \subseteq Job /\ reserved \subseteq Job /\ retaining \subseteq Job
  /\ holder \in {"none", "import", "submit", "retain", "operator", "start", "down"}
  /\ target \in Artifact \cup Job \cup {Nobody}
  /\ fits \in BOOLEAN /\ kills \in Nat

-----------------------------------------------------------------------------
(* The gate's accounting.                                                   *)

ArtifactSize == Upload + Payload
JobSize(j) == jobs[j].record + jobs[j].output
Used ==
  unknown + staging + deleting + ArtifactSize * Cardinality(published) + Cardinality(tombs)
  + SumFunction([j \in Job |-> JobSize(j) + jobs[j].temp])

\* A reservation shrinks by what the job's own files hold; a replacement of its record is not
\* among them.
Remaining(j) == IF JobSize(j) > Reservation THEN 0 ELSE Reservation - JobSize(j)
ReservedBytes == Maintenance + SumFunction([j \in reserved |-> Remaining(j)])

OverBudget == Used + ReservedBytes > Limit
Available == IF OverBudget THEN 0 ELSE Limit - Used - ReservedBytes
Fits_Unreserved(n) == Used + n <= Limit
Fits(n) == ~OverBudget /\ n <= Available

-----------------------------------------------------------------------------
(* Retention.                                                               *)

Completed == {j \in Job : jobs[j].state = "completed"}
Kept == {j \in Completed : Cardinality({k \in Completed : k > j}) < Keep}
Pruned == Completed \ Kept
Referenced == {jobs[j].artifact : j \in Kept}
Active == {jobs[j].artifact : j \in {k \in Job : jobs[k].state = "active"}}
          \cup (IF holder = "submit" THEN {target} ELSE {})
LastUsed(a) == Max({0} \cup {j \in Job : jobs[j].artifact = a /\ jobs[j].state \in {"active", "completed"}})

Evictable == published \ (Active \cup tainted)

\* Unreferenced artifacts go first, the oldest import first; then the least recently used.
Before(a, b) ==
  IF (a \in Referenced) # (b \in Referenced) THEN b \in Referenced
  ELSE IF a \in Referenced THEN LastUsed(a) < LastUsed(b) ELSE imported[a] < imported[b]

Victims == {a \in Evictable : \A b \in Evictable \ {a} : Before(a, b)}

-----------------------------------------------------------------------------
(* Initially: nothing runs; any state an earlier version or the operator left. *)

Init ==
  /\ published \in SUBSET Artifact /\ tainted \in SUBSET published
  /\ imported = CHOOSE order \in [Artifact -> 1..Cardinality(Artifact)] :   \* they are interchangeable
                   \A a, b \in Artifact : order[a] = order[b] => a = b
  /\ staging = 0 /\ deleting = 0 /\ tombs = {} /\ reserved = {} /\ retaining = {}
  /\ unknown \in {0, MaxUnknown}
  /\ \E n \in 0..MaxJobs - 1, a \in Artifact, written \in {Output, Legacy} :
       jobs = [j \in Job |-> IF j > n THEN NoJob
                             ELSE [state |-> "completed", artifact |-> a, record |-> 1, temp |-> 0, output |-> written]]
  /\ holder = "down" /\ at = "idle" /\ target = Nobody /\ need = 0 /\ excess = 0
  /\ fits = FALSE /\ kills = 0

Free == holder = "none"
Release == holder' = "none" /\ at' = "idle" /\ target' = Nobody /\ need' = 0 /\ excess' = 0
Goto(step) == at' = step /\ UNCHANGED <<holder, target, need, excess>>
MutexFree == at \notin {"cleanup", "prune", "remove", "evict", "unlink"}

\* EnsureLocked: enough is available, or a cleanup has to find it.
Ask(step, n) == at' = step /\ need' = n /\ UNCHANGED <<holder, target, excess>>
Ensure ==
  /\ at \in {"upload", "payload", "admit"}
  /\ IF Fits(need) THEN Goto(CASE at = "upload" -> "write" [] at = "payload" -> "extract" [] OTHER -> "create")
     ELSE Goto("cleanup")
  /\ UNCHANGED <<files, reserved, retaining, fits, kills>>

-----------------------------------------------------------------------------
(* cleanupLocked(true, need).                                               *)

Step(step) == Goto(step) /\ UNCHANGED <<reserved, retaining, fits, kills>>

CleanupBegin == at = "cleanup" /\ Step("prune") /\ UNCHANGED files

Tombstone ==
  LET j == Max(Pruned) IN
  /\ at = "prune" /\ Pruned # {}
  /\ IF Used + 1 > Limit
     THEN Step("refused") /\ UNCHANGED files
     ELSE /\ tombs' = tombs \cup {j}
          /\ jobs' = [jobs EXCEPT ![j].state = "removing"]
          /\ Step("remove")
          /\ UNCHANGED <<published, tainted, imported, staging, deleting, unknown>>

Without(j, part) ==
  CASE part = "record" -> [jobs EXCEPT ![j].record = 0]
    [] part = "output" -> [jobs EXCEPT ![j].output = 0]
    [] part = "directory" -> [jobs EXCEPT ![j] = NoJob]

\* removeKnownJob: the record goes first.
FirstPart(j) == IF jobs[j].record > 0 THEN "record" ELSE IF jobs[j].output > 0 THEN "output" ELSE "directory"
RemoveJob ==
  /\ at = "remove"
  /\ \E j \in Job :
     /\ jobs[j].state = "removing"
     /\ jobs' = Without(j, FirstPart(j))
     /\ IF FirstPart(j) = "directory" THEN Step("prune") ELSE Step("remove")
  /\ UNCHANGED <<published, tainted, imported, staging, deleting, tombs, unknown>>

Target_NoNeed == Limit - ReservedBytes
Target == Limit - ReservedBytes - need
EvictBegin ==
  /\ at = "prune" /\ Pruned = {}
  /\ at' = "evict" /\ excess' = Used - Target
  /\ UNCHANGED <<holder, target, need, files, reserved, retaining, fits, kills>>

\* Remove: a rename into a deletion directory, then its removal.
Evict ==
  /\ at = "evict" /\ excess > 0
  /\ \E a \in Victims :
     /\ published' = published \ {a}
     /\ deleting' = deleting + ArtifactSize /\ excess' = excess - ArtifactSize
  /\ at' = "unlink"
  /\ UNCHANGED <<holder, target, need, tainted, imported, staging, jobs, tombs, unknown, reserved, retaining, fits, kills>>

Unlink ==
  /\ at = "unlink" /\ deleting' = 0 /\ Step("evict")
  /\ UNCHANGED <<published, tainted, imported, staging, jobs, tombs, unknown>>

CleanupEnd ==
  /\ at = "evict" /\ (excess <= 0 \/ Evictable = {})
  /\ Step(IF holder \in {"import", "submit"} THEN "again" ELSE "cleaned")
  /\ UNCHANGED files

\* EnsureLocked asks once more; an upload that asked for a whole credit asks for one chunk.
Again ==
  /\ at = "again"
  /\ IF Fits(need) THEN Goto(IF holder = "submit" THEN "create" ELSE IF staging < Upload THEN "write" ELSE "extract")
     ELSE Goto("full")
  /\ UNCHANGED <<files, reserved, retaining, fits, kills>>

FailsFull ==
  /\ at \in {"full", "refused"} /\ holder \in {"import", "submit"}
  /\ IF holder = "import" /\ staging < Upload /\ need > 1
     THEN Ask("upload", 1) /\ UNCHANGED staging
     ELSE Release /\ staging' = 0
  /\ UNCHANGED <<published, tainted, imported, deleting, jobs, tombs, unknown, reserved, retaining, fits, kills>>

-----------------------------------------------------------------------------
(* Store.Import.                                                            *)

ImportBegin(a) ==
  /\ Free /\ holder' = "import" /\ target' = a /\ at' = "upload" /\ need' = Credit
  /\ UNCHANGED <<excess, files, reserved, retaining, fits, kills>>

\* A chunk on credit; the next one, or the end of the upload: the artifact may exist already.
ImportWrite ==
  /\ at = "write"
  /\ staging' = staging + 1
  /\ IF staging' < Upload THEN IF need > 1 THEN Ask("write", need - 1) ELSE Ask("upload", Credit)
     ELSE IF target \in published THEN Goto("discard") ELSE Ask("payload", Payload)
  /\ UNCHANGED <<published, tainted, imported, deleting, jobs, tombs, unknown, reserved, retaining, fits, kills>>

ImportExtract ==
  /\ at = "extract" /\ staging' = staging + Payload /\ Step("publish")
  /\ UNCHANGED <<published, tainted, imported, deleting, jobs, tombs, unknown>>

ImportPublish ==
  /\ at = "publish"
  /\ published' = published \cup {target} /\ staging' = 0 /\ tainted' = tainted \ {target}
  /\ imported' = [a \in Artifact |-> IF a = target THEN Cardinality(Artifact)
                                     ELSE IF imported[a] > imported[target] THEN imported[a] - 1 ELSE imported[a]]
  /\ Release
  /\ UNCHANGED <<deleting, jobs, tombs, unknown, reserved, retaining, fits, kills>>

\* The archive exists already, or it is refused, or the client is gone: the deferred removals.
ImportEnds ==
  /\ holder = "import" /\ at \in {"discard", "write", "extract", "publish"}
  /\ staging' = 0 /\ Release
  /\ UNCHANGED <<published, tainted, imported, deleting, jobs, tombs, unknown, reserved, retaining, fits, kills>>

-----------------------------------------------------------------------------
(* Admission, output and end of a job.                                      *)

SubmitBegin(a) ==
  /\ Free /\ holder' = "submit" /\ target' = a /\ at' = "admit" /\ need' = Reservation
  /\ UNCHANGED <<excess, files, reserved, retaining, fits, kills>>

Create ==
  /\ at = "create"
  /\ \/ \E j \in Job :
        /\ jobs[j] = NoJob /\ j \notin tombs /\ (\A k \in Job : k < j => jobs[k] # NoJob \/ k \in tombs)
        /\ target \in published
        /\ jobs' = [jobs EXCEPT ![j] = Admitted(target)]
        /\ reserved' = reserved \cup {j}
     \/ UNCHANGED <<jobs, reserved>>   \* refused
  /\ Release
  /\ UNCHANGED <<published, tainted, imported, staging, deleting, tombs, unknown, retaining, fits, kills>>


\* Events, transcript and the record's replacement go past the gate.
Write(j) ==
  /\ holder # "down" /\ jobs[j].state = "active"
  /\ \/ jobs[j].output < Output /\ jobs' = [jobs EXCEPT ![j].output = @ + 1]
     \/ MutexFree /\ jobs' = [jobs EXCEPT ![j].temp = 1 - @]
  /\ UNCHANGED <<published, tainted, imported, staging, deleting, tombs, unknown, reserved, gate, retaining, fits, kills>>

Finish(j) ==
  /\ holder \notin {"down", "start"} /\ MutexFree /\ jobs[j].state = "active" /\ jobs[j].temp = 0
  /\ jobs' = [jobs EXCEPT ![j].state = "completed"]
  /\ retaining' = retaining \cup {j}
  /\ UNCHANGED <<published, tainted, imported, staging, deleting, tombs, unknown, reserved, gate, fits, kills>>

\* retentionAfterCompletion: reservations of the ended jobs it can still find.
Retain ==
  /\ Free /\ retaining # {}
  /\ \E j \in retaining : retaining' = retaining \ {j}
  /\ reserved' = reserved \ Completed
  /\ holder' = "retain" /\ at' = "cleanup"
  /\ UNCHANGED <<target, need, excess, files, fits, kills>>

\* Cleanup(true), by an operator.
OperatorCleanup ==
  /\ Free /\ holder' = "operator" /\ at' = "cleanup"
  /\ UNCHANGED <<target, need, excess, files, reserved, retaining, fits, kills>>

CleanupReturns ==
  /\ holder \in {"retain", "operator"} /\ at \in {"cleaned", "refused"}
  /\ Release /\ UNCHANGED <<files, reserved, retaining, fits, kills>>

-----------------------------------------------------------------------------
(* Kill and start.                                                          *)

Kill ==
  /\ kills < MaxKills /\ holder # "down" /\ kills' = kills + 1
  /\ holder' = "down" /\ at' = "idle" /\ target' = Nobody /\ need' = 0 /\ excess' = 0
  /\ reserved' = {} /\ retaining' = {} /\ fits' = FALSE
  /\ UNCHANGED files

\* CleanStaging, loadTombstones and load; a directory without a record is left alone, and
\* one with a tombstone is removed.
Loaded(j) ==
  LET r == jobs[j] IN
  IF r.state = "none" THEN r
  ELSE IF r.record = 0 THEN [r EXCEPT !.state = "orphan"]
  ELSE IF j \in tombs THEN NoJob
  ELSE [r EXCEPT !.state = "completed"]

\* boundHistoricalOutput, as it comes to each history that is loaded: what is over the limit is
\* rewritten in place.  A kill or a full disk leaves a part of it, and another start goes on.
Oversized(j) == jobs[j].record = 1 /\ j \notin tombs /\ jobs[j].output > Output
BoundHistory(j) ==
  /\ holder = "down" /\ at # "failed" /\ Oversized(j)
  /\ \E n \in 0..Output : jobs' = [jobs EXCEPT ![j].output = n]
  /\ UNCHANGED <<published, tainted, imported, staging, deleting, tombs, unknown, reserved, gate, retaining, fits, kills>>

Start ==
  /\ holder = "down" /\ at # "failed" /\ ~ \E j \in Job : Oversized(j)
  /\ staging' = 0 /\ deleting' = 0
  /\ jobs' = [j \in Job |-> Loaded(j)]
  /\ holder' = "start" /\ at' = "cleanup"
  /\ UNCHANGED <<published, tainted, imported, tombs, unknown, target, need, excess, reserved, retaining, fits, kills>>

\* The state may still be over the budget: the station reports it and serves.
Serve ==
  /\ holder = "start" /\ at = "cleaned"
  /\ fits' = ~OverBudget
  /\ Release
  /\ UNCHANGED <<files, reserved, retaining, kills>>

StartFails ==
  /\ holder = "start" /\ at = "refused"
  /\ holder' = "down" /\ at' = "failed"
  /\ UNCHANGED <<target, need, excess, files, reserved, retaining, fits, kills>>

-----------------------------------------------------------------------------
Cleanup == CleanupBegin \/ Tombstone \/ RemoveJob \/ EvictBegin \/ Evict \/ Unlink \/ CleanupEnd
Next ==
  \/ Ensure \/ Cleanup \/ Again \/ FailsFull
  \/ \E a \in Artifact : ImportBegin(a) \/ SubmitBegin(a)
  \/ ImportWrite \/ ImportExtract \/ ImportPublish \/ ImportEnds
  \/ Create \/ \E j \in Job : Write(j) \/ Finish(j)
  \/ Retain \/ OperatorCleanup \/ CleanupReturns \/ Kill
  \/ (\E j \in Job : BoundHistory(j)) \/ Start \/ Serve \/ StartFails

Spec == Init /\ [][Next]_vars

-----------------------------------------------------------------------------
(* Properties.                                                              *)

\* A station that started within its budget never holds more bytes than its limit: uploads on
\* credit, extraction, tombstones, running jobs' output and their records' replacements together.
WithinLimit == fits => Used <= Limit

\* A cleanup that ends without the room it was asked for has left no artifact it may evict,
\* whatever running jobs wrote since it computed the excess.
CleanupThorough ==
  [][at = "evict" /\ at' \in {"again", "cleaned"} /\ ~Fits(need) => Evictable = {}]_vars

\* A station that started within its budget can always write the tombstone of a history it prunes,
\* whatever uploads, jobs and earlier tombstones have taken since: no cleanup is refused.
TombstonesFit == fits => at # "refused"

\* State over the budget is reported and growth refused; the station starts.
StationStarts == at # "failed"
=============================================================================
