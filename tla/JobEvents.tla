----------------------------- MODULE JobEvents -----------------------------
(***************************************************************************)
(* The event log of one job (internal/jobs/manager.go): its events in      *)
(* memory and in events.jsonl, the streams that follow it over HTTP        *)
(* (internal/httpapi/server.go) and `mps job logs --follow` that polls it  *)
(* page by page (cmd/mps/main.go), while the job runs, is canceled, ends,  *)
(* is pruned, and while the station is killed and started again.           *)
(*                                                                         *)
(* Sections under Manager.mutex are single actions, except the one that    *)
(* ends a job: it appends the last event to events.jsonl and then replaces *)
(* job.json, and the process may be killed between the two.                *)
(***************************************************************************)
EXTENDS Naturals, Sequences, FiniteSets, FiniteSetsExt, SequencesExt

CONSTANTS
  Reader,     \* event streams of HTTP clients
  ChanCap,    \* capacity of a subscriber's channel (256)
  LogLimit,   \* events that fill eventLimitBytes
  Margin,     \* events in the 32 KiB that a truncation gives up at the end
  PageSize,   \* events of one page of the follower
  MaxEvents,  \* bound: events emitted
  MaxKills,   \* bound: ends that the station did not choose: kills, and starts that fail
  MaxFaults,  \* bound: appends to events.jsonl that fail
  Faults      \* how they may fail: "lost", or "torn" (a partial line stays)

ASSUME LogAssumption ==
  /\ ChanCap \in Nat \ {0} /\ LogLimit \in Nat /\ Margin \in 2..LogLimit
  /\ PageSize \in Nat \ {0} /\ MaxEvents \in Nat /\ MaxKills \in Nat
  /\ MaxFaults \in Nat /\ Faults \subseteq {"lost", "torn"}

VARIABLES
  up,         \* the station serves
  job,        \* state and outcome in memory
  record,     \* state, outcome and EventCount in job.json
  ending,     \* who holds the mutex between a job's last event and its record: run, Cancel or load
  log,        \* manager.events[id]
  count,      \* job.EventCount
  file,       \* lines of events.jsonl
  long,       \* its last line is longer than the 32 KiB in which a truncation looks for it
  subscriber, \* the channel of each stream: none, registered, or closed
  chan,       \* events in it
  due,        \* history of the subscription still to be written to the client
  after,      \* the cursor the stream was opened with
  reader,     \* the client: away, reading, or told that the stream is done
  got,        \* events received on this connection
  cursor,     \* number of the last event the client received on any connection
  follower,   \* control point of the polling loop
  printed,    \* events it printed
  more,       \* its last page was full
  emitted,    \* history: events emitted so far; it names each of them
  missed,     \* history: events that found the stream's channel full
  unwritten,  \* history: events that cannot be read back: their append failed, or met a partial line
  replaced,   \* history: a truncation had to replace a last line that it could not read
  gone,       \* history: events lost to such a replacement, or to a truncation that was cut short
  seen,       \* history: events some client received
  kills       \* kills so far

station == <<up, job, record, ending>>
events == <<log, count, file, long, emitted, unwritten, replaced, gone>>
streams == <<subscriber, chan, due, after, reader, got, cursor, missed>>
polling == <<follower, printed, more>>
vars == <<station, events, streams, polling, seen, kills>>

States == {"queued", "running", "ended", "pruned"}
Outcomes == {"none", "done", "canceled", "failed"}
Kinds == {"log"} \cup (Outcomes \ {"none"})
Event == [n : Nat, kind : Kinds, id : Nat]
Torn == [n |-> 0, kind |-> "log", id |-> 0]    \* a partial line without its newline
Garbage == [n |-> 0, kind |-> "failed", id |-> 0]  \* a complete line that does not parse

TypeOK ==
  /\ up \in BOOLEAN /\ ending \in {"no", "run", "cancel", "load"}
  /\ job \in [state : States, outcome : Outcomes]
  /\ record \in [state : States, outcome : Outcomes, count : Nat]
  /\ log \in Seq(Event) /\ file \in Seq(Event) /\ count \in Nat
  /\ subscriber \in [Reader -> {"none", "open", "closed"}]
  /\ chan \in [Reader -> Seq(Event)] /\ \A r \in Reader : Len(chan[r]) <= ChanCap
  /\ due \in [Reader -> Seq(Event)] /\ got \in [Reader -> Seq(Event)]
  /\ after \in [Reader -> Nat] /\ cursor \in [Reader -> Nat]
  /\ reader \in [Reader -> {"away", "reading", "done"}]
  /\ follower \in {"page", "check", "wait", "returned", "failed"}
  /\ printed \in Seq(Event) /\ more \in BOOLEAN
  /\ emitted \in Nat /\ kills \in Nat /\ missed \in [Reader -> SUBSET Nat]
  /\ unwritten \in SUBSET Nat /\ replaced \in BOOLEAN /\ seen \in SUBSET Event
  /\ long \in BOOLEAN /\ gone \in SUBSET Nat

\* Create: the job's record and its first event.
Init ==
  LET queued == [n |-> 1, kind |-> "log", id |-> 1] IN
  /\ up = TRUE /\ ending = "no" /\ kills = 0
  /\ job = [state |-> "queued", outcome |-> "none"]
  /\ record = [state |-> "queued", outcome |-> "none", count |-> 1]
  /\ log = <<queued>> /\ file = <<queued>> /\ long = FALSE /\ count = 1 /\ emitted = 1
  /\ subscriber = [r \in Reader |-> "none"] /\ reader = [r \in Reader |-> "away"]
  /\ chan = [r \in Reader |-> <<>>] /\ due = chan /\ got = chan
  /\ after = [r \in Reader |-> 0] /\ cursor = after
  /\ missed = [r \in Reader |-> {}] /\ unwritten = {} /\ replaced = FALSE /\ gone = {} /\ seen = {}
  /\ follower = "page" /\ printed = <<>> /\ more = FALSE

-----------------------------------------------------------------------------
(* Emitting.                                                                *)

\* A full log takes the last event only.
Dropped_Any(kind) == Len(log) >= LogLimit
Dropped(kind) == Len(log) >= LogLimit /\ kind = "log"

\* The last line is a partial one: it has no newline yet.
Cut(lines) == lines # <<>> /\ Last(lines) = Torn

\* A line appended after a partial one is glued to it; neither can be read.
WithLine(lines, e) == IF Cut(lines) THEN Append(Front(lines), Garbage) ELSE Append(lines, e)

\* The append may fail; nobody is told.  sizes says whether a whole line may be a long one.
Write(lines, e, sizes) ==
  \/ /\ file' = WithLine(lines, e) /\ long' \in sizes
     /\ unwritten' = IF Cut(lines) THEN unwritten \cup {e.id} ELSE unwritten
  \/ /\ Cardinality(unwritten) < MaxFaults
     /\ unwritten' = unwritten \cup {e.id}
     /\ \/ "lost" \in Faults /\ file' = lines /\ UNCHANGED long
        \/ "torn" \in Faults /\ file' = (IF Cut(lines) THEN lines ELSE Append(lines, Torn)) /\ long' = FALSE

\* A message has up to 16384 bytes, and more when it is encoded; one past the limit has 2048.
Sizes == IF Len(log) >= LogLimit THEN {FALSE} ELSE BOOLEAN

HasRoom(r) == Len(chan[r]) < ChanCap
Emit(kind) ==
  LET e == [n |-> count + 1, kind |-> kind, id |-> emitted + 1]
      to == {r \in Reader : subscriber[r] = "open"}
  IN
  IF Dropped(kind) THEN UNCHANGED <<events, chan, missed>> ELSE
  /\ log' = Append(log, e) /\ count' = e.n /\ emitted' = e.id
  /\ Write(file, e, Sizes) /\ UNCHANGED <<replaced, gone>>
  /\ chan' = [r \in Reader |-> IF r \in to /\ HasRoom(r) THEN Append(chan[r], e) ELSE chan[r]]
  /\ missed' = [r \in Reader |-> IF r \in to /\ ~HasRoom(r) THEN missed[r] \cup {e.id} ELSE missed[r]]

CloseSubscribers_Keep == UNCHANGED subscriber
CloseSubscribers ==
  subscriber' = [r \in Reader |-> IF subscriber[r] = "open" THEN "closed" ELSE subscriber[r]]

MutexFree == up /\ ending = "no"

-----------------------------------------------------------------------------
(* The job.                                                                 *)

Start ==
  /\ MutexFree /\ job.state = "queued"
  /\ job' = [job EXCEPT !.state = "running"]
  /\ Emit("log")
  /\ record' = [state |-> "running", outcome |-> "none", count |-> count']
  /\ UNCHANGED <<up, ending, subscriber, due, after, reader, got, cursor, polling, seen, kills>>

\* The runner and the tasks report; the tasks persist the record as well.
Progress ==
  /\ MutexFree /\ job.state = "running" /\ emitted < MaxEvents
  /\ Emit("log")
  /\ \/ UNCHANGED record
     \/ record' = [record EXCEPT !.count = count']
  /\ UNCHANGED <<up, job, ending, subscriber, due, after, reader, got, cursor, polling, seen, kills>>

\* The last section of run, and the cancellation of a queued job; job.json follows.
End(by, outcome) ==
  /\ job' = [state |-> "ended", outcome |-> outcome]
  /\ Emit(outcome)
  /\ ending' = by
  /\ UNCHANGED <<up, record, subscriber, due, after, reader, got, cursor, polling, seen, kills>>

Finish ==
  /\ MutexFree /\ job.state = "running"
  /\ \E outcome \in {"done", "canceled", "failed"} : End("run", outcome)

CancelQueued ==
  /\ MutexFree /\ job.state = "queued"
  /\ End("cancel", "canceled")

\* Only run closes the job's subscribers.
PersistEnd ==
  /\ ending # "no" /\ ending' = "no" /\ up' = TRUE
  /\ record' = [state |-> "ended", outcome |-> job.outcome, count |-> count]
  /\ IF ending = "run" THEN CloseSubscribers ELSE UNCHANGED subscriber
  /\ UNCHANGED <<job, events, chan, due, after, reader, got, cursor, missed, polling, seen, kills>>

\* Retention removes the job with its events.
Prune ==
  /\ MutexFree /\ job.state = "ended"
  /\ job' = [job EXCEPT !.state = "pruned"] /\ record' = [record EXCEPT !.state = "pruned"]
  /\ log' = <<>> /\ file' = <<>> /\ long' = FALSE
  /\ CloseSubscribers
  /\ UNCHANGED <<up, ending, count, emitted, unwritten, replaced, gone, chan, due, after, reader, got, cursor, missed>>
  /\ UNCHANGED <<polling, seen, kills>>

-----------------------------------------------------------------------------
(* Event streams over HTTP.                                                 *)

\* The events of a sequence numbered beyond n, in order, without those that out names.
Beyond(s, n, out) ==
  LET upTo[i \in 0..Len(s)] ==
        IF i = 0 THEN <<>>
        ELSE IF s[i].n > n /\ s[i].id \notin out THEN Append(upTo[i - 1], s[i]) ELSE upTo[i - 1]
  IN  upTo[Len(s)]

Since_Inclusive(n) == IF n = 0 THEN log ELSE Beyond(log, n - 1, {})
Since(n) == Beyond(log, n, {})

\* History and registration under one mutex; the client resumes at its cursor.
Subscribe(r) ==
  /\ MutexFree /\ job.state # "pruned" /\ reader[r] = "away"
  /\ reader' = [reader EXCEPT ![r] = "reading"]
  /\ after' = [after EXCEPT ![r] = cursor[r]]
  /\ due' = [due EXCEPT ![r] = Since(cursor[r])]
  /\ subscriber' = [subscriber EXCEPT ![r] = IF job.state = "ended" THEN "closed" ELSE "open"]
  /\ chan' = [chan EXCEPT ![r] = <<>>] /\ got' = [got EXCEPT ![r] = <<>>]
  /\ missed' = [missed EXCEPT ![r] = {}]
  /\ UNCHANGED <<station, events, cursor, polling, seen, kills>>

\* The handler writes the history first, then what the channel holds.
Deliver(r) ==
  LET Receive(e) ==
        /\ got' = [got EXCEPT ![r] = Append(@, e)]
        /\ cursor' = [cursor EXCEPT ![r] = e.n]
        /\ seen' = seen \cup {e}
  IN
  /\ reader[r] = "reading"
  /\ \/ due[r] # <<>> /\ Receive(Head(due[r])) /\ due' = [due EXCEPT ![r] = Tail(@)] /\ UNCHANGED chan
     \/ due[r] = <<>> /\ chan[r] # <<>> /\ Receive(Head(chan[r]))
        /\ chan' = [chan EXCEPT ![r] = Tail(@)] /\ UNCHANGED due
  /\ UNCHANGED <<station, events, subscriber, after, reader, missed, polling, kills>>

StreamDone(r) ==
  /\ reader[r] = "reading" /\ due[r] = <<>> /\ chan[r] = <<>> /\ subscriber[r] = "closed"
  /\ reader' = [reader EXCEPT ![r] = "done"]
  /\ subscriber' = [subscriber EXCEPT ![r] = "none"]
  /\ UNCHANGED <<station, events, chan, due, after, got, cursor, missed, polling, seen, kills>>

\* The client goes away: the handler unsubscribes.
Leave(r) ==
  /\ MutexFree /\ reader[r] = "reading"
  /\ reader' = [reader EXCEPT ![r] = "away"]
  /\ subscriber' = [subscriber EXCEPT ![r] = "none"]
  /\ UNCHANGED <<station, events, chan, due, after, got, cursor, missed, polling, seen, kills>>

-----------------------------------------------------------------------------
(* mps job logs --follow: a page, then the job's state, then a pause.       *)

Shown == IF printed = <<>> THEN 0 ELSE Last(printed).n
Page == LET all == Since(Shown) IN SubSeq(all, 1, Min({PageSize, Len(all)}))

Poll ==
  /\ follower = "page" /\ MutexFree
  /\ IF job.state = "pruned" THEN follower' = "failed" /\ UNCHANGED <<printed, more, seen>>
     ELSE /\ printed' = printed \o Page
          /\ more' = (Len(Page) = PageSize)
          /\ seen' = seen \cup ToSet(Page)
          /\ follower' = "check"
  /\ UNCHANGED <<station, events, streams, kills>>

Check ==
  /\ follower = "check" /\ MutexFree
  /\ follower' = CASE job.state = "pruned" -> "failed"
                   [] more -> "page"
                   [] job.state = "ended" -> "returned"
                   [] OTHER -> "wait"
  /\ UNCHANGED <<station, events, streams, printed, more, seen, kills>>

Pause ==
  /\ follower = "wait" /\ follower' = "page"
  /\ UNCHANGED <<station, events, streams, printed, more, seen, kills>>

-----------------------------------------------------------------------------
(* Kill and restart.                                                        *)

Kill ==
  /\ kills < MaxKills /\ (up \/ ending # "no")
  /\ kills' = kills + 1 /\ up' = FALSE /\ ending' = "no"
  /\ subscriber' = [r \in Reader |-> "none"]
  /\ reader' = [r \in Reader |-> IF reader[r] = "reading" THEN "away" ELSE reader[r]]
  /\ follower' = IF follower = "returned" THEN "returned" ELSE "failed"
  /\ UNCHANGED <<job, record, events, chan, due, after, got, cursor, missed, printed, more, seen>>

Readable(lines) == Beyond(lines, 0, {})

\* boundHistoricalOutput: a prefix and the last event; one that cannot be read is replaced.
Unreadable(lines) == Last(lines).n = 0 \/ long
Bounded(lines) ==
  LET last == IF Unreadable(lines) THEN [n |-> record.count, kind |-> "log", id |-> 0] ELSE Last(lines)
  IN  Append(SubSeq(lines, 1, LogLimit - Margin), last)

\* An event may be longer than its share, so a log of LogLimit events may be too long or not.
MayStay == Len(file) <= LogLimit
MayBeBounded == Len(file) >= LogLimit

Starting == ~up /\ ending = "no"

Truncate ==
  /\ Starting /\ MayBeBounded
  /\ file' = Bounded(file) /\ long' = FALSE
  /\ replaced' = (replaced \/ Unreadable(file))
  /\ gone' = IF Unreadable(file) THEN gone \cup {Last(file).id} ELSE gone
  /\ UNCHANGED <<station, log, count, emitted, unwritten, streams, polling, seen, kills>>

\* The file is emptied and written again in place: a kill, or a full disk, leaves a part.
TruncateFails ==
  /\ Starting /\ MayBeBounded /\ kills < MaxKills /\ kills' = kills + 1
  /\ \E n \in 0..LogLimit - Margin, part \in {<<>>, <<Torn>>} : file' = SubSeq(Bounded(file), 1, n) \o part
  /\ long' = FALSE   \* it is far below the limit now
  /\ gone' = gone \cup {i \in 1..emitted : \A e \in ToSet(file') : e.id # i}
  /\ UNCHANGED <<station, log, count, emitted, unwritten, replaced, streams, polling, seen>>

Highest_Length(lines) == Len(lines)
Highest(lines) == IF lines = <<>> THEN 0 ELSE Max({e.n : e \in ToSet(lines)})

\* load: a job that was active has failed, and its log says so.
Load ==
  LET known == Readable(file)
      failed == [n |-> Highest(known) + 1, kind |-> "failed", id |-> emitted + 1]
  IN
  IF record.state \in {"ended", "pruned"}
  THEN /\ up' = TRUE /\ job' = [state |-> record.state, outcome |-> record.outcome]
       /\ log' = known /\ count' = Highest(known)
       /\ UNCHANGED <<ending, file, long, emitted, unwritten>>
  ELSE /\ ending' = "load" /\ job' = [state |-> "ended", outcome |-> "failed"]
       /\ log' = Append(known, failed) /\ count' = failed.n /\ emitted' = failed.id
       /\ Write(file, failed, {FALSE}) /\ UNCHANGED up

Restart ==
  /\ Starting /\ MayStay /\ Load
  /\ UNCHANGED <<record, replaced, gone, streams, polling, seen, kills>>

-----------------------------------------------------------------------------
Next ==
  \/ Start \/ Progress \/ Finish \/ CancelQueued \/ PersistEnd \/ Prune
  \/ \E r \in Reader : Subscribe(r) \/ Deliver(r) \/ StreamDone(r) \/ Leave(r)
  \/ Poll \/ Check \/ Pause \/ Kill \/ Truncate \/ TruncateFails \/ Restart

Spec == Init /\ [][Next]_vars

\* A job ends (its runner is bounded), sections finish, handlers write to live clients, the
\* follower polls.  Progress, cancellation, pruning and kills are not promised.
FairSpec ==
  /\ Spec
  /\ WF_vars(Start) /\ WF_vars(Finish) /\ WF_vars(PersistEnd)
  /\ \A r \in Reader : WF_vars(Deliver(r)) /\ WF_vars(StreamDone(r))
  /\ WF_vars(Poll) /\ WF_vars(Check) /\ WF_vars(Pause)

-----------------------------------------------------------------------------
(* Properties.                                                              *)

\* Every stream shows the log from its cursor on, in order, each event once: history and
\* channel meet without gap or overlap, and only events that found the channel full are
\* missing (Subscribe takes the history and registers under one mutex).
StreamFaithful ==
  \A r \in Reader : reader[r] = "reading" /\ job.state # "pruned" =>
    got[r] \o due[r] \o chan[r] = Beyond(log, after[r], missed[r])

\* The last word of an ended job's log is its outcome, whatever the log's limit cut, and
\* whether the station was killed between the event and the record, unless this very event was
\* lost: its append failed, or a start's truncation was cut short or could not read it.
LastWord ==
  job.state = "ended" =>
    \/ log # <<>> /\ Last(log).kind = job.outcome
    \/ kills > 0 /\ emitted \in unwritten \cup gone

\* A number names one event for ever: what any client received under a number is what the
\* log shows under it, after every restart and truncation, unless that event was lost: its
\* append failed, or a truncation was cut short and left it out.
NumbersIdentify ==
  ~replaced =>
    \A e \in seen : e.id \notin unwritten \cup gone => \A i \in 1..Len(log) : log[i].n = e.n => log[i] = e

\* Numbers in the log only grow, so that a cursor never skips an event ("so cursors remain
\* monotonic after truncation", retention.go); and the count is the highest of them.
CursorsMonotonic ==
  /\ ~replaced => \A i, k \in 1..Len(log) : i < k => log[i].n < log[k].n
  /\ \A i \in 1..Len(log) : log[i].n <= count

\* What that comment promises of every truncation.
AlwaysMonotonic == \A i, k \in 1..Len(log) : i < k => log[i].n < log[k].n

\* What that comment promises of every log whose last event can be read: it is kept.
OutcomeKept == job.state = "ended" /\ ~replaced => log # <<>> /\ Last(log).kind = job.outcome

\* A follower that returns has shown the whole log: it follows "until terminal".
FollowComplete == [][follower = "check" /\ follower' = "returned" => Shown = count]_vars

\* A stream opened on a running job ends: with the job, with the station, or because the
\* client leaves.
StreamEnds ==
  \A r \in Reader : (reader[r] = "reading" /\ job.state = "running") ~> reader[r] # "reading"
=============================================================================
