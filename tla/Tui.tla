-------------------------------- MODULE Tui --------------------------------
(***************************************************************************)
(* The interactive client (internal/tui/model.go): a form that is typed    *)
(* and confirmed, a request that is frozen under its idempotency key until *)
(* the station has answered for it, and a log that is polled - with        *)
(* answers that come late, out of order, for something no longer           *)
(* selected, or not at all, and a station that may accept a submission     *)
(* whose client has given up.  What the station answers for a key is what  *)
(* JobManager keeps of it.  Quitting ends the model: the request is kept   *)
(* in memory only.                                                         *)
(***************************************************************************)
EXTENDS Integers, Sequences, FiniteSets, SequencesExt

CONSTANTS
  Server,     \* hardware servers a user may name
  Target,     \* boards, by cable and device index
  None,
  MaxKeys,    \* bound: request identifiers ever made
  MaxEvents,  \* bound: events of a job
  MaxPolls,   \* bound: log requests in flight
  PageSize    \* events in an answer (200)

Key == 1..MaxKeys

ASSUME TuiAssumption ==
  /\ \A n \in {MaxKeys, MaxEvents, MaxPolls, PageSize} : n \in Nat
  /\ IsFiniteSet(Target) /\ None \notin Server \cup Target

VARIABLES
  \* the form
  server,      \* fields[0]
  targets,     \* the list on the screen
  found,       \* history: the server the list was discovered on
  index,       \* targetIndex
  phrase,      \* the target the typed confirmation names
  agreed,      \* history: the target last named so, and the server in the form at that time
  discovering, \* servers asked for their targets
  \* the request
  pending,     \* the frozen request
  attempted,   \* pendingAttempted
  made,        \* identifiers made
  \* the one call that makes the model busy
  call,
  \* the log
  tab,         \* "form" or "jobs"
  selected,    \* selectedJob; a job goes by the key that made it
  shown,       \* numbers of the events in logText
  polls,       \* log requests in flight
  \* the station
  accepted, expired,
  stray,       \* submissions the client has given up and the station may still receive
  events,      \* events[k]: of k's job
  told         \* history: keys the user was told the outcome of

form == <<server, targets, found, index, phrase, agreed, discovering>>
request == <<pending, attempted, made>>
log == <<tab, selected, shown, polls>>
station == <<accepted, expired, stray, events>>
vars == <<form, request, call, log, station, told>>

Lists == {s \in SeqOf(Target, Cardinality(Target)) : IsInjective(s)}
Idle == [op |-> "none"]
LastOf(numbers) == IF numbers = <<>> THEN 0 ELSE numbers[Len(numbers)]
after == LastOf(shown)

TypeOK ==
  /\ server \in Server /\ targets \in Lists /\ found \in Server /\ index \in {1} \cup 1..Cardinality(Target)
  /\ phrase \in Target \cup {None} /\ agreed \in {None} \cup [server : Server, target : Target]
  /\ discovering \subseteq Server
  /\ pending \in {None} \cup [key : Key, server : Server, target : Target, found : Server]
  /\ attempted \in BOOLEAN /\ made \in 0..MaxKeys
  /\ call \in {Idle} \cup [op : {"submit", "reconcile"}, key : Key, answer : {"none", "yes", "no"}] \cup [op : {"other"}]
  /\ tab \in {"form", "jobs"} /\ selected \in Key \cup {None} /\ shown \in Seq(1..MaxEvents)
  /\ polls \subseteq [job : Key, after : 0..MaxEvents]
  /\ accepted \subseteq Key /\ expired \subseteq accepted /\ stray \subseteq Key
  /\ events \in [Key -> 0..MaxEvents] /\ told \subseteq Key

Init ==
  /\ server \in Server /\ targets = <<>> /\ found = server /\ index = 1 /\ phrase = None /\ agreed = None
  /\ discovering = {server}
  /\ pending = None /\ attempted = FALSE /\ made = 0 /\ call = Idle
  /\ tab = "form" /\ selected = None /\ shown = <<>> /\ polls = {}
  /\ accepted = {} /\ expired = {} /\ stray = {} /\ events = [k \in Key |-> 0] /\ told = {}

Busy == call # Idle

-----------------------------------------------------------------------------
(* The form.                                                                *)

\* updateField: another server's targets, and a confirmation given for one of them, are void.
EditServer(u) ==
  /\ tab = "form" /\ pending = None /\ u # server
  /\ server' = u /\ targets' = <<>> /\ index' = 1 /\ phrase' = None
  /\ UNCHANGED <<found, agreed, discovering, request, call, log, station, told>>

TypePhrase(t) ==
  /\ tab = "form" /\ pending = None /\ t # phrase /\ phrase' = t
  /\ agreed' = IF t = None THEN agreed ELSE [server |-> server, target |-> t]
  /\ UNCHANGED <<server, targets, found, index, discovering, request, call, log, station, told>>

MoveTarget(i) ==
  /\ tab = "form" /\ i \in DOMAIN targets /\ i # index /\ index' = i
  /\ UNCHANGED <<server, targets, found, phrase, agreed, discovering, request, call, log, station, told>>

Discover ==
  /\ discovering' = discovering \cup {server}
  /\ UNCHANGED <<server, targets, found, index, phrase, agreed, request, call, log, station, told>>

\* targetsMsg: an answer for a server no longer in the form is dropped.
Current_Any(u) == TRUE
Current(u) == u = server
TargetsArrive(u, list) ==
  /\ u \in discovering /\ discovering' = discovering \ {u}
  /\ IF Current(u) THEN targets' = list /\ index' = 1 /\ found' = u ELSE UNCHANGED <<targets, index, found>>
  /\ UNCHANGED <<server, phrase, agreed, request, call, log, station, told>>

DiscoveryFails(u) ==
  /\ u \in discovering /\ discovering' = discovering \ {u}
  /\ UNCHANGED <<server, targets, found, index, phrase, agreed, request, call, log, station, told>>

-----------------------------------------------------------------------------
(* The request.                                                             *)

\* The confirmation names the target on the screen.
Authorized_Any == TRUE
Authorized == phrase = targets[index]

\* prepareRequest, with a new identifier.
Prepare ==
  /\ tab = "form" /\ pending = None /\ ~Busy
  /\ index \in DOMAIN targets /\ Authorized
  /\ made < MaxKeys /\ made' = made + 1
  /\ pending' = [key |-> made + 1, server |-> server, target |-> targets[index], found |-> found]
  /\ UNCHANGED <<form, attempted, call, log, station, told>>

Discardable_Always == pending # None
Discardable == pending # None /\ ~attempted
Escape ==
  /\ Discardable /\ pending' = None
  /\ UNCHANGED <<form, attempted, made, call, log, station, told>>

\* Enter on a frozen request, the first time or again.
Submit ==
  /\ tab = "form" /\ pending # None /\ ~Busy
  /\ attempted' = TRUE
  /\ call' = [op |-> "submit", key |-> pending.key, answer |-> "none"]
  /\ UNCHANGED <<form, pending, made, log, station, told>>

Reconcile ==
  /\ tab = "form" /\ pending # None /\ ~Busy
  /\ call' = [op |-> "reconcile", key |-> pending.key, answer |-> "none"]
  /\ UNCHANGED <<form, request, log, station, told>>

\* A cancellation or an import.
OtherCall ==
  /\ ~Busy /\ call' = [op |-> "other"]
  /\ UNCHANGED <<form, request, log, station, told>>

OtherAnswered ==
  /\ call.op = "other" /\ call' = Idle
  /\ UNCHANGED <<form, request, log, station, told>>

-----------------------------------------------------------------------------
(* The station answers for a key.                                           *)

Reply(answer) == call' = [call EXCEPT !.answer = answer]
Asked(op) == call.op = op /\ call.answer = "none"

StationAccepts ==
  /\ Asked("submit")
  /\ accepted' = accepted \cup {call.key} /\ Reply(IF call.key \in expired THEN "no" ELSE "yes")
  /\ UNCHANGED <<form, request, log, expired, stray, events, told>>

\* No room, not valid, no queue, shutting down.
StationRefuses ==
  /\ Asked("submit") /\ call.key \notin accepted /\ Reply("no")
  /\ UNCHANGED <<form, request, log, station, told>>

StationLooksUp ==
  /\ Asked("reconcile") /\ Reply(IF call.key \in accepted \ expired THEN "yes" ELSE "no")
  /\ UNCHANGED <<form, request, log, station, told>>

\* The request or its answer is lost; the station may receive the request after that.
Lost ==
  /\ call.op \in {"submit", "reconcile"} /\ call.answer # "no"
  /\ Reply("no")
  /\ stray' = IF Asked("submit") THEN stray \cup {call.key} ELSE stray
  /\ UNCHANGED <<form, request, log, accepted, expired, events, told>>

StrayArrives(k) ==
  /\ k \in stray /\ stray' = stray \ {k} /\ accepted' \in {accepted, accepted \cup {k}}
  /\ UNCHANGED <<form, request, call, log, expired, events, told>>

Expire(k) ==
  /\ k \in accepted \ expired /\ expired' = expired \cup {k}
  /\ UNCHANGED <<form, request, call, log, accepted, stray, events, told>>

Emit(k) ==
  /\ k \in accepted \ expired /\ events[k] < MaxEvents /\ events' = [events EXCEPT ![k] = @ + 1]
  /\ UNCHANGED <<form, request, call, log, accepted, expired, stray, told>>

-----------------------------------------------------------------------------
(* submittedMsg and reconciledMsg.                                          *)

Poll(job, from) == polls' = polls \cup {[job |-> job, after |-> from]}
Show(k) == selected' = k /\ shown' = <<>> /\ Poll(k, 0)

Answered ==
  /\ call.op \in {"submit", "reconcile"} /\ call.answer = "yes"
  /\ pending' = None /\ attempted' = FALSE /\ phrase' = None
  /\ tab' = "jobs" /\ Show(call.key) /\ told' = told \cup {call.key}
  /\ call' = Idle
  /\ UNCHANGED <<server, targets, found, index, agreed, discovering, made, station>>

\* The request is retained: it may be sent again, or looked up.
Unanswered ==
  /\ call.op \in {"submit", "reconcile"} /\ call.answer = "no" /\ call' = Idle
  /\ UNCHANGED <<form, request, log, station, told>>

-----------------------------------------------------------------------------
(* The log.                                                                 *)

Tab(t) ==
  /\ t # tab /\ tab' = t
  /\ UNCHANGED <<form, request, call, selected, shown, polls, station, told>>

Room == Cardinality(polls) < MaxPolls

\* The list on the screen may still hold an expired job.
SelectJob(k) ==
  /\ tab = "jobs" /\ k \in accepted /\ Room /\ Show(k)
  /\ UNCHANGED <<form, request, call, tab, station, told>>

Tick ==
  /\ tab = "jobs" /\ selected # None /\ Room /\ Poll(selected, after)
  /\ UNCHANGED <<form, request, call, tab, selected, shown, station, told>>

\* logsMsg: each event of an answer is shown if it comes after the last one shown so far.
WithNew_All(numbers) == shown \o numbers
WithNew(numbers) ==
  LET text[i \in 0..Len(numbers)] ==
        IF i = 0 THEN shown
        ELSE IF numbers[i] > LastOf(text[i - 1]) THEN Append(text[i - 1], numbers[i]) ELSE text[i - 1]
  IN  text[Len(numbers)]

\* The station's page after the event r names.
Answer(r) ==
  LET last == IF events[r.job] > r.after + PageSize THEN r.after + PageSize ELSE events[r.job]
  IN  [i \in 1..(IF last > r.after THEN last - r.after ELSE 0) |-> r.after + i]

LogsArrive(r) ==
  /\ r \in polls /\ polls' = polls \ {r}
  /\ shown' = IF r.job = selected /\ r.job \notin expired THEN WithNew(Answer(r)) ELSE shown
  /\ UNCHANGED <<form, request, call, tab, selected, station, told>>

LogsFail(r) ==
  /\ r \in polls /\ polls' = polls \ {r}
  /\ UNCHANGED <<form, request, call, tab, selected, shown, station, told>>

-----------------------------------------------------------------------------
Next ==
  \/ \E u \in Server : EditServer(u) \/ DiscoveryFails(u) \/ \E list \in Lists : TargetsArrive(u, list)
  \/ \E t \in Target \cup {None} : TypePhrase(t)
  \/ \E i \in 1..Cardinality(Target) : MoveTarget(i)
  \/ Discover \/ Prepare \/ Escape \/ Submit \/ Reconcile \/ OtherCall \/ OtherAnswered
  \/ StationAccepts \/ StationRefuses \/ StationLooksUp \/ Lost
  \/ \E k \in Key : StrayArrives(k) \/ Expire(k) \/ Emit(k) \/ SelectJob(k)
  \/ Answered \/ Unanswered
  \/ \E t \in {"form", "jobs"} : Tab(t)
  \/ Tick \/ \E r \in polls : LogsArrive(r) \/ LogsFail(r)

Spec == Init /\ [][Next]_vars

-----------------------------------------------------------------------------
(* Properties.                                                              *)

\* What the station has accepted, or may still receive, is never out of the user's sight: it is the
\* retained request, or the user was told of its job.  So one confirmation makes one job, however
\* often it is sent again, looked up, lost, or received after the client has given up.
NothingForgotten == \A k \in accepted \cup stray : k \in told \/ (pending # None /\ pending.key = k)

\* The target that is reset was discovered on the server the request names, and is the one the user
\* typed the last confirmation for, with that server in the form: however discoveries, edits and
\* moves through the list interleave, no other board is reset.
ConfirmedTarget ==
  pending # None =>
    /\ pending.found = pending.server
    /\ agreed = [server |-> pending.server, target |-> pending.target]

\* No event is shown twice or out of order, whatever polls are answered late.
LogInOrder == \A i \in DOMAIN shown : \A j \in DOMAIN shown : i < j => shown[i] < shown[j]
=============================================================================
