---------------------------- MODULE DaemonProofs ----------------------------
(***************************************************************************)
(* Start and shutdown, for any number of daemons on one state directory    *)
(* and of requests: one owner, and captures that end before their console. *)
(***************************************************************************)
EXTENDS Daemon, TLAPS

\* Where the deferred calls begin.
LEMMA Unwinding ==
  ASSUME NEW p \in Process, at[p] \in Starting
  PROVE  /\ at[p] \in {"locked", "store"} => Unwind[at[p]] = "unlock"
         /\ at[p] = "console" => Unwind[at[p]] = "close console"
         /\ at[p] = "jobs" => Unwind[at[p]] = "close jobs"
<1>1. CASE at[p] = "locked"
  BY <1>1 DEF Unwind
<1>2. CASE at[p] = "store"
  BY <1>2 DEF Unwind
<1>3. CASE at[p] = "console"
  BY <1>3 DEF Unwind
<1>4. CASE at[p] = "jobs"
  BY <1>4 DEF Unwind
<1> QED
  BY <1>1, <1>2, <1>3, <1>4 DEF Starting

\* A handler at work is some process's.
Served == \A h \in Handler : step[h] # "none" => serves[h] \in Process

TInv == TypeOK /\ Served

\* A step keeps the types.
LEMMA TypedNext == TInv /\ [Next]_vars => TInv'
<1> SUFFICES ASSUME TInv, [Next]_vars PROVE TInv'
  OBVIOUS
<1> USE DEF jobs, web, Starting, Stopping
<1>1. ASSUME NEW p \in Process, Begin(p) PROVE TInv'
  <2>1. TypeOK'
    BY <1>1, DaemonAssumption DEF Begin, TInv, Served, TypeOK, Acquire, Go
  <2>2. Served'
    BY <1>1, DaemonAssumption DEF Begin, TInv, TypeOK, Served, Acquire, Go
  <2> QED
    BY <2>1, <2>2 DEF TInv
<1>2. ASSUME NEW p \in Process, OpenFails(p) PROVE TInv'
  <2>1. TypeOK'
    BY <1>2, DaemonAssumption, Unwinding DEF OpenFails, TInv, Served, TypeOK, Go
  <2>2. Served'
    BY <1>2, DaemonAssumption, Unwinding DEF OpenFails, TInv, TypeOK, Served, Go
  <2> QED
    BY <2>1, <2>2 DEF TInv
<1>3. ASSUME NEW p \in Process, OpenStore(p) PROVE TInv'
  <2>1. TypeOK'
    BY <1>3, DaemonAssumption DEF OpenStore, TInv, Served, TypeOK, Go
  <2>2. Served'
    BY <1>3, DaemonAssumption DEF OpenStore, TInv, TypeOK, Served, Go
  <2> QED
    BY <2>1, <2>2 DEF TInv
<1>4. ASSUME NEW p \in Process, OpenConsole(p) PROVE TInv'
  <2>1. TypeOK'
    BY <1>4, DaemonAssumption DEF OpenConsole, TInv, Served, TypeOK, Go
  <2>2. Served'
    BY <1>4, DaemonAssumption DEF OpenConsole, TInv, TypeOK, Served, Go
  <2> QED
    BY <2>1, <2>2 DEF TInv
<1>5. ASSUME NEW p \in Process, OpenJobs(p) PROVE TInv'
  <2>1. TypeOK'
    BY <1>5, DaemonAssumption DEF OpenJobs, TInv, Served, TypeOK, Go
  <2>2. Served'
    BY <1>5, DaemonAssumption DEF OpenJobs, TInv, TypeOK, Served, Go
  <2> QED
    BY <2>1, <2>2 DEF TInv
<1>6. ASSUME NEW p \in Process, Listen(p) PROVE TInv'
  <2>1. TypeOK'
    BY <1>6, DaemonAssumption DEF Listen, TInv, Served, TypeOK, Go
  <2>2. Served'
    BY <1>6, DaemonAssumption DEF Listen, TInv, TypeOK, Served, Go
  <2> QED
    BY <2>1, <2>2 DEF TInv
<1>7. ASSUME NEW p \in Process, Signal(p) PROVE TInv'
  <2>1. TypeOK'
    BY <1>7, DaemonAssumption DEF Signal, TInv, Served, TypeOK
  <2>2. Served'
    BY <1>7, DaemonAssumption DEF Signal, TInv, TypeOK, Served
  <2> QED
    BY <2>1, <2>2 DEF TInv
<1>8. ASSUME NEW p \in Process, ServeFails(p) PROVE TInv'
  <2>1. TypeOK'
    BY <1>8, DaemonAssumption DEF ServeFails, TInv, Served, TypeOK, Go
  <2>2. Served'
    BY <1>8, DaemonAssumption DEF ServeFails, TInv, TypeOK, Served, Go
  <2> QED
    BY <2>1, <2>2 DEF TInv
<1>9. ASSUME NEW p \in Process, Drain(p) PROVE TInv'
  <2>1. TypeOK'
    BY <1>9, DaemonAssumption DEF Drain, TInv, Served, TypeOK, Go
  <2>2. Served'
    BY <1>9, DaemonAssumption DEF Drain, TInv, TypeOK, Served, Go
  <2> QED
    BY <2>1, <2>2 DEF TInv
<1>10. ASSUME NEW p \in Process, Shutdown(p) PROVE TInv'
  <2>1. TypeOK'
    BY <1>10, DaemonAssumption DEF Shutdown, TInv, Served, TypeOK, Go
  <2>2. Served'
    BY <1>10, DaemonAssumption DEF Shutdown, TInv, TypeOK, Served, Go
  <2> QED
    BY <2>1, <2>2 DEF TInv
<1>11. ASSUME NEW p \in Process, CloseHTTP(p) PROVE TInv'
  <2>1. TypeOK'
    BY <1>11, DaemonAssumption DEF CloseHTTP, TInv, Served, TypeOK, Go, CutBy, Awaited, Handlers
  <2>2. Served'
    BY <1>11, DaemonAssumption DEF CloseHTTP, TInv, TypeOK, Served, Go, CutBy, Awaited, Handlers
  <2> QED
    BY <2>1, <2>2 DEF TInv
<1>12. ASSUME NEW p \in Process, CancelJobs(p) PROVE TInv'
  <2>1. TypeOK'
    BY <1>12, DaemonAssumption DEF CancelJobs, TInv, Served, TypeOK
  <2>2. Served'
    BY <1>12, DaemonAssumption DEF CancelJobs, TInv, TypeOK, Served
  <2> QED
    BY <2>1, <2>2 DEF TInv
<1>13. ASSUME NEW p \in Process, CloseJobs(p) PROVE TInv'
  <2>1. TypeOK'
    BY <1>13, DaemonAssumption DEF CloseJobs, TInv, Served, TypeOK, Go, Then, Waited
  <2>2. Served'
    BY <1>13, DaemonAssumption DEF CloseJobs, TInv, TypeOK, Served, Go, Then, Waited
  <2> QED
    BY <2>1, <2>2 DEF TInv
<1>14. ASSUME NEW p \in Process, CloseConsole(p) PROVE TInv'
  <2>1. TypeOK'
    BY <1>14, DaemonAssumption DEF CloseConsole, TInv, Served, TypeOK, Go, Then
  <2>2. Served'
    BY <1>14, DaemonAssumption DEF CloseConsole, TInv, TypeOK, Served, Go, Then
  <2> QED
    BY <2>1, <2>2 DEF TInv
<1>15. ASSUME NEW p \in Process, Unlock(p) PROVE TInv'
  <2>1. TypeOK'
    BY <1>15, DaemonAssumption DEF Unlock, TInv, Served, TypeOK, Go, Then
  <2>2. Served'
    BY <1>15, DaemonAssumption DEF Unlock, TInv, TypeOK, Served, Go, Then
  <2> QED
    BY <2>1, <2>2 DEF TInv
<1>16. ASSUME NEW p \in Process, Exit(p) PROVE TInv'
  <2>1. TypeOK'
    BY <1>16, DaemonAssumption DEF Exit, TInv, Served, TypeOK, Vanish, Go, Handlers
  <2>2. Served'
    BY <1>16, DaemonAssumption DEF Exit, TInv, TypeOK, Served, Vanish, Go, Handlers
  <2> QED
    BY <2>1, <2>2 DEF TInv
<1>17. ASSUME NEW p \in Process, Kill(p) PROVE TInv'
  <2>1. TypeOK'
    BY <1>17, DaemonAssumption DEF Kill, TInv, Served, TypeOK, Vanish, Go, Handlers
  <2>2. Served'
    BY <1>17, DaemonAssumption DEF Kill, TInv, TypeOK, Served, Vanish, Go, Handlers
  <2> QED
    BY <2>1, <2>2 DEF TInv
<1>18. ASSUME NEW p \in Process, RunJob(p) PROVE TInv'
  <2>1. TypeOK'
    BY <1>18, DaemonAssumption DEF RunJob, TInv, Served, TypeOK, Work, Quiet
  <2>2. Served'
    BY <1>18, DaemonAssumption DEF RunJob, TInv, TypeOK, Served, Work, Quiet
  <2> QED
    BY <2>1, <2>2 DEF TInv
<1>19. ASSUME NEW p \in Process, JobEnds(p) PROVE TInv'
  <2>1. TypeOK'
    BY <1>19, DaemonAssumption DEF JobEnds, TInv, Served, TypeOK, Work, Quiet
  <2>2. Served'
    BY <1>19, DaemonAssumption DEF JobEnds, TInv, TypeOK, Served, Work, Quiet
  <2> QED
    BY <2>1, <2>2 DEF TInv
<1>20. ASSUME NEW p \in Process, Retain(p) PROVE TInv'
  <2>1. TypeOK'
    BY <1>20, DaemonAssumption DEF Retain, TInv, Served, TypeOK, Work, Quiet
  <2>2. Served'
    BY <1>20, DaemonAssumption DEF Retain, TInv, TypeOK, Served, Work, Quiet
  <2> QED
    BY <2>1, <2>2 DEF TInv
<1>21. ASSUME NEW p \in Process, WorkerExits(p) PROVE TInv'
  <2>1. TypeOK'
    BY <1>21, DaemonAssumption DEF WorkerExits, TInv, Served, TypeOK, Work, Quiet
  <2>2. Served'
    BY <1>21, DaemonAssumption DEF WorkerExits, TInv, TypeOK, Served, Work, Quiet
  <2> QED
    BY <2>1, <2>2 DEF TInv
<1>22. ASSUME NEW h \in Handler, NEW p \in Process, Request(h, p) PROVE TInv'
  <2>1. TypeOK'
    <3>1. serves' \in [Handler -> Process \cup {Nobody}]
      BY <1>22 DEF Request, TInv, TypeOK
    <3>2. PICK kind \in {"upload", "submit", "cancel", "stream", "attach"} : step' = [step EXCEPT ![h] = kind]
      BY <1>22 DEF Request
    <3>3. step' \in [Handler -> {"none", "upload", "body", "store", "submit", "cancel", "sweep", "stream", "attach", "session"}]
      BY <3>2 DEF TInv, TypeOK
    <3> QED
      BY <1>22, <3>1, <3>3 DEF Request, TInv, TypeOK, Quiet
  <2>2. Served'
    BY <1>22, DaemonAssumption DEF Request, TInv, TypeOK, Served, Quiet
  <2> QED
    BY <2>1, <2>2 DEF TInv
<1>23. ASSUME NEW h \in Handler, Leave(h) PROVE TInv'
  <2>1. TypeOK'
    BY <1>23, DaemonAssumption DEF Leave, TInv, Served, TypeOK, Quiet
  <2>2. Served'
    BY <1>23, DaemonAssumption DEF Leave, TInv, TypeOK, Served, Quiet
  <2> QED
    BY <2>1, <2>2 DEF TInv
<1>24. ASSUME NEW h \in Handler, BodyArrives(h) PROVE TInv'
  <2>1. TypeOK'
    BY <1>24, DaemonAssumption DEF BodyArrives, TInv, Served, TypeOK, Turn, Quiet
  <2>2. Served'
    BY <1>24, DaemonAssumption DEF BodyArrives, TInv, TypeOK, Served, Turn, Quiet
  <2> QED
    BY <2>1, <2>2 DEF TInv
<1>25. ASSUME NEW h \in Handler, UploadBegin(h) PROVE TInv'
  <2>1. TypeOK'
    BY <1>25, DaemonAssumption DEF UploadBegin, TInv, Served, TypeOK, Take, Turn, Quiet
  <2>2. Served'
    BY <1>25, DaemonAssumption DEF UploadBegin, TInv, TypeOK, Served, Take, Turn, Quiet
  <2> QED
    BY <2>1, <2>2 DEF TInv
<1>26. ASSUME NEW h \in Handler, UploadEnds(h) PROVE TInv'
  <2>1. TypeOK'
    BY <1>26, DaemonAssumption DEF UploadEnds, TInv, Served, TypeOK, Drop, Answered, Quiet
  <2>2. Served'
    BY <1>26, DaemonAssumption DEF UploadEnds, TInv, TypeOK, Served, Drop, Answered, Quiet
  <2> QED
    BY <2>1, <2>2 DEF TInv
<1>27. ASSUME NEW h \in Handler, Submit(h) PROVE TInv'
  <2>1. TypeOK'
    BY <1>27, DaemonAssumption DEF Submit, TInv, Served, TypeOK, Answered, Quiet
  <2>2. Served'
    BY <1>27, DaemonAssumption DEF Submit, TInv, TypeOK, Served, Answered, Quiet
  <2> QED
    BY <2>1, <2>2 DEF TInv
<1>28. ASSUME NEW h \in Handler, CancelJob(h) PROVE TInv'
  <2>1. TypeOK'
    BY <1>28, DaemonAssumption DEF CancelJob, TInv, Served, TypeOK, Turn, Quiet
  <2>2. Served'
    BY <1>28, DaemonAssumption DEF CancelJob, TInv, TypeOK, Served, Turn, Quiet
  <2> QED
    BY <2>1, <2>2 DEF TInv
<1>29. ASSUME NEW h \in Handler, Sweep(h) PROVE TInv'
  <2>1. TypeOK'
    BY <1>29, DaemonAssumption DEF Sweep, TInv, Served, TypeOK, Answered, Quiet
  <2>2. Served'
    BY <1>29, DaemonAssumption DEF Sweep, TInv, TypeOK, Served, Answered, Quiet
  <2> QED
    BY <2>1, <2>2 DEF TInv
<1>30. ASSUME NEW h \in Handler, StreamEnds(h) PROVE TInv'
  <2>1. TypeOK'
    BY <1>30, DaemonAssumption DEF StreamEnds, TInv, Served, TypeOK, Answered, Quiet
  <2>2. Served'
    BY <1>30, DaemonAssumption DEF StreamEnds, TInv, TypeOK, Served, Answered, Quiet
  <2> QED
    BY <2>1, <2>2 DEF TInv
<1>31. ASSUME NEW h \in Handler, Hijack(h) PROVE TInv'
  <2>1. TypeOK'
    <3>1. CASE Answered(h)
      BY <1>31, <3>1, DaemonAssumption DEF Hijack, TInv, Served, TypeOK, Answered, Quiet
    <3>2. CASE Turn(h, "session")
      BY <1>31, <3>2, DaemonAssumption DEF Hijack, TInv, Served, TypeOK, Turn, Quiet
    <3> QED
      BY <1>31, <3>1, <3>2 DEF Hijack
  <2>2. Served'
    BY <1>31, DaemonAssumption DEF Hijack, TInv, TypeOK, Served, Answered, Turn, Quiet
  <2> QED
    BY <2>1, <2>2 DEF TInv
<1>32. ASSUME NEW h \in Handler, SessionEnds(h) PROVE TInv'
  <2>1. TypeOK'
    BY <1>32, DaemonAssumption DEF SessionEnds, TInv, Served, TypeOK, Answered, Quiet
  <2>2. Served'
    BY <1>32, DaemonAssumption DEF SessionEnds, TInv, TypeOK, Served, Answered, Quiet
  <2> QED
    BY <2>1, <2>2 DEF TInv
<1>33. CASE UNCHANGED vars
  BY <1>33 DEF vars, TInv, Served, TypeOK
<1> QED
  BY <1>1, <1>2, <1>3, <1>4, <1>5, <1>6, <1>7, <1>8, <1>9, <1>10, <1>11, <1>12, <1>13,
     <1>14, <1>15, <1>16, <1>17, <1>18, <1>19, <1>20, <1>21, <1>22, <1>23, <1>24, <1>25,
     <1>26, <1>27, <1>28, <1>29, <1>30, <1>31, <1>32, <1>33 DEF Next, Open, Stop, Worker, Handle,
     CanceledEnds

\* Every variable keeps its type.
THEOREM DaemonTyped == Spec => []TInv
<1>1. Init => TInv
  BY DaemonAssumption DEF Init, TInv, TypeOK, Served, Starting, Stopping
<1> QED
  BY <1>1, TypedNext, PTL DEF Spec

-----------------------------------------------------------------------------
\* The lock is held from before the first part opens until after the last is closed.
Owned ==
  \A p \in Process :
    at[p] \in Starting \cup {"serve", "drain", "http", "close jobs", "close console", "unlock"} => lock = p

\* The console is open while the job manager is, and a worker runs only within it.
Nested ==
  \A p \in Process :
    /\ p \in console <=> at[p] \in {"console", "jobs", "serve", "drain", "http", "close jobs", "close console"}
    /\ worker[p] \in {"idle", "run", "retain"} =>
         p \in console /\ at[p] \in {"jobs", "serve", "drain", "http", "close jobs"}

OInv == Owned /\ Nested

\* A step keeps the order of the parts.
LEMMA OwnedNext == TInv /\ OInv /\ [Next]_vars => OInv'
<1> SUFFICES ASSUME TInv, OInv, [Next]_vars PROVE OInv'
  OBVIOUS
<1> USE DEF jobs, web, Starting, Stopping
<1>1. ASSUME NEW p \in Process, Begin(p) PROVE OInv'
  <2>1. Owned'
    <3>1. CASE lock = Nobody
      <4>1. lock' = p /\ \A q \in Process : q # p => at'[q] = at[q]
        BY <1>1, <3>1 DEF Begin, Acquire, Go, TInv, TypeOK
      <4> QED
        BY <3>1, <4>1, DaemonAssumption DEF OInv, Owned
    <3>2. CASE lock # Nobody
      <4>1. lock' = lock /\ at' = [at EXCEPT ![p] = "gone"]
        BY <1>1, <3>2 DEF Begin, Acquire, Go
      <4> QED
        BY <4>1 DEF OInv, Owned, TInv, TypeOK
    <3> QED
      BY <3>1, <3>2
  <2>2. Nested'
    <3>1. at[p] = "off" /\ UNCHANGED <<console, worker>>
      BY <1>1 DEF Begin
    <3>2. PICK next \in {"locked", "gone"} : at' = [at EXCEPT ![p] = next]
      BY <1>1 DEF Begin, Go
    <3> QED
      BY <3>1, <3>2 DEF OInv, Nested, TInv, TypeOK
  <2> QED
    BY <2>1, <2>2 DEF OInv
<1>2. ASSUME NEW p \in Process, OpenFails(p) PROVE OInv'
  <2>1. Owned'
    BY <1>2, DaemonAssumption, Unwinding DEF OpenFails, OInv, Owned, TInv, TypeOK, Go
  <2>2. Nested'
    BY <1>2, DaemonAssumption, Unwinding DEF OpenFails, OInv, Nested, TInv, Served,
       TypeOK, Go
  <2> QED
    BY <2>1, <2>2 DEF OInv
<1>3. ASSUME NEW p \in Process, OpenStore(p) PROVE OInv'
  <2>1. Owned'
    BY <1>3, DaemonAssumption DEF OpenStore, OInv, Owned, TInv, TypeOK, Go
  <2>2. Nested'
    BY <1>3, DaemonAssumption DEF OpenStore, OInv, Nested, TInv, Served, TypeOK, Go
  <2> QED
    BY <2>1, <2>2 DEF OInv
<1>4. ASSUME NEW p \in Process, OpenConsole(p) PROVE OInv'
  <2>1. Owned'
    BY <1>4, DaemonAssumption DEF OpenConsole, OInv, Owned, TInv, TypeOK, Go
  <2>2. Nested'
    BY <1>4, DaemonAssumption DEF OpenConsole, OInv, Nested, TInv, Served, TypeOK, Go
  <2> QED
    BY <2>1, <2>2 DEF OInv
<1>5. ASSUME NEW p \in Process, OpenJobs(p) PROVE OInv'
  <2>1. Owned'
    BY <1>5, DaemonAssumption DEF OpenJobs, OInv, Owned, TInv, TypeOK, Go
  <2>2. Nested'
    BY <1>5, DaemonAssumption DEF OpenJobs, OInv, Nested, TInv, Served, TypeOK, Go
  <2> QED
    BY <2>1, <2>2 DEF OInv
<1>6. ASSUME NEW p \in Process, Listen(p) PROVE OInv'
  <2>1. Owned'
    BY <1>6, DaemonAssumption DEF Listen, OInv, Owned, TInv, TypeOK, Go
  <2>2. Nested'
    BY <1>6, DaemonAssumption DEF Listen, OInv, Nested, TInv, Served, TypeOK, Go
  <2> QED
    BY <2>1, <2>2 DEF OInv
<1>7. ASSUME NEW p \in Process, Signal(p) PROVE OInv'
  <2>1. Owned'
    BY <1>7, DaemonAssumption DEF Signal, OInv, Owned, TInv, TypeOK
  <2>2. Nested'
    BY <1>7, DaemonAssumption DEF Signal, OInv, Nested, TInv, Served, TypeOK
  <2> QED
    BY <2>1, <2>2 DEF OInv
<1>8. ASSUME NEW p \in Process, ServeFails(p) PROVE OInv'
  <2>1. Owned'
    BY <1>8, DaemonAssumption DEF ServeFails, OInv, Owned, TInv, TypeOK, Go
  <2>2. Nested'
    BY <1>8, DaemonAssumption DEF ServeFails, OInv, Nested, TInv, Served, TypeOK, Go
  <2> QED
    BY <2>1, <2>2 DEF OInv
<1>9. ASSUME NEW p \in Process, Drain(p) PROVE OInv'
  <2>1. Owned'
    BY <1>9, DaemonAssumption DEF Drain, OInv, Owned, TInv, TypeOK, Go
  <2>2. Nested'
    BY <1>9, DaemonAssumption DEF Drain, OInv, Nested, TInv, Served, TypeOK, Go
  <2> QED
    BY <2>1, <2>2 DEF OInv
<1>10. ASSUME NEW p \in Process, Shutdown(p) PROVE OInv'
  <2>1. Owned'
    BY <1>10, DaemonAssumption DEF Shutdown, OInv, Owned, TInv, TypeOK, Go
  <2>2. Nested'
    BY <1>10, DaemonAssumption DEF Shutdown, OInv, Nested, TInv, Served, TypeOK, Go
  <2> QED
    BY <2>1, <2>2 DEF OInv
<1>11. ASSUME NEW p \in Process, CloseHTTP(p) PROVE OInv'
  <2>1. Owned'
    BY <1>11, DaemonAssumption DEF CloseHTTP, OInv, Owned, TInv, TypeOK, Go, CutBy, Awaited, Handlers
  <2>2. Nested'
    BY <1>11, DaemonAssumption DEF CloseHTTP, OInv, Nested, TInv, Served, TypeOK, Go,
       CutBy, Awaited, Handlers
  <2> QED
    BY <2>1, <2>2 DEF OInv
<1>12. ASSUME NEW p \in Process, CancelJobs(p) PROVE OInv'
  <2>1. Owned'
    BY <1>12, DaemonAssumption DEF CancelJobs, OInv, Owned, TInv, TypeOK
  <2>2. Nested'
    BY <1>12, DaemonAssumption DEF CancelJobs, OInv, Nested, TInv, Served, TypeOK
  <2> QED
    BY <2>1, <2>2 DEF OInv
<1>13. ASSUME NEW p \in Process, CloseJobs(p) PROVE OInv'
  <2>1. Owned'
    BY <1>13, DaemonAssumption DEF CloseJobs, OInv, Owned, TInv, TypeOK, Go, Then, Waited
  <2>2. Nested'
    BY <1>13, DaemonAssumption DEF CloseJobs, OInv, Nested, TInv, Served, TypeOK, Go,
       Then, Waited
  <2> QED
    BY <2>1, <2>2 DEF OInv
<1>14. ASSUME NEW p \in Process, CloseConsole(p) PROVE OInv'
  <2>1. Owned'
    BY <1>14, DaemonAssumption DEF CloseConsole, OInv, Owned, TInv, TypeOK, Go, Then
  <2>2. Nested'
    BY <1>14, DaemonAssumption DEF CloseConsole, OInv, Nested, TInv, Served, TypeOK, Go, Then
  <2> QED
    BY <2>1, <2>2 DEF OInv
<1>15. ASSUME NEW p \in Process, Unlock(p) PROVE OInv'
  <2>1. Owned'
    BY <1>15, DaemonAssumption DEF Unlock, OInv, Owned, TInv, TypeOK, Go, Then
  <2>2. Nested'
    BY <1>15, DaemonAssumption DEF Unlock, OInv, Nested, TInv, Served, TypeOK, Go, Then
  <2> QED
    BY <2>1, <2>2 DEF OInv
<1>16. ASSUME NEW p \in Process, Exit(p) PROVE OInv'
  <2>1. Owned'
    BY <1>16, DaemonAssumption DEF Exit, OInv, Owned, TInv, TypeOK, Vanish, Go, Handlers
  <2>2. Nested'
    BY <1>16, DaemonAssumption DEF Exit, OInv, Nested, TInv, Served, TypeOK, Vanish, Go,
       Handlers
  <2> QED
    BY <2>1, <2>2 DEF OInv
<1>17. ASSUME NEW p \in Process, Kill(p) PROVE OInv'
  <2>1. Owned'
    BY <1>17, DaemonAssumption DEF Kill, OInv, Owned, TInv, TypeOK, Vanish, Go, Handlers
  <2>2. Nested'
    BY <1>17, DaemonAssumption DEF Kill, OInv, Nested, TInv, Served, TypeOK, Vanish, Go,
       Handlers
  <2> QED
    BY <2>1, <2>2 DEF OInv
<1>18. ASSUME NEW p \in Process, RunJob(p) PROVE OInv'
  <2>1. Owned'
    BY <1>18, DaemonAssumption DEF RunJob, OInv, Owned, TInv, TypeOK, Work, Quiet
  <2>2. Nested'
    BY <1>18, DaemonAssumption DEF RunJob, OInv, Nested, TInv, Served, TypeOK, Work, Quiet
  <2> QED
    BY <2>1, <2>2 DEF OInv
<1>19. ASSUME NEW p \in Process, JobEnds(p) PROVE OInv'
  <2>1. Owned'
    BY <1>19, DaemonAssumption DEF JobEnds, OInv, Owned, TInv, TypeOK, Work, Quiet
  <2>2. Nested'
    BY <1>19, DaemonAssumption DEF JobEnds, OInv, Nested, TInv, Served, TypeOK, Work, Quiet
  <2> QED
    BY <2>1, <2>2 DEF OInv
<1>20. ASSUME NEW p \in Process, Retain(p) PROVE OInv'
  <2>1. Owned'
    BY <1>20, DaemonAssumption DEF Retain, OInv, Owned, TInv, TypeOK, Work, Quiet
  <2>2. Nested'
    BY <1>20, DaemonAssumption DEF Retain, OInv, Nested, TInv, Served, TypeOK, Work, Quiet
  <2> QED
    BY <2>1, <2>2 DEF OInv
<1>21. ASSUME NEW p \in Process, WorkerExits(p) PROVE OInv'
  <2>1. Owned'
    BY <1>21, DaemonAssumption DEF WorkerExits, OInv, Owned, TInv, TypeOK, Work, Quiet
  <2>2. Nested'
    BY <1>21, DaemonAssumption DEF WorkerExits, OInv, Nested, TInv, Served, TypeOK, Work, Quiet
  <2> QED
    BY <2>1, <2>2 DEF OInv
<1>22. ASSUME NEW h \in Handler, NEW p \in Process, Request(h, p) PROVE OInv'
  <2>1. Owned'
    BY <1>22, DaemonAssumption DEF Request, OInv, Owned, TInv, TypeOK, Quiet
  <2>2. Nested'
    BY <1>22, DaemonAssumption DEF Request, OInv, Nested, TInv, Served, TypeOK, Quiet
  <2> QED
    BY <2>1, <2>2 DEF OInv
<1>23. ASSUME NEW h \in Handler, Leave(h) PROVE OInv'
  <2>1. Owned'
    BY <1>23, DaemonAssumption DEF Leave, OInv, Owned, TInv, TypeOK, Quiet
  <2>2. Nested'
    BY <1>23, DaemonAssumption DEF Leave, OInv, Nested, TInv, Served, TypeOK, Quiet
  <2> QED
    BY <2>1, <2>2 DEF OInv
<1>24. ASSUME NEW h \in Handler, BodyArrives(h) PROVE OInv'
  <2>1. Owned'
    BY <1>24, DaemonAssumption DEF BodyArrives, OInv, Owned, TInv, TypeOK, Turn, Quiet
  <2>2. Nested'
    BY <1>24, DaemonAssumption DEF BodyArrives, OInv, Nested, TInv, Served, TypeOK, Turn, Quiet
  <2> QED
    BY <2>1, <2>2 DEF OInv
<1>25. ASSUME NEW h \in Handler, UploadBegin(h) PROVE OInv'
  <2>1. Owned'
    BY <1>25, DaemonAssumption DEF UploadBegin, OInv, Owned, TInv, TypeOK, Take, Turn, Quiet
  <2>2. Nested'
    BY <1>25, DaemonAssumption DEF UploadBegin, OInv, Nested, TInv, Served, TypeOK,
       Take, Turn, Quiet
  <2> QED
    BY <2>1, <2>2 DEF OInv
<1>26. ASSUME NEW h \in Handler, UploadEnds(h) PROVE OInv'
  <2>1. Owned'
    BY <1>26, DaemonAssumption DEF UploadEnds, OInv, Owned, TInv, TypeOK, Drop, Answered, Quiet
  <2>2. Nested'
    BY <1>26, DaemonAssumption DEF UploadEnds, OInv, Nested, TInv, Served, TypeOK, Drop,
       Answered, Quiet
  <2> QED
    BY <2>1, <2>2 DEF OInv
<1>27. ASSUME NEW h \in Handler, Submit(h) PROVE OInv'
  <2>1. Owned'
    BY <1>27, DaemonAssumption DEF Submit, OInv, Owned, TInv, TypeOK, Answered, Quiet
  <2>2. Nested'
    BY <1>27, DaemonAssumption DEF Submit, OInv, Nested, TInv, Served, TypeOK, Answered, Quiet
  <2> QED
    BY <2>1, <2>2 DEF OInv
<1>28. ASSUME NEW h \in Handler, CancelJob(h) PROVE OInv'
  <2>1. Owned'
    BY <1>28, DaemonAssumption DEF CancelJob, OInv, Owned, TInv, TypeOK, Turn, Quiet
  <2>2. Nested'
    BY <1>28, DaemonAssumption DEF CancelJob, OInv, Nested, TInv, Served, TypeOK, Turn, Quiet
  <2> QED
    BY <2>1, <2>2 DEF OInv
<1>29. ASSUME NEW h \in Handler, Sweep(h) PROVE OInv'
  <2>1. Owned'
    BY <1>29, DaemonAssumption DEF Sweep, OInv, Owned, TInv, TypeOK, Answered, Quiet
  <2>2. Nested'
    BY <1>29, DaemonAssumption DEF Sweep, OInv, Nested, TInv, Served, TypeOK, Answered, Quiet
  <2> QED
    BY <2>1, <2>2 DEF OInv
<1>30. ASSUME NEW h \in Handler, StreamEnds(h) PROVE OInv'
  <2>1. Owned'
    BY <1>30, DaemonAssumption DEF StreamEnds, OInv, Owned, TInv, TypeOK, Answered, Quiet
  <2>2. Nested'
    BY <1>30, DaemonAssumption DEF StreamEnds, OInv, Nested, TInv, Served, TypeOK,
       Answered, Quiet
  <2> QED
    BY <2>1, <2>2 DEF OInv
<1>31. ASSUME NEW h \in Handler, Hijack(h) PROVE OInv'
  <2>1. Owned'
    BY <1>31, DaemonAssumption DEF Hijack, OInv, Owned, TInv, TypeOK, Answered, Turn, Quiet
  <2>2. Nested'
    BY <1>31, DaemonAssumption DEF Hijack, OInv, Nested, TInv, Served, TypeOK, Answered, Turn, Quiet
  <2> QED
    BY <2>1, <2>2 DEF OInv
<1>32. ASSUME NEW h \in Handler, SessionEnds(h) PROVE OInv'
  <2>1. Owned'
    BY <1>32, DaemonAssumption DEF SessionEnds, OInv, Owned, TInv, TypeOK, Answered, Quiet
  <2>2. Nested'
    BY <1>32, DaemonAssumption DEF SessionEnds, OInv, Nested, TInv, Served, TypeOK, Answered, Quiet
  <2> QED
    BY <2>1, <2>2 DEF OInv
<1>33. CASE UNCHANGED vars
  BY <1>33 DEF vars, OInv, Owned, Nested
<1> QED
  BY <1>1, <1>2, <1>3, <1>4, <1>5, <1>6, <1>7, <1>8, <1>9, <1>10, <1>11, <1>12, <1>13,
     <1>14, <1>15, <1>16, <1>17, <1>18, <1>19, <1>20, <1>21, <1>22, <1>23, <1>24, <1>25,
     <1>26, <1>27, <1>28, <1>29, <1>30, <1>31, <1>32, <1>33 DEF Next, Open, Stop, Worker, Handle,
     CanceledEnds

\* The order holds throughout.
LEMMA DaemonOwned == Spec => []OInv
<1>1. Init => OInv
  BY DaemonAssumption DEF Init, OInv, Owned, Nested, Starting
<1> QED
  BY <1>1, DaemonTyped, OwnedNext, PTL DEF Spec

\* No daemon works on a state it does not hold the lock of, whatever is killed or fails to open.
THEOREM OneOwner == Spec => []StateIsOwned
<1>1. TInv /\ OInv => StateIsOwned
  BY DEF TInv, TypeOK, OInv, Owned, Nested, StateIsOwned, Starting
<1> QED
  BY <1>1, DaemonTyped, DaemonOwned, PTL

\* The console outlives every run.
THEOREM ConsoleOutlivesRuns == Spec => []CapturesComplete
<1>1. OInv => CapturesComplete
  BY DEF OInv, Nested, CapturesComplete
<1> QED
  BY <1>1, DaemonOwned, PTL

=============================================================================
