------------------------------ MODULE TuiProofs ------------------------------
(***************************************************************************)
(* The interactive client for any servers, boards, keys, polls and page    *)
(* sizes: no submission out of the user's sight, no reset of a board that  *)
(* another server's list named, no event shown twice or out of order.      *)
(***************************************************************************)
EXTENDS Tui, FiniteSetTheorems, SequenceTheorems, WellFoundedInduction, TLAPS

-----------------------------------------------------------------------------
(* Recursion over an answer.                                                *)

\* A set of numbers that is not empty has a least one.
LEMMA LeastNumber ==
  ASSUME NEW T, T \subseteq Nat, T # {}
  PROVE  \E n \in T : \A m \in T : n <= m
<1>1. PICK k \in T : TRUE
  OBVIOUS
<1> DEFINE Down == {0..n : n \in {m \in T : m <= k}}
<1>2. IsFiniteSet(0..k)
  BY <1>1, FS_Interval
<1>3. IsWellFoundedOn(StrictSubsetOrdering(0..k), SUBSET (0..k))
  BY <1>2, FS_StrictSubsetOrderingWellFounded, FS_FiniteSubsetsOfFinite
<1>4. Down \subseteq SUBSET (0..k) /\ 0..k \in Down
  BY <1>1
<1>5. \A x \in Down : \E n \in T : n <= k /\ x = 0..n
  OBVIOUS
<1>6. \A m \in T : m <= k => 0..m \in Down
  OBVIOUS
<1> HIDE DEF Down
<1>7. PICK x \in Down : \A y \in Down : ~(<<y, x>> \in StrictSubsetOrdering(0..k))
  BY <1>3, <1>4, WFMin
<1>8. PICK n \in T : n <= k /\ x = 0..n
  BY <1>5
<1>9. ASSUME NEW m \in T, m < n PROVE FALSE
  <2>1. 0..m \in Down
    BY <1>1, <1>6, <1>8, <1>9
  <2>2. n \in 0..n /\ n \notin 0..m /\ 0..m \subseteq 0..n
    BY <1>8, <1>9
  <2> QED
    BY <1>4, <1>7, <1>8, <2>1, <2>2 DEF StrictSubsetOrdering
<1> QED
  BY <1>8, <1>9

Steps(n, D) == [(1..n) \X D -> D]
Defined(n, D, b, h) ==
  \E f \in [0..n -> D] : f[0] = b /\ \A i \in 1..n : f[i] = h[<<i, f[i - 1]>>]

\* A function on 0..n may be defined by its first value and the step from one to the next.
LEMMA Recursion ==
  ASSUME NEW n \in Nat, NEW D, NEW b \in D, NEW h \in Steps(n, D)
  PROVE  Defined(n, D, b, h)
<1> DEFINE Solves(f, m) == f[0] = b /\ \A i \in 1..m : f[i] = h[<<i, f[i - 1]>>]
           T == {m \in 0..n : ~ \E f \in [0..m -> D] : Solves(f, m)}
<1>1. SUFFICES ASSUME T # {} PROVE FALSE
  BY DEF Defined
<1>2. PICK m \in T : \A k \in T : m <= k
  <2>1. T \subseteq Nat
    OBVIOUS
  <2> HIDE DEF T
  <2> QED
    BY <1>1, <2>1, LeastNumber
<1>3. CASE m = 0
  <2>1. [i \in 0..0 |-> b] \in [0..0 -> D] /\ Solves([i \in 0..0 |-> b], 0)
    OBVIOUS
  <2> QED
    BY <1>2, <1>3, <2>1
<1>4. CASE m # 0
  <2>1. m - 1 \in 0..n /\ m - 1 \notin T
    <3>1. m \in 0..n
      BY <1>2
    <3> HIDE DEF T
    <3> QED
      BY <1>2, <1>4, <3>1
  <2>2. PICK f \in [0..(m - 1) -> D] : Solves(f, m - 1)
    BY <2>1
  <2> DEFINE g == [i \in 0..m |-> IF i = m THEN h[<<m, f[m - 1]>>] ELSE f[i]]
  <2>3. m \in 1..n /\ f[m - 1] \in D /\ h[<<m, f[m - 1]>>] \in D
    BY <1>2, <1>4, <2>2 DEF Steps
  <2>4. g \in [0..m -> D] /\ g[0] = b
    BY <2>2, <2>3
  <2>5. ASSUME NEW i \in 1..m PROVE g[i] = h[<<i, g[i - 1]>>]
    <3>1. CASE i = m
      <4>1. m - 1 \in 0..m /\ m - 1 # m /\ m \in 0..m
        BY <2>3
      <4>2. g[m - 1] = f[m - 1] /\ g[m] = h[<<m, f[m - 1]>>]
        BY <4>1
      <4> HIDE DEF g
      <4> QED
        BY <3>1, <4>2
    <3>2. CASE i # m
      <4>1. i \in 1..(m - 1) /\ i - 1 \in 0..m /\ i - 1 # m /\ i \in 0..m
        BY <2>3, <3>2
      <4> QED
        BY <2>2, <3>2, <4>1
    <3> QED
      BY <3>1, <3>2
  <2> QED
    BY <1>2, <2>4, <2>5
<1> QED
  BY <1>3, <1>4

Number == 1..MaxEvents
Rising(s) == \A i \in DOMAIN s : \A j \in DOMAIN s : i < j => s[i] < s[j]

\* What comes after the last entry keeps a log rising.
LEMMA AppendRises ==
  ASSUME NEW s \in Seq(Number), NEW e \in Number, Rising(s), e > LastOf(s)
  PROVE  Append(s, e) \in Seq(Number) /\ Rising(Append(s, e))
<1> DEFINE t == Append(s, e)
<1>1. Len(s) \in Nat /\ DOMAIN s = 1..Len(s) /\ \A j \in 1..Len(s) : s[j] \in Nat
  <2>1. \A j \in 1..Len(s) : s[j] \in Number
    BY ElementOfSeq
  <2> QED
    BY <2>1, LenProperties DEF Number
<1>2. /\ t \in Seq(Number) /\ Len(t) = Len(s) + 1 /\ t[Len(s) + 1] = e
      /\ \A j \in 1..Len(s) : t[j] = s[j]
  BY AppendProperties, LenProperties
<1>3. DOMAIN t = 1..(Len(s) + 1)
  BY <1>2, LenProperties
<1> HIDE DEF t
<1>4. ASSUME NEW j \in 1..Len(s) PROVE s[j] < e
  <2>1. Len(s) \in 1..Len(s) /\ s # <<>>
    BY <1>1, <1>4, EmptySeq
  <2>2. e > s[Len(s)] /\ e \in Nat
    BY <2>1 DEF LastOf, Number
  <2>3. j < Len(s) => s[j] < s[Len(s)]
    BY <1>1, <1>4, <2>1 DEF Rising
  <2> QED
    BY <1>1, <1>4, <2>1, <2>2, <2>3
<1>5. ASSUME NEW j \in DOMAIN t, NEW k \in DOMAIN t, j < k PROVE t[j] < t[k]
  <2>1. j \in 1..Len(s)
    BY <1>1, <1>3, <1>5
  <2>2. CASE k = Len(s) + 1
    BY <1>2, <1>4, <2>1, <2>2
  <2>3. CASE k # Len(s) + 1
    <3>1. k \in 1..Len(s)
      BY <1>1, <1>3, <2>3
    <3>2. s[j] < s[k]
      BY <1>1, <1>5, <2>1, <3>1 DEF Rising
    <3> QED
      BY <1>2, <2>1, <3>1, <3>2
  <2> QED
    BY <2>2, <2>3
<1>6. Rising(t)
  BY <1>5 DEF Rising
<1> QED
  BY <1>2, <1>6 DEF t

\* What an answer adds keeps the log rising, whatever the answer repeats.
LEMMA ShownRises ==
  ASSUME NEW numbers \in Seq(Number), shown \in Seq(Number), Rising(shown)
  PROVE  WithNew(numbers) \in Seq(Number) /\ Rising(WithNew(numbers))
<1> DEFINE L == Len(numbers)
           D == {s \in Seq(Number) : Rising(s)}
           next(i, s) == IF numbers[i] > LastOf(s) THEN Append(s, numbers[i]) ELSE s
           h == [p \in (1..L) \X D |-> next(p[1], p[2])]
           Text(f) == f = [i \in 0..L |-> IF i = 0 THEN shown ELSE next(i, f[i - 1])]
<1>1. L \in Nat /\ shown \in D /\ \A i \in 1..L : numbers[i] \in Number
  BY LenProperties, ElementOfSeq
<1>2. ASSUME NEW i \in 1..L, NEW s \in D PROVE next(i, s) \in D
  <2>1. CASE numbers[i] > LastOf(s)
    <3>1. numbers[i] \in Number /\ s \in Seq(Number) /\ Rising(s)
      BY <1>1
    <3> HIDE DEF D
    <3>2. Append(s, numbers[i]) \in Seq(Number) /\ Rising(Append(s, numbers[i]))
      BY <2>1, <3>1, AppendRises
    <3> QED
      BY <2>1, <3>2 DEF D
  <2>2. CASE ~(numbers[i] > LastOf(s))
    BY <2>2
  <2> QED
    BY <2>1, <2>2
<1>3. h \in Steps(L, D)
  <2> HIDE DEF next, D
  <2> QED
    BY <1>2 DEF Steps
<1>4. \A i \in 1..L : \A s \in D : h[<<i, s>>] = next(i, s)
  <2> HIDE DEF next, D
  <2> QED
    OBVIOUS
<1>5. PICK f \in [0..L -> D] : f[0] = shown /\ \A i \in 1..L : f[i] = h[<<i, f[i - 1]>>]
  <2> HIDE DEF h, D, L
  <2>1. Defined(L, D, shown, h)
    BY <1>1, <1>3, Recursion
  <2> QED
    BY <2>1 DEF Defined
<1> HIDE DEF h
<1>6. Text(f)
  <2> HIDE DEF next, D
  <2>1. ASSUME NEW i \in 1..L PROVE i - 1 \in 0..L /\ f[i] = next(i, f[i - 1])
    <3>1. i - 1 \in 0..L
      BY <1>1
    <3>2. f[i - 1] \in D
      BY <1>5, <3>1
    <3> QED
      BY <1>4, <1>5, <3>1, <3>2
  <2>2. \A i \in 0..L : f[i] = IF i = 0 THEN shown ELSE next(i, f[i - 1])
    BY <1>1, <1>5, <2>1
  <2> QED
    BY <1>5, <2>2
<1>7. WithNew(numbers) = (CHOOSE g : Text(g))[L]
  BY DEF WithNew
<1> DEFINE g == CHOOSE g : Text(g)
<1>8. Text(g)
  BY <1>6
<1> HIDE DEF g
<1>9. \A i \in 0..L : g[i] \in D
  <2> DEFINE T == {i \in 0..L : g[i] \notin D}
  <2>1. SUFFICES ASSUME T # {} PROVE FALSE
    OBVIOUS
  <2>2. PICK i \in T : \A j \in T : i <= j
    <3>1. T \subseteq Nat
      OBVIOUS
    <3> HIDE DEF T
    <3> QED
      BY <2>1, <3>1, LeastNumber
  <2> HIDE DEF next, D
  <2>3. i # 0
    BY <1>1, <1>8, <2>2
  <2>4. i \in 1..L /\ i - 1 \in 0..L /\ i - 1 \notin T
    BY <1>1, <2>2, <2>3
  <2>5. g[i - 1] \in D /\ g[i] = next(i, g[i - 1])
    BY <1>8, <2>3, <2>4
  <2> QED
    BY <1>2, <2>2, <2>4, <2>5
<1>10. WithNew(numbers) = g[L] /\ L \in 0..L
  BY <1>1, <1>7 DEF g
<1> QED
  BY <1>9, <1>10

-----------------------------------------------------------------------------
(* Types.                                                                   *)

\* What the station answers to a poll is a page of the job's events.
LEMMA AnswerTyped ==
  ASSUME TypeOK, NEW r \in polls
  PROVE  Answer(r) \in Seq(Number)
<1>1. r.after \in 0..MaxEvents /\ events[r.job] \in 0..MaxEvents /\ MaxEvents \in Nat /\ PageSize \in Nat
  BY TuiAssumption DEF TypeOK
<1> DEFINE last == IF events[r.job] > r.after + PageSize THEN r.after + PageSize ELSE events[r.job]
           n == IF last > r.after THEN last - r.after ELSE 0
<1>2. n \in Nat /\ \A i \in 1..n : r.after + i \in Number
  BY <1>1 DEF Number
<1> HIDE DEF n
<1>3. [i \in 1..n |-> r.after + i] \in Seq(Number)
  BY <1>2, SeqDef
<1> QED
  BY <1>3 DEF n, Answer

Asking == [op : {"submit", "reconcile"}, key : Key, answer : {"none", "yes", "no"}]

\* A call that waits for the station names a key, and goes on naming it when it is answered.
LEMMA CallTyped ==
  ASSUME TypeOK, call.op \in {"submit", "reconcile"}, NEW a \in {"none", "yes", "no"}
  PROVE  call \in Asking /\ [call EXCEPT !.answer = a] \in Asking
<1>1. call \in Asking
  BY DEF TypeOK, Idle, Asking
<1> QED
  BY <1>1 DEF Asking

\* An empty list is a list, and a list names boards only.
LEMMA ListTyped == <<>> \in Lists /\ \A list \in Lists : \A i \in DOMAIN list : list[i] \in Target
<1>1. Cardinality(Target) \in Nat
  BY TuiAssumption, FS_CardinalityType
<1>2. <<>> \in [1..0 -> Target] /\ IsInjective(<<>>)
  BY DEF IsInjective
<1> QED
  BY <1>1, <1>2 DEF Lists, SeqOf

\* The last event shown is one of the job's, or none.
LEMMA LastTyped ==
  ASSUME TypeOK
  PROVE  after \in 0..MaxEvents
<1>1. MaxEvents \in Nat /\ shown \in Seq(1..MaxEvents)
  BY TuiAssumption DEF TypeOK
<1>2. shown # <<>> => Len(shown) \in 1..Len(shown)
  BY <1>1, LenProperties, EmptySeq
<1>3. shown # <<>> => shown[Len(shown)] \in 1..MaxEvents
  BY <1>1, <1>2, ElementOfSeq
<1> QED
  BY <1>1, <1>3 DEF after, LastOf

\* Nothing shown is in order.
LEMMA EmptyLog == <<>> \in Seq(1..MaxEvents) /\ Rising(<<>>)
  BY DEF Rising

LogInv == TypeOK /\ Rising(shown)

LEMMA LogInvNext == LogInv /\ [Next]_vars => LogInv'
<1> SUFFICES ASSUME LogInv, [Next]_vars PROVE LogInv'
  OBVIOUS
<1>1. ASSUME NEW u \in Server, EditServer(u) PROVE LogInv'
  BY <1>1, ListTyped DEF EditServer, LogInv, TypeOK, Rising, form, request, log, station
<1>2. ASSUME NEW u \in Server, DiscoveryFails(u) PROVE LogInv'
  BY <1>2 DEF DiscoveryFails, LogInv, TypeOK, Rising, form, request, log, station
<1>3. ASSUME NEW u \in Server, NEW list \in Lists, TargetsArrive(u, list) PROVE LogInv'
  BY <1>3 DEF TargetsArrive, LogInv, TypeOK, Rising, form, request, log, station
<1>4. ASSUME NEW t \in Target \cup {None}, TypePhrase(t) PROVE LogInv'
  BY <1>4 DEF TypePhrase, LogInv, TypeOK, Rising, form, request, log, station
<1>5. ASSUME NEW i \in 1..Cardinality(Target), MoveTarget(i) PROVE LogInv'
  BY <1>5 DEF MoveTarget, LogInv, TypeOK, Rising, form, request, log, station
<1>6. CASE Discover
  BY <1>6 DEF Discover, LogInv, TypeOK, Rising, form, request, log, station
<1>7. CASE Prepare
  <2>1. targets[index] \in Target /\ made + 1 \in Key
    BY <1>7, ListTyped, TuiAssumption DEF Prepare, LogInv, TypeOK, Key
  <2> QED
    BY <1>7, <2>1, TuiAssumption DEF Prepare, LogInv, TypeOK, Key, Rising, form, log,
       station
<1>8. CASE Escape
  BY <1>8 DEF Escape, Discardable, LogInv, TypeOK, Rising, form, request, log, station
<1>9. CASE Submit
  BY <1>9 DEF Submit, LogInv, TypeOK, Rising, form, request, log, station
<1>10. CASE Reconcile
  BY <1>10 DEF Reconcile, LogInv, TypeOK, Rising, form, request, log, station
<1>11. CASE OtherCall
  BY <1>11 DEF OtherCall, LogInv, TypeOK, Rising, form, request, log, station
<1>12. CASE OtherAnswered
  BY <1>12 DEF OtherAnswered, LogInv, TypeOK, Rising, form, request, log, station
<1>13. CASE StationAccepts
  <2>1. LogInv /\ call.op \in {"submit", "reconcile"}
    BY <1>13 DEF StationAccepts, Asked
  <2>2. \A a \in {"none", "yes", "no"} : [call EXCEPT !.answer = a] \in Asking
    BY <2>1, CallTyped DEF LogInv
  <2>3. call' \in Asking
    BY <1>13, <2>2 DEF StationAccepts, Reply
  <2>4. call \in Asking
    BY <2>1, CallTyped DEF LogInv
  <2> QED
    BY <1>13, <2>3, <2>4 DEF StationAccepts, LogInv, TypeOK, Asking, Rising, form,
       request, log, station
<1>14. CASE StationRefuses
  <2>1. LogInv /\ call.op \in {"submit", "reconcile"}
    BY <1>14 DEF StationRefuses, Asked
  <2>2. \A a \in {"none", "yes", "no"} : [call EXCEPT !.answer = a] \in Asking
    BY <2>1, CallTyped DEF LogInv
  <2>3. call' \in Asking
    BY <1>14, <2>2 DEF StationRefuses, Reply
  <2>4. call \in Asking
    BY <2>1, CallTyped DEF LogInv
  <2> QED
    BY <1>14, <2>3, <2>4 DEF StationRefuses, LogInv, TypeOK, Asking, Rising, form,
       request, log, station
<1>15. CASE StationLooksUp
  <2>1. LogInv /\ call.op \in {"submit", "reconcile"}
    BY <1>15 DEF StationLooksUp, Asked
  <2>2. \A a \in {"none", "yes", "no"} : [call EXCEPT !.answer = a] \in Asking
    BY <2>1, CallTyped DEF LogInv
  <2>3. call' \in Asking
    BY <1>15, <2>2 DEF StationLooksUp, Reply
  <2>4. call \in Asking
    BY <2>1, CallTyped DEF LogInv
  <2> QED
    BY <1>15, <2>3, <2>4 DEF StationLooksUp, LogInv, TypeOK, Asking, Rising, form,
       request, log, station
<1>16. CASE Lost
  <2>1. LogInv /\ call.op \in {"submit", "reconcile"}
    BY <1>16 DEF Lost, Asked
  <2>2. \A a \in {"none", "yes", "no"} : [call EXCEPT !.answer = a] \in Asking
    BY <2>1, CallTyped DEF LogInv
  <2>3. call' \in Asking
    BY <1>16, <2>2 DEF Lost, Reply
  <2>4. call \in Asking
    BY <2>1, CallTyped DEF LogInv
  <2> QED
    BY <1>16, <2>3, <2>4 DEF Lost, LogInv, TypeOK, Asking, Rising, form, request, log,
       station
<1>17. ASSUME NEW k \in Key, StrayArrives(k) PROVE LogInv'
  BY <1>17 DEF StrayArrives, LogInv, TypeOK, Rising, form, request, log, station
<1>18. ASSUME NEW k \in Key, Expire(k) PROVE LogInv'
  BY <1>18 DEF Expire, LogInv, TypeOK, Rising, form, request, log, station
<1>19. ASSUME NEW k \in Key, Emit(k) PROVE LogInv'
  BY <1>19, TuiAssumption DEF Emit, LogInv, TypeOK, Rising, form, request, log, station
<1>20. ASSUME NEW k \in Key, SelectJob(k) PROVE LogInv'
  <2>1. 0 \in 0..MaxEvents
    BY TuiAssumption
  <2>2. shown' = <<>> /\ polls' = polls \cup {[job |-> k, after |-> 0]} /\ selected' = k
    BY <1>20 DEF SelectJob, Show, Poll
  <2> QED
    BY <1>20, <2>1, <2>2, EmptyLog DEF SelectJob, LogInv, TypeOK, Rising, form, request,
       station
<1>21. CASE Answered
  <2>1. call.key \in Key
    BY <1>21, CallTyped DEF Answered, LogInv, Asking
  <2>2. 0 \in 0..MaxEvents
    BY TuiAssumption
  <2>3. shown' = <<>> /\ polls' = polls \cup {[job |-> call.key, after |-> 0]} /\ selected' = call.key
    BY <1>21 DEF Answered, Show, Poll
  <2> QED
    <3>1. shown' \in Seq(1..MaxEvents) /\ Rising(shown)' /\ polls' \subseteq [job : Key, after : 0..MaxEvents]
      BY <2>1, <2>2, <2>3, EmptyLog DEF LogInv, TypeOK, Rising
    <3>2. told' \subseteq Key /\ selected' \in Key
      BY <1>21, <2>1, <2>3 DEF Answered, LogInv, TypeOK
    <3> QED
      BY <1>21, <3>1, <3>2 DEF Answered, LogInv, TypeOK, station
<1>22. CASE Unanswered
  BY <1>22 DEF Unanswered, LogInv, TypeOK, Rising, form, request, log, station
<1>23. ASSUME NEW t \in {"form", "jobs"}, Tab(t) PROVE LogInv'
  BY <1>23 DEF Tab, LogInv, TypeOK, Rising, form, request, log, station
<1>24. CASE Tick
  <2>1. polls' = polls \cup {[job |-> selected, after |-> after]} /\ selected \in Key
    BY <1>24 DEF Tick, Poll, LogInv, TypeOK
  <2>2. after \in 0..MaxEvents
    BY LastTyped DEF LogInv
  <2> QED
    BY <1>24, <2>1, <2>2 DEF Tick, LogInv, TypeOK, Rising, form, request, station
<1>25. ASSUME NEW r \in polls, LogsArrive(r) PROVE LogInv'
  <2>1. shown' \in Seq(Number) /\ Rising(shown)'
    <3>1. CASE r.job = selected /\ r.job \notin expired
      <4> DEFINE a == Answer(r)
      <4>1. a \in Seq(Number) /\ shown \in Seq(Number) /\ Rising(shown)
        BY AnswerTyped DEF LogInv, TypeOK, Number
      <4>2. shown' = WithNew(a)
        BY <1>25, <3>1 DEF LogsArrive
      <4> HIDE DEF a
      <4>3. WithNew(a) \in Seq(Number) /\ Rising(WithNew(a))
        BY <4>1, ShownRises
      <4> QED
        BY <4>2, <4>3 DEF Rising
    <3>2. CASE ~(r.job = selected /\ r.job \notin expired)
      BY <1>25, <3>2 DEF LogsArrive, LogInv, TypeOK, Number, Rising
    <3> QED
      BY <3>1, <3>2
  <2> QED
    BY <1>25, <2>1 DEF LogsArrive, LogInv, TypeOK, Number, form, request, station
<1>26. ASSUME NEW r \in polls, LogsFail(r) PROVE LogInv'
  BY <1>26 DEF LogsFail, LogInv, TypeOK, Rising, form, request, log, station
<1>27. CASE UNCHANGED vars
  BY <1>27 DEF vars, LogInv, TypeOK, Rising, form, request, log, station
<1>. QED
  BY <1>1, <1>2, <1>3, <1>4, <1>5, <1>6, <1>7, <1>8, <1>9, <1>10, <1>11, <1>12, <1>13,
     <1>14, <1>15, <1>16, <1>17, <1>18, <1>19, <1>20, <1>21, <1>22, <1>23, <1>24, <1>25,
     <1>26, <1>27 DEF Next

LEMMA LogInvInit == Init => LogInv
<1> SUFFICES ASSUME Init PROVE LogInv
  OBVIOUS
<1>1. 0 \in 0..MaxKeys /\ \A k \in Key : 0 \in 0..MaxEvents
  BY TuiAssumption
<1> QED
  BY <1>1, ListTyped, EmptyLog DEF Init, LogInv, TypeOK, Idle

\* The variables of the client and of the station it talks to keep their types.
THEOREM TuiTyped == Spec => []TypeOK
<1>1. LogInv => TypeOK
  BY DEF LogInv
<1> QED
  BY <1>1, LogInvInit, LogInvNext, PTL DEF Spec

\* The log on the screen never repeats an event and never steps back, whatever answer comes late,
\* twice or for a job left and selected again (logsMsg, and the position it polls from).
THEOREM LogStaysInOrder == Spec => []LogInOrder
<1>1. LogInv => LogInOrder
  BY DEF LogInv, Rising, LogInOrder
<1> QED
  BY <1>1, LogInvInit, LogInvNext, PTL DEF Spec

-----------------------------------------------------------------------------
(* The board that is confirmed.                                             *)

\* A list that is on the screen was discovered on the server in the form, and a confirmation that
\* is still there was typed with that server in the form.
ScreenInv ==
  /\ ConfirmedTarget
  /\ targets # <<>> => found = server
  /\ phrase # None => agreed = [server |-> server, target |-> phrase]

LEMMA ScreenInvNext ==
  TypeOK /\ ScreenInv /\ [Next]_vars => ScreenInv'
<1> SUFFICES ASSUME TypeOK, ScreenInv, [Next]_vars PROVE ScreenInv'
  OBVIOUS
<1>1. ASSUME NEW u \in Server, EditServer(u) PROVE ScreenInv'
  BY <1>1 DEF EditServer, ScreenInv, ConfirmedTarget, form, request, log, station
<1>2. ASSUME NEW u \in Server, DiscoveryFails(u) PROVE ScreenInv'
  BY <1>2 DEF DiscoveryFails, ScreenInv, ConfirmedTarget, form, request, log, station
<1>3. ASSUME NEW u \in Server, NEW list \in Lists, TargetsArrive(u, list) PROVE ScreenInv'
  BY <1>3 DEF TargetsArrive, ScreenInv, ConfirmedTarget, form, request, log, station,
     Current
<1>4. ASSUME NEW t \in Target \cup {None}, TypePhrase(t) PROVE ScreenInv'
  BY <1>4 DEF TypePhrase, ScreenInv, ConfirmedTarget, form, request, log, station
<1>5. ASSUME NEW i \in 1..Cardinality(Target), MoveTarget(i) PROVE ScreenInv'
  BY <1>5 DEF MoveTarget, ScreenInv, ConfirmedTarget, form, request, log, station
<1>6. CASE Discover
  BY <1>6 DEF Discover, ScreenInv, ConfirmedTarget, form, request, log, station
<1>7. CASE Prepare
  <2>1. targets # <<>> /\ targets[index] \in Target /\ targets[index] # None
    BY <1>7, ListTyped, TuiAssumption DEF Prepare, TypeOK
  <2>2. agreed = [server |-> server, target |-> targets[index]]
    BY <1>7, <2>1 DEF Prepare, Authorized, ScreenInv
  <2> QED
    BY <1>7, <2>1, <2>2 DEF Prepare, ScreenInv, ConfirmedTarget, form
<1>8. CASE Escape
  BY <1>8 DEF Escape, Discardable, ScreenInv, ConfirmedTarget, form, request, log, station
<1>9. CASE Submit
  BY <1>9 DEF Submit, ScreenInv, ConfirmedTarget, form, request, log, station
<1>10. CASE Reconcile
  BY <1>10 DEF Reconcile, ScreenInv, ConfirmedTarget, form, request, log, station
<1>11. CASE OtherCall
  BY <1>11 DEF OtherCall, ScreenInv, ConfirmedTarget, form, request, log, station
<1>12. CASE OtherAnswered
  BY <1>12 DEF OtherAnswered, ScreenInv, ConfirmedTarget, form, request, log, station
<1>13. CASE StationAccepts
  BY <1>13 DEF StationAccepts, Asked, Reply, ScreenInv, ConfirmedTarget, form, request,
     log, station
<1>14. CASE StationRefuses
  BY <1>14 DEF StationRefuses, Asked, Reply, ScreenInv, ConfirmedTarget, form, request,
     log, station
<1>15. CASE StationLooksUp
  BY <1>15 DEF StationLooksUp, Asked, Reply, ScreenInv, ConfirmedTarget, form, request,
     log, station
<1>16. CASE Lost
  BY <1>16 DEF Lost, Asked, Reply, ScreenInv, ConfirmedTarget, form, request, log, station
<1>17. ASSUME NEW k \in Key, StrayArrives(k) PROVE ScreenInv'
  BY <1>17 DEF StrayArrives, ScreenInv, ConfirmedTarget, form, request, log, station
<1>18. ASSUME NEW k \in Key, Expire(k) PROVE ScreenInv'
  BY <1>18 DEF Expire, ScreenInv, ConfirmedTarget, form, request, log, station
<1>19. ASSUME NEW k \in Key, Emit(k) PROVE ScreenInv'
  BY <1>19 DEF Emit, ScreenInv, ConfirmedTarget, form, request, log, station
<1>20. ASSUME NEW k \in Key, SelectJob(k) PROVE ScreenInv'
  BY <1>20 DEF SelectJob, Show, Poll, ScreenInv, ConfirmedTarget, form, request, log,
     station
<1>21. CASE Answered
  BY <1>21 DEF Answered, Show, Poll, ScreenInv, ConfirmedTarget, form, request, log, station
<1>22. CASE Unanswered
  BY <1>22 DEF Unanswered, ScreenInv, ConfirmedTarget, form, request, log, station
<1>23. ASSUME NEW t \in {"form", "jobs"}, Tab(t) PROVE ScreenInv'
  BY <1>23 DEF Tab, ScreenInv, ConfirmedTarget, form, request, log, station
<1>24. CASE Tick
  BY <1>24 DEF Tick, Poll, ScreenInv, ConfirmedTarget, form, request, log, station
<1>25. ASSUME NEW r \in polls, LogsArrive(r) PROVE ScreenInv'
  BY <1>25 DEF LogsArrive, ScreenInv, ConfirmedTarget, form, request, log, station
<1>26. ASSUME NEW r \in polls, LogsFail(r) PROVE ScreenInv'
  BY <1>26 DEF LogsFail, ScreenInv, ConfirmedTarget, form, request, log, station
<1>27. CASE UNCHANGED vars
  BY <1>27 DEF vars, ScreenInv, ConfirmedTarget, form, request, log, station
<1>. QED
  BY <1>1, <1>2, <1>3, <1>4, <1>5, <1>6, <1>7, <1>8, <1>9, <1>10, <1>11, <1>12, <1>13,
     <1>14,
     <1>15, <1>16, <1>17, <1>18, <1>19, <1>20, <1>21, <1>22, <1>23, <1>24, <1>25, <1>26, <1>27 DEF
     Next

\* A frozen request resets a board that was discovered on the server the request goes to, and that
\* the last confirmation named with that server in the form, however edits of the server, moves
\* through the list and late discoveries interleave (updateField, targetsMsg, prepareRequest).
THEOREM TargetStaysConfirmed == Spec => []ConfirmedTarget
<1>1. Init => ScreenInv
  BY DEF Init, ScreenInv, ConfirmedTarget
<1>2. ScreenInv => ConfirmedTarget
  BY DEF ScreenInv
<1> QED
  BY <1>1, <1>2, ScreenInvNext, TuiTyped, PTL DEF Spec

-----------------------------------------------------------------------------
(* The request that is retained.                                            *)

Retained(k) == pending # None /\ pending.key = k

\* What the user was not told of is the retained request, and that was attempted; a call in flight
\* is about the retained request, and only a lookup outlives a request that is discarded.
RequestInv ==
  /\ \A k \in accepted \cup stray : k \in told \/ (Retained(k) /\ attempted)
  /\ call.op \in {"submit", "reconcile"} => pending = None \/ pending.key = call.key
  /\ call.op = "submit" => Retained(call.key) /\ attempted

LEMMA RequestInvNext ==
  RequestInv /\ LogInv /\ [Next]_vars => RequestInv'
<1> SUFFICES ASSUME RequestInv, LogInv, [Next]_vars PROVE RequestInv'
  OBVIOUS
<1>1. ASSUME NEW u \in Server, EditServer(u) PROVE RequestInv'
  BY <1>1 DEF EditServer, RequestInv, Retained, form, request, log, station
<1>2. ASSUME NEW u \in Server, DiscoveryFails(u) PROVE RequestInv'
  BY <1>2 DEF DiscoveryFails, RequestInv, Retained, form, request, log, station
<1>3. ASSUME NEW u \in Server, NEW list \in Lists, TargetsArrive(u, list) PROVE RequestInv'
  BY <1>3 DEF TargetsArrive, RequestInv, Retained, form, request, log, station
<1>4. ASSUME NEW t \in Target \cup {None}, TypePhrase(t) PROVE RequestInv'
  BY <1>4 DEF TypePhrase, RequestInv, Retained, form, request, log, station
<1>5. ASSUME NEW i \in 1..Cardinality(Target), MoveTarget(i) PROVE RequestInv'
  BY <1>5 DEF MoveTarget, RequestInv, Retained, form, request, log, station
<1>6. CASE Discover
  BY <1>6 DEF Discover, RequestInv, Retained, form, request, log, station
<1>7. CASE Prepare
  BY <1>7 DEF Prepare, RequestInv, Retained, form, request, log, station, Busy, Idle
<1>8. CASE Escape
  BY <1>8 DEF Escape, Discardable, RequestInv, Retained, form, request, log, station
<1>9. CASE Submit
  BY <1>9 DEF Submit, RequestInv, Retained, form, request, log, station, Busy, Idle
<1>10. CASE Reconcile
  BY <1>10 DEF Reconcile, RequestInv, Retained, form, request, log, station, Busy, Idle
<1>11. CASE OtherCall
  BY <1>11 DEF OtherCall, RequestInv, Retained, form, request, log, station, Busy, Idle
<1>12. CASE OtherAnswered
  BY <1>12 DEF OtherAnswered, RequestInv, Retained, form, request, log, station, Idle
<1>13. CASE StationAccepts
  BY <1>13 DEF StationAccepts, Asked, Reply, RequestInv, Retained, form, request, log,
     station
<1>14. CASE StationRefuses
  BY <1>14 DEF StationRefuses, Asked, Reply, RequestInv, Retained, form, request, log,
     station
<1>15. CASE StationLooksUp
  BY <1>15 DEF StationLooksUp, Asked, Reply, RequestInv, Retained, form, request, log,
     station
<1>16. CASE Lost
  BY <1>16 DEF Lost, Asked, Reply, RequestInv, Retained, form, request, log, station
<1>17. ASSUME NEW k \in Key, StrayArrives(k) PROVE RequestInv'
  BY <1>17 DEF StrayArrives, RequestInv, Retained, form, request, log, station
<1>18. ASSUME NEW k \in Key, Expire(k) PROVE RequestInv'
  BY <1>18 DEF Expire, RequestInv, Retained, form, request, log, station
<1>19. ASSUME NEW k \in Key, Emit(k) PROVE RequestInv'
  BY <1>19 DEF Emit, RequestInv, Retained, form, request, log, station
<1>20. ASSUME NEW k \in Key, SelectJob(k) PROVE RequestInv'
  BY <1>20 DEF SelectJob, Show, Poll, RequestInv, Retained, form, request, log, station
<1>21. CASE Answered
  BY <1>21 DEF Answered, Show, Poll, RequestInv, Retained, form, request, log, station, Idle
<1>22. CASE Unanswered
  BY <1>22 DEF Unanswered, RequestInv, Retained, form, request, log, station, Idle
<1>23. ASSUME NEW t \in {"form", "jobs"}, Tab(t) PROVE RequestInv'
  BY <1>23 DEF Tab, RequestInv, Retained, form, request, log, station
<1>24. CASE Tick
  BY <1>24 DEF Tick, Poll, RequestInv, Retained, form, request, log, station
<1>25. ASSUME NEW r \in polls, LogsArrive(r) PROVE RequestInv'
  BY <1>25 DEF LogsArrive, RequestInv, Retained, form, request, log, station
<1>26. ASSUME NEW r \in polls, LogsFail(r) PROVE RequestInv'
  BY <1>26 DEF LogsFail, RequestInv, Retained, form, request, log, station
<1>27. CASE UNCHANGED vars
  BY <1>27 DEF vars, RequestInv, Retained, form, request, log, station
<1>. QED
  BY <1>1, <1>2, <1>3, <1>4, <1>5, <1>6, <1>7, <1>8, <1>9, <1>10, <1>11, <1>12, <1>13,
     <1>14,
     <1>15, <1>16, <1>17, <1>18, <1>19, <1>20, <1>21, <1>22, <1>23, <1>24, <1>25, <1>26, <1>27 DEF
     Next

\* No submission the station accepted, or may yet receive, is out of the user's sight: it is the
\* request that is retained, or its job was shown (submittedMsg, reconciledMsg, Escape).
THEOREM NothingIsForgotten == Spec => []NothingForgotten
<1>1. Init => RequestInv
  BY DEF Init, RequestInv, Idle
<1>2. RequestInv => NothingForgotten
  BY DEF RequestInv, Retained, NothingForgotten
<1> QED
  BY <1>1, <1>2, LogInvInit, LogInvNext, RequestInvNext, PTL DEF Spec
=============================================================================
