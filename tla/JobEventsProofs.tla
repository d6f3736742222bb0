--------------------------- MODULE JobEventsProofs ---------------------------
(***************************************************************************)
(* The event log of a job for any readers, channels, limits and faults of  *)
(* the disk: what a stream shows is the log, its last word is the outcome, *)
(* and its numbers grow and never name two events.                         *)
(***************************************************************************)
EXTENDS JobEvents, FiniteSetTheorems, SequenceTheorems, WellFoundedInduction, TLAPS

-----------------------------------------------------------------------------
(* Induction over a sequence.                                               *)

\* A set of numbers that is not empty has a least one.
LEMMA LeastNumber ==
  ASSUME NEW T, T \subseteq Nat, T # {}
  PROVE  \E n \in T : \A m \in T : n <= m
<1>1. PICK k \in T : TRUE
  OBVIOUS
<1> DEFINE Down == {0..n : n \in {m \in T : m <= k}}
<1>2. IsFiniteSet(0..k)
  BY <1>1, FS_Interval
<1>3. IsWellFoundedOn(StrictSubsetOrdering(0..k), SUBSET (0..k))
  BY <1>2, FS_StrictSubsetOrderingWellFounded, FS_FiniteSubsetsOfFinite
<1>4. Down \subseteq SUBSET (0..k) /\ 0..k \in Down
  BY <1>1
<1>5. \A x \in Down : \E n \in T : n <= k /\ x = 0..n
  OBVIOUS
<1>6. \A m \in T : m <= k => 0..m \in Down
  OBVIOUS
<1> HIDE DEF Down
<1>7. PICK x \in Down : \A y \in Down : ~(<<y, x>> \in StrictSubsetOrdering(0..k))
  BY <1>3, <1>4, WFMin
<1>8. PICK n \in T : n <= k /\ x = 0..n
  BY <1>5
<1>9. ASSUME NEW m \in T, m < n PROVE FALSE
  <2>1. 0..m \in Down
    BY <1>1, <1>6, <1>8, <1>9
  <2>2. n \in 0..n /\ n \notin 0..m /\ 0..m \subseteq 0..n
    BY <1>8, <1>9
  <2> QED
    BY <1>4, <1>7, <1>8, <2>1, <2>2 DEF StrictSubsetOrdering
<1> QED
  BY <1>8, <1>9

Steps(n, D) == [(1..n) \X D -> D]
Defined(n, D, b, h) ==
  \E f \in [0..n -> D] : f[0] = b /\ \A i \in 1..n : f[i] = h[<<i, f[i - 1]>>]

\* A function on 0..n may be defined by its first value and the step from one to the next.
LEMMA Recursion ==
  ASSUME NEW n \in Nat, NEW D, NEW b \in D, NEW h \in Steps(n, D)
  PROVE  Defined(n, D, b, h)
<1> DEFINE Solves(f, m) == f[0] = b /\ \A i \in 1..m : f[i] = h[<<i, f[i - 1]>>]
           T == {m \in 0..n : ~ \E f \in [0..m -> D] : Solves(f, m)}
<1>1. SUFFICES ASSUME T # {} PROVE FALSE
  BY DEF Defined
<1>2. PICK m \in T : \A k \in T : m <= k
  <2>1. T \subseteq Nat
    OBVIOUS
  <2> HIDE DEF T
  <2> QED
    BY <1>1, <2>1, LeastNumber
<1>3. CASE m = 0
  <2>1. [i \in 0..0 |-> b] \in [0..0 -> D] /\ Solves([i \in 0..0 |-> b], 0)
    OBVIOUS
  <2> QED
    BY <1>2, <1>3, <2>1
<1>4. CASE m # 0
  <2>1. m - 1 \in 0..n /\ m - 1 \notin T
    <3>1. m \in 0..n
      BY <1>2
    <3> HIDE DEF T
    <3> QED
      BY <1>2, <1>4, <3>1
  <2>2. PICK f \in [0..(m - 1) -> D] : Solves(f, m - 1)
    BY <2>1
  <2> DEFINE g == [i \in 0..m |-> IF i = m THEN h[<<m, f[m - 1]>>] ELSE f[i]]
  <2>3. m \in 1..n /\ f[m - 1] \in D /\ h[<<m, f[m - 1]>>] \in D
    BY <1>2, <1>4, <2>2 DEF Steps
  <2>4. g \in [0..m -> D] /\ g[0] = b
    BY <2>2, <2>3
  <2>5. ASSUME NEW i \in 1..m PROVE g[i] = h[<<i, g[i - 1]>>]
    <3>1. CASE i = m
      <4>1. m - 1 \in 0..m /\ m - 1 # m /\ m \in 0..m
        BY <2>3
      <4>2. g[m - 1] = f[m - 1] /\ g[m] = h[<<m, f[m - 1]>>]
        BY <4>1
      <4> HIDE DEF g
      <4> QED
        BY <3>1, <4>2
    <3>2. CASE i # m
      <4>1. i \in 1..(m - 1) /\ i - 1 \in 0..m /\ i - 1 # m /\ i \in 0..m
        BY <2>3, <3>2
      <4> QED
        BY <2>2, <3>2, <4>1
    <3> QED
      BY <3>1, <3>2
  <2> QED
    BY <1>2, <2>4, <2>5
<1> QED
  BY <1>3, <1>4

\* What holds of the empty sequence and of every longer one holds of all.
LEMMA SeqInduction ==
  ASSUME NEW D, NEW T, T \subseteq Seq(D), <<>> \in T,
         \A s \in T : \A e \in D : Append(s, e) \in T
  PROVE  \A s \in Seq(D) : s \in T
<1> DEFINE Bad == {n \in Nat : \E s \in Seq(D) : s \notin T /\ Len(s) = n}
<1>1. SUFFICES ASSUME Bad # {} PROVE FALSE
  BY LenProperties
<1>2. PICK n \in Bad : \A m \in Bad : n <= m
  <2>1. Bad \subseteq Nat
    OBVIOUS
  <2> HIDE DEF Bad
  <2> QED
    BY <1>1, <2>1, LeastNumber
<1>3. PICK s \in Seq(D) : s \notin T /\ Len(s) = n
  BY <1>2
<1>4. PICK t \in Seq(D), e \in D : s = Append(t, e)
  BY <1>3, SequenceEmptyOrAppend
<1>5. Len(t) \in Nat /\ Len(s) = Len(t) + 1
  BY <1>4, LenProperties, AppendProperties
<1>6. Len(t) \notin Bad
  <2>1. n \in Nat
    BY <1>2
  <2> HIDE DEF Bad
  <2> QED
    BY <1>2, <1>3, <1>5, <2>1
<1> QED
  BY <1>3, <1>4, <1>5, <1>6

-----------------------------------------------------------------------------
(* What lies beyond a number.                                               *)

Passes(e, n, out) == e.n > n /\ e.id \notin out
Picked(t, e, n, out) == IF Passes(e, n, out) THEN Append(t, e) ELSE t
Picks(f, s, n, out) ==
  /\ f \in [0..Len(s) -> Seq(Event)] /\ f[0] = <<>>
  /\ \A i \in 1..Len(s) : f[i] = Picked(f[i - 1], s[i], n, out)

LEMMA PickedTyped ==
  ASSUME NEW t \in Seq(Event), NEW e \in Event, NEW n, NEW out
  PROVE  Picked(t, e, n, out) \in Seq(Event)
BY AppendProperties DEF Picked

\* The events beyond a number are picked one by one.
LEMMA BeyondPicks ==
  ASSUME NEW s \in Seq(Event), NEW n \in Nat, NEW out
  PROVE  \E f : Picks(f, s, n, out) /\ Beyond(s, n, out) = f[Len(s)]
<1> DEFINE L == Len(s)
           D == Seq(Event)
           next(i, t) == Picked(t, s[i], n, out)
           h == [p \in (1..L) \X D |-> next(p[1], p[2])]
           Text(f) == f = [i \in 0..L |-> IF i = 0 THEN <<>>
                          ELSE IF s[i].n > n /\ s[i].id \notin out THEN Append(f[i - 1], s[i])
                               ELSE f[i - 1]]
<1>1. L \in Nat /\ <<>> \in D /\ \A i \in 1..L : s[i] \in Event
  BY LenProperties, ElementOfSeq, EmptySeq
<1>2. ASSUME NEW i \in 1..L, NEW t \in D PROVE next(i, t) \in D
  BY <1>1, PickedTyped
<1>3. h \in Steps(L, D)
  <2> HIDE DEF next, D
  <2> QED
    BY <1>2 DEF Steps
<1>4. \A i \in 1..L : \A t \in D : h[<<i, t>>] = next(i, t)
  <2> HIDE DEF next, D
  <2> QED
    OBVIOUS
<1>5. PICK f \in [0..L -> D] : f[0] = <<>> /\ \A i \in 1..L : f[i] = h[<<i, f[i - 1]>>]
  <2> HIDE DEF h, D, L
  <2>1. Defined(L, D, <<>>, h)
    BY <1>1, <1>3, Recursion
  <2> QED
    BY <2>1 DEF Defined
<1> HIDE DEF h
<1>6. Text(f)
  <2> HIDE DEF D
  <2>1. ASSUME NEW i \in 1..L PROVE i - 1 \in 0..L /\ f[i] = next(i, f[i - 1])
    <3>1. i - 1 \in 0..L
      BY <1>1
    <3>2. f[i - 1] \in D
      BY <1>5, <3>1
    <3> HIDE DEF next
    <3> QED
      BY <1>4, <1>5, <3>1, <3>2
  <2>2. \A i \in 0..L : f[i] = IF i = 0 THEN <<>>
                          ELSE IF s[i].n > n /\ s[i].id \notin out THEN Append(f[i - 1], s[i])
                               ELSE f[i - 1]
    <3>1. \A i \in 1..L : f[i] = Picked(f[i - 1], s[i], n, out)
      BY <2>1
    <3>2. \A i \in 0..L : i = 0 \/ i \in 1..L
      BY <1>1
    <3> QED
      BY <1>5, <3>1, <3>2 DEF Picked, Passes
  <2> QED
    BY <1>5, <2>2
<1>7. Beyond(s, n, out) = (CHOOSE g : Text(g))[L]
  BY DEF Beyond
<1> DEFINE g == CHOOSE k : Text(k)
<1>8. Text(g)
  BY <1>6
<1> HIDE DEF g
<1>9. \A i \in 1..L : g[i] = next(i, g[i - 1])
  <2>1. \A i \in 1..L : i \in 0..L /\ i # 0
    BY <1>1
  <2> HIDE DEF L
  <2> QED
    BY <1>8, <2>1 DEF Picked, Passes
<1>10. g[0] = <<>> /\ DOMAIN g = 0..L /\ g = [i \in 0..L |-> g[i]]
  BY <1>1, <1>8
<1>11. \A i \in 0..L : g[i] \in D
  <2> DEFINE T == {i \in 0..L : g[i] \notin D}
  <2>1. SUFFICES ASSUME T # {} PROVE FALSE
    OBVIOUS
  <2>2. PICK i \in T : \A j \in T : i <= j
    <3>1. T \subseteq Nat
      OBVIOUS
    <3> HIDE DEF T
    <3> QED
      BY <2>1, <3>1, LeastNumber
  <2> HIDE DEF next, D
  <2>3. i # 0
    BY <1>1, <1>10, <2>2
  <2>4. i \in 1..L /\ i - 1 \in 0..L /\ i - 1 \notin T
    BY <1>1, <2>2, <2>3
  <2>5. g[i - 1] \in D /\ g[i] = next(i, g[i - 1])
    BY <1>9, <2>4
  <2> QED
    BY <1>2, <2>2, <2>4, <2>5
<1>12. g \in [0..L -> D]
  <2> HIDE DEF D, L
  <2> QED
    BY <1>10, <1>11
<1>13. Picks(g, s, n, out)
  BY <1>9, <1>10, <1>12 DEF Picks
<1> QED
  BY <1>7, <1>13 DEF g

\* There is one way to pick them.
LEMMA PicksAgree ==
  ASSUME NEW s \in Seq(Event), NEW n, NEW out, NEW f, NEW g,
         Picks(f, s, n, out), Picks(g, s, n, out)
  PROVE  \A i \in 0..Len(s) : f[i] = g[i]
<1> DEFINE T == {i \in 0..Len(s) : f[i] # g[i]}
<1>1. SUFFICES ASSUME T # {} PROVE FALSE
  OBVIOUS
<1>2. PICK i \in T : \A j \in T : i <= j
  <2>1. T \subseteq Nat
    OBVIOUS
  <2> HIDE DEF T
  <2> QED
    BY <1>1, <2>1, LeastNumber
<1>3. Len(s) \in Nat
  BY LenProperties
<1>4. i # 0
  BY <1>2 DEF Picks
<1>5. i \in 1..Len(s) /\ i - 1 \in 0..Len(s) /\ i - 1 \notin T
  BY <1>2, <1>3, <1>4
<1>6. f[i - 1] = g[i - 1] /\ f[i] = Picked(f[i - 1], s[i], n, out) /\ g[i] = Picked(g[i - 1], s[i], n, out)
  BY <1>5 DEF Picks
<1> QED
  BY <1>2, <1>6

\* Of no event, none is picked.
LEMMA BeyondNothing ==
  ASSUME NEW n \in Nat, NEW out
  PROVE  Beyond(<<>>, n, out) = <<>>
<1>1. <<>> \in Seq(Event) /\ Len(<<>>) = 0
  BY EmptySeq
<1>2. PICK f : Picks(f, <<>>, n, out) /\ Beyond(<<>>, n, out) = f[Len(<<>>)]
  BY <1>1, BeyondPicks
<1> QED
  BY <1>1, <1>2 DEF Picks

\* An event added is picked last, or not at all.
LEMMA BeyondAppend ==
  ASSUME NEW s \in Seq(Event), NEW e \in Event, NEW n \in Nat, NEW out
  PROVE  Beyond(Append(s, e), n, out) = Picked(Beyond(s, n, out), e, n, out)
<1> DEFINE t == Append(s, e)
           L == Len(s)
<1>1. /\ L \in Nat /\ t \in Seq(Event) /\ Len(t) = L + 1 /\ t[L + 1] = e
      /\ \A i \in 1..L : t[i] = s[i]
  BY LenProperties, AppendProperties
<1>2. PICK f : Picks(f, s, n, out) /\ Beyond(s, n, out) = f[L]
  BY BeyondPicks
<1> HIDE DEF t
<1>3. PICK g : Picks(g, t, n, out) /\ Beyond(t, n, out) = g[Len(t)]
  BY <1>1, BeyondPicks
<1> DEFINE k == [i \in 0..L |-> g[i]]
<1>4. g \in [0..(L + 1) -> Seq(Event)] /\ g[0] = <<>> /\ \A i \in 1..(L + 1) : g[i] = Picked(g[i - 1], t[i], n, out)
  BY <1>1, <1>3 DEF Picks
<1>5. Picks(k, s, n, out)
  <2> HIDE DEF L
  <2>1. k \in [0..L -> Seq(Event)] /\ k[0] = <<>>
    BY <1>1, <1>4
  <2>2. ASSUME NEW i \in 1..L PROVE k[i] = Picked(k[i - 1], s[i], n, out)
    <3>1. i \in 0..L /\ i - 1 \in 0..L /\ i \in 1..(L + 1)
      BY <1>1
    <3>2. k[i] = g[i] /\ k[i - 1] = g[i - 1]
      BY <3>1
    <3> QED
      BY <1>1, <1>4, <3>1, <3>2
  <2> QED
    BY <2>1, <2>2 DEF Picks, L
<1>6. k[L] = f[L] /\ k[L] = g[L]
  BY <1>1, <1>2, <1>5, PicksAgree
<1>7. g[L + 1] = Picked(g[(L + 1) - 1], e, n, out) /\ (L + 1) - 1 = L
  BY <1>1, <1>4
<1> QED
  BY <1>1, <1>2, <1>3, <1>6, <1>7 DEF t

LEMMA BeyondTyped ==
  ASSUME NEW s \in Seq(Event), NEW n \in Nat, NEW out
  PROVE  Beyond(s, n, out) \in Seq(Event)
<1>1. PICK f : Picks(f, s, n, out) /\ Beyond(s, n, out) = f[Len(s)]
  BY BeyondPicks
<1>2. Len(s) \in 0..Len(s)
  BY LenProperties
<1> QED
  BY <1>1, <1>2 DEF Picks

LEMMA EventAt ==
  ASSUME NEW s \in Seq(Event), NEW i \in 1..Len(s)
  PROVE  s[i] \in Event /\ s[i].n \in Nat /\ s[i].id \in Nat
<1>1. s[i] \in Event
  BY ElementOfSeq
<1> QED
  BY <1>1 DEF Event

Comes(e, s) == \E i \in 1..Len(s) : s[i] = e

\* What an event added adds.
LEMMA AppendAt ==
  ASSUME NEW s \in Seq(Event), NEW e \in Event
  PROVE  /\ Append(s, e) \in Seq(Event) /\ Len(s) \in Nat /\ Len(Append(s, e)) = Len(s) + 1
         /\ Append(s, e)[Len(s) + 1] = e
         /\ \A i \in 1..Len(s) : Append(s, e)[i] = s[i] /\ i \in 1..Len(Append(s, e))
         /\ Len(s) + 1 \in 1..Len(Append(s, e))
         /\ \A i \in 1..Len(Append(s, e)) : i = Len(s) + 1 \/ i \in 1..Len(s)
<1>1. Len(s) \in Nat /\ Len(Append(s, e)) = Len(s) + 1
  BY LenProperties, AppendProperties
<1> QED
  BY <1>1, AppendProperties

LEMMA AppendComes ==
  ASSUME NEW s \in Seq(Event), NEW e \in Event, NEW x
  PROVE  Comes(x, Append(s, e)) <=> x = e \/ Comes(x, s)
<1>1. Comes(x, Append(s, e)) => x = e \/ Comes(x, s)
  BY AppendAt DEF Comes
<1>2. Comes(e, Append(s, e))
  BY AppendAt DEF Comes
<1>3. Comes(x, s) => Comes(x, Append(s, e))
  BY AppendAt DEF Comes
<1> QED
  BY <1>1, <1>2, <1>3

\* Only events of the sequence are picked, and only such as pass; every one of them is.
LEMMA BeyondComes ==
  ASSUME NEW s \in Seq(Event), NEW n \in Nat, NEW out
  PROVE  \A x : Comes(x, Beyond(s, n, out)) <=> Comes(x, s) /\ Passes(x, n, out)
<1> DEFINE B(t) == Beyond(t, n, out)
           T == {t \in Seq(Event) : \A x : Comes(x, B(t)) <=> Comes(x, t) /\ Passes(x, n, out)}
<1>1. <<>> \in T
  <2>1. B(<<>>) = <<>> /\ <<>> \in Seq(Event) /\ Len(<<>>) = 0
    BY BeyondNothing, EmptySeq
  <2>2. \A x : ~Comes(x, <<>>)
    BY <2>1 DEF Comes
  <2> QED
    BY <2>1, <2>2
<1>2. ASSUME NEW t \in T, NEW e \in Event PROVE Append(t, e) \in T
  <2>1. /\ t \in Seq(Event) /\ B(t) \in Seq(Event) /\ Append(t, e) \in Seq(Event)
        /\ B(Append(t, e)) = Picked(B(t), e, n, out)
    BY <1>2, BeyondTyped, BeyondAppend, AppendAt
  <2>2. \A x : Comes(x, B(t)) <=> Comes(x, t) /\ Passes(x, n, out)
    BY <1>2
  <2> HIDE DEF B, T
  <2>3. \A x : Comes(x, Append(t, e)) <=> x = e \/ Comes(x, t)
    BY <2>1, AppendComes
  <2>4. CASE Passes(e, n, out)
    <3>1. B(Append(t, e)) = Append(B(t), e)
      BY <2>1, <2>4 DEF Picked
    <3>2. \A x : Comes(x, B(Append(t, e))) <=> x = e \/ Comes(x, B(t))
      BY <2>1, <3>1, AppendComes
    <3> QED
      BY <2>1, <2>2, <2>3, <2>4, <3>2 DEF T
  <2>5. CASE ~Passes(e, n, out)
    <3>1. B(Append(t, e)) = B(t)
      BY <2>1, <2>5 DEF Picked
    <3> QED
      BY <2>1, <2>2, <2>3, <2>5, <3>1 DEF T
  <2> QED
    BY <2>4, <2>5
<1>3. T \subseteq Seq(Event)
  OBVIOUS
<1>4. s \in T
  <2> HIDE DEF T
  <2> QED
    BY <1>1, <1>2, <1>3, SeqInduction
<1> QED
  BY <1>4

Rising(s) == \A i, k \in 1..Len(s) : i < k /\ s[k].n > 0 => s[i].n < s[k].n
Below(s, m) == \A i \in 1..Len(s) : s[i].n < m
UpTo(s, m) == \A i \in 1..Len(s) : s[i].n <= m
NamedUpTo(s, m) == \A i \in 1..Len(s) : s[i].id <= m

\* What is numbered above all keeps a sequence rising, and what has no number does.
LEMMA AppendRises ==
  ASSUME NEW s \in Seq(Event), NEW e \in Event
  PROVE  Rising(Append(s, e)) <=> Rising(s) /\ (e.n > 0 => Below(s, e.n))
<1> DEFINE t == Append(s, e)
<1>1. /\ t \in Seq(Event) /\ Len(s) \in Nat /\ Len(t) = Len(s) + 1 /\ t[Len(s) + 1] = e
      /\ \A i \in 1..Len(s) : t[i] = s[i] /\ i \in 1..Len(t) /\ i < Len(s) + 1 /\ i \in Nat
      /\ Len(s) + 1 \in 1..Len(t)
      /\ \A i \in 1..Len(t) : i = Len(s) + 1 \/ i \in 1..Len(s)
  BY AppendAt
<1> HIDE DEF t
<1>2. Rising(t) => Rising(s)
  BY <1>1 DEF Rising
<1>3. Rising(t) /\ e.n > 0 => Below(s, e.n)
  BY <1>1 DEF Rising, Below
<1>4. ASSUME Rising(s), e.n > 0 => Below(s, e.n), NEW i \in 1..Len(t),
   NEW k \in 1..Len(t), i < k, t[k].n > 0
      PROVE  t[i].n < t[k].n
  <2>1. i \in 1..Len(s)
    BY <1>1, <1>4
  <2> QED
    BY <1>1, <1>4, <2>1 DEF Rising, Below
<1>5. Rising(s) /\ (e.n > 0 => Below(s, e.n)) => Rising(t)
  BY <1>4 DEF Rising
<1> QED
  BY <1>2, <1>3, <1>5 DEF t

LEMMA NothingRises == Rising(<<>>) /\ Len(<<>>) = 0 /\ <<>> \in Seq(Event)
BY EmptySeq DEF Rising

LEMMA BeyondRises ==
  ASSUME NEW s \in Seq(Event), NEW n \in Nat, NEW out, Rising(s)
  PROVE  Rising(Beyond(s, n, out))
<1> DEFINE B(t) == Beyond(t, n, out)
           T == {t \in Seq(Event) : Rising(t) => Rising(B(t))}
<1>1. <<>> \in T
  BY BeyondNothing, NothingRises
<1>2. ASSUME NEW t \in T, NEW e \in Event PROVE Append(t, e) \in T
  <2>1. /\ t \in Seq(Event) /\ B(t) \in Seq(Event) /\ Append(t, e) \in Seq(Event)
        /\ B(Append(t, e)) = Picked(B(t), e, n, out)
    BY <1>2, BeyondTyped, BeyondAppend, AppendAt
  <2>2. Rising(t) => Rising(B(t))
    BY <1>2
  <2>3. \A x : Comes(x, B(t)) => Comes(x, t)
    BY <2>1, BeyondComes
  <2> HIDE DEF B, T
  <2>4. SUFFICES ASSUME Rising(Append(t, e)) PROVE Rising(B(Append(t, e)))
    BY <2>1 DEF T
  <2>5. Rising(t) /\ (e.n > 0 => Below(t, e.n))
    BY <2>1, <2>4, AppendRises
  <2>6. e.n > 0 => Below(B(t), e.n)
    BY <2>1, <2>3, <2>5 DEF Below, Comes
  <2>7. Rising(Append(B(t), e))
    BY <2>1, <2>2, <2>5, <2>6, AppendRises
  <2> QED
    BY <2>1, <2>2, <2>5, <2>7 DEF Picked
<1>3. T \subseteq Seq(Event)
  OBVIOUS
<1>4. s \in T
  <2> HIDE DEF T
  <2> QED
    BY <1>1, <1>2, <1>3, SeqInduction
<1> QED
  BY <1>4

\* To leave out an event that is not in the sequence changes nothing.
LEMMA BeyondWithout ==
  ASSUME NEW s \in Seq(Event), NEW n \in Nat, NEW out, NEW m \in Nat, NEW x \in Nat,
         NamedUpTo(s, m), x > m
  PROVE  Beyond(s, n, out \cup {x}) = Beyond(s, n, out)
<1> DEFINE T == {t \in Seq(Event) : NamedUpTo(t, m) => Beyond(t, n, out \cup {x}) = Beyond(t, n, out)}
<1>1. <<>> \in T
  BY BeyondNothing, EmptySeq
<1>2. ASSUME NEW t \in T, NEW e \in Event PROVE Append(t, e) \in T
  <2>1. /\ t \in Seq(Event) /\ Append(t, e) \in Seq(Event)
        /\ Beyond(Append(t, e), n, out) = Picked(Beyond(t, n, out), e, n, out)
        /\ Beyond(Append(t, e), n, out \cup {x}) = Picked(Beyond(t, n, out \cup {x}), e, n, out \cup {x})
    BY <1>2, BeyondAppend, AppendAt
  <2>2. NamedUpTo(t, m) => Beyond(t, n, out \cup {x}) = Beyond(t, n, out)
    BY <1>2
  <2> HIDE DEF T
  <2>3. SUFFICES ASSUME NamedUpTo(Append(t, e), m)
                 PROVE  Beyond(Append(t, e), n, out \cup {x}) = Beyond(Append(t, e), n, out)
    BY <2>1 DEF T
  <2>4. NamedUpTo(t, m) /\ e.id <= m
    BY <2>1, <2>3, AppendAt DEF NamedUpTo
  <2>5. e.id # x
    BY <2>4 DEF Event
  <2>6. Passes(e, n, out \cup {x}) <=> Passes(e, n, out)
    BY <2>5 DEF Passes
  <2> QED
    BY <2>1, <2>2, <2>4, <2>6 DEF Picked
<1>3. T \subseteq Seq(Event)
  OBVIOUS
<1>4. s \in T
  <2> HIDE DEF T
  <2> QED
    BY <1>1, <1>2, <1>3, SeqInduction
<1> QED
  BY <1>4

\* A last event that passes is picked last.
LEMMA BeyondLast ==
  ASSUME NEW s \in Seq(Event), NEW n \in Nat, NEW out, s # <<>>, Passes(Last(s), n, out)
  PROVE  Beyond(s, n, out) # <<>> /\ Last(Beyond(s, n, out)) = Last(s)
<1>1. PICK t \in Seq(Event), e \in Event : s = Append(t, e)
  BY SequenceEmptyOrAppend
<1>2. Last(Append(t, e)) = e
  BY AppendAt DEF Last
<1>3. Beyond(s, n, out) = Append(Beyond(t, n, out), e) /\ Beyond(t, n, out) \in Seq(Event)
  BY <1>1, <1>2, BeyondAppend, BeyondTyped DEF Picked
<1>4. Last(Append(Beyond(t, n, out), e)) = e /\ Append(Beyond(t, n, out), e) # <<>>
  BY <1>3, AppendAt, AppendProperties DEF Last
<1> QED
  BY <1>1, <1>2, <1>3, <1>4

-----------------------------------------------------------------------------
(* The highest number.                                                      *)

\* The highest number of a sequence is one of its numbers, and none is above it.
LEMMA HighestIs ==
  ASSUME NEW s \in Seq(Event)
  PROVE  Highest(s) \in Nat /\ UpTo(s, Highest(s)) /\ (s = <<>> => Highest(s) = 0)
<1> DEFINE Numbers(t) == {e.n : e \in ToSet(t)}
           T == {t \in Seq(Event) : t # <<>> => \E m \in Numbers(t) : UpTo(t, m)}
<1>1. <<>> \in T
  BY EmptySeq
<1>2. ASSUME NEW t \in T, NEW e \in Event PROVE Append(t, e) \in T
  <2>1. /\ t \in Seq(Event) /\ Append(t, e) \in Seq(Event) /\ Len(t) \in Nat
        /\ Len(Append(t, e)) = Len(t) + 1 /\ Append(t, e)[Len(t) + 1] = e
        /\ \A i \in 1..Len(t) : Append(t, e)[i] = t[i] /\ i \in 1..Len(Append(t, e))
        /\ Len(t) + 1 \in 1..Len(Append(t, e))
        /\ \A i \in 1..Len(Append(t, e)) : i = Len(t) + 1 \/ i \in 1..Len(t)
    BY <1>2, AppendAt
  <2>2. DOMAIN t = 1..Len(t) /\ DOMAIN Append(t, e) = 1..Len(Append(t, e))
    BY <2>1, LenProperties
  <2>3. \A i \in 1..Len(Append(t, e)) : Append(t, e)[i].n \in Numbers(Append(t, e))
    BY <2>2 DEF ToSet
  <2>4. e.n \in Nat /\ \A i \in 1..Len(t) : t[i].n \in Nat
    BY <2>1, EventAt DEF Event
  <2>5. CASE t = <<>>
    <3>1. Len(t) = 0
      BY <2>5, EmptySeq
    <3>2. UpTo(Append(t, e), e.n)
      BY <2>1, <2>4, <3>1 DEF UpTo
    <3> QED
      BY <2>1, <2>3, <3>2
  <2>6. CASE t # <<>>
    <3>1. PICK m \in Numbers(t) : UpTo(t, m)
      BY <1>2, <2>6
    <3>2. PICK i \in 1..Len(t) : m = t[i].n
      BY <2>2, <3>1 DEF ToSet
    <3>3. m \in Nat /\ m \in Numbers(Append(t, e)) /\ e.n \in Numbers(Append(t, e))
      BY <2>1, <2>3, <2>4, <3>2
    <3>4. CASE m >= e.n
      <4>1. UpTo(Append(t, e), m)
        BY <2>1, <2>4, <3>1, <3>3, <3>4 DEF UpTo
      <4> QED
        BY <2>1, <3>3, <4>1
    <3>5. CASE ~(m >= e.n)
      <4>1. UpTo(Append(t, e), e.n)
        BY <2>1, <2>4, <3>1, <3>3, <3>5 DEF UpTo
      <4> QED
        BY <2>1, <3>3, <4>1
    <3> QED
      BY <3>4, <3>5
  <2> QED
    BY <2>5, <2>6
<1>3. T \subseteq Seq(Event)
  OBVIOUS
<1>4. s \in T
  <2> HIDE DEF T
  <2> QED
    BY <1>1, <1>2, <1>3, SeqInduction
<1>5. CASE s = <<>>
  BY <1>5, EmptySeq DEF Highest, UpTo
<1>6. CASE s # <<>>
  <2>1. PICK m \in Numbers(s) : UpTo(s, m)
    BY <1>4, <1>6
  <2>2. DOMAIN s = 1..Len(s)
    BY LenProperties
  <2>3. \A x \in Numbers(s) : \E i \in 1..Len(s) : x = s[i].n
    BY <2>2 DEF ToSet
  <2>4. \A x \in Numbers(s) : x \in Nat
    BY <2>3, EventAt
  <2>5. \A x \in Numbers(s) : m >= x
    <3>1. \A i \in 1..Len(s) : s[i].n <= m /\ s[i].n \in Nat
      BY <2>1, EventAt DEF UpTo
    <3> HIDE DEF Numbers
    <3> QED
      BY <2>1, <2>3, <2>4, <3>1
  <2>6. Highest(s) = Max(Numbers(s))
    BY <1>6 DEF Highest
  <2>7. \A i \in 1..Len(s) : s[i].n \in Numbers(s)
    BY <2>2 DEF ToSet
  <2> HIDE DEF Numbers
  <2>8. Max(Numbers(s)) \in Numbers(s) /\ \A y \in Numbers(s) : Max(Numbers(s)) >= y
    BY <2>1, <2>5 DEF Max
  <2>9. Highest(s) \in Nat
    BY <2>4, <2>6, <2>8
  <2>10. UpTo(s, Highest(s))
    <3>1. ASSUME NEW i \in 1..Len(s) PROVE s[i].n <= Highest(s)
      <4>1. s[i].n \in Nat /\ Highest(s) >= s[i].n
        BY <2>6, <2>7, <2>8, EventAt
      <4> QED
        BY <2>9, <4>1
    <3> QED
      BY <3>1 DEF UpTo
  <2> QED
    BY <1>6, <2>9, <2>10
<1> QED
  BY <1>5, <1>6

-----------------------------------------------------------------------------
(* The lines of the file.                                                   *)

LEMMA TornTyped == Torn \in Event /\ Garbage \in Event /\ Torn.n = 0 /\ Garbage.n = 0
BY DEF Torn, Garbage, Event, Kinds, Outcomes

LEMMA LastTyped ==
  ASSUME NEW s \in Seq(Event), s # <<>>
  PROVE  Len(s) \in 1..Len(s) /\ Last(s) \in Event /\ Last(s) = s[Len(s)]
<1>1. Len(s) \in 1..Len(s)
  BY EmptySeq
<1> QED
  BY <1>1, EventAt DEF Last

LEMMA FrontIs ==
  ASSUME NEW s \in Seq(Event), NEW m \in Nat, m <= Len(s)
  PROVE  /\ SubSeq(s, 1, m) \in Seq(Event) /\ Len(SubSeq(s, 1, m)) = m
         /\ \A i \in 1..m : SubSeq(s, 1, m)[i] = s[i] /\ i \in 1..Len(s)
<1>1. Len(s) \in Nat
  BY LenProperties
<1>2. \A i \in 1..m : i \in 1..Len(s) /\ s[i] \in Event
  BY <1>1, EventAt
<1>3. /\ SubSeq(s, 1, m) \in Seq(Event) /\ Len(SubSeq(s, 1, m)) = IF 1 <= m THEN m - 1 + 1 ELSE 0
      /\ \A i \in 1..m - 1 + 1 : SubSeq(s, 1, m)[i] = s[1 + i - 1]
  BY <1>2, SubSeqProperties
<1>4. \A i \in 1..m : i \in 1..m - 1 + 1 /\ 1 + i - 1 = i
  OBVIOUS
<1> QED
  BY <1>2, <1>3, <1>4

-----------------------------------------------------------------------------
(* The invariants.                                                          *)

\* The record follows the job, and only a killed station is down.
Active == job.state \in {"queued", "running"}
LifeInv ==
  /\ ~up => kills > 0
  /\ ending # "no" => job.state = "ended" /\ record.state \in {"queued", "running"}
  /\ Active => record.state \in {"queued", "running"}
  /\ job.state = "pruned" <=> record.state = "pruned"
  /\ job.state = "pruned" => log = <<>> /\ file = <<>>

\* The numbers of the log and of the file grow, up to the count, which a start computes again.
Awake == up \/ ending # "no"
NumbersInv ==
  /\ UpTo(log, count) /\ (Awake => UpTo(file, count))
  /\ \A i \in 1..Len(log) : log[i].n > 0
  /\ ~replaced => Rising(log) /\ Rising(file)

\* A stream has received, or will receive, what is beyond its cursor; while the job runs it
\* is registered, and no client is ahead of the log.
Shows(r) ==
  /\ up
  /\ Active => subscriber[r] = "open" /\ after[r] <= count
  /\ job.state # "pruned" => got[r] \o due[r] \o chan[r] = Beyond(log, after[r], missed[r])
Stream(r) ==
  /\ Active => cursor[r] <= count
  /\ \A x \in missed[r] : x <= emitted
  /\ reader[r] = "reading" => Shows(r)
StreamInv ==
  /\ Active => NamedUpTo(log, emitted)
  /\ \A r \in Reader : Stream(r)

\* Only the file's last line can be the last event that was emitted.
LinesInv ==
  emitted > 0 /\ \A i \in 1..Len(file) : file[i].id <= emitted /\ (i < Len(file) => file[i].id < emitted)

\* The file's last line says how the job ended, unless that event is lost.
Said(outcome) ==
  \/ /\ file # <<>> /\ Last(file).n > 0 /\ Last(file).kind = outcome
     /\ Last(file).id = emitted
  \/ emitted \in unwritten \cup gone
OutcomeInv ==
  /\ ending # "no" => Said(job.outcome)
  /\ record.state = "ended" => Said(record.outcome)
  /\ LastWord

\* The file has what was shown, or something after it, and nothing else has its number.
Fits(e, lines, shown) ==
  /\ e.n > 0
  /\ \E i \in 1..Len(lines) : lines[i].n >= e.n
  /\ \A x : Comes(x, lines) \/ Comes(x, shown) => (x.n = e.n => x = e)
Known(e) == (e \in seen \/ Comes(e, log)) /\ e.id \notin unwritten \cup gone
Present(e) == e \in seen \/ Comes(e, log) \/ Comes(e, file)
Named ==
  /\ \A e \in Event : Present(e) => e.id <= emitted /\ (e.id > 0 <=> e.n > 0)
  /\ \A e, x \in Event : Present(e) /\ Present(x) /\ e.id = x.id /\ e.id > 0 => e = x
SeenInv ==
  ~replaced /\ job.state # "pruned" => Named /\ \A e \in Event : Known(e) => Fits(e, file, log)

-----------------------------------------------------------------------------
(* Emitting.                                                                *)

\* Everything that can be read of a file, and the new event unless it was not written.
Holds(f, lines, e) ==
  /\ \A x : x.n > 0 /\ Comes(x, lines) => Comes(x, f)
  /\ \A x : x.n > 0 /\ Comes(x, f) => x = e \/ Comes(x, lines)
Continues(f, lines, e) ==
  /\ Below(lines, e.n) => UpTo(f, e.n)
  /\ Below(lines, e.n) /\ Rising(lines) => Rising(f)

LEMMA WithNoNumber ==
  ASSUME NEW s \in Seq(Event), NEW t \in Event, t.n = 0, NEW e \in Event
  PROVE  Append(s, t) \in Seq(Event) /\ Holds(Append(s, t), s, e) /\ Continues(Append(s, t), s, e)
<1>1. Append(s, t) \in Seq(Event)
  BY AppendAt
<1>2. Holds(Append(s, t), s, e)
  BY AppendComes DEF Holds
<1>3. Rising(s) => Rising(Append(s, t))
  BY AppendRises
<1>4. ASSUME Below(s, e.n), NEW i \in 1..Len(Append(s, t)) PROVE Append(s, t)[i].n <= e.n
  <2>1. e.n \in Nat /\ \A k \in 1..Len(s) : s[k].n \in Nat
    BY EventAt DEF Event
  <2> QED
    BY <1>4, <2>1, AppendAt DEF Below
<1>5. Below(s, e.n) => UpTo(Append(s, t), e.n)
  BY <1>4 DEF UpTo
<1> QED
  BY <1>1, <1>2, <1>3, <1>5 DEF Continues

LEMMA WithNumber ==
  ASSUME NEW s \in Seq(Event), NEW e \in Event
  PROVE  Append(s, e) \in Seq(Event) /\ Holds(Append(s, e), s, e) /\ Continues(Append(s, e), s, e)
<1>1. Append(s, e) \in Seq(Event)
  BY AppendAt
<1>2. Holds(Append(s, e), s, e)
  BY AppendComes DEF Holds
<1>3. Below(s, e.n) /\ Rising(s) => Rising(Append(s, e))
  BY AppendRises
<1>4. ASSUME Below(s, e.n), NEW i \in 1..Len(Append(s, e)) PROVE Append(s, e)[i].n <= e.n
  <2>1. e.n \in Nat /\ \A k \in 1..Len(s) : s[k].n \in Nat
    BY EventAt DEF Event
  <2> QED
    BY <1>4, <2>1, AppendAt DEF Below
<1>5. Below(s, e.n) => UpTo(Append(s, e), e.n)
  BY <1>4 DEF UpTo
<1> QED
  BY <1>1, <1>2, <1>3, <1>5 DEF Continues

LEMMA WithNothing ==
  ASSUME NEW s \in Seq(Event), NEW e \in Event
  PROVE  Holds(s, s, e) /\ Continues(s, s, e)
<1>1. ASSUME Below(s, e.n), NEW i \in 1..Len(s) PROVE s[i].n <= e.n
  <2>1. e.n \in Nat /\ s[i].n \in Nat
    BY EventAt DEF Event
  <2> QED
    BY <1>1, <2>1 DEF Below
<1> QED
  BY <1>1 DEF Holds, Continues, UpTo

\* A partial line is the last one, and has no number.
LEMMA WithGarbage ==
  ASSUME NEW s \in Seq(Event), Cut(s), NEW e \in Event
  PROVE  LET f == Append(Front(s), Garbage) IN
         f \in Seq(Event) /\ Holds(f, s, e) /\ Continues(f, s, e)
<1> DEFINE t == Front(s)
           f == Append(t, Garbage)
<1>1. s # <<>> /\ Len(s) \in Nat /\ s[Len(s)] = Torn /\ Len(s) - 1 \in Nat /\ Len(s) - 1 <= Len(s)
  BY LenProperties, EmptySeq DEF Cut, Last
<1>2. /\ t \in Seq(Event) /\ Len(t) = Len(s) - 1
      /\ \A i \in 1..Len(s) - 1 : t[i] = s[i] /\ i \in 1..Len(s)
  BY <1>1, FrontIs DEF Front
<1>3. Append(t, Torn) = s
  <2>1. \A i \in 1..Len(s) : i \in 1..Len(s) - 1 \/ i = Len(s)
    BY <1>1
  <2>2. /\ Append(t, Torn) \in Seq(Event) /\ Len(Append(t, Torn)) = Len(s)
        /\ Append(t, Torn)[Len(s)] = Torn /\ \A i \in 1..Len(s) - 1 : Append(t, Torn)[i] = t[i]
    BY <1>1, <1>2, TornTyped, AppendAt
  <2> HIDE DEF t
  <2> QED
    BY <1>1, <1>2, <2>1, <2>2, SeqEqual
<1>4. Holds(f, t, e) /\ Continues(f, t, e) /\ f \in Seq(Event)
  BY <1>2, TornTyped, WithNoNumber
<1>5. Holds(s, t, e) /\ Continues(s, t, e)
  BY <1>2, <1>3, TornTyped, WithNoNumber
<1>6. \A x : x.n > 0 => (Comes(x, s) <=> Comes(x, t))
  <2> HIDE DEF t
  <2>1. \A x : Comes(x, s) <=> x = Torn \/ Comes(x, t)
    <3>1. \A x : Comes(x, Append(t, Torn)) <=> x = Torn \/ Comes(x, t)
      BY <1>2, TornTyped, AppendComes
    <3> QED
      BY <1>3, <3>1
  <2> QED
    BY <2>1, TornTyped
<1>7. Rising(s) => Rising(t)
  BY <1>2, <1>3, TornTyped, AppendRises
<1>8. Below(s, e.n) => Below(t, e.n)
  <2> HIDE DEF t
  <2> QED
    BY <1>2 DEF Below
<1> HIDE DEF f, t
<1>9. Holds(f, s, e)
  BY <1>4, <1>6 DEF Holds
<1>10. Continues(f, s, e)
  BY <1>4, <1>7, <1>8 DEF Continues
<1> QED
  BY <1>4, <1>9, <1>10 DEF f, t

\* What an append leaves.
Wrote(lines, e) ==
  /\ file' \in Seq(Event) /\ long' \in BOOLEAN /\ unwritten' \in SUBSET Nat /\ unwritten \subseteq unwritten'
  /\ e.id \in unwritten' \/ file' = Append(lines, e)
  /\ \A i \in 1..Len(file') : Comes(file'[i], lines) \/ (i = Len(file') /\ file'[i] \in {Torn, Garbage, e})
  /\ Holds(file', lines, e) /\ Continues(file', lines, e)
LEMMA WriteIs ==
  ASSUME NEW lines \in Seq(Event), NEW e \in Event, unwritten \in SUBSET Nat, long \in BOOLEAN,
         NEW sizes \in SUBSET BOOLEAN, Write(lines, e, sizes)
  PROVE  Wrote(lines, e)
<1>1. e.id \in Nat /\ long' \in BOOLEAN
  BY DEF Event, Write
<1>2. ASSUME NEW s \in Seq(Event), NEW t \in Event, t \in {Torn, Garbage, e},
             \A i \in 1..Len(s) : Comes(s[i], lines)
      PROVE  \A i \in 1..Len(Append(s, t)) :
               Comes(Append(s, t)[i], lines) \/ (i = Len(Append(s, t)) /\ Append(s, t)[i] \in {Torn, Garbage, e})
  BY <1>2, AppendAt
<1>3. \A i \in 1..Len(lines) : Comes(lines[i], lines)
  BY DEF Comes
<1>4. CASE file' = lines /\ unwritten' = unwritten \cup {e.id}
  BY <1>1, <1>3, <1>4, WithNothing DEF Wrote
<1>5. CASE file' = Append(lines, Torn) /\ unwritten' = unwritten \cup {e.id}
  BY <1>1, <1>2, <1>3, <1>5, TornTyped, WithNoNumber DEF Wrote
<1>6. CASE Cut(lines) /\ file' = Append(Front(lines), Garbage) /\ unwritten' = unwritten \cup {e.id}
  <2>1. lines # <<>> /\ Len(lines) \in Nat /\ Len(lines) - 1 \in Nat /\ Len(lines) - 1 <= Len(lines)
    BY <1>6, LenProperties, EmptySeq DEF Cut
  <2>2. /\ Front(lines) \in Seq(Event) /\ Len(Front(lines)) = Len(lines) - 1
        /\ \A i \in 1..Len(lines) - 1 : Front(lines)[i] = lines[i] /\ i \in 1..Len(lines)
    BY <2>1, FrontIs DEF Front
  <2>3. \A i \in 1..Len(Front(lines)) : Comes(Front(lines)[i], lines)
    BY <2>2 DEF Comes
  <2> QED
    BY <1>1, <1>2, <1>3, <1>6, <2>2, <2>3, TornTyped, WithGarbage DEF Wrote
<1>7. CASE file' = Append(lines, e) /\ unwritten' = unwritten
  BY <1>1, <1>2, <1>3, <1>7, WithNumber DEF Wrote
<1> QED
  BY <1>4, <1>5, <1>6, <1>7 DEF Write, WithLine

\* An event written to the file is its last line, if it is there at all.
LEMMA LinesWrite ==
  ASSUME TypeOK, LinesInv, NEW e \in Event, Wrote(file, e), e.id = emitted + 1, emitted' = e.id
  PROVE  LinesInv'
<1>1. emitted \in Nat /\ file \in Seq(Event) /\ file' \in Seq(Event) /\ emitted > 0
  BY DEF TypeOK, Wrote, LinesInv
<1>2. \A x : Comes(x, file) => x.id <= emitted
  BY DEF LinesInv, Comes
<1>3. ASSUME NEW i \in 1..Len(file')
      PROVE  file'[i].id <= emitted' /\ (i < Len(file') => file'[i].id < emitted')
  <2>1. file'[i].id \in Nat /\ i \in Nat /\ Len(file') \in Nat
    BY <1>1, EventAt, LenProperties
  <2>2. CASE Comes(file'[i], file)
    BY <1>1, <1>2, <2>1, <2>2
  <2>3. CASE i = Len(file') /\ file'[i] \in {Torn, Garbage, e}
    BY <1>1, <2>1, <2>3 DEF Torn, Garbage
  <2> QED
    BY <2>2, <2>3 DEF Wrote
<1> QED
  BY <1>1, <1>3 DEF LinesInv

\* What an emitted event changes.
Emitted(e, kind) ==
  /\ e.n = count + 1 /\ e.id = emitted + 1 /\ e.kind = kind
  /\ log' = Append(log, e) /\ count' = e.n /\ emitted' = e.id /\ replaced' = replaced
  /\ gone' = gone /\ Wrote(file, e)
  /\ \A r \in Reader :
       IF subscriber[r] = "open"
       THEN IF HasRoom(r) THEN chan'[r] = Append(chan[r], e) /\ missed'[r] = missed[r]
                          ELSE chan'[r] = chan[r] /\ missed'[r] = missed[r] \cup {e.id}
       ELSE chan'[r] = chan[r] /\ missed'[r] = missed[r]
LEMMA EmitIs ==
  ASSUME TypeOK, NEW kind \in Kinds, Emit(kind)
  PROVE  \/ kind = "log" /\ UNCHANGED <<events, chan, missed>>
         \/ \E e \in Event : Emitted(e, kind)
<1> DEFINE e == [n |-> count + 1, kind |-> kind, id |-> emitted + 1]
<1>1. e \in Event
  BY DEF TypeOK, Event
<1>2. CASE Dropped(kind)
  BY <1>2 DEF Emit, Dropped
<1>3. CASE ~Dropped(kind)
  <2>1. /\ log' = Append(log, e) /\ count' = e.n /\ emitted' = e.id /\ replaced' = replaced
        /\ gone' = gone /\ Write(file, e, Sizes)
    BY <1>3 DEF Emit
  <2>2. Wrote(file, e)
    <3>1. Sizes \in SUBSET BOOLEAN
      BY DEF Sizes
    <3> QED
      BY <1>1, <2>1, <3>1, WriteIs DEF TypeOK
  <2>3. ASSUME NEW r \in Reader
        PROVE  IF subscriber[r] = "open"
               THEN IF HasRoom(r) THEN chan'[r] = Append(chan[r], e) /\ missed'[r] = missed[r]
                                  ELSE chan'[r] = chan[r] /\ missed'[r] = missed[r] \cup {e.id}
               ELSE chan'[r] = chan[r] /\ missed'[r] = missed[r]
    BY <1>3 DEF Emit, HasRoom
  <2>4. e.n = count + 1 /\ e.id = emitted + 1 /\ e.kind = kind
    OBVIOUS
  <2> HIDE DEF e
  <2>5. Emitted(e, kind)
    BY <2>1, <2>2, <2>3, <2>4 DEF Emitted
  <2> QED
    BY <1>1, <2>5
<1> QED
  BY <1>2, <1>3

-----------------------------------------------------------------------------
(* Types.                                                                   *)

LEMMA EmitTyped ==
  ASSUME TypeOK, NEW kind \in Kinds, Emit(kind)
  PROVE  /\ log' \in Seq(Event) /\ file' \in Seq(Event) /\ count' \in Nat /\ emitted' \in Nat
         /\ long' \in BOOLEAN /\ unwritten' \in SUBSET Nat /\ replaced' \in BOOLEAN /\ gone' \in SUBSET Nat
         /\ chan' \in [Reader -> Seq(Event)] /\ \A r \in Reader : Len(chan'[r]) <= ChanCap
         /\ missed' \in [Reader -> SUBSET Nat]
<1>1. CASE UNCHANGED <<events, chan, missed>>
  BY <1>1 DEF TypeOK, events
<1>2. CASE \E e \in Event : Emitted(e, kind)
  <2>1. PICK e \in Event : Emitted(e, kind)
    BY <1>2
  <2>2. e.n \in Nat /\ e.id \in Nat
    BY DEF Event
  <2>3. /\ log' \in Seq(Event) /\ file' \in Seq(Event) /\ count' \in Nat /\ emitted' \in Nat
        /\ long' \in BOOLEAN /\ unwritten' \in SUBSET Nat /\ replaced' \in BOOLEAN /\ gone' \in SUBSET Nat
    BY <2>1, <2>2, AppendAt DEF Emitted, Wrote, TypeOK
  <2>4. DOMAIN chan' = Reader /\ DOMAIN missed' = Reader /\ chan' = [r \in Reader |-> chan'[r]]
        /\ missed' = [r \in Reader |-> missed'[r]]
    BY DEF Emit, TypeOK, events
  <2>5. ASSUME NEW r \in Reader
        PROVE  chan'[r] \in Seq(Event) /\ Len(chan'[r]) <= ChanCap /\ missed'[r] \in SUBSET Nat
    <3>1. chan[r] \in Seq(Event) /\ Len(chan[r]) <= ChanCap /\ missed[r] \in SUBSET Nat
      BY DEF TypeOK
    <3>2. CASE chan'[r] = chan[r]
      BY <2>1, <2>2, <3>1, <3>2 DEF Emitted
    <3>3. CASE HasRoom(r) /\ chan'[r] = Append(chan[r], e) /\ missed'[r] = missed[r]
      <4>1. Append(chan[r], e) \in Seq(Event) /\ Len(Append(chan[r], e)) = Len(chan[r]) + 1 /\ Len(chan[r]) \in Nat
        BY <3>1, AppendAt
      <4> QED
        BY <3>1, <3>3, <4>1, LogAssumption DEF HasRoom
    <3> QED
      BY <2>1, <3>2, <3>3 DEF Emitted
  <2>6. chan' \in [Reader -> Seq(Event)] /\ missed' \in [Reader -> SUBSET Nat]
    BY <2>4, <2>5
  <2> QED
    BY <2>3, <2>5, <2>6
<1> QED
  BY <1>1, <1>2, EmitIs

LEMMA LeastOfTwo ==
  ASSUME NEW a \in Nat, NEW b \in Nat
  PROVE  Min({a, b}) \in Nat /\ Min({a, b}) <= a /\ Min({a, b}) <= b
<1>1. \E x \in {a, b} : \A y \in {a, b} : x <= y
  OBVIOUS
<1> QED
  BY <1>1 DEF Min

\* A page shows events of the log.
LEMMA PageIs ==
  ASSUME TypeOK
  PROVE  Page \in Seq(Event) /\ \A x \in ToSet(Page) : x \in Event /\ Comes(x, log)
<1> DEFINE all == Since(Shown)
           m == Min({PageSize, Len(all)})
<1>1. Shown \in Nat
  <2>1. CASE printed = <<>>
    BY <2>1 DEF Shown
  <2>2. CASE printed # <<>>
    <3>1. Last(printed) \in Event
      BY <2>2, LastTyped DEF TypeOK
    <3> QED
      BY <2>2, <3>1 DEF Shown, Event
  <2> QED
    BY <2>1, <2>2
<1>2. all \in Seq(Event) /\ \A x : Comes(x, all) => Comes(x, log)
  BY <1>1, BeyondTyped, BeyondComes DEF Since, TypeOK
<1>3. Page = SubSeq(all, 1, m)
  BY DEF Page
<1> HIDE DEF all
<1>4. m \in Nat /\ m <= Len(all)
  BY <1>2, LenProperties, LeastOfTwo, LogAssumption
<1>5. /\ Page \in Seq(Event) /\ Len(Page) = m
      /\ \A i \in 1..m : Page[i] = all[i] /\ i \in 1..Len(all)
  <2> HIDE DEF m
  <2> QED
    BY <1>2, <1>3, <1>4, FrontIs
<1>6. \A x \in ToSet(Page) : \E i \in 1..m : x = Page[i]
  BY <1>5, LenProperties DEF ToSet
<1>7. \A i \in 1..m : all[i] \in Event /\ Comes(all[i], all)
  BY <1>2, <1>5, EventAt DEF Comes
<1> QED
  BY <1>2, <1>5, <1>6, <1>7

\* A truncation leaves a part of the file with its last event.
LEMMA BoundedTyped ==
  ASSUME TypeOK, MayBeBounded
  PROVE  /\ LogLimit - Margin \in Nat /\ LogLimit - Margin < Len(file) /\ file # <<>>
         /\ SubSeq(file, 1, LogLimit - Margin) \in Seq(Event)
         /\ Bounded(file) \in Seq(Event)
         /\ ~Unreadable(file) => Bounded(file) = Append(SubSeq(file, 1, LogLimit - Margin), Last(file))
<1>1. /\ LogLimit - Margin \in Nat /\ LogLimit - Margin < LogLimit /\ LogLimit \in Nat
      /\ Len(file) \in Nat /\ LogLimit <= Len(file)
  BY LogAssumption, LenProperties DEF TypeOK, MayBeBounded
<1>2. LogLimit - Margin < Len(file) /\ LogLimit - Margin <= Len(file) /\ file # <<>>
  BY <1>1, EmptySeq
<1>3. SubSeq(file, 1, LogLimit - Margin) \in Seq(Event) /\ Last(file) \in Event
  BY <1>1, <1>2, FrontIs, LastTyped DEF TypeOK
<1>4. [n |-> record.count, kind |-> "log", id |-> 0] \in Event
  BY DEF TypeOK, Event, Kinds
<1>5. Bounded(file) \in Seq(Event)
  BY <1>3, <1>4, AppendAt DEF Bounded
<1> QED
  BY <1>1, <1>2, <1>3, <1>5 DEF Bounded

\* What is left of a truncation that is cut short: first lines of the file, the last one in part.
LEMMA CutShortIs ==
  ASSUME TypeOK, TruncateFails
  PROVE  /\ file' \in Seq(Event) /\ gone' \in SUBSET Nat /\ gone \subseteq gone'
         /\ \A e \in Event : e.id \in 1..emitted /\ e.id \notin gone' => \E x \in Event : Comes(x, file') /\ x.id = e.id
         /\ \A x : Comes(x, file') => x = Torn \/ \E i \in 1..Len(file) : i < Len(file) /\ file[i] = x
         /\ Rising(file) => Rising(file')
<1>1. PICK n \in 0..LogLimit - Margin, part \in {<<>>, <<Torn>>} : file' = SubSeq(Bounded(file), 1, n) \o part
  BY DEF TruncateFails
<1>2. MayBeBounded /\ file \in Seq(Event) /\ emitted \in Nat
  BY DEF TruncateFails, TypeOK
<1> DEFINE m == LogLimit - Margin
           b == Bounded(file)
           s == SubSeq(b, 1, n)
<1>3. m \in Nat /\ m < Len(file) /\ Len(file) \in Nat /\ b \in Seq(Event) /\ SubSeq(file, 1, m) \in Seq(Event)
  BY <1>2, BoundedTyped, LenProperties
<1>4. PICK e \in Event : b = Append(SubSeq(file, 1, m), e)
  <2>1. [n |-> record.count, kind |-> "log", id |-> 0] \in Event /\ Last(file) \in Event
    BY <1>2, BoundedTyped, LastTyped DEF TypeOK, Event, Kinds
  <2> QED
    BY <2>1 DEF Bounded
<1> HIDE DEF b
<1>5. Len(b) = m + 1 /\ \A i \in 1..m : b[i] = file[i] /\ i < Len(file) /\ i \in 1..Len(file)
  <2>1. Len(SubSeq(file, 1, m)) = m /\ \A i \in 1..m : SubSeq(file, 1, m)[i] = file[i] /\ i \in 1..Len(file)
    <3> HIDE DEF m
    <3> QED
      BY <1>2, <1>3, FrontIs
  <2> HIDE DEF m
  <2> QED
    BY <1>3, <1>4, <2>1, AppendAt
<1>6. n \in Nat /\ n <= m /\ n <= Len(b)
  BY <1>3, <1>5
<1> HIDE DEF m
<1>7. s \in Seq(Event) /\ Len(s) = n /\ \A i \in 1..n : s[i] = file[i] /\ i < Len(file) /\ i \in 1..Len(file)
  <2>1. s \in Seq(Event) /\ Len(s) = n /\ \A i \in 1..n : s[i] = b[i]
    BY <1>3, <1>6, FrontIs
  <2>2. \A i \in 1..n : i \in 1..m
    BY <1>3, <1>6
  <2> HIDE DEF s
  <2> QED
    BY <1>5, <2>1, <2>2
<1> HIDE DEF s
<1>8. file' = s \/ file' = Append(s, Torn)
  <2>1. file' = s \o <<>> \/ file' = s \o <<Torn>>
    BY <1>1 DEF s, b
  <2>2. s \o <<>> = s /\ s \o <<Torn>> = Append(s, Torn)
    BY <1>7, TornTyped, ConcatEmptySeq, AppendIsConcat
  <2> QED
    BY <2>1, <2>2
<1>9. file' \in Seq(Event)
  BY <1>7, <1>8, TornTyped, AppendAt
<1>10. \A x : Comes(x, file') => x = Torn \/ Comes(x, s)
  BY <1>7, <1>8, TornTyped, AppendComes
<1>11. ASSUME NEW x, Comes(x, file') PROVE x = Torn \/ \E i \in 1..Len(file) : i < Len(file) /\ file[i] = x
  BY <1>7, <1>10, <1>11 DEF Comes
<1>12. ASSUME Rising(file) PROVE Rising(file')
  <2>1. Rising(s)
    BY <1>6, <1>7, <1>12 DEF Rising
  <2>2. Rising(Append(s, Torn))
    BY <1>7, <2>1, TornTyped, AppendRises
  <2> QED
    BY <1>8, <2>1, <2>2
<1>13. gone' = gone \cup {i \in 1..emitted : \A x \in ToSet(file') : x.id # i}
  BY DEF TruncateFails
<1>14. gone' \in SUBSET Nat /\ gone \subseteq gone'
  <2>1. \A i \in 1..emitted : i \in Nat
    BY <1>2
  <2>2. gone \in SUBSET Nat
    BY DEF TypeOK
  <2> QED
    BY <1>13, <2>1, <2>2
<1>15. ASSUME NEW k \in Event, k.id \in 1..emitted, k.id \notin gone'
       PROVE  \E x \in Event : Comes(x, file') /\ x.id = k.id
  <2>1. PICK x \in ToSet(file') : x.id = k.id
    BY <1>13, <1>15
  <2>2. PICK i \in 1..Len(file') : x = file'[i]
    BY <1>9, LenProperties DEF ToSet
  <2>3. x \in Event /\ Comes(x, file')
    BY <1>9, <2>2, EventAt DEF Comes
  <2> QED
    BY <2>1, <2>3
<1> QED
  BY <1>9, <1>11, <1>12, <1>14, <1>15

\* What a start makes of the file it read: the log of a job that was over, or that has failed.
WasOver ==
  /\ record.state \in {"ended", "pruned"} /\ up' = TRUE
  /\ job' = [state |-> record.state, outcome |-> record.outcome]
  /\ log' = Readable(file) /\ file' = file /\ count' = Highest(Readable(file))
  /\ UNCHANGED <<ending, long, emitted, unwritten>>
HasFailed(e) ==
  /\ record.state \in {"queued", "running"} /\ up' = up /\ ending' = "load"
  /\ job' = [state |-> "ended", outcome |-> "failed"]
  /\ e.n = Highest(Readable(file)) + 1 /\ e.kind = "failed" /\ e.id = emitted + 1
  /\ log' = Append(Readable(file), e) /\ count' = e.n /\ emitted' = e.id
  /\ Wrote(file, e)
LEMMA LoadIs ==
  ASSUME TypeOK, Load
  PROVE  /\ Readable(file) \in Seq(Event) /\ Highest(Readable(file)) \in Nat
         /\ WasOver \/ \E e \in Event : HasFailed(e)
<1> DEFINE known == Readable(file)
           e == [n |-> Highest(known) + 1, kind |-> "failed", id |-> emitted + 1]
<1>1. known \in Seq(Event)
  BY BeyondTyped DEF Readable, TypeOK
<1>2. Highest(known) \in Nat
  BY <1>1, HighestIs
<1>3. CASE record.state \in {"ended", "pruned"}
  <2>1. WasOver
    BY <1>3 DEF Load, WasOver
  <2> QED
    BY <1>1, <1>2, <2>1
<1>4. CASE record.state \notin {"ended", "pruned"}
  <2>1. record.state \in {"queued", "running"}
    BY <1>4 DEF TypeOK, States
  <2>2. e \in Event
    BY <1>2 DEF Event, Kinds, Outcomes, TypeOK
  <2>3. /\ ending' = "load" /\ job' = [state |-> "ended", outcome |-> "failed"] /\ up' = up
        /\ log' = Append(known, e) /\ count' = e.n /\ emitted' = e.id /\ Write(file, e, {FALSE})
    BY <1>4 DEF Load
  <2>4. e.n = Highest(known) + 1 /\ e.kind = "failed" /\ e.id = emitted + 1
    OBVIOUS
  <2> HIDE DEF e
  <2>5. Wrote(file, e)
    BY <2>2, <2>3, WriteIs DEF TypeOK
  <2> QED
    BY <1>1, <1>2, <2>1, <2>2, <2>3, <2>4, <2>5 DEF HasFailed
<1> QED
  BY <1>3, <1>4

LEMMA TypedInit == Init => TypeOK
<1> SUFFICES ASSUME Init PROVE TypeOK
  OBVIOUS
<1> DEFINE queued == [n |-> 1, kind |-> "log", id |-> 1]
<1>1. queued \in Event
  BY DEF Event, Kinds
<1>2. log = <<queued>> /\ file = <<queued>>
  BY DEF Init
<1>3. <<queued>> \in Seq(Event) /\ <<>> \in Seq(Event) /\ Len(<<>>) = 0
  <2> HIDE DEF queued
  <2> QED
    BY <1>1, EmptySeq
<1> HIDE DEF queued
<1>4. log \in Seq(Event) /\ file \in Seq(Event)
  BY <1>2, <1>3
<1>5. /\ due \in [Reader -> Seq(Event)] /\ got \in [Reader -> Seq(Event)] /\ chan \in [Reader -> Seq(Event)]
      /\ \A r \in Reader : Len(chan[r]) <= ChanCap
  BY <1>3, LogAssumption DEF Init
<1>6. job \in [state : States, outcome : Outcomes] /\ record \in [state : States, outcome : Outcomes, count : Nat]
  BY DEF Init, States, Outcomes
<1>7. printed \in Seq(Event)
  BY <1>3 DEF Init
<1>8. /\ after \in [Reader -> Nat] /\ cursor \in [Reader -> Nat] /\ missed \in [Reader -> SUBSET Nat]
      /\ subscriber \in [Reader -> {"none", "open", "closed"}] /\ reader \in [Reader -> {"away", "reading", "done"}]
  BY DEF Init
<1> QED
  BY <1>4, <1>5, <1>6, <1>7, <1>8 DEF Init, TypeOK

\* A step keeps the types.
LEMMA TypedNext == TypeOK /\ [Next]_vars => TypeOK'
<1> SUFFICES ASSUME TypeOK, [Next]_vars PROVE TypeOK'
  OBVIOUS
<1>1. CASE Start
  <2>1. Emit("log") /\ "log" \in Kinds
    BY <1>1 DEF Start, Kinds
  <2>2. job' \in [state : States, outcome : Outcomes]
    BY <1>1 DEF Start, TypeOK, States
  <2>3. count' \in Nat
    BY <2>1, EmitTyped
  <2>4. record' \in [state : States, outcome : Outcomes, count : Nat]
    BY <1>1, <2>3 DEF Start, States, Outcomes
  <2> QED
    BY <1>1, <2>1, <2>2, <2>4, EmitTyped DEF Start, TypeOK, polling
<1>2. CASE Progress
  <2>1. Emit("log") /\ "log" \in Kinds
    BY <1>2 DEF Progress, Kinds
  <2>2. count' \in Nat
    BY <2>1, EmitTyped
  <2>3. record' \in [state : States, outcome : Outcomes, count : Nat]
    BY <1>2, <2>2 DEF Progress, TypeOK
  <2> QED
    BY <1>2, <2>1, <2>3, EmitTyped DEF Progress, TypeOK, polling
<1>3. ASSUME NEW by \in {"run", "cancel"}, NEW outcome \in {"done", "canceled", "failed"},
   End(by, outcome)
      PROVE TypeOK'
  <2>1. Emit(outcome) /\ outcome \in Kinds /\ outcome \in Outcomes
    BY <1>3 DEF End, Kinds, Outcomes
  <2>2. job' \in [state : States, outcome : Outcomes]
    BY <1>3, <2>1 DEF End, States
  <2>3. ending' \in {"no", "run", "cancel", "load"}
    BY <1>3 DEF End
  <2> QED
    BY <1>3, <2>1, <2>2, <2>3, EmitTyped DEF End, TypeOK, polling
<1>4. CASE Finish
  BY <1>3, <1>4 DEF Finish
<1>5. CASE CancelQueued
  BY <1>3, <1>5 DEF CancelQueued
<1>6. CASE PersistEnd
  <2>1. record' \in [state : States, outcome : Outcomes, count : Nat]
    BY <1>6 DEF PersistEnd, TypeOK, States
  <2>2. subscriber' \in [Reader -> {"none", "open", "closed"}]
    BY <1>6 DEF PersistEnd, CloseSubscribers, TypeOK
  <2> QED
    BY <1>6, <2>1, <2>2 DEF PersistEnd, TypeOK, events, polling
<1>7. CASE Prune
  <2>1. job' \in [state : States, outcome : Outcomes] /\ record' \in [state : States, outcome : Outcomes, count : Nat]
    BY <1>7 DEF Prune, TypeOK, States
  <2>2. subscriber' \in [Reader -> {"none", "open", "closed"}]
    BY <1>7 DEF Prune, CloseSubscribers, TypeOK
  <2>3. log' \in Seq(Event) /\ file' \in Seq(Event)
    BY <1>7, EmptySeq DEF Prune
  <2> QED
    BY <1>7, <2>1, <2>2, <2>3 DEF Prune, TypeOK, polling
<1>8. ASSUME NEW r \in Reader, Subscribe(r) PROVE TypeOK'
  <2>1. Since(cursor[r]) \in Seq(Event) /\ <<>> \in Seq(Event) /\ Len(<<>>) = 0 /\ cursor[r] \in Nat
    BY BeyondTyped, EmptySeq DEF Since, TypeOK
  <2>2. /\ due' \in [Reader -> Seq(Event)] /\ got' \in [Reader -> Seq(Event)] /\ chan' \in [Reader -> Seq(Event)]
        /\ after' \in [Reader -> Nat]
    BY <1>8, <2>1 DEF Subscribe, TypeOK
  <2>3. \A q \in Reader : Len(chan'[q]) <= ChanCap
    BY <1>8, <2>1, LogAssumption DEF Subscribe, TypeOK
  <2>4. /\ reader' \in [Reader -> {"away", "reading", "done"}]
        /\ subscriber' \in [Reader -> {"none", "open", "closed"}] /\ missed' \in [Reader -> SUBSET Nat]
    BY <1>8 DEF Subscribe, TypeOK
  <2> QED
    BY <1>8, <2>2, <2>3, <2>4 DEF Subscribe, TypeOK, station, events, polling
<1>9. ASSUME NEW r \in Reader, Deliver(r) PROVE TypeOK'
  <2>1. due[r] \in Seq(Event) /\ chan[r] \in Seq(Event) /\ got[r] \in Seq(Event) /\ Len(chan[r]) <= ChanCap
    BY DEF TypeOK
  <2>2. ASSUME NEW e \in Event, got' = [got EXCEPT ![r] = Append(@, e)],
     cursor' = [cursor EXCEPT ![r] = e.n],
               seen' = seen \cup {e}
        PROVE  got' \in [Reader -> Seq(Event)] /\ cursor' \in [Reader -> Nat] /\ seen' \in SUBSET Event
    <3>1. e.n \in Nat /\ Append(got[r], e) \in Seq(Event)
      BY <2>1, AppendAt DEF Event
    <3> QED
      BY <2>2, <3>1 DEF TypeOK
  <2>3. CASE due[r] # <<>>
    <3>1. Head(due[r]) \in Event /\ Tail(due[r]) \in Seq(Event)
      BY <2>1, <2>3, HeadTailProperties
    <3>2. due' \in [Reader -> Seq(Event)] /\ UNCHANGED chan
      <4>1. due' = [due EXCEPT ![r] = Tail(@)] /\ UNCHANGED chan
        BY <1>9, <2>3 DEF Deliver
      <4> QED
        BY <3>1, <4>1 DEF TypeOK
    <3>3. got' \in [Reader -> Seq(Event)] /\ cursor' \in [Reader -> Nat] /\ seen' \in SUBSET Event
      BY <1>9, <2>2, <2>3, <3>1 DEF Deliver
    <3> QED
      BY <1>9, <3>2, <3>3 DEF Deliver, TypeOK, station, events, polling
  <2>4. CASE due[r] = <<>>
    <3>1. /\ chan[r] # <<>> /\ Head(chan[r]) \in Event /\ Tail(chan[r]) \in Seq(Event)
          /\ Len(Tail(chan[r])) = Len(chan[r]) - 1 /\ Len(chan[r]) \in Nat
      BY <1>9, <2>1, <2>4, HeadTailProperties, LenProperties DEF Deliver
    <3>2. chan' = [chan EXCEPT ![r] = Tail(@)] /\ UNCHANGED due
      BY <1>9, <2>4 DEF Deliver
    <3>3. chan' \in [Reader -> Seq(Event)] /\ \A q \in Reader : Len(chan'[q]) <= ChanCap
      <4>1. chan' \in [Reader -> Seq(Event)] /\ \A q \in Reader : chan'[q] = IF q = r THEN Tail(chan[r]) ELSE chan[q]
        BY <3>1, <3>2 DEF TypeOK
      <4>2. Len(Tail(chan[r])) <= ChanCap
        BY <2>1, <3>1, LogAssumption
      <4> QED
        BY <4>1, <4>2 DEF TypeOK
    <3>4. got' \in [Reader -> Seq(Event)] /\ cursor' \in [Reader -> Nat] /\ seen' \in SUBSET Event
      BY <1>9, <2>2, <2>4, <3>1 DEF Deliver
    <3> QED
      BY <1>9, <3>2, <3>3, <3>4 DEF Deliver, TypeOK, station, events, polling
  <2> QED
    BY <2>3, <2>4
<1>10. ASSUME NEW r \in Reader, StreamDone(r) PROVE TypeOK'
  BY <1>10 DEF StreamDone, TypeOK, station, events, polling
<1>11. ASSUME NEW r \in Reader, Leave(r) PROVE TypeOK'
  BY <1>11 DEF Leave, TypeOK, station, events, polling
<1>12. CASE Poll
  <2>1. Page \in Seq(Event) /\ ToSet(Page) \subseteq Event
    BY PageIs
  <2>2. printed' \in Seq(Event)
    <3>1. printed \in Seq(Event) /\ printed \o Page \in Seq(Event)
      BY <2>1, ConcatProperties DEF TypeOK
    <3>2. printed' = printed \/ printed' = printed \o Page
      BY <1>12 DEF Poll
    <3> QED
      BY <3>1, <3>2
  <2>3. seen' \in SUBSET Event /\ more' \in BOOLEAN /\ follower' \in {"page", "check", "wait", "returned", "failed"}
    BY <1>12, <2>1 DEF Poll, TypeOK
  <2> QED
    BY <1>12, <2>2, <2>3 DEF Poll, TypeOK, station, events, streams
<1>13. CASE Check
  BY <1>13 DEF Check, TypeOK, station, events, streams
<1>14. CASE Pause
  BY <1>14 DEF Pause, TypeOK, station, events, streams
<1>15. CASE Kill
  <2>1. /\ subscriber' \in [Reader -> {"none", "open", "closed"}]
        /\ reader' \in [Reader -> {"away", "reading", "done"}]
        /\ follower' \in {"page", "check", "wait", "returned", "failed"}
    BY <1>15 DEF Kill, TypeOK
  <2>2. up' \in BOOLEAN
    BY <1>15 DEF Kill
  <2>3. ending' \in {"no", "run", "cancel", "load"} /\ kills' \in Nat
    BY <1>15 DEF Kill, TypeOK
  <2> QED
    BY <1>15, <2>1, <2>2, <2>3 DEF Kill, TypeOK, events
<1>16. CASE Restart
  <2>1. Load
    BY <1>16 DEF Restart
  <2>2. Readable(file) \in Seq(Event) /\ Highest(Readable(file)) \in Nat
    BY <2>1, LoadIs
  <2>3. /\ log' \in Seq(Event) /\ file' \in Seq(Event) /\ count' \in Nat /\ emitted' \in Nat
        /\ long' \in BOOLEAN /\ unwritten' \in SUBSET Nat
    <3>1. \A e \in Event : Append(Readable(file), e) \in Seq(Event) /\ e.n \in Nat /\ e.id \in Nat
      BY <2>2, AppendAt DEF Event
    <3>2. CASE WasOver
      BY <2>2, <3>2 DEF TypeOK, WasOver
    <3>3. CASE \E e \in Event : HasFailed(e)
      BY <3>1, <3>3 DEF Wrote, HasFailed
    <3> QED
      BY <2>1, <3>2, <3>3, LoadIs
  <2>4. /\ job' \in [state : States, outcome : Outcomes] /\ up' \in BOOLEAN
        /\ ending' \in {"no", "run", "cancel", "load"}
    <3>1. CASE WasOver
      <4>1. record.state \in States /\ record.outcome \in Outcomes /\ up' \in BOOLEAN
        BY <3>1 DEF TypeOK, WasOver
      <4> QED
        BY <3>1, <4>1 DEF TypeOK, WasOver
    <3>2. CASE \E e \in Event : HasFailed(e)
      BY <3>2 DEF TypeOK, States, Outcomes, HasFailed
    <3> QED
      BY <2>1, <3>1, <3>2, LoadIs
  <2> QED
    BY <1>16, <2>3, <2>4 DEF Restart, TypeOK, streams, polling
<1>17. CASE Truncate
  <2>1. file' \in Seq(Event) /\ Last(file).id \in Nat
    BY <1>17, BoundedTyped, LastTyped DEF Truncate, TypeOK, Event
  <2>2. replaced' \in BOOLEAN /\ gone' \in SUBSET Nat
    BY <1>17, <2>1 DEF Truncate, TypeOK, Unreadable
  <2> QED
    BY <1>17, <2>1, <2>2 DEF Truncate, TypeOK, station, streams, polling
<1>18. CASE TruncateFails
  <2>1. file' \in Seq(Event) /\ gone' \in SUBSET Nat
    BY <1>18, CutShortIs
  <2>2. kills' \in Nat
    BY <1>18 DEF TruncateFails, TypeOK
  <2>3. long' \in BOOLEAN
    BY <1>18 DEF TruncateFails
  <2>4. UNCHANGED <<station, log, count, emitted, unwritten, replaced, streams, polling, seen>>
    BY <1>18 DEF TruncateFails
  <2> QED
    BY <2>1, <2>2, <2>3, <2>4 DEF TypeOK, station, streams, polling
<1>19. CASE UNCHANGED vars
  BY <1>19 DEF vars, station, events, streams, polling, TypeOK
<1> QED
  BY <1>1, <1>2, <1>4, <1>5, <1>6, <1>7, <1>8, <1>9, <1>10, <1>11, <1>12, <1>13, <1>14,
     <1>15, <1>16, <1>17, <1>18, <1>19
  DEF Next

\* Every variable keeps its type: the channels never hold more than their capacity.
THEOREM EventsTyped == Spec => []TypeOK
BY TypedInit, TypedNext, PTL DEF Spec

-----------------------------------------------------------------------------
(* The job and its record.                                                  *)

LEMMA LifeInit == Init => LifeInv
BY DEF Init, LifeInv, Active

\* A job that was removed has no events to truncate.
LEMMA BoundedHasFile == MayBeBounded => file # <<>>
BY EmptySeq, LogAssumption DEF MayBeBounded

\* Emitting is not the business of a job that is over.
LEMMA LifeNext == TypeOK /\ LifeInv /\ [Next]_vars => LifeInv'
<1> SUFFICES ASSUME TypeOK, LifeInv, [Next]_vars PROVE LifeInv'
  OBVIOUS
<1>1. CASE Start
  <2>1. /\ job'.state = "running" /\ record'.state = "running" /\ ending' = "no" /\ up' = up /\ kills' = kills
        /\ ending = "no"
    BY <1>1 DEF Start, TypeOK, MutexFree
  <2> QED
    BY <2>1 DEF LifeInv, Active
<1>2. CASE Progress
  <2>1. /\ job' = job /\ job.state = "running" /\ record'.state = record.state /\ ending' = "no"
        /\ up' = up /\ kills' = kills /\ ending = "no"
    BY <1>2 DEF Progress, TypeOK, MutexFree
  <2> QED
    BY <2>1 DEF LifeInv, Active
<1>3. ASSUME NEW by, NEW outcome, End(by, outcome), Active, up
      PROVE  LifeInv'
  <2>1. job'.state = "ended" /\ record' = record /\ up' = up
    BY <1>3 DEF End
  <2> QED
    BY <1>3, <2>1 DEF LifeInv, Active
<1>4. CASE Finish
  BY <1>3, <1>4 DEF Finish, Active, MutexFree
<1>5. CASE CancelQueued
  BY <1>3, <1>5 DEF CancelQueued, Active, MutexFree
<1>6. CASE PersistEnd
  <2>1. job' = job /\ record'.state = "ended" /\ ending' = "no" /\ up' = TRUE /\ job.state = "ended"
    BY <1>6 DEF PersistEnd, LifeInv
  <2> QED
    BY <2>1 DEF LifeInv, Active
<1>7. CASE Prune
  <2>1. /\ job'.state = "pruned" /\ record'.state = "pruned" /\ log' = <<>> /\ file' = <<>>
        /\ ending' = "no" /\ up' = up /\ kills' = kills
    BY <1>7 DEF Prune, TypeOK, MutexFree
  <2> QED
    BY <2>1 DEF LifeInv, Active
<1>8. CASE UNCHANGED <<station, events, kills>>
  BY <1>8 DEF LifeInv, Active, station, events
<1>9. CASE Kill
  <2>1. /\ job' = job /\ record' = record /\ log' = log /\ file' = file /\ ending' = "no" /\ kills' > 0
    BY <1>9 DEF Kill, TypeOK, events
  <2> QED
    BY <2>1 DEF LifeInv, Active
<1>10. CASE Restart
  <2>1. Load /\ ~up /\ ending = "no" /\ record' = record /\ kills' = kills
    BY <1>10 DEF Restart, Starting
  <2>2. CASE \E e \in Event : HasFailed(e)
    BY <2>1, <2>2 DEF LifeInv, Active, HasFailed
  <2>3. CASE WasOver /\ record.state = "ended"
    BY <2>1, <2>3 DEF LifeInv, Active, WasOver
  <2>4. CASE WasOver /\ record.state = "pruned"
    <3>1. file = <<>>
      BY <2>4 DEF LifeInv
    <3>2. /\ job'.state = "pruned" /\ log' = Readable(<<>>) /\ file' = <<>> /\ ending' = ending /\ up' = TRUE
      BY <2>4, <3>1 DEF WasOver
    <3>3. log' = <<>>
      BY <3>2, BeyondNothing DEF Readable
    <3> QED
      BY <2>1, <2>4, <3>2, <3>3 DEF LifeInv, Active
  <2>5. WasOver => record.state \in {"ended", "pruned"}
    BY DEF WasOver
  <2> QED
    BY <2>1, <2>2, <2>3, <2>4, <2>5, LoadIs
<1>11. ASSUME NEW r \in Reader, Subscribe(r) \/ Deliver(r) \/ StreamDone(r) \/ Leave(r)
       PROVE  LifeInv'
  BY <1>8, <1>11 DEF Subscribe, Deliver, StreamDone, Leave
<1>12. CASE Poll \/ Check \/ Pause
  BY <1>8, <1>12 DEF Poll, Check, Pause
<1>13. CASE Truncate \/ TruncateFails
  <2>1. /\ job.state # "pruned" /\ UNCHANGED <<up, job, record, ending>>
        /\ kills > 0 => kills' > 0
    BY <1>13, BoundedHasFile DEF Truncate, TruncateFails, LifeInv, TypeOK, station
  <2> QED
    BY <2>1 DEF LifeInv, Active
<1>14. CASE UNCHANGED vars
  BY <1>8, <1>14 DEF vars
<1> QED
  BY <1>1, <1>2, <1>4, <1>5, <1>6, <1>7, <1>9, <1>10, <1>11, <1>12, <1>13, <1>14 DEF Next

-----------------------------------------------------------------------------
(* The numbers.                                                             *)

\* What a start reads of its lines.
LEMMA ReadableIs ==
  ASSUME NEW lines \in Seq(Event)
  PROVE  LET known == Readable(lines) IN
         /\ known \in Seq(Event) /\ Highest(known) \in Nat
         /\ \A i \in 1..Len(known) : known[i].n > 0
         /\ UpTo(known, Highest(known)) /\ UpTo(lines, Highest(known))
         /\ Rising(lines) => Rising(known)
         /\ \A x : Comes(x, known) <=> Comes(x, lines) /\ x.n > 0
<1> DEFINE known == Readable(lines)
<1>1. /\ known \in Seq(Event) /\ (Rising(lines) => Rising(known))
      /\ \A x : Comes(x, known) <=> Comes(x, lines) /\ Passes(x, 0, {})
  BY BeyondTyped, BeyondRises, BeyondComes DEF Readable
<1>2. \A x : Comes(x, known) <=> Comes(x, lines) /\ x.n > 0
  BY <1>1 DEF Passes
<1> HIDE DEF known
<1>3. \A i \in 1..Len(known) : known[i].n > 0
  BY <1>2 DEF Comes
<1>4. Highest(known) \in Nat /\ UpTo(known, Highest(known))
  BY <1>1, HighestIs
<1>5. ASSUME NEW i \in 1..Len(lines) PROVE lines[i].n <= Highest(known)
  <2>1. lines[i].n \in Nat
    BY EventAt
  <2>2. CASE lines[i].n > 0
    <3>1. Comes(lines[i], known)
      BY <1>2, <2>2 DEF Comes
    <3> QED
      BY <1>4, <3>1 DEF Comes, UpTo
  <2>3. CASE ~(lines[i].n > 0)
    BY <1>4, <2>1, <2>3
  <2> QED
    BY <2>2, <2>3
<1> QED
  BY <1>1, <1>2, <1>3, <1>4, <1>5 DEF UpTo, known

\* A truncation keeps events of the file, the last one among them.
LEMMA BoundedIs ==
  ASSUME TypeOK, MayBeBounded, ~Unreadable(file)
  PROVE  /\ \A x : Comes(x, Bounded(file)) => Comes(x, file)
         /\ Bounded(file) # <<>> /\ file # <<>> /\ Last(Bounded(file)) = Last(file)
         /\ Rising(file) => Rising(Bounded(file))
<1> DEFINE m == LogLimit - Margin
           front == SubSeq(file, 1, m)
           last == Last(file)
<1>1. /\ m \in Nat /\ m < Len(file) /\ file # <<>> /\ front \in Seq(Event) /\ file \in Seq(Event)
      /\ Bounded(file) = Append(front, last)
  BY BoundedTyped DEF TypeOK
<1>2. Len(file) \in 1..Len(file) /\ last \in Event /\ last = file[Len(file)]
  BY <1>1, LastTyped
<1>3. Len(front) = m /\ \A i \in 1..m : front[i] = file[i] /\ i \in 1..Len(file) /\ i < Len(file)
  <2>1. Len(file) \in Nat /\ m <= Len(file)
    BY <1>1, LenProperties
  <2> HIDE DEF m
  <2> QED
    BY <1>1, <2>1, FrontIs
<1> HIDE DEF front, last, m
<1>4. \A x : Comes(x, front) => Comes(x, file)
  BY <1>3 DEF Comes
<1>5. Comes(last, file)
  BY <1>2 DEF Comes
<1>6. \A x : Comes(x, Bounded(file)) => Comes(x, file)
  BY <1>1, <1>2, <1>4, <1>5, AppendComes
<1>7. Bounded(file) # <<>> /\ Last(Bounded(file)) = last
  <2>1. Append(front, last) # <<>> /\ Last(Append(front, last)) = last
    BY <1>1, <1>2, AppendAt, AppendProperties DEF Last
  <2> QED
    BY <1>1, <2>1
<1>8. ASSUME Rising(file) PROVE Rising(Bounded(file))
  <2>1. Rising(front)
    BY <1>3, <1>8 DEF Rising
  <2>2. last.n > 0 => Below(front, last.n)
    BY <1>2, <1>3, <1>8 DEF Rising, Below
  <2> QED
    BY <1>1, <1>2, <2>1, <2>2, AppendRises
<1> QED
  BY <1>1, <1>6, <1>7, <1>8 DEF last

\* A new number is above all.
LEMMA NewIsAbove ==
  ASSUME NEW s \in Seq(Event), NEW c \in Nat, UpTo(s, c), NEW e \in Event, e.n = c + 1
  PROVE  Below(s, e.n) /\ e.n > 0
<1>1. \A i \in 1..Len(s) : s[i].n \in Nat
  BY EventAt
<1> QED
  BY <1>1 DEF UpTo, Below

\* An event is emitted with a new number.
LEMMA NumbersEmit ==
  ASSUME TypeOK, NumbersInv, up, NEW kind \in Kinds, Emit(kind)
  PROVE  NumbersInv'
<1>1. CASE UNCHANGED <<events, chan, missed>>
  BY <1>1 DEF NumbersInv, Awake, events, UpTo, Rising
<1>2. CASE \E e \in Event : Emitted(e, kind)
  <2>1. PICK e \in Event : Emitted(e, kind)
    BY <1>2
  <2>2. Below(log, e.n) /\ Below(file, e.n) /\ e.n > 0
    BY <2>1, NewIsAbove DEF TypeOK, NumbersInv, Awake, Emitted
  <2>3. UpTo(log', count') /\ (Rising(log) => Rising(log'))
    BY <2>1, <2>2, WithNumber DEF TypeOK, Emitted, Continues
  <2>4. UpTo(file', count') /\ (Rising(file) => Rising(file'))
    BY <2>1, <2>2 DEF Emitted, Wrote, Continues
  <2>5. \A i \in 1..Len(log') : log'[i].n > 0
    <3>1. \A i \in 1..Len(log') : i = Len(log) + 1 \/ i \in 1..Len(log)
      BY <2>1, AppendAt DEF Emitted, TypeOK
    <3> QED
      BY <2>1, <2>2, <3>1, AppendAt DEF Emitted, TypeOK, NumbersInv
  <2> QED
    BY <2>1, <2>3, <2>4, <2>5 DEF NumbersInv, Emitted, UpTo, Rising
<1> QED
  BY <1>1, <1>2, EmitIs

\* The log changes when an event is emitted, with the removal of its job, and at a start.
LEMMA EventSteps ==
  ASSUME TypeOK, [Next]_vars
  PROVE  \/ Active /\ up /\ \E kind \in Kinds : Emit(kind)
         \/ Prune \/ Truncate \/ TruncateFails \/ Restart
         \/ UNCHANGED events /\ (Awake' => Awake)
<1>1. ASSUME Start \/ Progress PROVE Active /\ up /\ \E kind \in Kinds : Emit(kind)
  BY <1>1 DEF Start, Progress, MutexFree, Active, Kinds
<1>2. ASSUME Finish PROVE Active /\ up /\ \E kind \in Kinds : Emit(kind)
  BY <1>2 DEF Finish, End, MutexFree, Active, Kinds, Outcomes
<1>3. ASSUME CancelQueued PROVE Active /\ up /\ \E kind \in Kinds : Emit(kind)
  BY <1>3 DEF CancelQueued, End, MutexFree, Active, Kinds, Outcomes
<1>4. ASSUME NEW r \in Reader, Subscribe(r) \/ Deliver(r) \/ StreamDone(r) \/ Leave(r)
      PROVE  UNCHANGED events /\ (Awake' => Awake)
  BY <1>4 DEF Subscribe, Deliver, StreamDone, Leave, station, Awake
<1>5. ASSUME PersistEnd \/ Poll \/ Check \/ Pause \/ Kill PROVE UNCHANGED events /\ (Awake' => Awake)
  BY <1>5 DEF PersistEnd, Poll, Check, Pause, Kill, station, Awake
<1>6. UNCHANGED vars => UNCHANGED events /\ (Awake' => Awake)
  BY DEF vars, station, Awake
<1> QED
  BY <1>1, <1>2, <1>3, <1>4, <1>5, <1>6 DEF Next

LEMMA NumbersInit == Init => NumbersInv
<1> SUFFICES ASSUME Init PROVE NumbersInv
  OBVIOUS
<1> DEFINE queued == [n |-> 1, kind |-> "log", id |-> 1]
<1>1. log = <<queued>> /\ file = <<queued>> /\ count = 1
  BY DEF Init
<1>2. Len(<<queued>>) = 1 /\ <<queued>>[1] = queued
  OBVIOUS
<1>3. queued.n = 1
  OBVIOUS
<1> HIDE DEF queued
<1> QED
  BY <1>1, <1>2, <1>3 DEF NumbersInv, UpTo, Rising

LEMMA NumbersRestart ==
  ASSUME TypeOK, NumbersInv, Restart
  PROVE  NumbersInv'
<1>1. Load /\ replaced' = replaced /\ file \in Seq(Event)
  BY DEF Restart, TypeOK
<1> DEFINE known == Readable(file)
<1>2. /\ known \in Seq(Event) /\ Highest(known) \in Nat
      /\ \A i \in 1..Len(known) : known[i].n > 0
      /\ UpTo(known, Highest(known)) /\ UpTo(file, Highest(known))
      /\ Rising(file) => Rising(known)
  BY <1>1, ReadableIs
<1>3. ~replaced' => Rising(file)
  BY <1>1 DEF NumbersInv
<1>4. CASE WasOver
  BY <1>2, <1>3, <1>4 DEF WasOver, NumbersInv, UpTo, Rising
<1>5. CASE \E e \in Event : HasFailed(e)
  <2>1. PICK e \in Event : HasFailed(e)
    BY <1>5
  <2>2. /\ e.n = Highest(known) + 1 /\ log' = Append(known, e) /\ count' = e.n /\ Wrote(file, e)
    BY <2>1 DEF HasFailed
  <2> HIDE DEF known
  <2>3. Below(known, e.n) /\ Below(file, e.n) /\ e.n > 0
    BY <1>1, <1>2, <2>2, NewIsAbove
  <2>4. UpTo(log', count') /\ (Rising(known) => Rising(log'))
    BY <1>2, <2>2, <2>3, WithNumber DEF Continues
  <2>5. UpTo(file', count') /\ (Rising(file) => Rising(file'))
    BY <2>2, <2>3 DEF Wrote, Continues
  <2>6. \A i \in 1..Len(log') : log'[i].n > 0
    <3>1. \A i \in 1..Len(log') : i = Len(known) + 1 \/ i \in 1..Len(known)
      BY <1>2, <2>2, AppendAt
    <3> QED
      BY <1>2, <2>2, <2>3, <3>1, AppendAt
  <2> QED
    BY <1>2, <1>3, <2>4, <2>5, <2>6 DEF NumbersInv, UpTo, Rising
<1> QED
  BY <1>1, <1>4, <1>5, LoadIs

LEMMA NumbersNext == TypeOK /\ NumbersInv /\ [Next]_vars => NumbersInv'
<1> SUFFICES ASSUME TypeOK, NumbersInv, [Next]_vars PROVE NumbersInv'
  OBVIOUS
<1>1. CASE up /\ \E kind \in Kinds : Emit(kind)
  BY <1>1, NumbersEmit
<1>2. CASE Prune
  <2>1. log' = <<>> /\ file' = <<>> /\ count' = count
    BY <1>2 DEF Prune
  <2>2. Len(<<>>) = 0
    BY EmptySeq
  <2> QED
    BY <2>1, <2>2 DEF NumbersInv, UpTo, Rising
<1>3. CASE Restart
  BY <1>3, NumbersRestart
<1>4. ASSUME Truncate \/ TruncateFails, ~replaced' => ~replaced /\ (Rising(file) => Rising(file')) PROVE NumbersInv'
  <2>1. UNCHANGED <<log, count>> /\ ~Awake'
    BY <1>4 DEF Truncate, TruncateFails, Starting, station, Awake
  <2> QED
    BY <1>4, <2>1 DEF NumbersInv, UpTo, Rising
<1>5. CASE Truncate
  <2>1. ~replaced' => ~replaced /\ ~Unreadable(file) /\ file' = Bounded(file) /\ MayBeBounded
    BY <1>5 DEF Truncate
  <2> QED
    BY <1>4, <1>5, <2>1, BoundedIs
<1>6. CASE TruncateFails
  <2>1. replaced' = replaced
    BY <1>6 DEF TruncateFails
  <2> QED
    BY <1>4, <1>6, <2>1, CutShortIs
<1>7. CASE UNCHANGED events /\ (Awake' => Awake)
  BY <1>7 DEF NumbersInv, events, UpTo, Rising
<1> QED
  BY <1>1, <1>2, <1>3, <1>5, <1>6, <1>7, EventSteps

\* The numbers of a log only grow, whatever a start found, unless it replaced a line.
LEMMA NumbersGrow == NumbersInv => CursorsMonotonic
BY DEF NumbersInv, CursorsMonotonic, UpTo, Rising
THEOREM NumbersOnlyGrow == Spec => []CursorsMonotonic
<1>1. Init => TypeOK /\ NumbersInv
  BY TypedInit, NumbersInit
<1>2. TypeOK /\ NumbersInv /\ [Next]_vars => TypeOK' /\ NumbersInv'
  BY TypedNext, NumbersNext
<1> QED
  BY <1>1, <1>2, NumbersGrow, PTL DEF Spec

-----------------------------------------------------------------------------
(* The last word.                                                           *)

\* Whatever a step does to the file, only its last line can be the last event.
LEMMA LinesInit == Init => LinesInv
<1> SUFFICES ASSUME Init PROVE LinesInv
  OBVIOUS
<1> DEFINE queued == [n |-> 1, kind |-> "log", id |-> 1]
<1>1. file = <<queued>> /\ emitted = 1
  BY DEF Init
<1>2. Len(<<queued>>) = 1 /\ <<queued>>[1] = queued /\ queued.id = 1
  OBVIOUS
<1> HIDE DEF queued
<1> QED
  BY <1>1, <1>2 DEF LinesInv

LEMMA LinesNext == TypeOK /\ LinesInv /\ [Next]_vars => LinesInv'
<1> SUFFICES ASSUME TypeOK, LinesInv, [Next]_vars PROVE LinesInv'
  OBVIOUS
<1>1. emitted \in Nat /\ emitted > 0 /\ file \in Seq(Event) /\ Len(file) \in Nat
  BY LenProperties DEF LinesInv, TypeOK
<1>2. ASSUME UNCHANGED <<file, emitted>> PROVE LinesInv'
  BY <1>2 DEF LinesInv
<1>3. ASSUME NEW kind \in Kinds, Emit(kind) PROVE LinesInv'
  <2>1. CASE UNCHANGED <<events, chan, missed>>
    BY <1>2, <2>1 DEF events
  <2>2. CASE \E e \in Event : Emitted(e, kind)
    BY <2>2, LinesWrite DEF Emitted
  <2> QED
    BY <1>3, <2>1, <2>2, EmitIs
<1>4. CASE Prune
  <2>1. file' = <<>> /\ emitted' = emitted /\ Len(<<>>) = 0
    BY <1>4, EmptySeq DEF Prune
  <2> QED
    BY <1>1, <2>1 DEF LinesInv
<1>5. CASE Restart
  <2>1. CASE WasOver
    BY <1>2, <2>1 DEF WasOver
  <2>2. CASE \E e \in Event : HasFailed(e)
    BY <2>2, LinesWrite DEF HasFailed
  <2> QED
    BY <1>5, <2>1, <2>2, LoadIs DEF Restart
<1>6. CASE Truncate
  <2>1. file' = Bounded(file) /\ emitted' = emitted /\ MayBeBounded
    BY <1>6 DEF Truncate
  <2> DEFINE m == LogLimit - Margin
             s == SubSeq(file, 1, m)
  <2>2. m \in Nat /\ m < Len(file) /\ m <= Len(file) /\ s \in Seq(Event) /\ file # <<>>
    BY <1>1, <2>1, BoundedTyped
  <2> HIDE DEF m
  <2>3. Len(s) = m /\ \A i \in 1..m : s[i] = file[i] /\ i \in 1..Len(file) /\ i < Len(file)
    BY <1>1, <2>2, FrontIs
  <2>4. PICK e \in Event : file' = Append(s, e) /\ (e.id = 0 \/ e = Last(file))
    <3>1. [n |-> record.count, kind |-> "log", id |-> 0] \in Event /\ Last(file) \in Event
      BY <1>1, <2>2, LastTyped DEF TypeOK, Event, Kinds
    <3> QED
      BY <2>1, <3>1 DEF Bounded, m
  <2> HIDE DEF s
  <2>5. e.id <= emitted
    <3>1. Len(file) \in 1..Len(file) /\ Last(file) = file[Len(file)]
      BY <1>1, <2>2, LastTyped
    <3> QED
      BY <1>1, <2>4, <3>1 DEF LinesInv
  <2>6. /\ Len(Append(s, e)) = m + 1 /\ Append(s, e)[m + 1] = e
        /\ \A i \in 1..Len(Append(s, e)) : i = m + 1 \/ (i \in 1..m /\ Append(s, e)[i] = s[i])
    BY <2>2, <2>3, AppendAt
  <2>7. ASSUME NEW i \in 1..m PROVE s[i].id < emitted /\ s[i].id <= emitted
    <3>1. file[i].id \in Nat /\ file[i].id < emitted
      BY <1>1, <2>3, EventAt DEF LinesInv
    <3> QED
      BY <1>1, <2>3, <3>1
  <2>8. \A i \in 1..Len(file') : file'[i].id <= emitted /\ (i < Len(file') => file'[i].id < emitted)
    BY <2>2, <2>4, <2>5, <2>6, <2>7
  <2> QED
    BY <1>1, <2>1, <2>8 DEF LinesInv
<1>7. CASE TruncateFails
  <2>1. emitted' = emitted
    BY <1>7 DEF TruncateFails
  <2>2. \A x : Comes(x, file') => x.id < emitted
    BY <1>1, <1>7, CutShortIs DEF LinesInv, Torn
  <2>3. \A i \in 1..Len(file') : file'[i].id < emitted /\ file'[i].id <= emitted
    <3>1. \A i \in 1..Len(file') : file'[i].id < emitted /\ file'[i].id \in Nat
      BY <1>7, <2>2, CutShortIs, EventAt DEF Comes
    <3> QED
      BY <1>1, <3>1
  <2> QED
    BY <1>1, <2>1, <2>3 DEF LinesInv
<1>8. CASE UNCHANGED events
  BY <1>2, <1>8 DEF events
<1> QED
  BY <1>3, <1>4, <1>5, <1>6, <1>7, <1>8, EventSteps

\* The event a job ends with is its last one, in memory and in the file if it was written.
LEMMA LastAppended ==
  ASSUME NEW s \in Seq(Event), NEW e \in Event
  PROVE  Append(s, e) # <<>> /\ Last(Append(s, e)) = e
BY AppendAt, AppendProperties DEF Last

LEMMA OutcomeInit == Init => OutcomeInv
BY DEF Init, OutcomeInv, LastWord, Said

LEMMA OutcomeEnd ==
  ASSUME TypeOK, NumbersInv, LifeInv, NEW by, NEW outcome \in {"done", "canceled", "failed"}, End(by, outcome),
         Active
  PROVE  OutcomeInv'
<1>1. Emit(outcome) /\ outcome \in Kinds /\ outcome # "log"
  BY DEF End, Kinds, Outcomes
<1>2. PICK e \in Event : Emitted(e, outcome)
  BY <1>1, EmitIs
<1>3. /\ log' = Append(log, e) /\ e.kind = outcome /\ emitted' = e.id /\ e.n > 0
      /\ e.id \in unwritten' \/ file' = Append(file, e)
  BY <1>2 DEF Emitted, Wrote, TypeOK
<1>4. Append(log, e) # <<>> /\ Last(Append(log, e)) = e /\ Append(file, e) # <<>> /\ Last(Append(file, e)) = e
  BY LastAppended DEF TypeOK
<1>5. job' = [state |-> "ended", outcome |-> outcome] /\ record' = record /\ record.state # "ended"
  BY DEF End, LifeInv
<1>6. Said(outcome)'
  BY <1>3, <1>4 DEF Said
<1>7. LastWord'
  BY <1>3, <1>4, <1>5 DEF LastWord
<1> QED
  BY <1>5, <1>6, <1>7 DEF OutcomeInv, Said

LEMMA OutcomeRestart ==
  ASSUME TypeOK, LifeInv, OutcomeInv, Restart
  PROVE  OutcomeInv'
<1>1. Load /\ file \in Seq(Event)
  BY DEF Restart, TypeOK
<1>2. record' = record /\ kills' = kills /\ kills > 0 /\ ~up /\ ending = "no" /\ gone' = gone
  BY DEF Restart, Starting, LifeInv
<1>3. CASE WasOver
  <2>1. /\ log' = Readable(file) /\ file' = file /\ emitted' = emitted /\ unwritten' = unwritten
        /\ job' = [state |-> record.state, outcome |-> record.outcome] /\ ending' = "no"
    BY <1>2, <1>3 DEF WasOver
  <2>2. CASE emitted \in unwritten \cup gone
    BY <1>2, <2>1, <2>2 DEF OutcomeInv, LastWord, Said
  <2>3. CASE record.state # "ended"
    BY <1>2, <2>1, <2>3 DEF OutcomeInv, LastWord
  <2>4. CASE record.state = "ended" /\ emitted \notin unwritten \cup gone
    <3>1. file # <<>> /\ Last(file).n > 0 /\ Last(file).kind = record.outcome /\ Last(file).id = emitted
      BY <2>4 DEF OutcomeInv, Said
    <3>2. Passes(Last(file), 0, {})
      BY <3>1 DEF Passes
    <3>3. Readable(file) # <<>> /\ Last(Readable(file)) = Last(file)
      BY <1>1, <3>1, <3>2, BeyondLast DEF Readable
    <3>4. Said(record.outcome)'
      BY <1>2, <2>1, <3>1 DEF Said
    <3>5. LastWord'
      BY <2>1, <3>1, <3>3 DEF LastWord
    <3> QED
      BY <1>2, <2>1, <3>4, <3>5 DEF OutcomeInv, Said
  <2> QED
    BY <2>2, <2>3, <2>4
<1>4. CASE \E e \in Event : HasFailed(e)
  <2>1. PICK e \in Event : HasFailed(e)
    BY <1>4
  <2>2. Readable(file) \in Seq(Event) /\ Highest(Readable(file)) \in Nat
    BY <1>1, LoadIs
  <2>3. /\ log' = Append(Readable(file), e) /\ e.kind = "failed" /\ emitted' = e.id /\ e.n > 0
        /\ e.id \in unwritten' \/ file' = Append(file, e)
        /\ job' = [state |-> "ended", outcome |-> "failed"] /\ record.state # "ended"
    BY <2>1, <2>2 DEF HasFailed, Wrote
  <2>4. /\ Append(Readable(file), e) # <<>> /\ Last(Append(Readable(file), e)) = e
        /\ Append(file, e) # <<>> /\ Last(Append(file, e)) = e
    BY <1>1, <2>2, LastAppended
  <2>5. Said("failed")'
    BY <2>3, <2>4 DEF Said
  <2>6. LastWord'
    BY <2>3, <2>4 DEF LastWord
  <2> QED
    BY <1>2, <2>3, <2>5, <2>6 DEF OutcomeInv, Said
<1> QED
  BY <1>1, <1>3, <1>4, LoadIs

\* A truncation keeps the last event, or counts it among those that are gone.
LEMMA OutcomeTruncate ==
  ASSUME TypeOK, LinesInv, OutcomeInv, Truncate \/ TruncateFails
  PROVE  OutcomeInv'
<1>1. /\ UNCHANGED <<up, job, record, ending, log, emitted, unwritten>> /\ MayBeBounded /\ gone \subseteq gone'
      /\ kills > 0 => kills' > 0
  BY CutShortIs DEF Truncate, TruncateFails, station, TypeOK
<1>2. LastWord'
  BY <1>1 DEF OutcomeInv, LastWord
<1>3. ASSUME NEW outcome, Said(outcome) PROVE Said(outcome)'
  <2>1. CASE emitted \in unwritten \cup gone
    BY <1>1, <2>1 DEF Said
  <2>2. CASE emitted \notin unwritten \cup gone
    <3>1. /\ file # <<>> /\ Last(file).n > 0 /\ Last(file).kind = outcome /\ Last(file).id = emitted
      BY <1>3, <2>2 DEF Said
    <3>2. CASE Truncate /\ Unreadable(file)
      BY <1>1, <3>1, <3>2 DEF Truncate, Said
    <3>3. CASE Truncate /\ ~Unreadable(file)
      <4>1. file' = Bounded(file) /\ Bounded(file) # <<>> /\ Last(Bounded(file)) = Last(file)
        BY <1>1, <3>3, BoundedIs DEF Truncate
      <4> QED
        BY <1>1, <3>1, <4>1 DEF Said
    <3>4. CASE TruncateFails
      <4>1. emitted \in Nat /\ emitted > 0 /\ Last(file) \in Event
        BY <3>1, LastTyped DEF TypeOK, LinesInv
      <4>2. \A x : Comes(x, file') => x.id < emitted
        BY <3>4, <4>1, CutShortIs DEF LinesInv, Torn
      <4>3. Last(file).id \in 1..emitted /\ \A x : Comes(x, file') => x.id # Last(file).id
        BY <3>1, <4>1, <4>2
      <4>4. emitted \in gone'
        BY <3>1, <3>4, <4>1, <4>3, CutShortIs
      <4> QED
        BY <1>1, <4>4 DEF Said
    <3> QED
      BY <3>2, <3>3, <3>4
  <2> QED
    BY <2>1, <2>2
<1> QED
  BY <1>1, <1>2, <1>3 DEF OutcomeInv

LEMMA OutcomeNext == TypeOK /\ LifeInv /\ NumbersInv /\ LinesInv /\ OutcomeInv /\ [Next]_vars => OutcomeInv'
<1> SUFFICES ASSUME TypeOK, LifeInv, NumbersInv, LinesInv, OutcomeInv, [Next]_vars PROVE OutcomeInv'
  OBVIOUS
<1>1. CASE Start \/ Progress
  <2>1. job'.state = "running" /\ record'.state # "ended" /\ ending' = "no"
    BY <1>1 DEF Start, Progress, TypeOK, MutexFree, LifeInv, Active
  <2> QED
    BY <2>1 DEF OutcomeInv, LastWord
<1>2. CASE Finish
  BY <1>2, OutcomeEnd DEF Finish, Active
<1>3. CASE CancelQueued
  BY <1>3, OutcomeEnd DEF CancelQueued, Active
<1>4. CASE PersistEnd
  <2>1. /\ job' = job /\ record'.outcome = job.outcome /\ ending' = "no" /\ kills' = kills
        /\ UNCHANGED <<log, file, emitted, unwritten, gone>> /\ ending # "no"
    BY <1>4 DEF PersistEnd, events
  <2> QED
    BY <2>1 DEF OutcomeInv, LastWord, Said
<1>5. CASE Prune
  <2>1. job'.state = "pruned" /\ record'.state = "pruned" /\ ending' = "no"
    BY <1>5 DEF Prune, TypeOK, MutexFree
  <2> QED
    BY <2>1 DEF OutcomeInv, LastWord
<1>6. CASE UNCHANGED <<station, events, kills>>
  BY <1>6 DEF OutcomeInv, LastWord, Said, station, events
<1>7. CASE Kill
  <2>1. job' = job /\ record' = record /\ UNCHANGED events /\ ending' = "no" /\ (kills > 0 => kills' > 0)
    BY <1>7 DEF Kill, TypeOK
  <2> QED
    BY <2>1 DEF OutcomeInv, LastWord, Said, events
<1>8. CASE Restart
  BY <1>8, OutcomeRestart
<1>9. ASSUME NEW r \in Reader, Subscribe(r) \/ Deliver(r) \/ StreamDone(r) \/ Leave(r)
      PROVE  OutcomeInv'
  BY <1>6, <1>9 DEF Subscribe, Deliver, StreamDone, Leave
<1>10. CASE Poll \/ Check \/ Pause
  BY <1>6, <1>10 DEF Poll, Check, Pause
<1>11. CASE Truncate \/ TruncateFails
  BY <1>11, OutcomeTruncate
<1>12. CASE UNCHANGED vars
  BY <1>6, <1>12 DEF vars
<1> QED
  BY <1>1, <1>2, <1>3, <1>4, <1>5, <1>7, <1>8, <1>9, <1>10, <1>11, <1>12 DEF Next

\* The last word of an ended job's log is its outcome: through a full log, a kill before the
\* record, truncations and restarts, unless this very event was lost: its append failed or met
\* a partial line, or a start's truncation was cut short or could not read it.
THEOREM LastWordIsOutcome == Spec => []LastWord
<1>1. Init => TypeOK /\ LifeInv /\ NumbersInv /\ LinesInv /\ OutcomeInv
  BY TypedInit, LifeInit, NumbersInit, LinesInit, OutcomeInit
<1>2. TypeOK /\ LifeInv /\ NumbersInv /\ LinesInv /\ OutcomeInv /\ [Next]_vars
      => TypeOK' /\ LifeInv' /\ NumbersInv' /\ LinesInv' /\ OutcomeInv'
  BY TypedNext, LifeNext, NumbersNext, LinesNext, OutcomeNext
<1>3. OutcomeInv => LastWord
  BY DEF OutcomeInv
<1> QED
  BY <1>1, <1>2, <1>3, PTL DEF Spec

-----------------------------------------------------------------------------
(* The streams.                                                             *)

LEMMA HeadFirst ==
  ASSUME NEW s \in Seq(Event), s # <<>>
  PROVE  /\ s = <<Head(s)>> \o Tail(s) /\ Head(s) \in Event /\ Tail(s) \in Seq(Event)
         /\ <<Head(s)>> \in Seq(Event) /\ Comes(Head(s), s)
<1>1. Head(s) \in Event /\ Tail(s) \in Seq(Event)
  BY HeadTailProperties
<1>2. Len(s) \in Nat /\ 1 \in 1..Len(s) /\ Len(s) \in 1..Len(s) /\ Head(s) = s[1]
  BY LastTyped, EmptySeq
<1>3. s = SubSeq(s, 1, Len(s))
  BY SubSeqFull
<1>4. SubSeq(s, 1, Len(s)) = <<s[1]>> \o SubSeq(s, 1 + 1, Len(s))
  BY <1>2, SubSeqRecursiveFirst
<1>5. Tail(s) = SubSeq(s, 2, Len(s))
  BY TailIsSubSeq
<1>6. <<Head(s)>> \in Seq(Event)
  BY <1>1
<1> QED
  BY <1>1, <1>2, <1>3, <1>4, <1>5, <1>6 DEF Comes

\* A stream that receives its next event shows what it showed.
LEMMA ReceiveKeeps ==
  ASSUME NEW g \in Seq(Event), NEW d \in Seq(Event), NEW c \in Seq(Event)
  PROVE  /\ d # <<>> => Append(g, Head(d)) \o Tail(d) \o c = g \o d \o c
         /\ d = <<>> /\ c # <<>> => Append(g, Head(c)) \o d \o Tail(c) = g \o d \o c
<1>1. ASSUME NEW s \in Seq(Event), s # <<>> PROVE Append(g, Head(s)) \o Tail(s) = g \o s
  <2>1. /\ s = <<Head(s)>> \o Tail(s) /\ Head(s) \in Event /\ Tail(s) \in Seq(Event)
        /\ <<Head(s)>> \in Seq(Event)
    BY <1>1, HeadFirst
  <2>2. Append(g, Head(s)) = g \o <<Head(s)>>
    BY <2>1, AppendIsConcat
  <2>3. (g \o <<Head(s)>>) \o Tail(s) = g \o (<<Head(s)>> \o Tail(s))
    BY SMTT(30), <2>1, ConcatAssociative
  <2> QED
    BY <2>1, <2>2, <2>3
<1>2. d # <<>> => Append(g, Head(d)) \o Tail(d) \o c = g \o d \o c
  BY <1>1
<1>3. ASSUME d = <<>>, c # <<>> PROVE Append(g, Head(c)) \o d \o Tail(c) = g \o d \o c
  <2>1. Append(g, Head(c)) \in Seq(Event)
    BY <1>3, HeadFirst, AppendAt
  <2>2. Append(g, Head(c)) \o d = Append(g, Head(c)) /\ g \o d = g
    BY <1>3, <2>1, ConcatEmptySeq
  <2> QED
    BY <1>1, <1>3, <2>2
<1> QED
  BY <1>2, <1>3

LEMMA AppendShows ==
  ASSUME NEW g \in Seq(Event), NEW d \in Seq(Event), NEW c \in Seq(Event), NEW e \in Event
  PROVE  g \o d \o Append(c, e) = Append(g \o d \o c, e)
<1>1. g \o d \in Seq(Event) /\ <<e>> \in Seq(Event) /\ g \o d \o c \in Seq(Event)
  BY ConcatProperties
<1>2. Append(c, e) = c \o <<e>> /\ Append((g \o d) \o c, e) = ((g \o d) \o c) \o <<e>>
  BY <1>1, AppendIsConcat
<1>3. ((g \o d) \o c) \o <<e>> = (g \o d) \o (c \o <<e>>)
  BY <1>1, ConcatAssociative
<1> QED
  BY <1>2, <1>3

LEMMA ConcatComes ==
  ASSUME NEW a \in Seq(Event), NEW b \in Seq(Event), NEW x
  PROVE  Comes(x, a) \/ Comes(x, b) => Comes(x, a \o b)
<1>1. /\ Len(a) \in Nat /\ Len(b) \in Nat /\ Len(a \o b) = Len(a) + Len(b)
      /\ \A i \in 1..Len(a) + Len(b) : (a \o b)[i] = IF i <= Len(a) THEN a[i] ELSE b[i - Len(a)]
  BY LenProperties, ConcatProperties
<1>2. ASSUME NEW i \in 1..Len(a) PROVE i \in 1..Len(a \o b) /\ (a \o b)[i] = a[i]
  BY <1>1
<1>3. ASSUME NEW i \in 1..Len(b)
      PROVE  i + Len(a) \in 1..Len(a \o b) /\ (a \o b)[i + Len(a)] = b[i]
  <2>1. i + Len(a) \in 1..Len(a) + Len(b) /\ ~(i + Len(a) <= Len(a)) /\ (i + Len(a)) - Len(a) = i
    BY <1>1
  <2> QED
    BY <1>1, <2>1
<1> QED
  BY <1>2, <1>3 DEF Comes

\* What a stream is about to receive is in the log.
LEMMA NextIsLogged ==
  ASSUME TypeOK, NEW r \in Reader, Stream(r), reader[r] = "reading", job.state # "pruned", NEW x,
         Comes(x, due[r]) \/ Comes(x, chan[r])
  PROVE  Comes(x, log)
<1>1. got[r] \in Seq(Event) /\ due[r] \in Seq(Event) /\ chan[r] \in Seq(Event) /\ log \in Seq(Event) /\ after[r] \in Nat
  BY DEF TypeOK
<1>2. got[r] \o due[r] \in Seq(Event)
  BY <1>1, ConcatProperties
<1>3. Comes(x, (got[r] \o due[r]) \o chan[r])
  BY <1>1, <1>2, ConcatComes
<1>4. got[r] \o due[r] \o chan[r] = Beyond(log, after[r], missed[r])
  BY DEF Stream, Shows
<1> QED
  BY <1>1, <1>3, <1>4, BeyondComes

LEMMA StreamInit == Init => StreamInv
<1> SUFFICES ASSUME Init PROVE StreamInv
  OBVIOUS
<1> DEFINE queued == [n |-> 1, kind |-> "log", id |-> 1]
<1>1. log = <<queued>> /\ emitted = 1 /\ count = 1
  BY DEF Init
<1>2. Len(<<queued>>) = 1 /\ <<queued>>[1] = queued
  OBVIOUS
<1>3. queued.id = 1
  OBVIOUS
<1> HIDE DEF queued
<1>4. NamedUpTo(log, emitted)
  BY <1>1, <1>2, <1>3 DEF NamedUpTo
<1>5. ASSUME NEW r \in Reader PROVE Stream(r)
  BY <1>1 DEF Init, Stream
<1> QED
  BY <1>4, <1>5 DEF StreamInv

\* An event is sent to every stream, or missed by one that is full.
LEMMA StreamEmit ==
  ASSUME TypeOK, StreamInv, Active, up, NEW kind \in Kinds, Emit(kind), up' = up, job'.state # "pruned",
         UNCHANGED <<subscriber, due, after, reader, got, cursor>>
  PROVE  StreamInv'
<1>1. CASE UNCHANGED <<events, chan, missed>>
  BY <1>1 DEF StreamInv, Stream, Shows, events, Active, NamedUpTo
<1>2. CASE \E e \in Event : Emitted(e, kind)
  <2>1. PICK e \in Event : Emitted(e, kind)
    BY <1>2
  <2>2. /\ e.n = count + 1 /\ e.id = emitted + 1 /\ log' = Append(log, e) /\ count' = e.n /\ emitted' = e.id
        /\ count \in Nat /\ emitted \in Nat /\ log \in Seq(Event)
    BY <2>1 DEF Emitted, TypeOK
  <2>3. NamedUpTo(log, emitted)
    BY DEF StreamInv
  <2>4. NamedUpTo(log', emitted')
    <3>1. ASSUME NEW i \in 1..Len(log') PROVE log'[i].id <= emitted'
      <4>1. CASE i \in 1..Len(log)
        <5>1. log'[i] = log[i] /\ log[i].id \in Nat /\ log[i].id <= emitted
          BY <2>2, <2>3, <4>1, AppendAt, EventAt DEF NamedUpTo
        <5> QED
          BY <2>2, <5>1
      <4>2. CASE i = Len(log) + 1
        BY <2>2, <4>2, AppendAt
      <4> QED
        BY <2>2, <4>1, <4>2, AppendAt
    <3> QED
      BY <3>1 DEF NamedUpTo
  <2>5. ASSUME NEW r \in Reader PROVE Stream(r)'
    <3>1. /\ Stream(r) /\ cursor[r] \in Nat /\ after[r] \in Nat /\ missed[r] \subseteq Nat
          /\ got[r] \in Seq(Event) /\ due[r] \in Seq(Event) /\ chan[r] \in Seq(Event)
      BY DEF StreamInv, TypeOK
    <3>2. missed'[r] = missed[r] \/ missed'[r] = missed[r] \cup {e.id}
      BY <2>1 DEF Emitted
    <3>3. cursor'[r] <= count' /\ \A x \in missed'[r] : x <= emitted'
      <4>1. cursor'[r] = cursor[r] /\ cursor[r] <= count
        BY <3>1 DEF Stream
      <4>2. \A x \in missed[r] : x \in Nat /\ x <= emitted
        BY <3>1 DEF Stream
      <4> QED
        BY <2>2, <3>1, <3>2, <4>1, <4>2
    <3>4. ASSUME reader[r] = "reading" PROVE Shows(r)'
      <4>1. /\ subscriber[r] = "open" /\ after[r] <= count
            /\ got[r] \o due[r] \o chan[r] = Beyond(log, after[r], missed[r])
        BY <3>1, <3>4 DEF Stream, Shows, Active
      <4>2. e.id \notin missed[r] /\ e.n > after[r]
        BY <2>2, <3>1, <4>1 DEF Stream
      <4>3. CASE HasRoom(r)
        <5>1. chan'[r] = Append(chan[r], e) /\ missed'[r] = missed[r]
          BY <2>1, <4>1, <4>3 DEF Emitted
        <5>2. Beyond(log', after[r], missed[r]) = Append(Beyond(log, after[r], missed[r]), e)
          BY <2>2, <3>1, <4>2, BeyondAppend DEF Picked, Passes
        <5>3. got[r] \o due[r] \o Append(chan[r], e) = Append(got[r] \o due[r] \o chan[r], e)
          BY <3>1, AppendShows
        <5>4. got'[r] \o due'[r] \o chan'[r] = Beyond(log', after'[r], missed'[r])
          BY <4>1, <5>1, <5>2, <5>3
        <5> QED
          BY <2>2, <4>1, <3>1, <5>4 DEF Shows
      <4>4. CASE ~HasRoom(r)
        <5>1. chan'[r] = chan[r] /\ missed'[r] = missed[r] \cup {e.id}
          BY <2>1, <4>1, <4>4 DEF Emitted
        <5>2. ~Passes(e, after[r], missed[r] \cup {e.id})
          BY DEF Passes
        <5>3. Beyond(log', after[r], missed[r] \cup {e.id}) = Beyond(log, after[r], missed[r] \cup {e.id})
          BY <2>2, <3>1, <5>2, BeyondAppend DEF Picked
        <5>4. Beyond(log, after[r], missed[r] \cup {e.id}) = Beyond(log, after[r], missed[r])
          <6>1. e.id \in Nat /\ e.id > emitted
            BY <2>2
          <6>2. ASSUME NEW x \in Nat, x > emitted, NEW n \in Nat, NEW out
                PROVE  Beyond(log, n, out \cup {x}) = Beyond(log, n, out)
            BY <2>2, <2>3, <6>2, BeyondWithout
          <6> QED
            BY <3>1, <6>1, <6>2
        <5>5. got'[r] \o due'[r] \o chan'[r] = Beyond(log', after'[r], missed'[r])
          BY <4>1, <5>1, <5>3, <5>4
        <5> QED
          BY <2>2, <4>1, <3>1, <5>5 DEF Shows
      <4> QED
        BY <4>3, <4>4
    <3> QED
      BY <3>3, <3>4 DEF Stream
  <2> QED
    BY <2>4, <2>5 DEF StreamInv
<1> QED
  BY <1>1, <1>2, EmitIs

\* Nothing of a stream changes when nothing it depends on does.
LEMMA StreamFrame ==
  ASSUME NEW r \in Reader, Stream(r), UNCHANGED <<log, count, emitted>>, Active' => Active,
         job'.state # "pruned" => job.state # "pruned", cursor'[r] = cursor[r], missed'[r] = missed[r],
         reader'[r] = "reading" =>
           /\ reader[r] = "reading" /\ up' /\ (Active' => subscriber'[r] = subscriber[r])
           /\ after'[r] = after[r] /\ got'[r] = got[r] /\ due'[r] = due[r] /\ chan'[r] = chan[r]
  PROVE  Stream(r)'
BY DEF Stream, Shows

LEMMA StreamSubscribe ==
  ASSUME TypeOK, StreamInv, NumbersInv, NEW r \in Reader, Subscribe(r)
  PROVE  StreamInv'
<1>1. /\ UNCHANGED <<up, job, log, count, emitted, cursor>> /\ up
      /\ \A q \in Reader : q # r =>
           /\ reader'[q] = reader[q] /\ after'[q] = after[q] /\ due'[q] = due[q] /\ subscriber'[q] = subscriber[q]
           /\ chan'[q] = chan[q] /\ got'[q] = got[q] /\ missed'[q] = missed[q]
  BY DEF Subscribe, TypeOK, station, events, MutexFree
<1>2. ASSUME NEW q \in Reader, q # r PROVE Stream(q)'
  BY <1>1, <1>2, StreamFrame DEF StreamInv, Active, Stream, Shows
<1>3. Stream(r)'
  <2>1. /\ got'[r] = <<>> /\ due'[r] = Since(cursor[r]) /\ chan'[r] = <<>> /\ missed'[r] = {}
        /\ after'[r] = cursor[r] /\ (Active => subscriber'[r] = "open") /\ cursor[r] \in Nat
    BY DEF Subscribe, TypeOK, Active
  <2>2. due'[r] = Beyond(log, cursor[r], {}) /\ due'[r] \in Seq(Event)
    BY <2>1, BeyondTyped DEF Since, TypeOK
  <2>3. got'[r] \o due'[r] \o chan'[r] = due'[r]
    BY <2>1, <2>2, ConcatEmptySeq
  <2>4. Active => cursor[r] <= count
    BY DEF StreamInv, Stream
  <2> QED
    BY <1>1, <2>1, <2>2, <2>3, <2>4 DEF Stream, Shows, Active
<1> QED
  BY <1>1, <1>2, <1>3 DEF StreamInv, Active, NamedUpTo

LEMMA StreamDeliver ==
  ASSUME TypeOK, StreamInv, NumbersInv, NEW r \in Reader, Deliver(r)
  PROVE  StreamInv'
<1>1. UNCHANGED <<up, job, log, count, emitted, subscriber, after, reader, missed>> /\ reader[r] = "reading"
  BY DEF Deliver, station, events
<1>2. \A q \in Reader : q # r =>
        cursor'[q] = cursor[q] /\ due'[q] = due[q] /\ chan'[q] = chan[q] /\ got'[q] = got[q]
  BY DEF Deliver, TypeOK
<1>3. ASSUME NEW q \in Reader, q # r PROVE Stream(q)'
  BY <1>1, <1>2, <1>3, StreamFrame DEF StreamInv, Active, Stream, Shows
<1>4. got[r] \in Seq(Event) /\ due[r] \in Seq(Event) /\ chan[r] \in Seq(Event) /\ Stream(r)
  BY DEF TypeOK, StreamInv
<1>5. got'[r] \o due'[r] \o chan'[r] = got[r] \o due[r] \o chan[r]
  <2>1. CASE due[r] # <<>>
    <3>1. got'[r] = Append(got[r], Head(due[r])) /\ due'[r] = Tail(due[r]) /\ chan'[r] = chan[r]
      BY <2>1 DEF Deliver, TypeOK
    <3>2. Append(got[r], Head(due[r])) \o Tail(due[r]) \o chan[r] = got[r] \o due[r] \o chan[r]
      BY <1>4, <2>1, ReceiveKeeps
    <3> QED
      BY <3>1, <3>2
  <2>2. CASE due[r] = <<>>
    <3>1. /\ got'[r] = Append(got[r], Head(chan[r])) /\ due'[r] = due[r] /\ chan'[r] = Tail(chan[r])
          /\ chan[r] # <<>>
      BY <2>2 DEF Deliver, TypeOK
    <3>2. Append(got[r], Head(chan[r])) \o due[r] \o Tail(chan[r]) = got[r] \o due[r] \o chan[r]
      BY <1>4, <2>2, <3>1, ReceiveKeeps
    <3> QED
      BY <3>1, <3>2
  <2> QED
    BY <2>1, <2>2
<1>6. PICK x : cursor'[r] = x.n /\ (Comes(x, due[r]) \/ Comes(x, chan[r]))
  <2>1. CASE due[r] # <<>>
    BY <1>4, <2>1, HeadFirst DEF Deliver, TypeOK
  <2>2. CASE due[r] = <<>>
    BY <1>4, <2>2, HeadFirst DEF Deliver, TypeOK
  <2> QED
    BY <2>1, <2>2
<1>7. Active => cursor'[r] <= count
  <2>1. Active => Comes(x, log)
    BY <1>1, <1>4, <1>6, NextIsLogged DEF Active
  <2> QED
    BY <1>6, <2>1 DEF NumbersInv, UpTo, Comes
<1>8. Stream(r)'
  BY <1>1, <1>4, <1>5, <1>7 DEF Stream, Shows, Active
<1> QED
  BY <1>1, <1>3, <1>8 DEF StreamInv, Active, NamedUpTo

LEMMA StreamRestart ==
  ASSUME TypeOK, StreamInv, LifeInv, Restart
  PROVE  StreamInv'
<1>1. /\ ~up /\ UNCHANGED <<cursor, missed, reader>>
  BY DEF Restart, Starting, streams
<1>2. Load
  BY DEF Restart
<1>3. emitted' \in Nat /\ emitted <= emitted' /\ ~Active'
  <2>1. CASE WasOver
    BY <2>1 DEF WasOver, TypeOK, Active
  <2>2. CASE \E e \in Event : HasFailed(e)
    BY <2>2 DEF HasFailed, TypeOK, Active
  <2> QED
    BY <1>2, <2>1, <2>2, LoadIs
<1>4. ASSUME NEW r \in Reader PROVE Stream(r)'
  <2>1. Stream(r) /\ reader[r] # "reading" /\ missed[r] \subseteq Nat /\ emitted \in Nat
    BY <1>1 DEF StreamInv, Stream, Shows, TypeOK
  <2>2. \A x \in missed[r] : x \in Nat /\ x <= emitted
    BY <2>1 DEF Stream
  <2>3. \A x \in missed'[r] : x <= emitted'
    BY <1>1, <1>3, <2>1, <2>2
  <2> QED
    BY <1>1, <1>3, <2>1, <2>3 DEF Stream
<1> QED
  BY <1>3, <1>4 DEF StreamInv

LEMMA StreamNext == TypeOK /\ LifeInv /\ NumbersInv /\ StreamInv /\ [Next]_vars => StreamInv'
<1> SUFFICES ASSUME TypeOK, LifeInv, NumbersInv, StreamInv, [Next]_vars PROVE StreamInv'
  OBVIOUS
<1>1. CASE Start \/ Progress
  <2>1. /\ Active /\ up /\ Emit("log") /\ "log" \in Kinds /\ up' = up
        /\ UNCHANGED <<subscriber, due, after, reader, got, cursor>>
    BY <1>1 DEF Start, Progress, MutexFree, Active, Kinds
  <2>2. job'.state # "pruned"
    BY <1>1 DEF Start, Progress, TypeOK
  <2> QED
    BY <2>1, <2>2, StreamEmit
<1>2. ASSUME NEW by, NEW outcome \in {"done", "canceled", "failed"}, End(by, outcome), Active, up
      PROVE  StreamInv'
  <2>1. /\ Emit(outcome) /\ outcome \in Kinds /\ up' = up /\ job'.state # "pruned"
        /\ UNCHANGED <<subscriber, due, after, reader, got, cursor>>
    BY <1>2 DEF End, Kinds, Outcomes
  <2> QED
    BY <1>2, <2>1, StreamEmit
<1>3. CASE Finish \/ CancelQueued
  BY <1>2, <1>3 DEF Finish, CancelQueued, MutexFree, Active
<1>4. ASSUME UNCHANGED <<log, count, emitted, cursor, missed>>, Active' => Active,
             job'.state # "pruned" => job.state # "pruned",
             \A r \in Reader : reader'[r] = "reading" =>
               /\ reader[r] = "reading" /\ up' /\ (Active' => subscriber'[r] = subscriber[r])
               /\ after'[r] = after[r] /\ got'[r] = got[r] /\ due'[r] = due[r] /\ chan'[r] = chan[r]
      PROVE  StreamInv'
  <2>1. ASSUME NEW r \in Reader PROVE Stream(r)'
    BY <1>4, <2>1, StreamFrame DEF StreamInv
  <2> QED
    BY <1>4, <2>1 DEF StreamInv, NamedUpTo
<1>5. \A r \in Reader : reader[r] = "reading" => up
  BY DEF StreamInv, Stream, Shows
<1>6. CASE PersistEnd
  <2>1. /\ UNCHANGED <<job, log, count, emitted, cursor, missed, reader, after, got, due, chan>> /\ up' = TRUE
        /\ ~Active
    BY <1>6 DEF PersistEnd, events, LifeInv, Active
  <2> QED
    BY <1>4, <2>1 DEF Active
<1>7. CASE Prune
  <2>1. /\ job'.state = "pruned" /\ UNCHANGED <<cursor, missed, reader, emitted, up>>
    BY <1>7 DEF Prune, TypeOK
  <2>2. ASSUME NEW r \in Reader PROVE Stream(r)'
    BY <1>5, <2>1 DEF StreamInv, Stream, Shows, Active
  <2> QED
    BY <2>1, <2>2 DEF StreamInv, Active
<1>8. ASSUME NEW r \in Reader, StreamDone(r) \/ Leave(r) PROVE StreamInv'
  <2>1. /\ UNCHANGED <<up, job, log, count, emitted, cursor, missed, after, got, due, chan>>
        /\ \A q \in Reader : reader'[q] = "reading" =>
             reader[q] = "reading" /\ subscriber'[q] = subscriber[q]
    BY <1>8 DEF StreamDone, Leave, TypeOK, station, events
  <2> QED
    BY <1>4, <1>5, <2>1 DEF Active
<1>9. ASSUME NEW r \in Reader, Subscribe(r) \/ Deliver(r) PROVE StreamInv'
  BY <1>9, StreamSubscribe, StreamDeliver
<1>10. CASE UNCHANGED <<station, events, streams>>
  BY <1>4, <1>5, <1>10 DEF station, events, streams, Active
<1>11. CASE Poll \/ Check \/ Pause
  BY <1>10, <1>11 DEF Poll, Check, Pause
<1>12. CASE Kill
  <2>1. /\ UNCHANGED <<job, log, count, emitted, cursor, missed>> /\ \A r \in Reader : reader'[r] # "reading"
    BY <1>12 DEF Kill, events, TypeOK
  <2> QED
    BY <1>4, <2>1 DEF Active
<1>13. CASE Restart
  BY <1>13, StreamRestart
<1>14. CASE Truncate \/ TruncateFails
  <2>1. ~up /\ UNCHANGED <<job, log, count, emitted, cursor, missed, reader>>
    BY <1>14 DEF Truncate, TruncateFails, Starting, station, streams
  <2> QED
    BY <1>4, <1>5, <2>1 DEF Active
<1>15. CASE UNCHANGED vars
  BY <1>10, <1>15 DEF vars
<1> QED
  BY <1>1, <1>3, <1>6, <1>7, <1>8, <1>9, <1>11, <1>12, <1>13, <1>14, <1>15 DEF Next

\* For any number of readers and any channel, a stream shows the log from its cursor on, in
\* order, each event once, but for those that found its channel full.
THEOREM StreamsShowTheLog == Spec => []StreamFaithful
<1>1. Init => TypeOK /\ LifeInv /\ NumbersInv /\ StreamInv
  BY TypedInit, LifeInit, NumbersInit, StreamInit
<1>2. TypeOK /\ LifeInv /\ NumbersInv /\ StreamInv /\ [Next]_vars
      => TypeOK' /\ LifeInv' /\ NumbersInv' /\ StreamInv'
  BY TypedNext, LifeNext, NumbersNext, StreamNext
<1>3. StreamInv => StreamFaithful
  BY DEF StreamInv, Stream, Shows, StreamFaithful
<1> QED
  BY <1>1, <1>2, <1>3, PTL DEF Spec

-----------------------------------------------------------------------------
(* What a number names.                                                     *)

LEMMA RisingUnique ==
  ASSUME NEW s \in Seq(Event), Rising(s), NEW x, NEW y, Comes(x, s), Comes(y, s), x.n = y.n, x.n > 0
  PROVE  x = y
<1>1. PICK i \in 1..Len(s) : s[i] = x
  BY DEF Comes
<1>2. PICK k \in 1..Len(s) : s[k] = y
  BY DEF Comes
<1>3. x.n \in Nat /\ i \in Nat /\ k \in Nat
  BY <1>1, EventAt
<1>4. ~(i < k) /\ ~(k < i)
  BY <1>1, <1>2, <1>3 DEF Rising
<1> QED
  BY <1>1, <1>2, <1>3, <1>4

\* A new number disturbs none of the others.
LEMMA FitsStill ==
  ASSUME NEW f \in Seq(Event), NEW l \in Seq(Event), NEW c \in Nat, UpTo(f, c), NEW e \in Event, e.n = c + 1,
         NEW g \in Seq(Event), Holds(g, f, e), NEW k \in Event, Fits(k, f, l)
  PROVE  Fits(k, g, Append(l, e))
<1>1. k.n \in Nat /\ k.n > 0 /\ e.n \in Nat
  BY DEF Event, Fits
<1>2. PICK i \in 1..Len(f) : f[i].n >= k.n
  BY DEF Fits
<1>3. f[i].n \in Nat /\ f[i].n > 0 /\ f[i].n <= c /\ Comes(f[i], f)
  BY <1>1, <1>2, EventAt DEF UpTo, Comes
<1>4. PICK j \in 1..Len(g) : g[j] = f[i]
  BY <1>3 DEF Holds, Comes
<1>5. e.n # k.n
  BY <1>1, <1>2, <1>3
<1>6. ASSUME NEW x, Comes(x, g) \/ Comes(x, Append(l, e)), x.n = k.n PROVE x = k
  <2>1. x = e \/ Comes(x, f) \/ Comes(x, l)
    BY <1>1, <1>6, AppendComes DEF Holds
  <2> QED
    BY <1>5, <1>6, <2>1 DEF Fits
<1> QED
  BY <1>1, <1>2, <1>4, <1>6 DEF Fits

LEMMA FitsNew ==
  ASSUME NEW f \in Seq(Event), NEW l \in Seq(Event), NEW c \in Nat, UpTo(f, c), UpTo(l, c),
         NEW e \in Event, e.n = c + 1
  PROVE  Fits(e, Append(f, e), Append(l, e))
<1>1. e.n \in Nat /\ e.n > 0
  BY DEF Event
<1>2. \E i \in 1..Len(Append(f, e)) : Append(f, e)[i].n >= e.n
  BY <1>1, AppendAt
<1>3. ASSUME NEW x, Comes(x, Append(f, e)) \/ Comes(x, Append(l, e)), x.n = e.n PROVE x = e
  <2>1. x = e \/ Comes(x, f) \/ Comes(x, l)
    BY <1>3, AppendComes
  <2>2. Comes(x, f) => x.n <= c
    BY DEF Comes, UpTo
  <2>3. Comes(x, l) => x.n <= c
    BY DEF Comes, UpTo
  <2>4. ~(x.n <= c)
    BY <1>1, <1>3
  <2> QED
    BY <2>1, <2>2, <2>3, <2>4
<1> QED
  BY <1>1, <1>2, <1>3 DEF Fits

\* No two events share a name, and a step that only loses events keeps it so.
LEMMA NamedKept ==
  ASSUME TypeOK, Named, emitted' = emitted, \A k \in Event : Present(k)' => Present(k) \/ (k.id = 0 /\ k.n = 0)
  PROVE  Named'
<1>1. ASSUME NEW k \in Event, Present(k)' PROVE k.id <= emitted /\ (k.id > 0 <=> k.n > 0)
  <2>1. CASE Present(k)
    BY <2>1 DEF Named
  <2>2. CASE k.id = 0 /\ k.n = 0
    BY <2>2 DEF TypeOK
  <2> QED
    BY <1>1, <2>1, <2>2
<1>2. ASSUME NEW k \in Event, NEW x \in Event, Present(k)', Present(x)', k.id = x.id, k.id > 0 PROVE k = x
  BY <1>2 DEF Named
<1> QED
  BY <1>1, <1>2 DEF Named

\* Nor does a new event, for its name is new.
LEMMA NamedNew ==
  ASSUME TypeOK, Named, NEW e \in Event, e.id = emitted + 1, e.n > 0, emitted' = e.id,
         \A k \in Event : Present(k)' => Present(k) \/ k = e \/ (k.id = 0 /\ k.n = 0)
  PROVE  Named'
<1>1. emitted \in Nat /\ \A k \in Event : k.id \in Nat /\ k.n \in Nat
  BY DEF TypeOK, Event
<1>2. ASSUME NEW k \in Event, Present(k)' PROVE k.id <= emitted' /\ (k.id > 0 <=> k.n > 0)
  BY <1>1, <1>2 DEF Named
<1>3. ASSUME NEW k \in Event, NEW x \in Event, Present(k)', Present(x)', k.id = x.id, k.id > 0 PROVE k = x
  <2>1. /\ Present(k) \/ k = e
        /\ Present(x) \/ x = e
        /\ Present(k) => k.id <= emitted
        /\ Present(x) => x.id <= emitted
    BY <1>1, <1>3 DEF Named
  <2> QED
    BY <1>1, <1>3, <2>1 DEF Named
<1> QED
  BY <1>2, <1>3 DEF Named

LEMMA SeenInit == Init => SeenInv
<1> SUFFICES ASSUME Init PROVE SeenInv
  OBVIOUS
<1> DEFINE queued == [n |-> 1, kind |-> "log", id |-> 1]
<1>1. log = <<queued>> /\ file = <<queued>> /\ seen = {} /\ emitted = 1
  BY DEF Init
<1>2. Len(<<queued>>) = 1 /\ <<queued>>[1] = queued
  OBVIOUS
<1>3. queued.n = 1 /\ queued.id = 1
  OBVIOUS
<1> HIDE DEF queued
<1>4. \A x : Comes(x, log) \/ Comes(x, file) <=> x = queued
  BY <1>1, <1>2 DEF Comes
<1>5. Fits(queued, file, log)
  BY <1>1, <1>2, <1>3, <1>4 DEF Fits
<1>6. \A x : Known(x) \/ Present(x) => x = queued
  BY <1>1, <1>4 DEF Known, Present
<1>7. Named
  BY <1>1, <1>3, <1>6 DEF Named
<1> QED
  BY <1>5, <1>6, <1>7 DEF SeenInv

\* What an append adds to what is in the file.
LEMMA WrotePresent ==
  ASSUME NEW e, Wrote(file, e)
  PROVE  \A k : Comes(k, file') => Comes(k, file) \/ k = e \/ (k.id = 0 /\ k.n = 0)
BY DEF Wrote, Comes, Torn, Garbage

LEMMA SeenEmit ==
  ASSUME TypeOK, NumbersInv, SeenInv, Active, up, NEW kind \in Kinds, Emit(kind), UNCHANGED seen
  PROVE  SeenInv'
<1>1. CASE UNCHANGED <<events, chan, missed>>
  BY <1>1 DEF SeenInv, events, Known, Active, Named, Present
<1>2. CASE \E e \in Event : Emitted(e, kind)
  <2>1. PICK e \in Event : Emitted(e, kind)
    BY <1>2
  <2>2. /\ e.n = count + 1 /\ log' = Append(log, e) /\ replaced' = replaced /\ Holds(file', file, e)
        /\ unwritten \subseteq unwritten' /\ (e.id \in unwritten' \/ file' = Append(file, e))
        /\ UpTo(file, count) /\ UpTo(log, count) /\ count \in Nat /\ log \in Seq(Event) /\ file \in Seq(Event)
        /\ file' \in Seq(Event) /\ gone' = gone
    BY <2>1 DEF Emitted, Wrote, NumbersInv, Awake, TypeOK
  <2>3. SUFFICES ASSUME ~replaced PROVE Named' /\ \A k \in Event : Known(k)' => Fits(k, file', log')
    BY <2>2 DEF SeenInv
  <2>4. job.state # "pruned"
    BY DEF Active
  <2>5. Named'
    <3>1. Named /\ e.id = emitted + 1 /\ emitted' = e.id /\ e.n > 0
      BY <2>1, <2>2, <2>3, <2>4 DEF SeenInv, Emitted
    <3>2. \A k \in Event : Present(k)' => Present(k) \/ k = e \/ (k.id = 0 /\ k.n = 0)
      <4>1. \A k : Comes(k, log') => k = e \/ Comes(k, log)
        BY <2>2, AppendComes
      <4>2. \A k : Comes(k, file') => Comes(k, file) \/ k = e \/ (k.id = 0 /\ k.n = 0)
        BY <2>1, WrotePresent DEF Emitted
      <4> QED
        BY <4>1, <4>2 DEF Present
    <3> QED
      BY <3>1, <3>2, NamedNew
  <2>6. ASSUME NEW k \in Event, Known(k)', Known(k) PROVE Fits(k, file', log')
    <3>1. Fits(k, file, log)
      BY <2>3, <2>4, <2>6 DEF SeenInv
    <3>2. Fits(k, file', Append(log, e))
      BY <2>2, <3>1, FitsStill
    <3> QED
      BY <2>2, <3>2
  <2>7. ASSUME NEW k \in Event, Known(k)', ~Known(k) PROVE Fits(k, file', log')
    <3>1. k = e /\ file' = Append(file, e)
      BY <2>2, <2>7, AppendComes DEF Known
    <3>2. Fits(e, Append(file, e), Append(log, e))
      BY <2>2, FitsNew
    <3> QED
      BY <2>2, <3>1, <3>2
  <2> QED
    BY <2>5, <2>6, <2>7
<1> QED
  BY <1>1, <1>2, EmitIs

\* A truncation that can read the last line loses no number that was shown.
LEMMA SeenTruncate ==
  ASSUME TypeOK, NumbersInv, SeenInv, Truncate
  PROVE  SeenInv'
<1>1. SUFFICES ASSUME ~replaced', job.state # "pruned"
               PROVE  Named' /\ \A k \in Event : Known(k)' => Fits(k, file', log')
  BY DEF SeenInv, Truncate, station
<1>2. /\ ~Unreadable(file) /\ ~replaced /\ MayBeBounded /\ file' = Bounded(file)
      /\ UNCHANGED <<log, emitted, unwritten, gone, seen>>
  BY <1>1 DEF Truncate
<1>3. Named /\ Rising(file) /\ file \in Seq(Event) /\ file' \in Seq(Event)
  BY <1>1, <1>2, BoundedTyped DEF SeenInv, NumbersInv, TypeOK
<1>4. /\ \A x : Comes(x, file') => Comes(x, file)
      /\ file' # <<>> /\ file # <<>> /\ Last(file') = Last(file)
  BY <1>2, BoundedIs
<1>5. Named'
  BY <1>2, <1>3, <1>4, NamedKept DEF Present
<1>6. ASSUME NEW k \in Event, Known(k)' PROVE Fits(k, file', log')
  <2>1. Fits(k, file, log)
    BY <1>1, <1>2, <1>6 DEF SeenInv, Known
  <2>2. k.n > 0 /\ k.n \in Nat
    BY <2>1 DEF Fits, Event
  <2>3. PICK i \in 1..Len(file) : file[i].n >= k.n
    BY <2>1 DEF Fits
  <2>4. /\ Len(file') \in 1..Len(file') /\ file'[Len(file')] = Last(file)
        /\ Len(file) \in 1..Len(file) /\ Last(file) = file[Len(file)] /\ Last(file).n \in Nat
    BY <1>3, <1>4, LastTyped, EventAt
  <2>5. Last(file).n > 0
    BY <1>2, <2>4 DEF Unreadable
  <2>6. Last(file).n >= file[i].n /\ file[i].n \in Nat
    <3>1. file[i].n \in Nat /\ i \in Nat /\ Len(file) \in Nat /\ (i < Len(file) \/ i = Len(file))
      BY <1>3, EventAt, LenProperties
    <3> QED
      BY <1>3, <2>4, <2>5, <3>1 DEF Rising
  <2>7. \E j \in 1..Len(file') : file'[j].n >= k.n
    BY <2>2, <2>3, <2>4, <2>6
  <2>8. \A x : Comes(x, file') \/ Comes(x, log') => (x.n = k.n => x = k)
    BY <1>2, <1>4, <2>1 DEF Fits
  <2> QED
    BY <2>2, <2>7, <2>8 DEF Fits
<1> QED
  BY <1>5, <1>6

\* One that is cut short counts every event that it loses.
LEMMA SeenCutShort ==
  ASSUME TypeOK, SeenInv, TruncateFails
  PROVE  SeenInv'
<1>1. SUFFICES ASSUME ~replaced', job.state # "pruned"
               PROVE  Named' /\ \A k \in Event : Known(k)' => Fits(k, file', log')
  BY DEF SeenInv, TruncateFails, station
<1>2. /\ ~replaced /\ UNCHANGED <<log, emitted, unwritten, seen>> /\ gone \subseteq gone'
      /\ emitted \in Nat
  BY <1>1, CutShortIs DEF TruncateFails, TypeOK
<1>3. Named
  BY <1>1, <1>2 DEF SeenInv
<1>4. \A x : Comes(x, file') => Comes(x, file) \/ (x.id = 0 /\ x.n = 0)
  BY CutShortIs DEF Comes, Torn
<1>5. Named'
  BY <1>2, <1>3, <1>4, NamedKept DEF Present
<1>6. ASSUME NEW k \in Event, Known(k)' PROVE Fits(k, file', log')
  <2>1. Known(k) /\ k.id \notin gone' /\ Present(k)
    BY <1>2, <1>6 DEF Known, Present
  <2>2. Fits(k, file, log)
    BY <1>1, <1>2, <2>1 DEF SeenInv
  <2>3. k.n > 0 /\ k.n \in Nat /\ k.id \in 1..emitted
    BY <1>2, <1>3, <2>1, <2>2 DEF Fits, Event, Named
  <2>4. PICK x \in Event : Comes(x, file') /\ x.id = k.id
    BY <2>1, <2>3, CutShortIs
  <2>5. Comes(x, file)
    BY <1>4, <2>3, <2>4
  <2>6. x = k
    BY <1>3, <2>1, <2>3, <2>4, <2>5 DEF Named, Present
  <2>7. \E j \in 1..Len(file') : file'[j].n >= k.n
    BY <2>3, <2>4, <2>6 DEF Comes
  <2>8. \A y : Comes(y, file') \/ Comes(y, log') => (y.n = k.n => y = k)
    BY <1>2, <1>4, <2>2, <2>3 DEF Fits
  <2> QED
    BY <2>3, <2>7, <2>8 DEF Fits
<1> QED
  BY <1>5, <1>6

LEMMA SeenRestart ==
  ASSUME TypeOK, LifeInv, NumbersInv, SeenInv, Restart
  PROVE  SeenInv'
<1>1. SUFFICES ASSUME ~replaced', job'.state # "pruned"
               PROVE  Named' /\ \A k \in Event : Known(k)' => Fits(k, file', log')
  BY DEF SeenInv
<1>2. Load /\ seen' = seen /\ gone' = gone /\ ~replaced /\ file \in Seq(Event)
  BY <1>1 DEF Restart, TypeOK
<1> DEFINE known == Readable(file)
<1>3. /\ known \in Seq(Event) /\ Highest(known) \in Nat
      /\ UpTo(known, Highest(known)) /\ UpTo(file, Highest(known))
      /\ \A x : Comes(x, known) <=> Comes(x, file) /\ x.n > 0
  BY <1>2, ReadableIs
<1> HIDE DEF known
<1>4. Rising(file)
  BY <1>2 DEF NumbersInv
<1>5. job.state # "pruned"
  <2>1. CASE WasOver
    BY <1>1, <2>1 DEF WasOver, LifeInv
  <2>2. CASE \E e \in Event : HasFailed(e)
    BY <2>2 DEF HasFailed, LifeInv
  <2> QED
    BY <1>2, <2>1, <2>2, LoadIs
<1>6. Named
  BY <1>2, <1>5 DEF SeenInv
<1>7. ASSUME NEW k \in Event, k \in seen \/ Comes(k, known), k.id \notin unwritten \cup gone PROVE Fits(k, file, known)
  <2>1. CASE Comes(k, known)
    <3>1. Comes(k, file) /\ k.n > 0 /\ k.n \in Nat
      BY <1>3, <2>1 DEF Event
    <3>2. \E i \in 1..Len(file) : file[i].n >= k.n
      BY <3>1 DEF Comes
    <3>3. ASSUME NEW x, Comes(x, file) \/ Comes(x, known), x.n = k.n PROVE x = k
      <4>1. Comes(x, file)
        BY <1>3, <3>3
      <4> QED
        BY <1>2, <1>4, <3>1, <3>3, <4>1, RisingUnique
    <3> QED
      BY <3>1, <3>2, <3>3 DEF Fits
  <2>2. CASE k \in seen
    <3>1. Fits(k, file, log)
      BY <1>2, <1>5, <1>7, <2>2 DEF SeenInv, Known
    <3>2. \A x : Comes(x, file) \/ Comes(x, known) => Comes(x, file)
      BY <1>3
    <3> QED
      BY <3>1, <3>2 DEF Fits
  <2> QED
    BY <1>7, <2>1, <2>2
<1>8. CASE WasOver
  <2>1. log' = known /\ file' = file /\ unwritten' = unwritten /\ emitted' = emitted
    BY <1>8 DEF WasOver, known
  <2>2. \A k \in Event : Present(k)' => Present(k)
    BY <1>2, <1>3, <2>1 DEF Present
  <2>3. Named'
    BY <1>6, <2>1, <2>2, NamedKept
  <2>4. \A k \in Event : Known(k)' => Fits(k, file', log')
    BY <1>2, <1>7, <2>1 DEF Known
  <2> QED
    BY <2>3, <2>4
<1>9. CASE \E e \in Event : HasFailed(e)
  <2>1. PICK e \in Event : HasFailed(e)
    BY <1>9
  <2>2. /\ e.n = Highest(known) + 1 /\ log' = Append(known, e) /\ Holds(file', file, e) /\ file' \in Seq(Event)
        /\ unwritten \subseteq unwritten' /\ (e.id \in unwritten' \/ file' = Append(file, e))
        /\ e.id = emitted + 1 /\ emitted' = e.id
    BY <2>1 DEF HasFailed, Wrote, known
  <2>3. Named'
    <3>1. e.n > 0
      BY <1>3, <2>2
    <3>2. \A k \in Event : Present(k)' => Present(k) \/ k = e \/ (k.id = 0 /\ k.n = 0)
      <4>1. \A k : Comes(k, log') => k = e \/ Comes(k, file)
        BY <1>3, <2>2, AppendComes
      <4>2. \A k : Comes(k, file') => Comes(k, file) \/ k = e \/ (k.id = 0 /\ k.n = 0)
        BY <2>1, WrotePresent DEF HasFailed
      <4> QED
        BY <1>2, <4>1, <4>2 DEF Present
    <3> QED
      BY <1>6, <2>2, <3>1, <3>2, NamedNew
  <2>4. ASSUME NEW k \in Event, Known(k)' PROVE Fits(k, file', log')
    <3>1. k \in seen \/ Comes(k, known) \/ k = e
      BY <1>2, <1>3, <2>2, <2>4, AppendComes DEF Known
    <3>2. k.id \notin unwritten \cup gone /\ k.id \notin unwritten'
      BY <1>2, <2>2, <2>4 DEF Known
    <3>3. CASE k \in seen \/ Comes(k, known)
      <4>1. Fits(k, file, known)
        BY <1>7, <3>2, <3>3
      <4>2. Fits(k, file', Append(known, e))
        BY <1>2, <1>3, <2>2, <4>1, FitsStill
      <4> QED
        BY <2>2, <4>2
    <3>4. CASE k = e
      <4>1. Fits(e, Append(file, e), Append(known, e))
        BY <1>2, <1>3, <2>2, FitsNew
      <4> QED
        BY <2>2, <3>2, <3>4, <4>1
    <3> QED
      BY <3>1, <3>3, <3>4
  <2> QED
    BY <2>3, <2>4
<1> QED
  BY <1>2, <1>8, <1>9, LoadIs

LEMMA SeenNext ==
  TypeOK /\ LifeInv /\ NumbersInv /\ StreamInv /\ SeenInv /\ [Next]_vars => SeenInv'
<1> SUFFICES ASSUME TypeOK, LifeInv, NumbersInv, StreamInv, SeenInv, [Next]_vars PROVE SeenInv'
  OBVIOUS
<1>1. CASE Start \/ Progress
  <2>1. Active /\ up /\ Emit("log") /\ "log" \in Kinds /\ UNCHANGED seen
    BY <1>1 DEF Start, Progress, MutexFree, Active, Kinds
  <2> QED
    BY <2>1, SeenEmit
<1>2. ASSUME NEW by, NEW outcome \in {"done", "canceled", "failed"}, End(by, outcome), Active, up
      PROVE  SeenInv'
  <2>1. Emit(outcome) /\ outcome \in Kinds /\ UNCHANGED seen
    BY <1>2 DEF End, Kinds, Outcomes
  <2> QED
    BY <1>2, <2>1, SeenEmit
<1>3. CASE Finish \/ CancelQueued
  BY <1>2, <1>3 DEF Finish, CancelQueued, MutexFree, Active
<1>4. ASSUME UNCHANGED <<job, events>>,
             job.state # "pruned" => \A e \in Event : e \in seen' => e \in seen \/ Comes(e, log)
      PROVE  SeenInv'
  <2>1. job.state # "pruned" => \A e \in Event : Present(e)' => Present(e)
    BY <1>4 DEF Present, events
  <2>2. job.state # "pruned" /\ Named => Named'
    BY <1>4, <2>1, NamedKept DEF events
  <2> QED
    BY <1>4, <2>2 DEF SeenInv, Known, events
<1>5. CASE Prune
  <2>1. job'.state = "pruned"
    BY <1>5 DEF Prune, TypeOK
  <2> QED
    BY <2>1 DEF SeenInv
<1>6. ASSUME NEW r \in Reader, Deliver(r) PROVE SeenInv'
  <2>1. /\ UNCHANGED <<job, events>> /\ reader[r] = "reading" /\ Stream(r)
        /\ due[r] \in Seq(Event) /\ chan[r] \in Seq(Event)
    BY <1>6 DEF Deliver, StreamInv, station, TypeOK
  <2>2. \A e \in seen' : e \in seen \/ Comes(e, due[r]) \/ Comes(e, chan[r])
    <3>1. CASE due[r] # <<>>
      BY <1>6, <2>1, <3>1, HeadFirst DEF Deliver
    <3>2. CASE due[r] = <<>>
      BY <1>6, <2>1, <3>2, HeadFirst DEF Deliver
    <3> QED
      BY <3>1, <3>2
  <2> QED
    BY <1>4, <2>1, <2>2, NextIsLogged
<1>7. CASE Poll
  <2>1. UNCHANGED <<job, events>> /\ \A e \in seen' : e \in seen \/ e \in ToSet(Page)
    BY <1>7 DEF Poll, station
  <2> QED
    BY <1>4, <2>1, PageIs
<1>8. CASE UNCHANGED <<job, events, seen>>
  BY <1>4, <1>8
<1>9. ASSUME NEW r \in Reader, Subscribe(r) \/ StreamDone(r) \/ Leave(r) PROVE SeenInv'
  BY <1>8, <1>9 DEF Subscribe, StreamDone, Leave, station
<1>10. CASE PersistEnd \/ Check \/ Pause \/ Kill
  BY <1>8, <1>10 DEF PersistEnd, Check, Pause, Kill, station
<1>11. CASE Restart
  BY <1>11, SeenRestart
<1>12. CASE Truncate \/ TruncateFails
  BY <1>12, SeenTruncate, SeenCutShort
<1>13. CASE UNCHANGED vars
  BY <1>8, <1>13 DEF vars, station
<1> QED
  BY <1>1, <1>3, <1>5, <1>6, <1>7, <1>9, <1>10, <1>11, <1>12, <1>13 DEF Next

\* Whatever a client was shown under a number, the log shows it under this number for ever:
\* after kills, truncations and restarts, unless that very event was lost: its append failed,
\* or a truncation that was cut short left it out; and as long as none replaced a last line.
THEOREM NumbersAreNames == Spec => []NumbersIdentify
<1>1. Init => TypeOK /\ LifeInv /\ NumbersInv /\ StreamInv /\ SeenInv
  BY TypedInit, LifeInit, NumbersInit, StreamInit, SeenInit
<1>2. TypeOK /\ LifeInv /\ NumbersInv /\ StreamInv /\ SeenInv /\ [Next]_vars
      => TypeOK' /\ LifeInv' /\ NumbersInv' /\ StreamInv' /\ SeenInv'
  BY TypedNext, LifeNext, NumbersNext, StreamNext, SeenNext
<1>3. TypeOK /\ LifeInv /\ SeenInv => NumbersIdentify
  <2> SUFFICES ASSUME TypeOK, LifeInv, SeenInv, ~replaced, NEW e \in seen, e.id \notin unwritten \cup gone,
                      NEW i \in 1..Len(log), log[i].n = e.n
               PROVE  log[i] = e
    BY DEF NumbersIdentify
  <2>1. e \in Event /\ Known(e) /\ Comes(log[i], log)
    BY DEF TypeOK, Known, Comes
  <2>2. job.state # "pruned"
    BY EmptySeq DEF LifeInv
  <2> QED
    BY <2>1, <2>2 DEF SeenInv, Fits
<1> QED
  BY <1>1, <1>2, <1>3, PTL DEF Spec

=============================================================================
