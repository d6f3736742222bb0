---------------------------- MODULE StorageProofs ----------------------------
(***************************************************************************)
(* The storage budget for any limit, any jobs and artifacts, and any sizes *)
(* of what they hold: the station stays within its limit, a cleanup frees  *)
(* what it was asked for or evicts all it may, and no cleanup is refused a *)
(* tombstone.                                                              *)
(***************************************************************************)
EXTENDS Storage, FiniteSetTheorems, FunctionTheorems, WellFoundedInduction, TLAPS

-----------------------------------------------------------------------------
(* Sums over finite sets.                                                   *)

Smaller(t, s) == t \subseteq s /\ t # s

\* A family of subsets of a finite set that is not empty has a least member.
LEMMA LeastSubset ==
  ASSUME NEW S, IsFiniteSet(S), NEW T, T \subseteq SUBSET S, T # {}
  PROVE  \E s \in T : \A t \in T : ~Smaller(t, s)
<1>1. IsWellFoundedOn(StrictSubsetOrdering(S), SUBSET S)
  BY FS_StrictSubsetOrderingWellFounded, FS_FiniteSubsetsOfFinite
<1>2. PICK s \in T : \A t \in T : ~(<<t, s>> \in StrictSubsetOrdering(S))
  BY <1>1, WFMin
<1>3. ASSUME NEW t \in T, Smaller(t, s) PROVE FALSE
  BY <1>2, <1>3 DEF StrictSubsetOrdering, Smaller
<1> QED
  BY <1>3

\* The partial sums from which SumFunctionOnSet takes the last.
Pick(s) == CHOOSE x \in s : TRUE
Sums(F, f, S) == F = [s \in SUBSET S |-> IF s = {} THEN 0 ELSE f[Pick(s)] + F[s \ {Pick(s)}]]
Whole(f, S) == \A x \in S : f[x] \in Int

LEMMA PickIn ==
  ASSUME NEW s, s # {}
  PROVE  Pick(s) \in s /\ Smaller(s \ {Pick(s)}, s)
  BY DEF Pick, Smaller

LEMMA SumIsLast ==
  ASSUME NEW f, NEW S
  PROVE  SumFunctionOnSet(f, S) = (CHOOSE F : Sums(F, f, S))[S]
  BY DEF SumFunctionOnSet, FoldFunctionOnSet, MapThenFoldSet, Sums, Pick

\* Partial sums over two sets agree where the functions do.
LEMMA SumsAgree ==
  ASSUME NEW S, IsFiniteSet(S), NEW R \in SUBSET S, NEW f, NEW g, \A x \in R : f[x] = g[x],
         NEW F, NEW G, Sums(F, f, S), Sums(G, g, R)
  PROVE  \A s \in SUBSET R : F[s] = G[s]
<1> DEFINE T == {s \in SUBSET R : F[s] # G[s]}
<1>1. SUFFICES ASSUME T # {} PROVE FALSE
  OBVIOUS
<1>2. PICK s \in T : \A t \in T : ~Smaller(t, s)
  <2>1. T \subseteq SUBSET S
    OBVIOUS
  <2> HIDE DEF T
  <2> QED
    BY <1>1, <2>1, LeastSubset
<1>3. s \in SUBSET R /\ s \in SUBSET S /\ F[s] # G[s] /\ s \in T
  OBVIOUS
<1>4. s # {}
  BY <1>3 DEF Sums
<1> DEFINE x == Pick(s)
<1>5. x \in s /\ Smaller(s \ {x}, s)
  BY <1>4, PickIn
<1>6. s \ {x} \in SUBSET R /\ s \ {x} \notin T
  <2> HIDE DEF T, x
  <2> QED
    BY <1>2, <1>3, <1>5
<1>7. F[s \ {x}] = G[s \ {x}]
  BY <1>6
<1>8. F[s] = f[x] + F[s \ {x}] /\ G[s] = g[x] + G[s \ {x}]
  BY <1>3, <1>4 DEF Sums
<1> HIDE DEF x, T
<1> QED
  BY <1>3, <1>5, <1>7, <1>8

\* A sum that has its partial sums takes its value from the element that is picked first.
LEMMA SumStep ==
  ASSUME NEW S, IsFiniteSet(S), S # {}, NEW f,
         \E F : Sums(F, f, S), \E G : Sums(G, f, S \ {Pick(S)})
  PROVE  SumFunctionOnSet(f, S) = f[Pick(S)] + SumFunctionOnSet(f, S \ {Pick(S)})
<1> DEFINE R == S \ {Pick(S)}
           F == CHOOSE F : Sums(F, f, S)
           G == CHOOSE G : Sums(G, f, R)
<1>1. Sums(F, f, S) /\ Sums(G, f, R)
  OBVIOUS
<1>2. SumFunctionOnSet(f, S) = F[S] /\ SumFunctionOnSet(f, R) = G[R]
  BY SumIsLast
<1>3. R \in SUBSET S /\ R \in SUBSET R
  OBVIOUS
<1> HIDE DEF F, G
<1>4. F[R] = G[R]
  <2> HIDE DEF R
  <2> QED
    BY <1>1, <1>3, SumsAgree
<1>5. F[S] = f[Pick(S)] + F[R]
  BY <1>1 DEF Sums
<1> QED
  BY <1>2, <1>4, <1>5

LEMMA SumsExist ==
  ASSUME NEW S, IsFiniteSet(S), NEW f
  PROVE  \E F : Sums(F, f, S)
<1> DEFINE T == {s \in SUBSET S : ~ \E F : Sums(F, f, s)}
<1>1. SUFFICES ASSUME T # {} PROVE FALSE
  OBVIOUS
<1>2. PICK s \in T : \A t \in T : ~Smaller(t, s)
  <2>1. T \subseteq SUBSET S
    OBVIOUS
  <2> HIDE DEF T
  <2> QED
    BY <1>1, <2>1, LeastSubset
<1>3. s \in SUBSET S /\ ~ \E F : Sums(F, f, s)
  OBVIOUS
<1>4. \A t \in SUBSET S : Smaller(t, s) => \E F : Sums(F, f, t)
  <2>1. \A t \in SUBSET S : t \notin T => \E F : Sums(F, f, t)
    OBVIOUS
  <2> HIDE DEF T
  <2> QED
    BY <1>2, <2>1
<1> HIDE DEF T
<1> DEFINE V(t) == SumFunctionOnSet(f, t)
           F == [t \in SUBSET s |-> IF t = {} THEN 0 ELSE f[Pick(t)] + V(t \ {Pick(t)})]
<1>5. V({}) = 0
  <2>1. Sums([t \in SUBSET {} |-> 0], f, {})
    BY DEF Sums
  <2>2. Sums(CHOOSE G : Sums(G, f, {}), f, {})
    BY <2>1
  <2>3. V({}) = (CHOOSE G : Sums(G, f, {}))[{}]
    BY SumIsLast
  <2> DEFINE G == CHOOSE G : Sums(G, f, {})
  <2> HIDE DEF G
  <2>4. Sums(G, f, {}) => G[{}] = 0
    BY DEF Sums
  <2> QED
    BY <2>2, <2>3, <2>4 DEF G
<1>6. ASSUME NEW t \in SUBSET S, Smaller(t, s), t # {}
      PROVE  V(t) = f[Pick(t)] + V(t \ {Pick(t)})
  <2>1. Smaller(t \ {Pick(t)}, s) /\ t \ {Pick(t)} \in SUBSET S
    BY <1>6, PickIn DEF Smaller
  <2>2. IsFiniteSet(t)
    BY FS_Subset
  <2> HIDE DEF V
  <2>3. SumFunctionOnSet(f, t) = f[Pick(t)] + SumFunctionOnSet(f, t \ {Pick(t)})
    BY <1>4, <1>6, <2>1, <2>2, SumStep
  <2> QED
    BY <2>3 DEF V
<1>7. ASSUME NEW t \in SUBSET s, t # {} PROVE F[t] = f[Pick(t)] + F[t \ {Pick(t)}]
  <2> DEFINE r == t \ {Pick(t)}
  <2>1. Smaller(r, t)
    BY <1>7, PickIn
  <2>2. Smaller(r, s) /\ r \in SUBSET s /\ r \in SUBSET S
    BY <1>3, <2>1 DEF Smaller
  <2>3. F[t] = f[Pick(t)] + V(r)
    <3> HIDE DEF V
    <3> QED
      BY <1>7
  <2>4. F[r] = V(r)
    <3> HIDE DEF V, r
    <3> QED
      BY <1>5, <1>6, <2>2
  <2> HIDE DEF V, F, r
  <2>5. F[t] = f[Pick(t)] + F[r]
    BY <2>3, <2>4
  <2> QED
    BY <2>5 DEF r
<1>8. Sums(F, f, s)
  <2>1. F = [t \in SUBSET s |-> IF t = {} THEN 0 ELSE f[Pick(t)] + F[t \ {Pick(t)}]]
    <3>1. F[{}] = 0
      OBVIOUS
    <3>2. F = [t \in SUBSET s |-> F[t]]
      OBVIOUS
    <3> HIDE DEF F
    <3> QED
      BY <1>7, <3>1, <3>2
  <2> HIDE DEF F
  <2> QED
    BY <2>1 DEF Sums
<1> QED
  BY <1>3, <1>8

LEMMA SumOfNothing ==
  ASSUME NEW f
  PROVE  SumFunctionOnSet(f, {}) = 0
<1>1. PICK F : Sums(F, f, {})
  BY SumsExist, FS_EmptySet
<1> DEFINE G == CHOOSE G : Sums(G, f, {})
<1>2. Sums(G, f, {})
  BY <1>1
<1>3. SumFunctionOnSet(f, {}) = G[{}]
  BY SumIsLast
<1> HIDE DEF G
<1> QED
  BY <1>2, <1>3 DEF Sums

LEMMA SumOfPick ==
  ASSUME NEW S, IsFiniteSet(S), S # {}, NEW f
  PROVE  SumFunctionOnSet(f, S) = f[Pick(S)] + SumFunctionOnSet(f, S \ {Pick(S)})
<1>1. IsFiniteSet(S \ {Pick(S)})
  BY FS_Subset
<1> QED
  BY <1>1, SumsExist, SumStep

LEMMA SumIsInteger ==
  ASSUME NEW S, IsFiniteSet(S), NEW f, Whole(f, S)
  PROVE  \A s \in SUBSET S : SumFunctionOnSet(f, s) \in Int
<1> DEFINE T == {s \in SUBSET S : SumFunctionOnSet(f, s) \notin Int}
<1>1. SUFFICES ASSUME T # {} PROVE FALSE
  OBVIOUS
<1>2. PICK s \in T : \A t \in T : ~Smaller(t, s)
  <2>1. T \subseteq SUBSET S
    OBVIOUS
  <2> HIDE DEF T
  <2> QED
    BY <1>1, <2>1, LeastSubset
<1>3. s \in SUBSET S /\ SumFunctionOnSet(f, s) \notin Int
  OBVIOUS
<1>4. s # {}
  BY <1>3, SumOfNothing
<1> DEFINE x == Pick(s)
<1>5. x \in s /\ Smaller(s \ {x}, s) /\ s \ {x} \in SUBSET S
  BY <1>3, <1>4, PickIn
<1>6. \A t \in SUBSET S : t \notin T => SumFunctionOnSet(f, t) \in Int
  OBVIOUS
<1> HIDE DEF T
<1>7. SumFunctionOnSet(f, s \ {x}) \in Int /\ f[x] \in Int
  BY <1>2, <1>3, <1>5, <1>6 DEF Whole
<1>8. SumFunctionOnSet(f, s) = f[x] + SumFunctionOnSet(f, s \ {x})
  <2>1. IsFiniteSet(s)
    BY <1>3, FS_Subset
  <2> QED
    BY <1>4, <2>1, SumOfPick
<1> QED
  BY <1>3, <1>7, <1>8

\* The element to take out of a sum may be any.
LEMMA SumWithout ==
  ASSUME NEW S, IsFiniteSet(S), NEW f, Whole(f, S), NEW x \in S
  PROVE  SumFunctionOnSet(f, S) = f[x] + SumFunctionOnSet(f, S \ {x})
<1> DEFINE V(s) == SumFunctionOnSet(f, s)
           T == {s \in SUBSET S : \E y \in s : V(s) # f[y] + V(s \ {y})}
<1>1. SUFFICES ASSUME T # {} PROVE FALSE
  OBVIOUS
<1>2. PICK s \in T : \A t \in T : ~Smaller(t, s)
  <2>1. T \subseteq SUBSET S
    OBVIOUS
  <2> HIDE DEF T
  <2> QED
    BY <1>1, <2>1, LeastSubset
<1>3. PICK y \in s : V(s) # f[y] + V(s \ {y})
  OBVIOUS
<1>4. s \in SUBSET S
  OBVIOUS
<1>5. \A t \in SUBSET S : t \notin T => \A z \in t : V(t) = f[z] + V(t \ {z})
  OBVIOUS
<1> HIDE DEF T
<1> DEFINE x1 == Pick(s)
<1>6. x1 \in s /\ V(s) = f[x1] + V(s \ {x1})
  <2>1. IsFiniteSet(s) /\ s # {}
    BY <1>3, <1>4, FS_Subset
  <2> QED
    BY <2>1, PickIn, SumOfPick
<1> HIDE DEF V, x1
<1>7. x1 # y
  BY <1>3, <1>6
<1>8. V(s \ {x1}) = f[y] + V((s \ {x1}) \ {y})
  <2>1. Smaller(s \ {x1}, s) /\ s \ {x1} \in SUBSET S /\ y \in s \ {x1}
    BY <1>3, <1>4, <1>6, <1>7 DEF Smaller
  <2> QED
    BY <1>2, <1>5, <2>1
<1>9. V(s \ {y}) = f[x1] + V((s \ {y}) \ {x1})
  <2>1. Smaller(s \ {y}, s) /\ s \ {y} \in SUBSET S /\ x1 \in s \ {y}
    BY <1>3, <1>4, <1>6, <1>7 DEF Smaller
  <2> QED
    BY <1>2, <1>5, <2>1
<1>10. (s \ {x1}) \ {y} = (s \ {y}) \ {x1}
  OBVIOUS
<1>11. V((s \ {y}) \ {x1}) \in Int /\ f[y] \in Int /\ f[x1] \in Int
  BY <1>3, <1>4, <1>6, SumIsInteger DEF V, Whole
<1>12. V(s \ {x1}) = f[y] + V((s \ {y}) \ {x1})
  BY <1>8, <1>10
<1> DEFINE q == V((s \ {y}) \ {x1})
<1>13. V(s) = f[x1] + (f[y] + q) /\ V(s \ {y}) = f[x1] + q /\ q \in Int
  BY <1>6, <1>9, <1>11, <1>12
<1> HIDE DEF q
<1> QED
  BY <1>3, <1>11, <1>13

\* A sum is decided by the values, and grows with them.
LEMMA SumMonotone ==
  ASSUME NEW S, IsFiniteSet(S), NEW f, NEW g, Whole(f, S), Whole(g, S), \A x \in S : f[x] <= g[x]
  PROVE  SumFunctionOnSet(f, S) <= SumFunctionOnSet(g, S)
<1> DEFINE T == {s \in SUBSET S : ~(SumFunctionOnSet(f, s) <= SumFunctionOnSet(g, s))}
<1>1. SUFFICES ASSUME T # {} PROVE FALSE
  <2>1. S \in SUBSET S
    OBVIOUS
  <2> QED
    BY <2>1
<1>2. PICK s \in T : \A t \in T : ~Smaller(t, s)
  <2>1. T \subseteq SUBSET S
    OBVIOUS
  <2> HIDE DEF T
  <2> QED
    BY <1>1, <2>1, LeastSubset
<1>3. s \in SUBSET S /\ ~(SumFunctionOnSet(f, s) <= SumFunctionOnSet(g, s))
  OBVIOUS
<1>4. s # {}
  BY <1>3, SumOfNothing
<1> DEFINE x == Pick(s)
           r == s \ {x}
<1>5. x \in s /\ Smaller(r, s) /\ r \in SUBSET S
  BY <1>3, <1>4, PickIn
<1>6. \A t \in SUBSET S : t \notin T => SumFunctionOnSet(f, t) <= SumFunctionOnSet(g, t)
  OBVIOUS
<1> HIDE DEF T
<1>7. /\ SumFunctionOnSet(f, s) = f[x] + SumFunctionOnSet(f, r)
      /\ SumFunctionOnSet(g, s) = g[x] + SumFunctionOnSet(g, r)
  <2>1. IsFiniteSet(s)
    BY <1>3, FS_Subset
  <2> QED
    BY <1>4, <2>1, SumOfPick
<1> HIDE DEF x, r
<1>8. SumFunctionOnSet(f, r) <= SumFunctionOnSet(g, r)
  BY <1>2, <1>5, <1>6
<1>9. f[x] <= g[x] /\ f[x] \in Int /\ g[x] \in Int
  BY <1>3, <1>5 DEF Whole
<1>10. SumFunctionOnSet(f, r) \in Int /\ SumFunctionOnSet(g, r) \in Int
  BY <1>5, SumIsInteger
<1> QED
  BY <1>3, <1>7, <1>8, <1>9, <1>10

LEMMA SumSame ==
  ASSUME NEW S, IsFiniteSet(S), NEW f, NEW g, Whole(f, S), \A x \in S : f[x] = g[x]
  PROVE  SumFunctionOnSet(f, S) = SumFunctionOnSet(g, S)
<1>1. Whole(g, S) /\ \A x \in S : f[x] <= g[x] /\ g[x] <= f[x]
  BY DEF Whole
<1>2. SumFunctionOnSet(f, S) <= SumFunctionOnSet(g, S) /\ SumFunctionOnSet(g, S) <= SumFunctionOnSet(f, S)
  BY <1>1, SumMonotone
<1>3. SumFunctionOnSet(f, S) \in Int /\ SumFunctionOnSet(g, S) \in Int
  BY <1>1, SumIsInteger
<1> QED
  BY <1>2, <1>3

\* A change of one value changes the sum by as much.
LEMMA SumChanged ==
  ASSUME NEW S, IsFiniteSet(S), NEW f, NEW g, Whole(f, S), Whole(g, S),
         NEW x \in S, \A y \in S \ {x} : f[y] = g[y]
  PROVE  SumFunctionOnSet(g, S) = SumFunctionOnSet(f, S) + (g[x] - f[x])
<1> DEFINE R == S \ {x}
<1>1. IsFiniteSet(R) /\ Whole(f, R) /\ Whole(g, R)
  BY FS_Subset DEF Whole
<1>2. SumFunctionOnSet(f, R) = SumFunctionOnSet(g, R)
  <2> HIDE DEF R
  <2>1. \A y \in R : f[y] = g[y]
    BY DEF R
  <2> QED
    BY <1>1, <2>1, SumSame
<1>3. SumFunctionOnSet(f, R) \in Int
  BY SumIsInteger
<1>4. SumFunctionOnSet(f, S) = f[x] + SumFunctionOnSet(f, R)
  BY SumWithout
<1>5. SumFunctionOnSet(g, S) = g[x] + SumFunctionOnSet(g, R)
  BY SumWithout
<1>6. f[x] \in Int /\ g[x] \in Int
  BY DEF Whole
<1> HIDE DEF R
<1> QED
  BY <1>2, <1>3, <1>4, <1>5, <1>6

\* Values of a subset may be summed over the whole, where the others count nothing; and what
\* covers two sums one by one covers them together.
LEMMA SumsCovered ==
  ASSUME NEW S, IsFiniteSet(S), NEW R \in SUBSET S, NEW f, NEW g, NEW h,
         Whole(f, S), Whole(g, R), Whole(h, S),
         \A x \in R : h[x] <= f[x] + g[x], \A x \in S \ R : h[x] <= f[x]
  PROVE  SumFunctionOnSet(h, S) <= SumFunctionOnSet(f, S) + SumFunctionOnSet(g, R)
<1> DEFINE V(u, s) == SumFunctionOnSet(u, s)
           Covers(s) == V(h, s) <= V(f, s) + V(g, s \cap R)
           T == {s \in SUBSET S : ~Covers(s)}
<1>1. SUFFICES ASSUME T # {} PROVE FALSE
  <2>1. S \in SUBSET S /\ S \cap R = R
    OBVIOUS
  <2> QED
    BY <2>1
<1>2. PICK s \in T : \A t \in T : ~Smaller(t, s)
  <2>1. T \subseteq SUBSET S
    OBVIOUS
  <2> HIDE DEF T
  <2> QED
    BY <1>1, <2>1, LeastSubset
<1>3. s \in SUBSET S /\ ~Covers(s)
  OBVIOUS
<1>4. s # {}
  BY <1>3, SumOfNothing
<1> DEFINE x == Pick(s)
           r == s \ {x}
<1>5. x \in s /\ Smaller(r, s) /\ r \in SUBSET S
  BY <1>3, <1>4, PickIn
<1>6. \A t \in SUBSET S : t \notin T => Covers(t)
  OBVIOUS
<1> HIDE DEF T
<1>7. Covers(r)
  BY <1>2, <1>5, <1>6
<1>8. V(h, s) = h[x] + V(h, r) /\ V(f, s) = f[x] + V(f, r)
  <2>1. IsFiniteSet(s)
    BY <1>3, FS_Subset
  <2> QED
    BY <1>4, <2>1, SumOfPick
<1>9. V(h, r) \in Int /\ V(f, r) \in Int /\ V(g, r \cap R) \in Int
  <2>1. IsFiniteSet(R) /\ r \cap R \in SUBSET R
    BY FS_Subset
  <2> HIDE DEF r
  <2> QED
    BY <1>5, <2>1, SumIsInteger
<1>10. f[x] \in Int /\ h[x] \in Int
  BY <1>3, <1>5 DEF Whole
<1>11. CASE x \in R
  <2>1. V(g, s \cap R) = g[x] + V(g, r \cap R)
    <3>1. IsFiniteSet(s \cap R) /\ Whole(g, s \cap R) /\ x \in s \cap R
      BY <1>3, <1>5, <1>11, FS_Subset DEF Whole
    <3>2. (s \cap R) \ {x} = r \cap R
      OBVIOUS
    <3> HIDE DEF x, r
    <3>3. V(g, s \cap R) = g[x] + V(g, (s \cap R) \ {x})
      BY <3>1, SumWithout
    <3> QED
      BY <3>2, <3>3
  <2>2. h[x] <= f[x] + g[x] /\ g[x] \in Int
    BY <1>11 DEF Whole
  <2> HIDE DEF x, r, V
  <2> QED
    BY <1>3, <1>7, <1>8, <1>9, <1>10, <2>1, <2>2
<1>12. CASE x \notin R
  <2>1. r \cap R = s \cap R
    BY <1>12
  <2>2. h[x] <= f[x]
    BY <1>3, <1>5, <1>12
  <2>3. V(g, s \cap R) = V(g, r \cap R)
    BY <2>1
  <2> HIDE DEF x, r, V
  <2> QED
    BY <1>3, <1>7, <1>8, <1>9, <1>10, <2>2, <2>3
<1> QED
  BY <1>11, <1>12

-----------------------------------------------------------------------------
(* Types.                                                                   *)

State == {"none", "active", "completed", "removing", "orphan"}
Record == [state : State, artifact : Artifact \cup {Nobody}, record : 0..1, temp : 0..1, output : 0..Legacy]

LEMMA Units ==
  /\ Limit \in Nat /\ Output \in Nat /\ Upload \in Nat /\ Payload \in Nat /\ Credit \in Nat
  /\ Maintenance \in Nat /\ Maintenance >= 1 /\ MaxJobs \in Nat /\ MaxUnknown \in Nat
  /\ Legacy \in Nat /\ Legacy >= Output
  /\ Reservation \in Nat /\ Reservation = 2 + Output /\ ArtifactSize \in Nat
  /\ IsFiniteSet(Job) /\ Job = 1..MaxJobs /\ IsFiniteSet(Artifact)
<1>1. IsFiniteSet(1..MaxJobs)
  BY StorageAssumption, FS_Interval
<1> QED
  BY <1>1, StorageAssumption DEF Reservation, ArtifactSize, Job

LEMMA RecordUpdated ==
  ASSUME NEW r \in Record
  PROVE  /\ [r EXCEPT !.record = 0] \in Record
         /\ [r EXCEPT !.output = 0] \in Record
         /\ [r EXCEPT !.temp = 1 - r.temp] \in Record
         /\ r.output < Output => [r EXCEPT !.output = r.output + 1] \in Record
         /\ \A n \in 0..Output : [r EXCEPT !.output = n] \in Record
         /\ \A s \in State : [r EXCEPT !.state = s] \in Record
<1>0. Output \in Nat /\ Legacy \in Nat /\ Legacy >= Output
  BY Units
<1>1. 0 \in 0..1 /\ 0 \in 0..Legacy /\ 1 - r.temp \in 0..1
  BY <1>0 DEF Record
<1>2. r.output < Output => r.output + 1 \in 0..Legacy
  BY <1>0 DEF Record
<1>3. [r EXCEPT !.record = 0] \in Record
  BY <1>1 DEF Record
<1>4. [r EXCEPT !.output = 0] \in Record
  BY <1>1 DEF Record
<1>5. [r EXCEPT !.temp = 1 - r.temp] \in Record
  BY <1>1 DEF Record
<1>6. r.output < Output => [r EXCEPT !.output = r.output + 1] \in Record
  BY <1>2 DEF Record
<1>7. \A s \in State : [r EXCEPT !.state = s] \in Record
  BY DEF Record
<1>8. \A n \in 0..Output : [r EXCEPT !.output = n] \in Record
  <2>1. \A n \in 0..Output : n \in 0..Legacy
    BY <1>0
  <2> QED
    BY <2>1 DEF Record
<1> QED
  BY <1>3, <1>4, <1>5, <1>6, <1>7, <1>8

\* The youngest of some jobs is one of them.
LEMMA YoungestIn ==
  ASSUME NEW T, T \subseteq Job, T # {}
  PROVE  Max(T) \in T
<1> DEFINE U == {{k \in Job : k > j} : j \in T}
<1>1. U \subseteq SUBSET Job /\ U # {}
  OBVIOUS
<1>2. \A j \in T : {k \in Job : k > j} \in U
  OBVIOUS
<1>3. \A s \in U : \E j \in T : s = {k \in Job : k > j}
  OBVIOUS
<1> HIDE DEF U
<1>4. PICK s \in U : \A t \in U : ~Smaller(t, s)
  BY <1>1, Units, LeastSubset
<1>5. PICK j \in T : s = {k \in Job : k > j}
  BY <1>3
<1>6. ASSUME NEW k \in T, ~(j >= k) PROVE FALSE
  <2>1. k > j /\ k \in Job /\ j \in Job
    BY <1>6, Units
  <2>2. {m \in Job : m > k} \subseteq s /\ k \in s /\ k \notin {m \in Job : m > k}
    BY <1>5, <2>1, Units
  <2>3. {m \in Job : m > k} \in U
    BY <1>2
  <2> QED
    BY <1>4, <2>2, <2>3 DEF Smaller
<1> QED
  BY <1>6 DEF Max

\* The order of imports that exist: one number for each of them.
LEMMA OrderExists ==
  \E order \in [Artifact -> 1..Cardinality(Artifact)] :
     \A a, b \in Artifact : order[a] = order[b] => a = b
<1> DEFINE n == Cardinality(Artifact)
<1>1. PICK f : f \in Bijection(1..n, Artifact)
  BY Units, FS_CardinalityType DEF ExistsBijection
<1>2. \A a \in Artifact : \E i \in 1..n : f[i] = a
  BY <1>1 DEF Bijection, Surjection
<1> HIDE DEF n
<1> DEFINE place(a) == CHOOSE i \in 1..n : f[i] = a
           order == [a \in Artifact |-> place(a)]
<1>3. \A a \in Artifact : place(a) \in 1..n /\ f[place(a)] = a
  BY <1>2
<1> HIDE DEF place
<1>4. order \in [Artifact -> 1..n] /\ \A a, b \in Artifact : order[a] = order[b] => a = b
  BY <1>3
<1> QED
  BY <1>4 DEF n

LEMMA StorageInit == Init => TypeOK
<1> SUFFICES ASSUME Init PROVE TypeOK
  OBVIOUS
<1>1. imported \in [Artifact -> 1..Cardinality(Artifact)]
  <2> DEFINE Good(order) == \A a, b \in Artifact : order[a] = order[b] => a = b
             Orders == [Artifact -> 1..Cardinality(Artifact)]
  <2>1. \E order \in Orders : Good(order)
    BY OrderExists
  <2>2. imported = CHOOSE order \in Orders : Good(order)
    BY DEF Init
  <2> HIDE DEF Good, Orders
  <2>3. imported \in Orders
    BY <2>1, <2>2
  <2> QED
    BY <2>3 DEF Orders
<1>2. imported \in [Artifact -> Nat]
  BY <1>1, Units, FS_CardinalityType
<1>3. jobs \in [Job -> Record]
  <2>1. PICK n \in 0..MaxJobs - 1, a \in Artifact, written \in {Output, Legacy} :
       jobs = [j \in Job |-> IF j > n THEN NoJob
                             ELSE [state |-> "completed", artifact |-> a, record |-> 1, temp |-> 0, output |-> written]]
    BY DEF Init
  <2>2. written \in 0..Legacy /\ NoJob \in Record
    BY Units DEF NoJob, Record, State
  <2>3. [state |-> "completed", artifact |-> a, record |-> 1, temp |-> 0, output |-> written] \in Record
    BY <2>2 DEF Record, State
  <2> HIDE DEF Record
  <2> QED
    BY <2>1, <2>2, <2>3
<1>8. fits \in BOOLEAN
  BY DEF Init
<1>4. kills \in Nat /\ need \in Nat /\ excess \in Int
  BY DEF Init
<1>5. staging \in Nat /\ deleting \in Nat /\ unknown \in Nat /\ tombs \subseteq Job
  BY Units DEF Init
<1>6. reserved \subseteq Job /\ retaining \subseteq Job /\ target \in Artifact \cup Job \cup {Nobody}
  BY DEF Init
<1>7. published \subseteq Artifact /\ tainted \subseteq Artifact /\ holder = "down"
  BY DEF Init
<1> QED
  BY <1>2, <1>3, <1>4, <1>5, <1>6, <1>7, <1>8 DEF TypeOK, Record, State

\* Which steps each holder of the gate goes through, and that an import or a submission has an
\* artifact.
CleanupSteps == {"cleanup", "prune", "remove", "evict", "unlink", "refused"}
Controls ==
  /\ holder \in {"none", "import", "submit", "retain", "operator", "start", "down"}
  /\ holder \in {"none", "down"} <=> at \in {"idle", "failed"}
  /\ holder \in {"import", "submit"} => target \in Artifact
  /\ holder = "import" =>
       at \in CleanupSteps \cup {"upload", "write", "payload", "extract", "publish", "discard", "again", "full"}
  /\ holder = "submit" => at \in CleanupSteps \cup {"admit", "create", "again", "full"}
  /\ holder \in {"retain", "operator", "start"} => at \in CleanupSteps \cup {"cleaned"}

LEMMA ControlsNext == Controls /\ [Next]_vars => Controls'
<1> SUFFICES ASSUME Controls, [Next]_vars PROVE Controls'
  OBVIOUS
<1> USE DEF gate, CleanupSteps
<1>1. CASE Ensure
  BY <1>1 DEF Ensure, Goto, Controls
<1>2. CASE CleanupBegin
  BY <1>2 DEF CleanupBegin, Step, Goto, Controls
<1>3. CASE Tombstone
  BY <1>3 DEF Tombstone, Step, Goto, Controls
<1>4. CASE RemoveJob
  BY <1>4 DEF RemoveJob, Step, Goto, Controls
<1>5. CASE EvictBegin
  BY <1>5 DEF EvictBegin, Controls
<1>6. CASE Evict
  BY <1>6 DEF Evict, Controls
<1>7. CASE Unlink
  BY <1>7 DEF Unlink, Step, Goto, Controls
<1>8. CASE CleanupEnd
  BY <1>8 DEF CleanupEnd, Step, Goto, Controls
<1>9. CASE Again
  BY <1>9 DEF Again, Goto, Controls
<1>10. CASE FailsFull
  BY <1>10 DEF FailsFull, Ask, Release, Controls
<1>11. ASSUME NEW a \in Artifact, ImportBegin(a) PROVE Controls'
  BY <1>11 DEF ImportBegin, Free, Controls
<1>12. ASSUME NEW a \in Artifact, SubmitBegin(a) PROVE Controls'
  BY <1>12 DEF SubmitBegin, Free, Controls
<1>13. CASE ImportWrite
  BY <1>13 DEF ImportWrite, Ask, Goto, Controls
<1>14. CASE ImportExtract
  BY <1>14 DEF ImportExtract, Step, Goto, Controls
<1>15. CASE ImportPublish
  BY <1>15 DEF ImportPublish, Release, Controls
<1>16. CASE ImportEnds
  BY <1>16 DEF ImportEnds, Release, Controls
<1>17. CASE Create
  BY <1>17 DEF Create, Release, Controls
<1>18. ASSUME NEW j \in Job, Write(j) PROVE Controls'
  BY <1>18 DEF Write, Controls
<1>19. ASSUME NEW j \in Job, Finish(j) PROVE Controls'
  BY <1>19 DEF Finish, Controls
<1>20. CASE Retain
  BY <1>20 DEF Retain, Free, Controls
<1>21. CASE OperatorCleanup
  BY <1>21 DEF OperatorCleanup, Free, Controls
<1>22. CASE CleanupReturns
  BY <1>22 DEF CleanupReturns, Release, Controls
<1>23. CASE Kill
  BY <1>23 DEF Kill, Controls
<1>24. CASE Start
  BY <1>24 DEF Start, Controls
<1>25. CASE Serve
  BY <1>25 DEF Serve, Release, Controls
<1>26. CASE StartFails
  BY <1>26 DEF StartFails, Controls
<1>27. ASSUME NEW j \in Job, BoundHistory(j) PROVE Controls'
  BY <1>27 DEF BoundHistory, Controls
<1>28. CASE UNCHANGED vars
  BY <1>28 DEF vars, Controls
<1>. QED
  BY <1>1, <1>2, <1>3, <1>4, <1>5, <1>6, <1>7, <1>8, <1>9, <1>10, <1>11, <1>12, <1>13,
     <1>14,
     <1>15, <1>16, <1>17, <1>18, <1>19, <1>20, <1>21, <1>22, <1>23, <1>24, <1>25, <1>26, <1>27,
     <1>28 DEF Next, Cleanup

LEMMA ControlsInit == Init => Controls
  BY DEF Init, Controls, CleanupSteps

LEMMA StorageNext == TypeOK /\ Controls /\ [Next]_vars => TypeOK'
<1> SUFFICES ASSUME TypeOK, Controls, [Next]_vars PROVE TypeOK'
  OBVIOUS
<1> USE DEF files, gate
<1>1. CASE Ensure
  BY <1>1, Units DEF Ensure, Goto, TypeOK
<1>2. CASE CleanupBegin
  BY <1>2, Units DEF CleanupBegin, Step, Goto, TypeOK
<1>3. CASE Tombstone
  <2>1. jobs' \in [Job -> Record]
    BY <1>3 DEF Tombstone, TypeOK, Record, State
  <2>2. tombs' \subseteq Job
    <3>1. Pruned \subseteq Job
      BY DEF Pruned, Completed
    <3> QED
      BY <1>3, <3>1, YoungestIn DEF Tombstone, TypeOK
  <2> QED
    BY <1>3, <2>1, <2>2 DEF Tombstone, Step, Goto, Record, State, TypeOK
<1>4. CASE RemoveJob
  <2>1. jobs' \in [Job -> Record]
    <3>1. PICK j \in Job : jobs' = Without(j, FirstPart(j))
      BY <1>4 DEF RemoveJob
    <3>2. FirstPart(j) \in {"record", "output", "directory"}
      BY DEF FirstPart
    <3>3. jobs \in [Job -> Record] /\ NoJob \in Record
      BY Units DEF TypeOK, Record, State, NoJob
    <3>4. [jobs[j] EXCEPT !.record = 0] \in Record /\ [jobs[j] EXCEPT !.output = 0] \in Record
      BY <3>3, RecordUpdated
    <3>5. \/ jobs' = [jobs EXCEPT ![j] = [jobs[j] EXCEPT !.record = 0]]
          \/ jobs' = [jobs EXCEPT ![j] = [jobs[j] EXCEPT !.output = 0]]
          \/ jobs' = [jobs EXCEPT ![j] = NoJob]
      BY <3>1, <3>2 DEF Without
    <3> QED
      BY <3>3, <3>4, <3>5
  <2> QED
    BY <1>4, <2>1, Units DEF RemoveJob, Step, Goto, Release, Record, State, TypeOK
<1>5. CASE EvictBegin
  BY <1>5, Units DEF EvictBegin, TypeOK
<1>6. CASE Evict
  BY <1>6, Units DEF Evict, TypeOK
<1>7. CASE Unlink
  BY <1>7, Units DEF Unlink, Step, Goto, TypeOK
<1>8. CASE CleanupEnd
  BY <1>8, Units DEF CleanupEnd, Step, Goto, TypeOK
<1>9. CASE Again
  BY <1>9, Units DEF Again, Goto, TypeOK
<1>10. CASE FailsFull
  BY <1>10, Units DEF FailsFull, Ask, Release, TypeOK
<1>11. ASSUME NEW a \in Artifact, ImportBegin(a) PROVE TypeOK'
  BY <1>11, Units DEF ImportBegin, Free, TypeOK
<1>12. ASSUME NEW a \in Artifact, SubmitBegin(a) PROVE TypeOK'
  BY <1>12, Units DEF SubmitBegin, Free, TypeOK
<1>13. CASE ImportWrite
  BY SMTT(30), <1>13, Units DEF ImportWrite, Ask, Goto, TypeOK
<1>14. CASE ImportExtract
  BY <1>14, Units DEF ImportExtract, Step, Goto, TypeOK
<1>15. CASE ImportPublish
  <2>0. target \in Artifact
    BY <1>15 DEF ImportPublish, Controls, CleanupSteps
  <2>1. imported' \in [Artifact -> Nat]
    <3>0. target \in Artifact
      BY <2>0
    <3>1. \A a \in Artifact : imported[a] \in Nat /\ (imported[a] > imported[target] => imported[a] >= 1)
      BY <3>0 DEF TypeOK
    <3> QED
      BY <1>15, <3>1, Units, FS_CardinalityType DEF ImportPublish
  <2>2. published' \subseteq Artifact
    BY <1>15, <2>0 DEF ImportPublish, TypeOK
  <2> QED
    BY <1>15, <2>1, <2>2 DEF ImportPublish, Release, TypeOK
<1>16. CASE ImportEnds
  BY <1>16, Units DEF ImportEnds, Release, TypeOK
<1>17. CASE Create
  <2>1. /\ reserved' \subseteq Job /\ retaining' \subseteq Job /\ need' \in Nat /\ excess' \in Int
        /\ target' \in Artifact \cup Job \cup {Nobody}
    BY <1>17 DEF Create, Release, TypeOK
  <2>5. fits' \in BOOLEAN
    BY <1>17 DEF Create, TypeOK
  <2>2. kills' \in Nat /\ holder' \in {"none", "down"}
    BY <1>17 DEF Create, Release, TypeOK
  <2>3. published' = published /\ tainted' = tainted /\ imported' = imported /\ jobs' \in [Job -> Record]
    <3>1. jobs \in [Job -> Record]
      BY DEF TypeOK, Record, State
    <3>2. target \in published => Admitted(target) \in Record
      BY Units DEF TypeOK, Admitted, Record, State
    <3> HIDE DEF Record
    <3> QED
      BY <1>17, <3>1, <3>2 DEF Create
  <2>4. staging' = staging /\ deleting' = deleting /\ unknown' = unknown /\ tombs' = tombs
    BY <1>17 DEF Create
  <2> QED
    BY <2>1, <2>2, <2>3, <2>4, <2>5 DEF Record, State, TypeOK
<1>18. ASSUME NEW j \in Job, Write(j) PROVE TypeOK'
  <2>1. jobs' \in [Job -> Record]
    <3>1. jobs \in [Job -> Record]
      BY DEF TypeOK, Record, State
    <3>2. ASSUME jobs[j].output < Output
          PROVE  [jobs[j] EXCEPT !.output = jobs[j].output + 1] \in Record
      BY <3>1, <3>2, RecordUpdated
    <3>3. [jobs[j] EXCEPT !.temp = 1 - jobs[j].temp] \in Record
      BY <3>1, RecordUpdated
    <3>4. \/ jobs[j].output < Output /\ jobs' = [jobs EXCEPT ![j] = [jobs[j] EXCEPT !.output = jobs[j].output + 1]]
          \/ jobs' = [jobs EXCEPT ![j] = [jobs[j] EXCEPT !.temp = 1 - jobs[j].temp]]
      BY <1>18 DEF Write
    <3> HIDE DEF Record
    <3> QED
      BY <3>1, <3>2, <3>3, <3>4
  <2> QED
    BY <1>18, <2>1 DEF Write, Record, State, TypeOK
<1>19. ASSUME NEW j \in Job, Finish(j) PROVE TypeOK'
  <2>1. jobs' \in [Job -> Record]
    BY <1>19 DEF Finish, TypeOK, Record, State
  <2> QED
    BY <1>19, <2>1, Units DEF Finish, Step, Goto, Release, Record, State, TypeOK
<1>20. CASE Retain
  BY <1>20, Units DEF Retain, Free, TypeOK
<1>21. CASE OperatorCleanup
  BY <1>21, Units DEF OperatorCleanup, Free, TypeOK
<1>22. CASE CleanupReturns
  BY <1>22, Units DEF CleanupReturns, Release, TypeOK
<1>23. CASE Kill
  <2>1. /\ reserved' \subseteq Job /\ retaining' \subseteq Job /\ need' \in Nat /\ excess' \in Int
        /\ target' \in Artifact \cup Job \cup {Nobody}
    BY <1>23 DEF Kill, Release, TypeOK
  <2>5. fits' \in BOOLEAN
    BY <1>23 DEF Kill, TypeOK
  <2>2. kills' \in Nat /\ holder' \in {"none", "down"}
    BY <1>23 DEF Kill, Release, TypeOK
  <2>3. jobs' = jobs /\ published' = published /\ tainted' = tainted /\ imported' = imported
    BY <1>23 DEF Kill
  <2>4. staging' = staging /\ deleting' = deleting /\ unknown' = unknown /\ tombs' = tombs
    BY <1>23 DEF Kill
  <2> QED
    BY <2>1, <2>2, <2>3, <2>4, <2>5 DEF Record, State, TypeOK
<1>24. CASE Start
  <2>1. jobs' \in [Job -> Record]
    <3>1. jobs \in [Job -> Record] /\ NoJob \in Record
      BY Units DEF TypeOK, Record, State, NoJob
    <3>2. ASSUME NEW j \in Job PROVE Loaded(j) \in Record
      <4>1. jobs[j] \in Record
        BY <3>1
      <4>2. [jobs[j] EXCEPT !.state = "orphan"] \in Record /\ [jobs[j] EXCEPT !.state = "completed"] \in Record
        BY <4>1, RecordUpdated DEF State
      <4> QED
        BY <3>1, <4>1, <4>2 DEF Loaded
    <3> QED
      BY <1>24, <3>2 DEF Start
  <2> QED
    BY <1>24, <2>1 DEF Start, Record, State, TypeOK
<1>25. CASE Serve
  BY <1>25, Units DEF Serve, Release, TypeOK
<1>26. CASE StartFails
  BY <1>26, Units DEF StartFails, TypeOK
<1>27. ASSUME NEW j \in Job, BoundHistory(j) PROVE TypeOK'
  <2>1. jobs' \in [Job -> Record]
    <3>1. jobs \in [Job -> Record]
      BY DEF TypeOK, Record, State
    <3>2. \A n \in 0..Output : [jobs[j] EXCEPT !.output = n] \in Record
      BY <3>1, RecordUpdated
    <3>3. PICK n \in 0..Output : jobs' = [jobs EXCEPT ![j] = [jobs[j] EXCEPT !.output = n]]
      BY <1>27 DEF BoundHistory
    <3> HIDE DEF Record
    <3> QED
      BY <3>1, <3>2, <3>3
  <2> QED
    BY <1>27, <2>1 DEF BoundHistory, Record, State, TypeOK
<1>28. CASE UNCHANGED vars
  BY <1>28, Units DEF vars, TypeOK
<1>. QED
  BY <1>1, <1>2, <1>3, <1>4, <1>5, <1>6, <1>7, <1>8, <1>9, <1>10, <1>11, <1>12, <1>13,
     <1>14,
     <1>15, <1>16, <1>17, <1>18, <1>19, <1>20, <1>21, <1>22, <1>23, <1>24, <1>25, <1>26, <1>27,
     <1>28 DEF Next, Cleanup

\* The budget's bytes, the control point of the gate and the jobs' files keep their types.
THEOREM StorageTyped == Spec => []TypeOK
  BY StorageInit, StorageNext, ControlsInit, ControlsNext, PTL DEF Spec

-----------------------------------------------------------------------------
(* What the jobs' files and an import hold at each step.                    *)

Is(j, s) == jobs[j].state = s

\* Histories that are listed have their record, and running jobs keep to their limit of output; one
\* job is removed at a time, by the step that removes; and while the station runs, its running jobs have a reservation.
LifeInv ==
  /\ \A j \in Job : Is(j, "active") \/ Is(j, "completed") => jobs[j].record = 1
  /\ \A j \in Job : Is(j, "active") => jobs[j].output <= Output
  /\ \A j, k \in Job : Is(j, "removing") /\ Is(k, "removing") => j = k
  /\ holder # "down" => \A j \in Job : Is(j, "active") => j \in reserved
  /\ holder # "down" => \A j \in Job : Is(j, "removing") => at = "remove"

\* What is staged and what is asked for at each step of an import; when nothing is running, what a
\* deletion left is gone.
ImportInv ==
  /\ holder = "import" => staging <= Upload \/ at = "publish"
  /\ holder \notin {"import", "down"} => staging = 0
  /\ at \in {"upload", "write"} => staging < Upload
  /\ at \in {"payload", "extract", "discard"} => staging = Upload
  /\ at = "publish" => staging = ArtifactSize
  /\ holder = "import" /\ staging < Upload => need >= 1
  /\ holder = "import" /\ staging = Upload /\ at # "discard" => need = Payload
  /\ holder = "submit" => need = Reservation
  /\ holder # "down" /\ at # "unlink" => deleting = 0
  /\ holder \in {"down", "start"} => fits = FALSE

Typed == TypeOK /\ Controls

LEMMA JobsTyped == ASSUME TypeOK PROVE jobs \in [Job -> Record]
  BY DEF TypeOK, Record, State

\* A change of one job's files and state.
LEMMA OneJob ==
  ASSUME TypeOK, NEW j \in Job, NEW r, jobs' = [jobs EXCEPT ![j] = r]
  PROVE  jobs'[j] = r /\ \A k \in Job : k # j => jobs'[k] = jobs[k]
  BY DEF TypeOK

\* The jobs a step changes, one at a time: a history that goes is a completed one, ...
LEMMA TombstoneChanges ==
  ASSUME TypeOK, Tombstone
  PROVE  \/ UNCHANGED jobs /\ UNCHANGED tombs
         \/ /\ \E j \in Job : /\ Is(j, "completed") /\ jobs'[j] = [jobs[j] EXCEPT !.state = "removing"]
                              /\ \A k \in Job : k # j => jobs'[k] = jobs[k]
                              /\ tombs' = tombs \cup {j}
            /\ at' = "remove"
<1> DEFINE j == Max(Pruned)
<1>1. Pruned # {} /\ Pruned \subseteq Job
  BY DEF Tombstone, Pruned, Completed
<1>2. j \in Pruned
  BY <1>1, YoungestIn
<1>3. j \in Job /\ Is(j, "completed")
  BY <1>1, <1>2 DEF Pruned, Completed, Is
<1>4. CASE Used + 1 > Limit
  BY <1>4 DEF Tombstone, files
<1>5. CASE ~(Used + 1 > Limit)
  <2>1. jobs' = [jobs EXCEPT ![j] = [jobs[j] EXCEPT !.state = "removing"]] /\ tombs' = tombs \cup {j}
    BY <1>5 DEF Tombstone
  <2>2. at' = "remove"
    BY <1>5 DEF Tombstone, Step, Goto
  <2> HIDE DEF j
  <2> QED
    BY <1>3, <2>1, <2>2, OneJob
<1> QED
  BY <1>4, <1>5

\* ... and a part that goes is the record, then what the job wrote, then its directory.
LEMMA RemoveJobChanges ==
  ASSUME TypeOK, RemoveJob
  PROVE  \E j \in Job :
           /\ Is(j, "removing") /\ \A k \in Job : k # j => jobs'[k] = jobs[k]
           /\ \/ jobs[j].record = 1 /\ jobs'[j] = [jobs[j] EXCEPT !.record = 0] /\ at' = "remove"
              \/ jobs[j].record = 0 /\ jobs'[j] = [jobs[j] EXCEPT !.output = 0] /\ at' = "remove"
              \/ jobs[j].record = 0 /\ jobs[j].output = 0 /\ jobs'[j] = NoJob /\ at' = "prune"
<1>1. PICK j \in Job : /\ Is(j, "removing") /\ jobs' = Without(j, FirstPart(j))
                       /\ at' = IF FirstPart(j) = "directory" THEN "prune" ELSE "remove"
  BY DEF RemoveJob, Is, Step, Goto
<1>2. jobs[j].record \in 0..1 /\ jobs[j].output \in Nat
  BY JobsTyped, Units DEF Record
<1>3. CASE jobs[j].record > 0
  <2>1. jobs' = [jobs EXCEPT ![j] = [jobs[j] EXCEPT !.record = 0]] /\ jobs[j].record = 1 /\ at' = "remove"
    BY <1>1, <1>2, <1>3 DEF Without, FirstPart
  <2>2. jobs'[j] = [jobs[j] EXCEPT !.record = 0] /\ \A k \in Job : k # j => jobs'[k] = jobs[k]
    BY <2>1, OneJob
  <2> QED
    BY <1>1, <2>1, <2>2
<1>4. CASE ~(jobs[j].record > 0) /\ jobs[j].output > 0
  <2>1. jobs' = [jobs EXCEPT ![j] = [jobs[j] EXCEPT !.output = 0]] /\ jobs[j].record = 0 /\ at' = "remove"
    BY <1>1, <1>2, <1>4 DEF Without, FirstPart
  <2>2. jobs'[j] = [jobs[j] EXCEPT !.output = 0] /\ \A k \in Job : k # j => jobs'[k] = jobs[k]
    BY <2>1, OneJob
  <2> QED
    BY <1>1, <2>1, <2>2
<1>5. CASE ~(jobs[j].record > 0) /\ ~(jobs[j].output > 0)
  <2>1. jobs' = [jobs EXCEPT ![j] = NoJob] /\ jobs[j].record = 0 /\ jobs[j].output = 0 /\ at' = "prune"
    BY <1>1, <1>2, <1>5 DEF Without, FirstPart
  <2>2. jobs'[j] = NoJob /\ \A k \in Job : k # j => jobs'[k] = jobs[k]
    BY <2>1, OneJob
  <2> QED
    BY <1>1, <2>1, <2>2
<1> QED
  BY <1>3, <1>4, <1>5

LEMMA CreateChanges ==
  ASSUME TypeOK, Create
  PROVE  \/ UNCHANGED <<jobs, reserved>>
         \/ \E j \in Job : /\ Is(j, "none") /\ jobs[j] = NoJob /\ jobs'[j] = Admitted(target)
                           /\ \A k \in Job : k # j => jobs'[k] = jobs[k]
                           /\ reserved' = reserved \cup {j}
<1>1. CASE UNCHANGED <<jobs, reserved>>
  BY <1>1
<1>2. ASSUME NEW j \in Job, jobs[j] = NoJob, jobs' = [jobs EXCEPT ![j] = Admitted(target)],
             reserved' = reserved \cup {j}
      PROVE  /\ Is(j, "none") /\ jobs'[j] = Admitted(target)
             /\ \A k \in Job : k # j => jobs'[k] = jobs[k]
  <2>1. jobs'[j] = Admitted(target) /\ \A k \in Job : k # j => jobs'[k] = jobs[k]
    BY <1>2, OneJob
  <2> QED
    BY <1>2, <2>1 DEF Is, NoJob
<1>3. \/ UNCHANGED <<jobs, reserved>>
      \/ \E j \in Job : /\ jobs[j] = NoJob /\ jobs' = [jobs EXCEPT ![j] = Admitted(target)]
                        /\ reserved' = reserved \cup {j}
  BY DEF Create
<1> QED
  BY <1>1, <1>2, <1>3

LEMMA WriteChanges ==
  ASSUME TypeOK, NEW j \in Job, Write(j)
  PROVE  /\ Is(j, "active") /\ \A k \in Job : k # j => jobs'[k] = jobs[k]
         /\ \/ jobs[j].output < Output /\ jobs'[j] = [jobs[j] EXCEPT !.output = jobs[j].output + 1]
            \/ MutexFree /\ jobs'[j] = [jobs[j] EXCEPT !.temp = 1 - jobs[j].temp]
<1>1. \/ /\ jobs[j].output < Output
         /\ jobs' = [jobs EXCEPT ![j] = [jobs[j] EXCEPT !.output = jobs[j].output + 1]]
      \/ MutexFree /\ jobs' = [jobs EXCEPT ![j] = [jobs[j] EXCEPT !.temp = 1 - jobs[j].temp]]
  BY DEF Write
<1> QED
  BY <1>1, OneJob DEF Write, Is

LEMMA FinishChanges ==
  ASSUME TypeOK, NEW j \in Job, Finish(j)
  PROVE  /\ Is(j, "active") /\ jobs[j].temp = 0 /\ jobs'[j] = [jobs[j] EXCEPT !.state = "completed"]
         /\ \A k \in Job : k # j => jobs'[k] = jobs[k]
<1>1. jobs' = [jobs EXCEPT ![j] = [jobs[j] EXCEPT !.state = "completed"]]
  BY DEF Finish
<1> QED
  BY <1>1, OneJob DEF Finish, Is

LEMMA BoundHistoryChanges ==
  ASSUME TypeOK, NEW j \in Job, BoundHistory(j)
  PROVE  /\ jobs'[j].state = jobs[j].state /\ jobs'[j].record = jobs[j].record
         /\ jobs'[j].temp = jobs[j].temp /\ jobs'[j].output \in 0..Output
         /\ \A k \in Job : k # j => jobs'[k] = jobs[k]
<1>1. PICK n \in 0..Output : jobs' = [jobs EXCEPT ![j] = [jobs[j] EXCEPT !.output = n]]
  BY DEF BoundHistory
<1>2. jobs'[j] = [jobs[j] EXCEPT !.output = n] /\ \A k \in Job : k # j => jobs'[k] = jobs[k]
  BY <1>1, OneJob
<1>3. jobs[j] \in Record
  BY JobsTyped
<1> QED
  BY <1>2, <1>3 DEF Record

LEMMA LifeInvNext == LifeInv /\ Typed /\ [Next]_vars => LifeInv'
<1> SUFFICES ASSUME LifeInv, TypeOK, Controls, [Next]_vars PROVE LifeInv'
  BY DEF Typed
<1> USE DEF files, gate, CleanupSteps
<1>a. \A j \in Job : jobs[j] \in Record
  BY JobsTyped
<1>1. CASE Ensure
  BY <1>1 DEF Ensure, Goto, LifeInv, Is, Controls
<1>2. CASE CleanupBegin
  BY <1>2 DEF CleanupBegin, Step, Goto, LifeInv, Is, Controls
<1>3. CASE Tombstone
  <2>0. holder' = holder /\ reserved' = reserved /\ at = "prune" /\ holder \notin {"none", "down"}
    BY <1>3 DEF Tombstone, Step, Goto, Controls
  <2>1. CASE UNCHANGED jobs /\ UNCHANGED tombs
    BY <2>0, <2>1 DEF LifeInv, Is
  <2>2. ASSUME NEW j \in Job, Is(j, "completed"),
     jobs'[j] = [jobs[j] EXCEPT !.state = "removing"],
               \A k \in Job : k # j => jobs'[k] = jobs[k], at' = "remove"
        PROVE  LifeInv'
    <3>1. jobs'[j].state = "removing"
      BY <1>a, <2>2 DEF Record
    <3> QED
      BY <2>0, <2>2, <3>1 DEF LifeInv, Is
  <2> QED
    BY <1>3, <2>1, <2>2, TombstoneChanges
<1>4. CASE RemoveJob
  <2>0. holder' = holder /\ reserved' = reserved /\ at = "remove"
    BY <1>4 DEF RemoveJob, Step, Goto
  <2>1. PICK j \in Job :
           /\ Is(j, "removing") /\ \A k \in Job : k # j => jobs'[k] = jobs[k]
           /\ \/ jobs[j].record = 1 /\ jobs'[j] = [jobs[j] EXCEPT !.record = 0] /\ at' = "remove"
              \/ jobs[j].record = 0 /\ jobs'[j] = [jobs[j] EXCEPT !.output = 0] /\ at' = "remove"
              \/ jobs[j].record = 0 /\ jobs[j].output = 0 /\ jobs'[j] = NoJob /\ at' = "prune"
    BY <1>4, RemoveJobChanges
  <2>2. (jobs'[j].state = "removing" /\ at' = "remove") \/ (jobs'[j].state = "none" /\ at' = "prune")
    <3>1. jobs[j] \in Record
      BY <1>a
    <3>2. [jobs[j] EXCEPT !.record = 0].state = jobs[j].state /\ [jobs[j] EXCEPT !.output = 0].state = jobs[j].state
      BY <3>1 DEF Record
    <3>3. NoJob.state = "none"
      BY DEF NoJob
    <3>4. jobs[j].state = "removing"
      BY <2>1 DEF Is
    <3>5. CASE jobs'[j] = [jobs[j] EXCEPT !.record = 0] /\ at' = "remove"
      BY <3>2, <3>4, <3>5
    <3>6. CASE jobs'[j] = [jobs[j] EXCEPT !.output = 0] /\ at' = "remove"
      BY <3>2, <3>4, <3>6
    <3>7. CASE jobs'[j] = NoJob /\ at' = "prune"
      BY <3>3, <3>7
    <3> QED
      BY <2>1, <3>5, <3>6, <3>7
  <2> QED
    BY <2>0, <2>1, <2>2 DEF LifeInv, Is
<1>5. CASE EvictBegin
  BY <1>5 DEF EvictBegin, LifeInv, Is, Controls
<1>6. CASE Evict
  BY <1>6 DEF Evict, LifeInv, Is, Controls
<1>7. CASE Unlink
  BY <1>7 DEF Unlink, Step, Goto, LifeInv, Is, Controls
<1>8. CASE CleanupEnd
  BY <1>8 DEF CleanupEnd, Step, Goto, LifeInv, Is, Controls
<1>9. CASE Again
  BY <1>9 DEF Again, Goto, LifeInv, Is, Controls
<1>10. CASE FailsFull
  BY <1>10 DEF FailsFull, Ask, Release, LifeInv, Is, Controls
<1>11. ASSUME NEW a \in Artifact, ImportBegin(a) PROVE LifeInv'
  BY <1>11 DEF ImportBegin, Free, LifeInv, Is, Controls
<1>12. ASSUME NEW a \in Artifact, SubmitBegin(a) PROVE LifeInv'
  BY <1>12 DEF SubmitBegin, Free, LifeInv, Is, Controls
<1>13. CASE ImportWrite
  BY <1>13 DEF ImportWrite, Ask, Goto, LifeInv, Is, Controls
<1>14. CASE ImportExtract
  BY <1>14 DEF ImportExtract, Step, Goto, LifeInv, Is, Controls
<1>15. CASE ImportPublish
  BY <1>15 DEF ImportPublish, Release, LifeInv, Is, Controls
<1>16. CASE ImportEnds
  BY <1>16 DEF ImportEnds, Release, LifeInv, Is, Controls
<1>17. CASE Create
  <2>0. at = "create" /\ holder = "submit" /\ holder' = "none"
    BY <1>17 DEF Create, Release, Controls
  <2>1. CASE UNCHANGED <<jobs, reserved>>
    BY <2>0, <2>1 DEF LifeInv, Is
  <2>2. ASSUME NEW j \in Job, Is(j, "none"), jobs'[j] = Admitted(target),
               \A k \in Job : k # j => jobs'[k] = jobs[k], reserved' = reserved \cup {j}
        PROVE  LifeInv'
    <3>1. jobs'[j].state = "active" /\ jobs'[j].record = 1 /\ jobs'[j].output <= Output
      BY <2>2, Units DEF Admitted
    <3> QED
      BY <2>0, <2>2, <3>1 DEF LifeInv, Is
  <2> QED
    BY <1>17, <2>1, <2>2, CreateChanges
<1>18. ASSUME NEW j \in Job, Write(j) PROVE LifeInv'
  <2>0. at' = at /\ holder' = holder /\ reserved' = reserved
    BY <1>18 DEF Write
  <2>1. jobs'[j].state = "active" /\ jobs'[j].record = jobs[j].record
    BY <1>18, <1>a, WriteChanges DEF Is, Record
  <2>2. Is(j, "active") /\ \A k \in Job : k # j => jobs'[k] = jobs[k]
    BY <1>18, WriteChanges
  <2>3. jobs'[j].output <= Output
    <3>1. jobs[j] \in Record /\ jobs[j].output \in Nat /\ jobs[j].output <= Output /\ Output \in Nat
      BY <1>a, <2>2, Units DEF LifeInv, Record
    <3>2. \/ jobs[j].output < Output /\ jobs'[j].output = jobs[j].output + 1
          \/ jobs'[j].output = jobs[j].output
      BY <1>18, <3>1, WriteChanges DEF Record
    <3> QED
      BY <3>1, <3>2
  <2> QED
    BY <2>0, <2>1, <2>2, <2>3 DEF LifeInv, Is
<1>19. ASSUME NEW j \in Job, Finish(j) PROVE LifeInv'
  <2>0. at' = at /\ holder' = holder /\ reserved' = reserved
    BY <1>19 DEF Finish
  <2>1. jobs'[j].state = "completed" /\ jobs'[j].record = jobs[j].record
    BY <1>19, <1>a, FinishChanges DEF Record
  <2>2. Is(j, "active") /\ \A k \in Job : k # j => jobs'[k] = jobs[k]
    BY <1>19, FinishChanges
  <2> QED
    BY <2>0, <2>1, <2>2 DEF LifeInv, Is
<1>20. CASE Retain
  <2>1. \A j \in Job : Is(j, "active") => j \notin Completed
    BY DEF Is, Completed
  <2> QED
    BY <1>20, <2>1 DEF Retain, Free, LifeInv, Is, Controls
<1>21. CASE OperatorCleanup
  BY <1>21 DEF OperatorCleanup, Free, LifeInv, Is, Controls
<1>22. CASE CleanupReturns
  BY <1>22 DEF CleanupReturns, Release, LifeInv, Is, Controls
<1>23. CASE Kill
  BY <1>23 DEF Kill, LifeInv, Is, Controls
<1>24. CASE Start
  <2>1. ASSUME NEW j \in Job
        PROVE  jobs'[j].state \in {"none", "orphan"} \/ (jobs'[j].state = "completed" /\ jobs'[j].record = 1)
    <3>1. jobs'[j] = Loaded(j) /\ jobs[j] \in Record
      BY <1>24, <1>a DEF Start
    <3>2. jobs[j].record \in 0..1
      BY <3>1 DEF Record
    <3>3. /\ [jobs[j] EXCEPT !.state = "orphan"].state = "orphan"
          /\ [jobs[j] EXCEPT !.state = "completed"].state = "completed"
          /\ [jobs[j] EXCEPT !.state = "completed"].record = jobs[j].record
          /\ NoJob.state = "none"
      BY <3>1 DEF Record, NoJob
    <3>4. \/ Loaded(j) = jobs[j] /\ jobs[j].state = "none"
          \/ Loaded(j) = [jobs[j] EXCEPT !.state = "orphan"]
          \/ Loaded(j) = NoJob
          \/ Loaded(j) = [jobs[j] EXCEPT !.state = "completed"] /\ jobs[j].record = 1
      BY <3>2 DEF Loaded
    <3> HIDE DEF Record
    <3>5. CASE Loaded(j) = jobs[j] /\ jobs[j].state = "none"
      BY <3>1, <3>5
    <3>6. CASE Loaded(j) = [jobs[j] EXCEPT !.state = "orphan"]
      BY <3>1, <3>3, <3>6
    <3>7. CASE Loaded(j) = NoJob
      BY <3>1, <3>3, <3>7
    <3>8. CASE Loaded(j) = [jobs[j] EXCEPT !.state = "completed"] /\ jobs[j].record = 1
      BY <3>1, <3>3, <3>8
    <3> QED
      BY <3>4, <3>5, <3>6, <3>7, <3>8
  <2> QED
    BY <2>1 DEF LifeInv, Is
<1>25. CASE Serve
  BY <1>25 DEF Serve, Release, LifeInv, Is, Controls
<1>26. CASE StartFails
  BY <1>26 DEF StartFails, LifeInv, Is, Controls
<1>27. ASSUME NEW j \in Job, BoundHistory(j) PROVE LifeInv'
  <2>1. holder' = holder /\ reserved' = reserved /\ holder = "down"
    BY <1>27 DEF BoundHistory
  <2>2. /\ jobs'[j].state = jobs[j].state /\ jobs'[j].record = jobs[j].record /\ jobs'[j].output <= Output
        /\ \A k \in Job : k # j => jobs'[k] = jobs[k]
    <3>1. jobs'[j].output \in 0..Output
      BY <1>27, BoundHistoryChanges
    <3> QED
      BY <1>27, <3>1, BoundHistoryChanges, Units
  <2> QED
    BY <2>1, <2>2 DEF LifeInv, Is
<1>28. CASE UNCHANGED vars
  BY <1>28 DEF vars, LifeInv, Is, Controls
<1>. QED
  BY <1>1, <1>2, <1>3, <1>4, <1>5, <1>6, <1>7, <1>8, <1>9, <1>10, <1>11, <1>12, <1>13,
     <1>14,
     <1>15, <1>16, <1>17, <1>18, <1>19, <1>20, <1>21, <1>22, <1>23, <1>24, <1>25, <1>26, <1>27,
     <1>28 DEF Next, Cleanup

LEMMA LifeInvInit == Init => LifeInv
<1> SUFFICES ASSUME Init PROVE LifeInv
  OBVIOUS
<1>1. \A j \in Job : jobs[j].state = "none" \/ (jobs[j].state = "completed" /\ jobs[j].record = 1)
  <2>1. PICK n \in 0..MaxJobs - 1, a \in Artifact, written \in {Output, Legacy} :
       jobs = [j \in Job |-> IF j > n THEN NoJob
                             ELSE [state |-> "completed", artifact |-> a, record |-> 1, temp |-> 0, output |-> written]]
    BY DEF Init
  <2>2. ASSUME NEW j \in Job
        PROVE  jobs[j].state = "none" \/ (jobs[j].state = "completed" /\ jobs[j].record = 1)
    <3>1. NoJob.state = "none"
      BY DEF NoJob
    <3>2. CASE j > n
      <4>1. jobs[j] = NoJob
        BY <2>1, <3>2
      <4> QED
        BY <3>1, <4>1
    <3>3. CASE ~(j > n)
      <4>1. jobs[j] = [state |-> "completed", artifact |-> a, record |-> 1, temp |-> 0, output |-> written]
        BY <2>1, <3>3
      <4> QED
        BY <4>1
    <3> QED
      BY <3>2, <3>3
  <2> QED
    BY <2>2
<1>2. holder = "down"
  BY DEF Init
<1> QED
  BY <1>1, <1>2 DEF LifeInv, Is

LEMMA ImportInvNext == ImportInv /\ Typed /\ [Next]_vars => ImportInv'
<1> SUFFICES ASSUME ImportInv, TypeOK, Controls, [Next]_vars PROVE ImportInv'
  BY DEF Typed
<1> USE DEF files, gate, CleanupSteps
<1>a. staging \in Nat /\ deleting \in Nat /\ need \in Nat /\ Credit >= 1 /\ Upload >= 1 /\ ArtifactSize = Upload + Payload
  BY StorageAssumption DEF TypeOK, ArtifactSize
<1>1. CASE Ensure
  BY <1>1, <1>a, Units DEF Ensure, Goto, ImportInv, Controls
<1>2. CASE CleanupBegin
  BY <1>2, <1>a, Units DEF CleanupBegin, Step, Goto, ImportInv, Controls
<1>3. CASE Tombstone
  BY <1>3, <1>a, Units DEF Tombstone, Step, Goto, ImportInv, Controls
<1>4. CASE RemoveJob
  BY <1>4, <1>a, Units DEF RemoveJob, Step, Goto, ImportInv, Controls
<1>5. CASE EvictBegin
  BY <1>5, <1>a, Units DEF EvictBegin, ImportInv, Controls
<1>6. CASE Evict
  BY <1>6, <1>a, Units DEF Evict, ImportInv, Controls
<1>7. CASE Unlink
  BY <1>7, <1>a, Units DEF Unlink, Step, Goto, ImportInv, Controls
<1>8. CASE CleanupEnd
  BY <1>8, <1>a, Units DEF CleanupEnd, Step, Goto, ImportInv, Controls
<1>9. CASE Again
  BY <1>9, <1>a, Units DEF Again, Goto, ImportInv, Controls
<1>10. CASE FailsFull
  BY <1>10, <1>a, Units DEF FailsFull, Ask, Release, ImportInv, Controls
<1>11. ASSUME NEW a \in Artifact, ImportBegin(a) PROVE ImportInv'
  BY <1>11, <1>a, Units DEF ImportBegin, Free, ImportInv, Controls
<1>12. ASSUME NEW a \in Artifact, SubmitBegin(a) PROVE ImportInv'
  BY <1>12, <1>a, Units DEF SubmitBegin, Free, ImportInv, Controls
<1>13. CASE ImportWrite
  BY <1>13, <1>a, Units DEF ImportWrite, Ask, Goto, ImportInv, Controls
<1>14. CASE ImportExtract
  BY <1>14, <1>a, Units DEF ImportExtract, Step, Goto, ImportInv, Controls
<1>15. CASE ImportPublish
  BY <1>15, <1>a, Units DEF ImportPublish, Release, ImportInv, Controls
<1>16. CASE ImportEnds
  BY <1>16, <1>a, Units DEF ImportEnds, Release, ImportInv, Controls
<1>17. CASE Create
  BY <1>17, <1>a, Units DEF Create, Release, ImportInv, Controls
<1>18. ASSUME NEW j \in Job, Write(j) PROVE ImportInv'
  BY <1>18, <1>a, Units DEF Write, ImportInv, Controls
<1>19. ASSUME NEW j \in Job, Finish(j) PROVE ImportInv'
  BY <1>19, <1>a, Units DEF Finish, ImportInv, Controls
<1>20. CASE Retain
  BY <1>20, <1>a, Units DEF Retain, Free, ImportInv, Controls
<1>21. CASE OperatorCleanup
  BY <1>21, <1>a, Units DEF OperatorCleanup, Free, ImportInv, Controls
<1>22. CASE CleanupReturns
  BY <1>22, <1>a, Units DEF CleanupReturns, Release, ImportInv, Controls
<1>23. CASE Kill
  BY <1>23, <1>a, Units DEF Kill, ImportInv, Controls
<1>24. CASE Start
  BY <1>24, <1>a, Units DEF Start, ImportInv, Controls
<1>25. CASE Serve
  BY <1>25, <1>a, Units DEF Serve, Release, ImportInv, Controls
<1>26. CASE StartFails
  BY <1>26, <1>a, Units DEF StartFails, ImportInv, Controls
<1>27. ASSUME NEW j \in Job, BoundHistory(j) PROVE ImportInv'
  BY <1>27, <1>a, Units DEF BoundHistory, ImportInv, Controls
<1>28. CASE UNCHANGED vars
  BY <1>28, <1>a, Units DEF vars, ImportInv, Controls
<1>. QED
  BY <1>1, <1>2, <1>3, <1>4, <1>5, <1>6, <1>7, <1>8, <1>9, <1>10, <1>11, <1>12, <1>13,
     <1>14,
     <1>15, <1>16, <1>17, <1>18, <1>19, <1>20, <1>21, <1>22, <1>23, <1>24, <1>25, <1>26, <1>27,
     <1>28 DEF Next, Cleanup

LEMMA ImportInvInit == Init => ImportInv
  BY DEF Init, ImportInv

-----------------------------------------------------------------------------
(* The budget.                                                              *)

HeldBy(J) == [j \in Job |-> J[j].record + J[j].output + J[j].temp]
ChargeOf(J, j) == IF J[j].state = "active" THEN Reservation ELSE J[j].record + J[j].output + J[j].temp
ChargeBy(J) == [j \in Job |-> ChargeOf(J, j)]
LeftBy(J, R) ==
  [j \in R |-> IF J[j].record + J[j].output > Reservation THEN 0 ELSE Reservation - (J[j].record + J[j].output)]
Archives(P) == ArtifactSize * Cardinality(P)
Base == unknown + staging + deleting + Archives(published) + Cardinality(tombs)
Held == SumFunctionOnSet(HeldBy(jobs), Job)
Charge == SumFunctionOnSet(ChargeBy(jobs), Job)
Left == SumFunctionOnSet(LeftBy(jobs, reserved), reserved)
Owing(J) == \E j \in Job : J[j].state = "removing" /\ J[j].record = 1

\* What the gate promised to the step that follows, and the tombstone that stands in for a record
\* that is about to go.
Promised == IF at \in {"write", "extract", "create"} THEN need ELSE 0
Owed == IF Owing(jobs) THEN 1 ELSE 0

\* With each running job charged all it may ever write, and with what an operation was promised,
\* the station is within its limit and the maintenance reserve is whole, but for one tombstone.
InBudget(b, c, p, o) == b + c + p + Maintenance <= Limit + o
BudgetInv == fits = TRUE => InBudget(Base, Charge, Promised, Owed)

\* A cleanup's excess is what is above the target that it computed, whatever jobs have written.
ExcessInv == at \in {"evict", "unlink"} => excess = Used - deleting + ReservedBytes + need - Limit

LEMMA UsedIs == Used = Base + Held
  BY DEF Used, Base, Held, HeldBy, JobSize, SumFunction, Archives
LEMMA UsedBecomes == Used' = Base' + Held'
  BY DEF Used, Base, Held, HeldBy, JobSize, SumFunction, Archives
LEMMA ReservedIs == ReservedBytes = Maintenance + Left
  BY DEF ReservedBytes, Left, LeftBy, Remaining, JobSize, SumFunction
LEMMA ReservedBecomes == ReservedBytes' = Maintenance + Left'
  BY DEF ReservedBytes, Left, LeftBy, Remaining, JobSize, SumFunction

LEMMA RecordUnits ==
  ASSUME NEW J \in [Job -> Record], NEW j \in Job
  PROVE  J[j].record \in 0..1 /\ J[j].output \in 0..Legacy /\ J[j].temp \in 0..1
  BY DEF Record

\* Running jobs keep to their limit, whatever histories of earlier versions hold.
Bounded(J) == \A j \in Job : J[j].state = "active" => J[j].output <= Output

LEMMA Summable ==
  ASSUME NEW J \in [Job -> Record]
  PROVE  /\ Whole(HeldBy(J), Job) /\ Whole(ChargeBy(J), Job) /\ Whole(LeftBy(J, Job), Job)
         /\ \A R \in SUBSET Job : Whole(LeftBy(J, R), R)
         /\ Bounded(J) => \A j \in Job : HeldBy(J)[j] <= ChargeBy(J)[j]
         /\ Bounded(J) => \A R \in SUBSET Job : \A j \in R : ChargeBy(J)[j] <= HeldBy(J)[j] + LeftBy(J, R)[j]
         /\ \A j \in Job : J[j].state # "active" => ChargeBy(J)[j] = HeldBy(J)[j]
<1>1. ASSUME NEW j \in Job
      PROVE  /\ J[j].record \in 0..1 /\ J[j].output \in Nat /\ J[j].temp \in 0..1
             /\ HeldBy(J)[j] = J[j].record + J[j].output + J[j].temp
             /\ ChargeBy(J)[j] = ChargeOf(J, j)
  BY RecordUnits, Units DEF HeldBy, ChargeBy
<1>2. ASSUME NEW R \in SUBSET Job, NEW j \in R
      PROVE  /\ LeftBy(J, R)[j] \in Nat
             /\ J[j].output <= Output => LeftBy(J, R)[j] = Reservation - (J[j].record + J[j].output)
  <2>1. J[j].record \in 0..1 /\ J[j].output \in Nat
    BY <1>1
  <2>2. LeftBy(J, R)[j] = IF J[j].record + J[j].output > Reservation THEN 0
                          ELSE Reservation - (J[j].record + J[j].output)
    BY DEF LeftBy
  <2>3. J[j].output <= Output => ~(J[j].record + J[j].output > Reservation)
    BY <2>1, Units
  <2> QED
    BY <2>1, <2>2, <2>3, Units
<1>3. Job \in SUBSET Job
  OBVIOUS
<1>4. Whole(HeldBy(J), Job) /\ Whole(ChargeBy(J), Job)
  <2>1. \A j \in Job : HeldBy(J)[j] \in Int /\ ChargeOf(J, j) \in Int
    BY <1>1, Units DEF ChargeOf
  <2> QED
    BY <1>1, <2>1 DEF Whole
<1>5. \A R \in SUBSET Job : Whole(LeftBy(J, R), R)
  BY <1>2 DEF Whole
<1>6. ASSUME Bounded(J), NEW j \in Job PROVE HeldBy(J)[j] <= ChargeBy(J)[j]
  BY <1>1, <1>6, Units DEF ChargeOf, Bounded
<1>7. ASSUME Bounded(J), NEW R \in SUBSET Job, NEW j \in R
      PROVE  ChargeBy(J)[j] <= HeldBy(J)[j] + LeftBy(J, R)[j]
  <2>1. j \in Job /\ LeftBy(J, R)[j] \in Nat
    BY <1>2
  <2>2. CASE J[j].state = "active"
    <3>1. LeftBy(J, R)[j] = Reservation - (J[j].record + J[j].output)
      BY <1>2, <1>7, <2>1, <2>2 DEF Bounded
    <3>2. ChargeBy(J)[j] = Reservation
      BY <1>1, <2>1, <2>2 DEF ChargeOf
    <3> QED
      BY <1>1, <2>1, <3>1, <3>2, Units
  <2>3. CASE J[j].state # "active"
    <3>1. ChargeBy(J)[j] = HeldBy(J)[j]
      BY <1>1, <2>1, <2>3 DEF ChargeOf
    <3> QED
      BY <1>1, <2>1, <3>1
  <2> QED
    BY <2>2, <2>3
<1>8. \A j \in Job : J[j].state # "active" => ChargeBy(J)[j] = HeldBy(J)[j]
  BY <1>1 DEF ChargeOf
<1> QED
  BY <1>3, <1>4, <1>5, <1>6, <1>7, <1>8

LEMMA SumsWhole ==
  ASSUME TypeOK
  PROVE  Held \in Int /\ Charge \in Int /\ Left \in Int
<1>1. jobs \in [Job -> Record] /\ reserved \in SUBSET Job /\ Job \in SUBSET Job /\ reserved \in SUBSET reserved
  BY JobsTyped DEF TypeOK
<1>2. IsFiniteSet(Job) /\ IsFiniteSet(reserved)
  BY <1>1, Units, FS_Subset
<1>3. Held \in Int
  BY <1>1, <1>2, Summable, SumIsInteger DEF Held
<1>4. Charge \in Int
  BY <1>1, <1>2, Summable, SumIsInteger DEF Charge
<1>5. Left \in Int
  BY <1>1, <1>2, Summable, SumIsInteger DEF Left
<1> QED
  BY <1>3, <1>4, <1>5

LEMMA BaseWhole ==
  ASSUME TypeOK
  PROVE  /\ unknown \in Nat /\ staging \in Nat /\ deleting \in Nat /\ Archives(published) \in Nat
         /\ Cardinality(tombs) \in Nat /\ IsFiniteSet(published) /\ IsFiniteSet(tombs) /\ need \in Nat
<1>1. IsFiniteSet(published) /\ IsFiniteSet(tombs)
  BY Units, FS_Subset DEF TypeOK
<1>2. Cardinality(published) \in Nat /\ Cardinality(tombs) \in Nat
  BY <1>1, FS_CardinalityType
<1> QED
  BY <1>1, <1>2, Units DEF Archives, TypeOK

\* Files are no more than what they are charged as.
LEMMA HeldIsCharged == TypeOK /\ LifeInv => Held <= Charge
<1> SUFFICES ASSUME TypeOK, LifeInv PROVE Held <= Charge
  OBVIOUS
<1>1. jobs \in [Job -> Record] /\ Bounded(jobs)
  BY JobsTyped DEF LifeInv, Bounded, Is
<1>2. IsFiniteSet(Job)
  BY Units
<1> QED
  BY <1>1, <1>2, Summable, SumMonotone DEF Held, Charge

\* What running jobs may yet write is within their reservations.
LEMMA ChargeIsCovered ==
  ASSUME TypeOK, LifeInv, \A j \in Job : Is(j, "active") => j \in reserved
  PROVE  Charge <= Held + Left
<1>1. jobs \in [Job -> Record] /\ reserved \in SUBSET Job /\ Bounded(jobs)
  BY JobsTyped DEF TypeOK, LifeInv, Bounded, Is
<1>2. IsFiniteSet(Job)
  BY Units
<1>3. /\ Whole(HeldBy(jobs), Job) /\ Whole(ChargeBy(jobs), Job) /\ Whole(LeftBy(jobs, reserved), reserved)
      /\ \A j \in reserved : ChargeBy(jobs)[j] <= HeldBy(jobs)[j] + LeftBy(jobs, reserved)[j]
  BY <1>1, Summable
<1>4. \A j \in Job \ reserved : ChargeBy(jobs)[j] <= HeldBy(jobs)[j]
  <2>1. ASSUME NEW j \in Job \ reserved
        PROVE  ChargeBy(jobs)[j] = HeldBy(jobs)[j] /\ HeldBy(jobs)[j] \in Int
    BY <1>1, <1>3, Summable DEF Is, Whole
  <2> QED
    BY <2>1
<1> QED
  BY <1>1, <1>2, <1>3, <1>4, SumsCovered DEF Charge, Held, Left

\* What the gate finds room for leaves the maintenance reserve whole.
LEMMA RoomIsCharged ==
  ASSUME TypeOK, LifeInv, holder # "down", ~OverBudget
  PROVE  /\ Base + Charge + Maintenance <= Limit
         /\ \A n \in Nat : Fits(n) => Base + Charge + n + Maintenance <= Limit
<1>1. Charge <= Held + Left
  BY ChargeIsCovered DEF LifeInv
<1>2. Held \in Int /\ Charge \in Int /\ Left \in Int /\ Base \in Int
  BY SumsWhole, BaseWhole DEF Base
<1>3. Base + Held + (Maintenance + Left) <= Limit
  BY <1>2, UsedIs, ReservedIs, Units DEF OverBudget
<1>4. ASSUME NEW n \in Nat, Fits(n) PROVE n <= Limit - (Base + Held) - (Maintenance + Left)
  BY <1>2, <1>4, UsedIs, ReservedIs, Units DEF Fits, Available
<1> QED
  BY <1>1, <1>2, <1>3, <1>4, Units

\* A change of one job's record changes the sums by as much.
LEMMA ChargeChanged ==
  ASSUME TypeOK, TypeOK', NEW j \in Job, \A k \in Job : k # j => jobs'[k] = jobs[k]
  PROVE  /\ Charge' = Charge + (ChargeOf(jobs', j) - ChargeOf(jobs, j))
         /\ Held' = Held + (HeldBy(jobs')[j] - HeldBy(jobs)[j])
<1>1. jobs \in [Job -> Record] /\ jobs' \in [Job -> Record] /\ IsFiniteSet(Job)
  BY Units DEF TypeOK, Record, State
<1> DEFINE J == jobs
           K == jobs'
<1>2. /\ Whole(HeldBy(J), Job) /\ Whole(ChargeBy(J), Job)
      /\ Whole(HeldBy(K), Job) /\ Whole(ChargeBy(K), Job)
  BY <1>1, Summable
<1>3. \A k \in Job \ {j} : HeldBy(J)[k] = HeldBy(K)[k] /\ ChargeBy(J)[k] = ChargeBy(K)[k]
  BY DEF HeldBy, ChargeBy, ChargeOf
<1>4. ChargeBy(J)[j] = ChargeOf(J, j) /\ ChargeBy(K)[j] = ChargeOf(K, j)
  BY DEF ChargeBy
<1> HIDE DEF J, K
<1>5. SumFunctionOnSet(HeldBy(K), Job) = SumFunctionOnSet(HeldBy(J), Job) + (HeldBy(K)[j] - HeldBy(J)[j])
  BY <1>1, <1>2, <1>3, SumChanged
<1>6. SumFunctionOnSet(ChargeBy(K), Job)
      = SumFunctionOnSet(ChargeBy(J), Job) + (ChargeBy(K)[j] - ChargeBy(J)[j])
  BY <1>1, <1>2, <1>3, SumChanged
<1> QED
  BY <1>4, <1>5, <1>6 DEF Charge, Held, J, K

LEMMA StorageTypedNext == Typed /\ [Next]_vars => Typed'
  BY StorageNext, ControlsNext DEF Typed

\* Artifacts that are published, and one that is not any more.
LEMMA ArchivesChange ==
  ASSUME TypeOK, NEW a \in Artifact
  PROVE  /\ Archives(published \cup {a}) \in Nat /\ Archives(published \cup {a}) <= Archives(published) + ArtifactSize
         /\ a \in published => Archives(published \ {a}) = Archives(published) - ArtifactSize
<1>1. IsFiniteSet(published) /\ ArtifactSize \in Nat /\ Archives(published) \in Nat
  BY BaseWhole, Units
<1> DEFINE c == Cardinality(published)
           d == Cardinality(published \cup {a})
           e == Cardinality(published \ {a})
<1>2. c \in Nat /\ (d = c \/ d = c + 1) /\ (a \in published => e = c - 1)
  BY <1>1, FS_CardinalityType, FS_AddElement, FS_RemoveElement
<1> HIDE DEF c, d, e
<1>3. ArtifactSize * (c + 1) = ArtifactSize * c + ArtifactSize /\ ArtifactSize * (c - 1) = ArtifactSize * c - ArtifactSize
  BY <1>1, <1>2
<1>4. Archives(published) = ArtifactSize * c /\ Archives(published \cup {a}) = ArtifactSize * d
      /\ Archives(published \ {a}) = ArtifactSize * e
  BY DEF Archives, c, d, e
<1>5. d = c => Archives(published \cup {a}) = Archives(published)
  BY <1>4
<1>6. d = c + 1 => Archives(published \cup {a}) = Archives(published) + ArtifactSize
  BY <1>3, <1>4
<1>7. a \in published => Archives(published \ {a}) = Archives(published) - ArtifactSize
  BY <1>2, <1>3, <1>4
<1> QED
  BY <1>1, <1>2, <1>5, <1>6, <1>7

\* The ways a step may change the four sums: it lets some go, moves bytes that were promised,
\* writes a tombstone, takes the record for which that stands, or charges what was promised.
Within(s, p, ss, pp) == ss + pp <= s + p
Moves(b, s, bb, ss) == bb = b + ss - s
Steps(u, v) ==
  \/ v[1] <= u[1] /\ v[2] <= u[2] /\ v[3] <= u[3] /\ v[4] = u[4]
  \/ Within(u[1], u[3], v[1], v[3]) /\ v[2] = u[2] /\ v[4] = u[4]
  \/ v[1] <= u[1] + 1 /\ v[2] = u[2] /\ v[3] = u[3] /\ u[4] = 0 /\ v[4] = 1
  \/ v[1] = u[1] /\ v[2] <= u[2] - u[4] /\ v[3] = u[3] /\ v[4] = 0
  \/ v[1] = u[1] /\ v[2] = u[2] + u[3] /\ v[3] = 0 /\ v[4] = u[4]

LEMMA StepsStay ==
  ASSUME NEW b \in Int, NEW c \in Int, NEW p \in Int, NEW o \in Int,
         NEW bb \in Int, NEW cc \in Int, NEW pp \in Int, NEW oo \in Int,
         Steps(<<b, c, p, o>>, <<bb, cc, pp, oo>>), InBudget(b, c, p, o)
  PROVE  InBudget(bb, cc, pp, oo)
  BY Units DEF Steps, Within, InBudget

LEMMA StagedMoves ==
  ASSUME NEW b \in Int, NEW s \in Int, NEW p \in Int, NEW bb \in Int, NEW ss \in Int, NEW pp \in Int,
         Moves(b, s, bb, ss), Within(s, p, ss, pp)
  PROVE  Within(b, p, bb, pp)
  BY DEF Moves, Within

LEMMA BudgetInvNext == BudgetInv /\ Typed /\ LifeInv /\ ImportInv /\ [Next]_vars => BudgetInv'
<1> SUFFICES ASSUME BudgetInv, TypeOK, Controls, TypeOK', LifeInv, ImportInv, [Next]_vars PROVE BudgetInv'
  BY StorageTypedNext DEF Typed
<1> USE DEF files, gate, CleanupSteps
<1>a. /\ unknown \in Nat /\ staging \in Nat /\ deleting \in Nat /\ Archives(published) \in Nat
      /\ Cardinality(tombs) \in Nat /\ need \in Nat /\ Charge \in Int
  BY BaseWhole, SumsWhole
<1>b. /\ Limit \in Nat /\ Maintenance \in Nat /\ Maintenance >= 1 /\ Payload \in Nat /\ Credit \in Nat
      /\ ArtifactSize = Upload + Payload /\ Upload \in Nat /\ Reservation \in Nat
  BY Units DEF ArtifactSize
<1>c. UNCHANGED jobs => Charge' = Charge /\ Owed' = Owed
  BY DEF Charge, Owed, Owing
<1>d. UNCHANGED <<unknown, staging, deleting, published, tombs>> => Base' = Base
  BY DEF Base
<1>e. Owed \in 0..1 /\ Base \in Int /\ Promised \in Nat
  BY <1>a DEF Owed, Base, Promised
<1>f. at # "remove" /\ holder # "down" => Owed = 0
  BY DEF LifeInv, Is, Owed, Owing
<1>g. ~OverBudget /\ holder # "down" =>
        /\ Base + Charge + Maintenance <= Limit
        /\ \A n \in Nat : Fits(n) => Base + Charge + n + Maintenance <= Limit
  BY RoomIsCharged
<1>h. Fits(need) => ~OverBudget
  BY DEF Fits
<1>i. \A j \in Job : jobs[j] \in Record
  BY JobsTyped
<1>j. ASSUME fits' = fits, Base' \in Int, Charge' \in Int, Promised' \in Int, Owed' \in Int,
             Steps(<<Base, Charge, Promised, Owed>>, <<Base', Charge', Promised', Owed'>>)
      PROVE  BudgetInv'
  BY <1>a, <1>e, <1>j, StepsStay DEF BudgetInv
<1>1. CASE Ensure
  <2>1. holder # "down" /\ at' \in {"write", "extract", "create", "cleanup"} /\ need' = need /\ fits' = fits
    BY <1>1 DEF Ensure, Goto, Controls
  <2>2. CASE Fits(need)
    <3>1. Base + Charge + need + Maintenance <= Limit
      BY <1>a, <1>g, <1>h, <2>1, <2>2
    <3>2. UNCHANGED jobs /\ UNCHANGED <<unknown, staging, deleting, published, tombs>>
      BY <1>1 DEF Ensure
    <3> QED
      BY <1>a, <1>b, <1>c, <1>d, <1>e, <2>1, <3>1, <3>2 DEF BudgetInv, InBudget, Promised
  <2>3. CASE ~Fits(need)
    <3>1. at' = "cleanup" /\ UNCHANGED jobs /\ UNCHANGED <<unknown, staging, deleting, published, tombs>>
      BY <1>1, <2>3 DEF Ensure, Goto
    <3>2. Promised' = 0
      BY <3>1 DEF Promised
    <3> QED
      BY <1>a, <1>c, <1>d, <1>e, <1>j, <2>1, <3>1, <3>2 DEF Steps
  <2> QED
    BY <2>2, <2>3
<1>2. CASE CleanupBegin
  <2>1. fits' = fits /\ UNCHANGED jobs /\ UNCHANGED <<unknown, staging, deleting, published, tombs>>
    BY <1>2 DEF CleanupBegin, Step, Goto
  <2>2. Promised' <= Promised /\ Promised' \in Nat
    BY <1>2, <1>e DEF CleanupBegin, Step, Goto, Promised, Controls
  <2> QED
    BY <1>a, <1>c, <1>d, <1>e, <1>j, <2>1, <2>2 DEF Steps
<1>3. CASE Tombstone
  <2>0. /\ fits' = fits /\ at = "prune" /\ holder # "down" /\ at' \in {"remove", "refused"} /\ need' = need
        /\ UNCHANGED <<unknown, staging, deleting, published>>
    BY <1>3 DEF Tombstone, Step, Goto, Controls
  <2>1. CASE UNCHANGED jobs /\ UNCHANGED tombs
    BY <1>c, <1>d, <1>e, <2>0, <2>1 DEF BudgetInv, Promised
  <2>2. ASSUME NEW j \in Job, Is(j, "completed"),
     jobs'[j] = [jobs[j] EXCEPT !.state = "removing"],
               \A k \in Job : k # j => jobs'[k] = jobs[k], tombs' = tombs \cup {j}
        PROVE  BudgetInv'
    <3>1. jobs[j].state = "completed" /\ jobs[j].record = 1
      BY <2>2 DEF LifeInv, Is
    <3>2. /\ jobs'[j].state = "removing" /\ jobs'[j].record = 1 /\ jobs'[j].output = jobs[j].output
          /\ jobs'[j].temp = jobs[j].temp
      BY <1>i, <2>2, <3>1 DEF Record
    <3>3. ChargeOf(jobs', j) = ChargeOf(jobs, j) /\ ChargeOf(jobs, j) \in Int
      BY <1>i, <3>1, <3>2, Units DEF ChargeOf, Record
    <3>4. Charge' = Charge
      BY <1>a, <2>2, <3>3, ChargeChanged
    <3>5. Owed' = 1
      BY <3>2 DEF Owed, Owing
    <3>6. Cardinality(tombs') <= Cardinality(tombs) + 1 /\ Cardinality(tombs') \in Nat
      <4>1. IsFiniteSet(tombs)
        BY BaseWhole
      <4>2. IsFiniteSet(tombs \cup {j}) /\ Cardinality(tombs \cup {j}) <= Cardinality(tombs) + 1
        BY <1>a, <4>1, FS_AddElement
      <4> QED
        BY <2>2, <4>2, FS_CardinalityType
    <3>7. Base' <= Base + 1 /\ Base' \in Int
      BY <1>a, <2>0, <3>6 DEF Base
    <3>8. Owed = 0 /\ Promised = 0 /\ Promised' = 0
      BY <1>f, <2>0 DEF Promised
    <3> QED
      BY <1>a, <1>e, <1>j, <2>0, <3>4, <3>5, <3>7, <3>8 DEF Steps
  <2> QED
    BY <1>3, <2>1, <2>2, TombstoneChanges
<1>4. CASE RemoveJob
  <2>0. /\ fits' = fits /\ at = "remove" /\ at' \in {"prune", "remove"}
        /\ UNCHANGED <<unknown, staging, deleting, published, tombs>>
    BY <1>4 DEF RemoveJob, Step, Goto
  <2>1. PICK j \in Job :
           /\ Is(j, "removing") /\ \A k \in Job : k # j => jobs'[k] = jobs[k]
           /\ \/ jobs[j].record = 1 /\ jobs'[j] = [jobs[j] EXCEPT !.record = 0] /\ at' = "remove"
              \/ jobs[j].record = 0 /\ jobs'[j] = [jobs[j] EXCEPT !.output = 0] /\ at' = "remove"
              \/ jobs[j].record = 0 /\ jobs[j].output = 0 /\ jobs'[j] = NoJob /\ at' = "prune"
    BY <1>4, RemoveJobChanges
  <2>2. jobs[j].state = "removing" /\ jobs[j] \in Record
    BY <1>i, <2>1 DEF Is
  <2>3. jobs'[j].record = 0 /\ jobs'[j].state # "active"
        /\ jobs'[j].output \in 0..jobs[j].output /\ jobs'[j].temp \in 0..jobs[j].temp
    <3>1. CASE jobs'[j] = [jobs[j] EXCEPT !.record = 0]
      BY <2>2, <3>1 DEF Record
    <3>2. CASE jobs[j].record = 0 /\ jobs'[j] = [jobs[j] EXCEPT !.output = 0]
      BY <2>2, <3>2, Units DEF Record
    <3>3. CASE jobs'[j] = NoJob
      BY <2>2, <3>3, Units DEF Record, NoJob
    <3> QED
      BY <2>1, <3>1, <3>2, <3>3
  <2>4. jobs[j].record \in 0..1 /\ jobs[j].output \in Nat /\ jobs[j].temp \in Nat
    BY <2>2, Units DEF Record
  <2>5. /\ ChargeOf(jobs', j) = jobs'[j].output + jobs'[j].temp
        /\ ChargeOf(jobs, j) = jobs[j].record + jobs[j].output + jobs[j].temp
    BY <2>2, <2>3, <2>4 DEF ChargeOf
  <2>6. Charge' <= Charge - jobs[j].record /\ Charge' \in Int
    BY <1>a, <2>1, <2>3, <2>4, <2>5, ChargeChanged
  <2>7. Owed' = 0
    <3>1. ASSUME NEW k \in Job, jobs'[k].state = "removing", jobs'[k].record = 1 PROVE FALSE
      BY <2>1, <2>2, <2>3, <3>1 DEF LifeInv, Is
    <3> QED
      BY <3>1 DEF Owed, Owing
  <2>8. Owed = jobs[j].record
    <3>1. CASE jobs[j].record = 1
      BY <2>2, <3>1 DEF Owed, Owing
    <3>2. CASE jobs[j].record = 0
      <4>1. ASSUME NEW k \in Job, jobs[k].state = "removing", jobs[k].record = 1 PROVE FALSE
        BY <2>2, <3>2, <4>1 DEF LifeInv, Is
      <4> QED
        BY <3>2, <4>1 DEF Owed, Owing
    <3> QED
      BY <2>4, <3>1, <3>2
  <2>9. Promised = 0 /\ Promised' = 0 /\ Base' = Base
    BY <1>d, <2>0 DEF Promised
  <2> QED
    BY <1>a, <1>e, <1>j, <2>0, <2>6, <2>7, <2>8, <2>9 DEF Steps
<1>5. CASE EvictBegin
  <2>1. fits' = fits /\ UNCHANGED jobs /\ UNCHANGED <<unknown, staging, deleting, published, tombs>>
    BY <1>5 DEF EvictBegin
  <2>2. Promised' <= Promised /\ Promised' \in Nat
    BY <1>5, <1>e DEF EvictBegin, Promised, Controls
  <2> QED
    BY <1>a, <1>c, <1>d, <1>e, <1>j, <2>1, <2>2 DEF Steps
<1>6. CASE Evict
  <2>1. PICK a \in Artifact : a \in published /\ published' = published \ {a} /\ deleting' = deleting + ArtifactSize
    BY <1>6 DEF Evict, Victims, Evictable, TypeOK
  <2>2. Archives(published') = Archives(published) - ArtifactSize
    BY <2>1, ArchivesChange
  <2>3. /\ fits' = fits /\ at = "evict" /\ at' = "unlink" /\ UNCHANGED <<unknown, staging, tombs>> /\ UNCHANGED jobs
    BY <1>6 DEF Evict
  <2>4. Base' = Base
    BY <1>a, <1>b, <2>1, <2>2, <2>3 DEF Base
  <2> QED
    BY <1>c, <1>e, <2>3, <2>4 DEF BudgetInv, Promised
<1>7. CASE Unlink
  <2>1. /\ fits' = fits /\ at = "unlink" /\ at' = "evict" /\ UNCHANGED jobs /\ deleting' = 0
        /\ UNCHANGED <<unknown, staging, published, tombs>>
    BY <1>7 DEF Unlink, Step, Goto
  <2>2. Base' <= Base /\ Base' \in Int
    BY <1>a, <2>1 DEF Base
  <2>3. Promised = 0 /\ Promised' = 0
    BY <2>1 DEF Promised
  <2> QED
    BY <1>a, <1>c, <1>e, <1>j, <2>1, <2>2, <2>3 DEF Steps
<1>8. CASE CleanupEnd
  <2>1. fits' = fits /\ UNCHANGED jobs /\ UNCHANGED <<unknown, staging, deleting, published, tombs>>
    BY <1>8 DEF CleanupEnd, Step, Goto
  <2>2. Promised' <= Promised /\ Promised' \in Nat
    BY <1>8, <1>e DEF CleanupEnd, Step, Goto, Promised, Controls
  <2> QED
    BY <1>a, <1>c, <1>d, <1>e, <1>j, <2>1, <2>2 DEF Steps
<1>9. CASE Again
  <2>1. holder # "down" /\ at' \in {"write", "extract", "create", "full"} /\ need' = need /\ fits' = fits
    BY <1>9 DEF Again, Goto, Controls
  <2>2. CASE Fits(need)
    <3>1. Base + Charge + need + Maintenance <= Limit
      BY <1>a, <1>g, <1>h, <2>1, <2>2
    <3>2. UNCHANGED jobs /\ UNCHANGED <<unknown, staging, deleting, published, tombs>>
      BY <1>9 DEF Again
    <3> QED
      BY <1>a, <1>b, <1>c, <1>d, <1>e, <2>1, <3>1, <3>2 DEF BudgetInv, InBudget, Promised
  <2>3. CASE ~Fits(need)
    <3>1. at' = "full" /\ UNCHANGED jobs /\ UNCHANGED <<unknown, staging, deleting, published, tombs>>
      BY <1>9, <2>3 DEF Again, Goto
    <3>2. Promised' = 0
      BY <3>1 DEF Promised
    <3> QED
      BY <1>a, <1>c, <1>d, <1>e, <1>j, <2>1, <3>1, <3>2 DEF Steps
  <2> QED
    BY <2>2, <2>3
<1>10. CASE FailsFull
  <2>1. fits' = fits /\ UNCHANGED jobs /\ UNCHANGED <<unknown, deleting, published, tombs>>
    BY <1>10 DEF FailsFull, Ask, Release
  <2>2. staging' \in Nat /\ Promised' \in Nat /\ staging' + Promised' <= staging + Promised
    BY <1>10, <1>a, <1>b DEF FailsFull, Ask, Release, Promised, ImportInv, Controls
  <2>3. Base' \in Int /\ Moves(Base, staging, Base', staging')
    BY <1>a, <2>1, <2>2 DEF Base, Moves
  <2>4. Within(Base, Promised, Base', Promised')
    <3>1. Within(staging, Promised, staging', Promised')
      BY <2>2 DEF Within
    <3> QED
      BY <1>a, <1>e, <2>2, <2>3, <3>1, StagedMoves
  <2> QED
    BY <1>a, <1>c, <1>e, <1>j, <2>1, <2>2, <2>3, <2>4 DEF Steps
<1>11. ASSUME NEW a \in Artifact, ImportBegin(a) PROVE BudgetInv'
  <2>1. fits' = fits /\ UNCHANGED jobs /\ UNCHANGED <<unknown, staging, deleting, published, tombs>>
    BY <1>11 DEF ImportBegin, Free
  <2>2. Promised' <= Promised /\ Promised' \in Nat
    BY <1>11, <1>e DEF ImportBegin, Free, Promised, Controls
  <2> QED
    BY <1>a, <1>c, <1>d, <1>e, <1>j, <2>1, <2>2 DEF Steps
<1>12. ASSUME NEW a \in Artifact, SubmitBegin(a) PROVE BudgetInv'
  <2>1. fits' = fits /\ UNCHANGED jobs /\ UNCHANGED <<unknown, staging, deleting, published, tombs>>
    BY <1>12 DEF SubmitBegin, Free
  <2>2. Promised' <= Promised /\ Promised' \in Nat
    BY <1>12, <1>e DEF SubmitBegin, Free, Promised, Controls
  <2> QED
    BY <1>a, <1>c, <1>d, <1>e, <1>j, <2>1, <2>2 DEF Steps
<1>13. CASE ImportWrite
  <2>1. fits' = fits /\ UNCHANGED jobs /\ UNCHANGED <<unknown, deleting, published, tombs>>
    BY <1>13 DEF ImportWrite, Ask, Goto
  <2>2. staging' \in Nat /\ Promised' \in Nat /\ staging' + Promised' <= staging + Promised
    BY <1>13, <1>a, <1>b DEF ImportWrite, Ask, Goto, Promised, ImportInv, Controls
  <2>3. Base' \in Int /\ Moves(Base, staging, Base', staging')
    BY <1>a, <2>1, <2>2 DEF Base, Moves
  <2>4. Within(Base, Promised, Base', Promised')
    <3>1. Within(staging, Promised, staging', Promised')
      BY <2>2 DEF Within
    <3> QED
      BY <1>a, <1>e, <2>2, <2>3, <3>1, StagedMoves
  <2> QED
    BY <1>a, <1>c, <1>e, <1>j, <2>1, <2>2, <2>3, <2>4 DEF Steps
<1>14. CASE ImportExtract
  <2>1. fits' = fits /\ UNCHANGED jobs /\ UNCHANGED <<unknown, deleting, published, tombs>>
    BY <1>14 DEF ImportExtract, Step, Goto
  <2>2. staging' \in Nat /\ Promised' \in Nat /\ staging' + Promised' <= staging + Promised
    BY <1>14, <1>a, <1>b DEF ImportExtract, Step, Goto, Promised, ImportInv, Controls
  <2>3. Base' \in Int /\ Moves(Base, staging, Base', staging')
    BY <1>a, <2>1, <2>2 DEF Base, Moves
  <2>4. Within(Base, Promised, Base', Promised')
    <3>1. Within(staging, Promised, staging', Promised')
      BY <2>2 DEF Within
    <3> QED
      BY <1>a, <1>e, <2>2, <2>3, <3>1, StagedMoves
  <2> QED
    BY <1>a, <1>c, <1>e, <1>j, <2>1, <2>2, <2>3, <2>4 DEF Steps
<1>15. CASE ImportPublish
  <2>1. /\ fits' = fits /\ UNCHANGED jobs /\ UNCHANGED <<unknown, deleting, tombs>>
        /\ published' = published \cup {target} /\ staging' = 0 /\ at' = "idle"
    BY <1>15 DEF ImportPublish, Release
  <2>2. target \in Artifact /\ staging = ArtifactSize /\ at = "publish"
    BY <1>15 DEF ImportPublish, Controls, ImportInv
  <2>3. Archives(published') \in Nat /\ Archives(published') <= Archives(published) + ArtifactSize
    BY <2>1, <2>2, ArchivesChange
  <2>4. Base' <= Base /\ Base' \in Int
    BY <1>a, <1>b, <2>1, <2>2, <2>3 DEF Base
  <2>5. Promised = 0 /\ Promised' = 0
    BY <2>1, <2>2 DEF Promised
  <2> QED
    BY <1>a, <1>c, <1>e, <1>j, <2>1, <2>4, <2>5 DEF Steps
<1>16. CASE ImportEnds
  <2>1. fits' = fits /\ UNCHANGED jobs /\ UNCHANGED <<unknown, deleting, published, tombs>>
    BY <1>16 DEF ImportEnds, Release
  <2>2. staging' \in Nat /\ Promised' \in Nat /\ staging' + Promised' <= staging + Promised
    BY <1>16, <1>a, <1>b DEF ImportEnds, Release, Promised, ImportInv, Controls
  <2>3. Base' \in Int /\ Moves(Base, staging, Base', staging')
    BY <1>a, <2>1, <2>2 DEF Base, Moves
  <2>4. Within(Base, Promised, Base', Promised')
    <3>1. Within(staging, Promised, staging', Promised')
      BY <2>2 DEF Within
    <3> QED
      BY <1>a, <1>e, <2>2, <2>3, <3>1, StagedMoves
  <2> QED
    BY <1>a, <1>c, <1>e, <1>j, <2>1, <2>2, <2>3, <2>4 DEF Steps
<1>17. CASE Create
  <2>0. /\ fits' = fits /\ at = "create" /\ holder = "submit" /\ at' = "idle" /\ need = Reservation
        /\ UNCHANGED <<unknown, staging, deleting, published, tombs>>
    BY <1>17 DEF Create, Release, Controls, ImportInv
  <2>1. CASE UNCHANGED jobs
    <3>1. Promised' = 0
      BY <2>0 DEF Promised
    <3> QED
      BY <1>a, <1>c, <1>d, <1>e, <1>j, <2>0, <2>1, <3>1 DEF Steps
  <2>2. ASSUME NEW j \in Job, jobs[j] = NoJob, jobs'[j] = Admitted(target),
               \A k \in Job : k # j => jobs'[k] = jobs[k]
        PROVE  BudgetInv'
    <3>1. jobs'[j].state = "active"
      BY <2>2 DEF Admitted
    <3>2. jobs[j].state = "none" /\ jobs[j].record = 0 /\ jobs[j].output = 0 /\ jobs[j].temp = 0
      BY <2>2 DEF NoJob
    <3>3. ChargeOf(jobs', j) = Reservation /\ ChargeOf(jobs, j) = 0
      BY <3>1, <3>2 DEF ChargeOf
    <3>4. Charge' = Charge + Reservation
      BY <1>a, <1>b, <2>2, <3>3, ChargeChanged
    <3>5. Owed' = Owed
      <4>1. Owing(jobs') <=> Owing(jobs)
        BY <2>2, <3>1, <3>2 DEF Owing
      <4> QED
        BY <4>1 DEF Owed
    <3>6. Base' = Base /\ Promised = Reservation /\ Promised' = 0
      BY <1>d, <2>0 DEF Promised
    <3> QED
      BY <1>a, <1>b, <1>e, <1>j, <2>0, <3>4, <3>5, <3>6 DEF Steps
  <2> QED
    BY <1>17, <2>1, <2>2, CreateChanges
<1>18. ASSUME NEW j \in Job, Write(j) PROVE BudgetInv'
  <2>0. /\ fits' = fits /\ at' = at /\ need' = need /\ UNCHANGED <<unknown, staging, deleting, published, tombs>>
    BY <1>18 DEF Write
  <2>1. jobs[j].state = "active" /\ jobs'[j].state = "active" /\ \A k \in Job : k # j => jobs'[k] = jobs[k]
    BY <1>18, <1>i, WriteChanges DEF Is, Record
  <2>2. ChargeOf(jobs', j) = Reservation /\ ChargeOf(jobs, j) = Reservation
    BY <2>1 DEF ChargeOf
  <2>3. Charge' = Charge
    BY <1>a, <1>b, <2>1, <2>2, ChargeChanged
  <2>4. Owed' = Owed
    <3>1. Owing(jobs') <=> Owing(jobs)
      BY <2>1 DEF Owing
    <3> QED
      BY <3>1 DEF Owed
  <2> QED
    BY <1>d, <1>e, <2>0, <2>3, <2>4 DEF BudgetInv, Promised
<1>19. ASSUME NEW j \in Job, Finish(j) PROVE BudgetInv'
  <2>0. /\ fits' = fits /\ at' = at /\ need' = need /\ UNCHANGED <<unknown, staging, deleting, published, tombs>>
    BY <1>19 DEF Finish
  <2>1. jobs[j].state = "active" /\ jobs'[j].state = "completed" /\ \A k \in Job : k # j => jobs'[k] = jobs[k]
    BY <1>19, <1>i, FinishChanges DEF Is, Record
  <2>2. ChargeOf(jobs, j) = Reservation /\ ChargeOf(jobs', j) <= Reservation /\ ChargeOf(jobs', j) \in Int
    <3>1. jobs'[j].record \in 0..1 /\ jobs'[j].output \in 0..Output /\ jobs'[j].temp \in 0..1
      <4>1. jobs'[j].record \in 0..1 /\ jobs'[j].output \in 0..Legacy /\ jobs'[j].temp \in 0..1
        BY RecordUnits DEF TypeOK, Record, State
      <4>2. jobs'[j].output = jobs[j].output
        BY <1>19, <1>i, FinishChanges DEF Record
      <4>3. jobs[j].output <= Output
        BY <2>1 DEF LifeInv, Is
      <4> QED
        BY <4>1, <4>2, <4>3, Units
    <3>2. ChargeOf(jobs, j) = Reservation
      BY <2>1 DEF ChargeOf
    <3>3. ChargeOf(jobs', j) = jobs'[j].record + jobs'[j].output + jobs'[j].temp
      BY <2>1 DEF ChargeOf
    <3> HIDE DEF ChargeOf
    <3>4. Output \in Nat /\ Reservation = 2 + Output
      BY Units
    <3>5. jobs'[j].record + jobs'[j].output + jobs'[j].temp \in 0..(2 + Output)
      BY <3>1, <3>4
    <3> QED
      BY <3>2, <3>3, <3>4, <3>5
  <2>3. Charge' <= Charge /\ Charge' \in Int
    BY <1>a, <1>b, <2>1, <2>2, ChargeChanged
  <2>4. Owed' = Owed
    <3>1. Owing(jobs') <=> Owing(jobs)
      BY <2>1 DEF Owing
    <3> QED
      BY <3>1 DEF Owed
  <2>5. Base' = Base /\ Promised' = Promised
    BY <1>d, <2>0 DEF Promised
  <2> QED
    BY <1>a, <1>e, <1>j, <2>0, <2>3, <2>4, <2>5 DEF Steps
<1>20. CASE Retain
  <2>1. fits' = fits /\ UNCHANGED jobs /\ UNCHANGED <<unknown, staging, deleting, published, tombs>>
    BY <1>20 DEF Retain, Free
  <2>2. Promised' <= Promised /\ Promised' \in Nat
    BY <1>20, <1>e DEF Retain, Free, Promised, Controls
  <2> QED
    BY <1>a, <1>c, <1>d, <1>e, <1>j, <2>1, <2>2 DEF Steps
<1>21. CASE OperatorCleanup
  <2>1. fits' = fits /\ UNCHANGED jobs /\ UNCHANGED <<unknown, staging, deleting, published, tombs>>
    BY <1>21 DEF OperatorCleanup, Free
  <2>2. Promised' <= Promised /\ Promised' \in Nat
    BY <1>21, <1>e DEF OperatorCleanup, Free, Promised, Controls
  <2> QED
    BY <1>a, <1>c, <1>d, <1>e, <1>j, <2>1, <2>2 DEF Steps
<1>22. CASE CleanupReturns
  <2>1. fits' = fits /\ UNCHANGED jobs /\ UNCHANGED <<unknown, staging, deleting, published, tombs>>
    BY <1>22 DEF CleanupReturns, Release
  <2>2. Promised' <= Promised /\ Promised' \in Nat
    BY <1>22, <1>e DEF CleanupReturns, Release, Promised, Controls
  <2> QED
    BY <1>a, <1>c, <1>d, <1>e, <1>j, <2>1, <2>2 DEF Steps
<1>23. CASE Kill
  <2>1. fits' = FALSE
    BY <1>23 DEF Kill
  <2> QED
    BY <2>1 DEF BudgetInv
<1>24. CASE Start
  <2>1. fits' = FALSE
    BY <1>24 DEF Start, ImportInv
  <2> QED
    BY <2>1 DEF BudgetInv
<1>25. CASE Serve
  <2>1. UNCHANGED jobs /\ UNCHANGED <<unknown, staging, deleting, published, tombs>> /\ at' = "idle"
    BY <1>25 DEF Serve, Release
  <2>2. fits' = TRUE => Base + Charge + Maintenance <= Limit
    BY <1>25, <1>g DEF Serve
  <2> QED
    BY <1>a, <1>b, <1>c, <1>d, <1>e, <2>1, <2>2 DEF BudgetInv, InBudget, Promised
<1>26. CASE StartFails
  <2>1. fits' = fits /\ UNCHANGED jobs /\ UNCHANGED <<unknown, staging, deleting, published, tombs>>
    BY <1>26 DEF StartFails
  <2>2. Promised' <= Promised /\ Promised' \in Nat
    BY <1>26, <1>e DEF StartFails, Promised, Controls
  <2> QED
    BY <1>a, <1>c, <1>d, <1>e, <1>j, <2>1, <2>2 DEF Steps
<1>27. ASSUME NEW j \in Job, BoundHistory(j) PROVE BudgetInv'
  <2>1. fits' = FALSE
    BY <1>27 DEF BoundHistory, ImportInv
  <2> QED
    BY <2>1 DEF BudgetInv
<1>28. CASE UNCHANGED vars
  BY <1>28, <1>c, <1>d DEF vars, BudgetInv, Promised
<1>. QED
  BY <1>1, <1>2, <1>3, <1>4, <1>5, <1>6, <1>7, <1>8, <1>9, <1>10, <1>11, <1>12, <1>13,
     <1>14,
     <1>15, <1>16, <1>17, <1>18, <1>19, <1>20, <1>21, <1>22, <1>23, <1>24, <1>25, <1>26, <1>27,
     <1>28 DEF Next, Cleanup

\* A station that started within its budget stays within it, byte for byte: uploads on credit,
\* extraction, tombstones, and what running jobs write past the gate (EnsureLocked, StatusLocked).
THEOREM StaysWithinLimit == Spec => []WithinLimit
<1> DEFINE IInv == Typed /\ LifeInv /\ ImportInv /\ BudgetInv
<1>1. Init => IInv
  <2>1. Init => BudgetInv
    BY DEF Init, BudgetInv
  <2> QED
    BY <2>1, StorageInit, ControlsInit, LifeInvInit, ImportInvInit DEF Typed
<1>2. IInv /\ [Next]_vars => IInv'
  BY StorageTypedNext, LifeInvNext, ImportInvNext, BudgetInvNext
<1>3. IInv => WithinLimit
  <2> SUFFICES ASSUME TypeOK, LifeInv, BudgetInv, fits = TRUE PROVE Used <= Limit
    BY DEF WithinLimit, Typed, TypeOK
  <2>1. Held <= Charge /\ Held \in Int /\ Charge \in Int /\ Base \in Int /\ Promised \in Nat /\ Owed \in 0..1
    BY HeldIsCharged, SumsWhole, BaseWhole DEF Base, Promised, Owed
  <2>2. Base + Charge + Promised + Maintenance <= Limit + Owed
    BY DEF BudgetInv, InBudget
  <2> QED
    BY <2>1, <2>2, UsedIs, Units
<1> QED
  BY <1>1, <1>2, <1>3, PTL DEF Spec

\* A station that started within its budget writes the tombstone of every history it prunes: what
\* uploads, jobs and earlier tombstones took leaves the maintenance reserve whole for it
\* (cleanupLocked, storeTombstone).
THEOREM TombstonesAlwaysFit == Spec => []TombstonesFit
<1> DEFINE IInv == Typed /\ LifeInv /\ ImportInv /\ BudgetInv
<1>1. Init => IInv /\ TombstonesFit
  <2>1. Init => BudgetInv /\ TombstonesFit
    BY DEF Init, BudgetInv, TombstonesFit
  <2> QED
    BY <2>1, StorageInit, ControlsInit, LifeInvInit, ImportInvInit DEF Typed
<1>2. IInv /\ [Next]_vars => IInv'
  BY StorageTypedNext, LifeInvNext, ImportInvNext, BudgetInvNext
<1>3. IInv /\ TombstonesFit /\ [Next]_vars => TombstonesFit'
  <2> SUFFICES ASSUME TypeOK, Controls, LifeInv, BudgetInv, TombstonesFit, [Next]_vars, fits' = TRUE,
                      at' = "refused"
               PROVE  FALSE
    <3>1. IInv /\ [Next]_vars => fits' \in BOOLEAN
      BY <1>2 DEF Typed, TypeOK
    <3> QED
      BY <3>1 DEF TombstonesFit, Typed
  <2>1. ASSUME Tombstone PROVE FALSE
    <3>1. fits = TRUE /\ at = "prune" /\ holder # "down" /\ Used + 1 > Limit
      BY <2>1 DEF Tombstone, Step, Goto, Controls
    <3>2. Owed = 0 /\ Promised = 0
      BY <3>1 DEF LifeInv, Is, Owed, Owing, Promised
    <3>3. Held <= Charge /\ Held \in Int /\ Charge \in Int /\ Base \in Int
      BY HeldIsCharged, SumsWhole, BaseWhole DEF Base
    <3>4. Base + Charge + 0 + Maintenance <= Limit + 0
      BY <3>1, <3>2 DEF BudgetInv, InBudget
    <3> QED
      BY <3>1, <3>3, <3>4, UsedIs, Units
  <2>2. ASSUME at' = at, fits' = fits PROVE FALSE
    BY <2>2 DEF TombstonesFit
  <2>3. ASSUME NEW j \in Job, Write(j) \/ Finish(j) \/ BoundHistory(j) PROVE FALSE
    BY <2>2, <2>3 DEF Write, Finish, BoundHistory, gate
  <2>4. ASSUME UNCHANGED vars PROVE FALSE
    BY <2>2, <2>4 DEF vars, gate
  <2>5. ASSUME Ensure \/ Again PROVE FALSE
    BY <2>5 DEF Ensure, Again, Goto
  <2>6. ASSUME CleanupBegin \/ RemoveJob \/ EvictBegin \/ Evict \/ Unlink \/ CleanupEnd PROVE FALSE
    BY <2>6 DEF CleanupBegin, RemoveJob, EvictBegin, Evict, Unlink, CleanupEnd, Step, Goto
  <2>7. ASSUME NEW a \in Artifact, ImportBegin(a) \/ SubmitBegin(a) PROVE FALSE
    BY <2>7 DEF ImportBegin, SubmitBegin
  <2>8. ASSUME FailsFull \/ ImportWrite \/ ImportExtract \/ ImportPublish \/ ImportEnds \/ Create PROVE FALSE
    BY <2>8 DEF FailsFull, ImportWrite, ImportExtract, ImportPublish, ImportEnds, Create, Step, Goto, Ask,
                Release
  <2>9. ASSUME Retain \/ OperatorCleanup \/ CleanupReturns \/ Kill \/ Start \/ Serve \/ StartFails PROVE FALSE
    BY <2>9 DEF Retain, OperatorCleanup, CleanupReturns, Kill, Start, Serve, StartFails, Release
  <2> QED
    BY <2>1, <2>3, <2>4, <2>5, <2>6, <2>7, <2>8, <2>9 DEF Next, Cleanup
<1> QED
  BY <1>1, <1>2, <1>3, PTL DEF Spec

-----------------------------------------------------------------------------
(* What a cleanup frees.                                                    *)

\* A change of a running job's files changes what is left of its reservation.
LEMMA LeftChanged ==
  ASSUME TypeOK, TypeOK', NEW j \in reserved, reserved' = reserved, \A k \in Job : k # j => jobs'[k] = jobs[k]
  PROVE  Left' = Left + (LeftBy(jobs', reserved)[j] - LeftBy(jobs, reserved)[j])
<1>1. jobs \in [Job -> Record] /\ jobs' \in [Job -> Record] /\ reserved \in SUBSET Job /\ IsFiniteSet(reserved)
  BY Units, FS_Subset DEF TypeOK, Record, State
<1> DEFINE J == jobs
           K == jobs'
           R == reserved
<1>2. Whole(LeftBy(J, R), R) /\ Whole(LeftBy(K, R), R)
  BY <1>1, Summable
<1>3. \A k \in R \ {j} : LeftBy(J, R)[k] = LeftBy(K, R)[k]
  BY <1>1 DEF LeftBy
<1> HIDE DEF J, K, R
<1>4. SumFunctionOnSet(LeftBy(K, R), R) = SumFunctionOnSet(LeftBy(J, R), R) + (LeftBy(K, R)[j] - LeftBy(J, R)[j])
  BY <1>1, <1>2, <1>3, SumChanged DEF R
<1> QED
  BY <1>4 DEF Left, J, K, R

\* What a job writes is taken from its reservation.
LEMMA WriteIsReserved ==
  ASSUME TypeOK, TypeOK', LifeInv, holder # "down", ~MutexFree, NEW j \in Job, Write(j)
  PROVE  Held' + Left' = Held + Left
<1>1. /\ Is(j, "active") /\ \A k \in Job : k # j => jobs'[k] = jobs[k]
      /\ jobs'[j] = [jobs[j] EXCEPT !.output = jobs[j].output + 1] /\ jobs[j].output < Output
  BY WriteChanges
<1>2. j \in reserved /\ reserved' = reserved
  BY <1>1 DEF LifeInv, Write
<1>3. jobs \in [Job -> Record] /\ jobs' \in [Job -> Record] /\ reserved \in SUBSET Job
  BY DEF TypeOK, Record, State
<1> DEFINE r == jobs[j].record
           o == jobs[j].output
           t == jobs[j].temp
<1>4. jobs'[j].record = r /\ jobs'[j].output = o + 1 /\ jobs'[j].temp = t
  <2>1. jobs[j] \in Record
    BY <1>3
  <2> QED
    BY <1>1, <2>1 DEF Record
<1>5. r \in 0..1 /\ o \in 0..Output /\ t \in 0..1 /\ o + 1 \in 0..Output
  <2>1. r \in 0..1 /\ o \in 0..Legacy /\ t \in 0..1
    BY <1>3, RecordUnits
  <2> QED
    BY <1>1, <2>1, Units
<1> HIDE DEF r, o, t
<1>6. HeldBy(jobs)[j] = r + o + t /\ HeldBy(jobs')[j] = r + (o + 1) + t
  BY <1>4 DEF HeldBy, r, o, t
<1>7. ~(r + o > Reservation) /\ ~(r + (o + 1) > Reservation)
  BY <1>5, Units
<1>8. LeftBy(jobs, reserved)[j] = Reservation - (r + o)
  BY <1>2, <1>7 DEF LeftBy, r, o
<1>9. LeftBy(jobs', reserved)[j] = Reservation - (r + (o + 1))
  BY <1>2, <1>4, <1>7 DEF LeftBy
<1>10. PICK h \in Int, l \in Int : h = Held /\ l = Left
  BY SumsWhole
<1>11. Held' = h + ((r + (o + 1) + t) - (r + o + t))
  BY <1>1, <1>6, <1>10, ChargeChanged
<1>12. Left' = l + ((Reservation - (r + (o + 1))) - (Reservation - (r + o)))
  BY <1>1, <1>2, <1>8, <1>9, <1>10, LeftChanged
<1>13. h + ((r + (o + 1) + t) - (r + o + t)) = h + 1
  BY <1>5
<1>14. l + ((Reservation - (r + (o + 1))) - (Reservation - (r + o))) = l - 1
  BY <1>5, Units
<1>15. (h + 1) + (l - 1) = h + l
  OBVIOUS
<1> QED
  BY <1>10, <1>11, <1>12, <1>13, <1>14, <1>15

LEMMA ExcessInvNext == ExcessInv /\ Typed /\ LifeInv /\ ImportInv /\ [Next]_vars => ExcessInv'
<1> SUFFICES ASSUME ExcessInv, TypeOK, Controls, TypeOK', LifeInv, ImportInv, [Next]_vars PROVE ExcessInv'
  BY StorageTypedNext DEF Typed
<1> USE DEF files, gate, CleanupSteps
<1>a. /\ unknown \in Nat /\ staging \in Nat /\ deleting \in Nat /\ Archives(published) \in Nat
      /\ Cardinality(tombs) \in Nat /\ need \in Nat /\ Held \in Int /\ Left \in Int /\ excess \in Int
  BY BaseWhole, SumsWhole DEF TypeOK
<1>b. Base \in Int /\ Limit \in Int /\ Maintenance \in Int /\ ArtifactSize \in Nat
  BY <1>a, Units DEF Base
<1>c. UNCHANGED jobs => Held' = Held
  BY DEF Held
<1>d. UNCHANGED <<jobs, reserved>> => Left' = Left
  BY DEF Left
<1>e. UNCHANGED <<unknown, staging, deleting, published, tombs>> => Base' = Base
  BY DEF Base
<1>f. PICK b \in Int, h \in Int, l \in Int, n \in Int, e \in Int, d \in Int :
        b = Base /\ h = Held /\ l = Left /\ n = need /\ e = excess /\ d = deleting
  BY <1>a, <1>b
<1>g. at \in {"evict", "unlink"} => e = (b + h) - d + (Maintenance + l) + n - Limit
  BY <1>f, UsedIs, ReservedIs DEF ExcessInv
<1>h. ASSUME NEW u \in Int, NEW r \in Int, NEW x \in Int, NEW m \in Int, NEW y \in Int,
             Base' + Held' = u, Left' = r, deleting' = x, need' = m, excess' = y,
             y = u - x + (Maintenance + r) + m - Limit
      PROVE  ExcessInv'
  BY <1>h, UsedBecomes, ReservedBecomes DEF ExcessInv
<1>1. CASE Ensure
  <2>1. at' \notin {"evict", "unlink"}
    BY <1>1 DEF Ensure, Goto, Controls
  <2> QED
    BY <2>1 DEF ExcessInv
<1>2. CASE CleanupBegin
  <2>1. at' \notin {"evict", "unlink"}
    BY <1>2 DEF CleanupBegin, Step, Goto, Controls
  <2> QED
    BY <2>1 DEF ExcessInv
<1>3. CASE Tombstone
  <2>1. at' \notin {"evict", "unlink"}
    BY <1>3 DEF Tombstone, Step, Goto, Controls
  <2> QED
    BY <2>1 DEF ExcessInv
<1>4. CASE RemoveJob
  <2>1. at' \notin {"evict", "unlink"}
    BY <1>4 DEF RemoveJob, Step, Goto, Controls
  <2> QED
    BY <2>1 DEF ExcessInv
<1>5. CASE EvictBegin
  <2>1. /\ UNCHANGED <<unknown, staging, deleting, published, tombs>> /\ UNCHANGED <<jobs, reserved>>
        /\ need' = need /\ at = "prune"
    BY <1>5 DEF EvictBegin
  <2>2. excess' = Used - (Limit - ReservedBytes - need)
    BY <1>5 DEF EvictBegin, Target
  <2>3. excess' = (b + h) - (Limit - (Maintenance + l) - n)
    BY <1>f, <2>2, UsedIs, ReservedIs
  <2>4. d = 0
    BY <1>f, <2>1 DEF ImportInv, Controls
  <2>5. (b + h) - (Limit - (Maintenance + l) - n) = (b + h) - d + (Maintenance + l) + n - Limit
    BY <1>b, <2>4
  <2>6. Base' + Held' = b + h /\ Left' = l /\ deleting' = d /\ need' = n
    BY <1>c, <1>d, <1>e, <1>f, <2>1
  <2> DEFINE y == (b + h) - (Limit - (Maintenance + l) - n)
  <2>7. y \in Int /\ b + h \in Int
    BY <1>b
  <2> HIDE DEF y
  <2> QED
    BY <1>h, <2>3, <2>5, <2>6, <2>7 DEF y
<1>6. CASE Evict
  <2>1. PICK a \in Artifact : a \in published /\ published' = published \ {a} /\ deleting' = deleting + ArtifactSize
    BY <1>6 DEF Evict, Victims, Evictable, TypeOK
  <2>2. /\ at = "evict" /\ UNCHANGED <<unknown, staging, tombs>> /\ UNCHANGED <<jobs, reserved>>
        /\ need' = need /\ excess' = excess - ArtifactSize
    BY <1>6 DEF Evict
  <2>3. Archives(published') = Archives(published) - ArtifactSize
    BY <2>1, ArchivesChange
  <2>4. Base' = Base
    BY <1>a, <1>b, <2>1, <2>2, <2>3 DEF Base
  <2>5. Base' + Held' = b + h /\ Left' = l /\ deleting' = d + ArtifactSize /\ need' = n /\ excess' = e - ArtifactSize
    BY <1>c, <1>d, <1>f, <2>1, <2>2, <2>4
  <2>6. e = (b + h) - d + (Maintenance + l) + n - Limit
    BY <1>g, <2>2
  <2>7. e - ArtifactSize = (b + h) - (d + ArtifactSize) + (Maintenance + l) + n - Limit
    BY <1>b, <2>6
  <2>8. b + h \in Int /\ d + ArtifactSize \in Int /\ e - ArtifactSize \in Int
    BY <1>b
  <2> QED
    BY <1>h, <2>5, <2>7, <2>8
<1>7. CASE Unlink
  <2>1. /\ at = "unlink" /\ UNCHANGED <<unknown, staging, published, tombs>> /\ UNCHANGED <<jobs, reserved>>
        /\ need' = need /\ excess' = excess /\ deleting' = 0
    BY <1>7 DEF Unlink, Step, Goto
  <2>2. Base' = Base - deleting
    BY <1>a, <2>1 DEF Base
  <2>3. Base' = b - d /\ Held' = h /\ Left' = l /\ need' = n /\ excess' = e
    BY <1>c, <1>d, <1>f, <2>1, <2>2
  <2>4. e = (b + h) - d + (Maintenance + l) + n - Limit
    BY <1>g, <2>1
  <2>5. e = ((b - d) + h) - 0 + (Maintenance + l) + n - Limit /\ (b - d) + h \in Int
    BY <1>b, <2>4
  <2>6. Base' + Held' = (b - d) + h
    BY <2>3
  <2> QED
    BY <1>h, <2>1, <2>3, <2>5, <2>6
<1>8. CASE CleanupEnd
  <2>1. at' \notin {"evict", "unlink"}
    BY <1>8 DEF CleanupEnd, Step, Goto, Controls
  <2> QED
    BY <2>1 DEF ExcessInv
<1>9. CASE Again
  <2>1. at' \notin {"evict", "unlink"}
    BY <1>9 DEF Again, Goto, Controls
  <2> QED
    BY <2>1 DEF ExcessInv
<1>10. CASE FailsFull
  <2>1. at' \notin {"evict", "unlink"}
    BY <1>10 DEF FailsFull, Ask, Release, Controls
  <2> QED
    BY <2>1 DEF ExcessInv
<1>11. ASSUME NEW a \in Artifact, ImportBegin(a) PROVE ExcessInv'
  <2>1. at' \notin {"evict", "unlink"}
    BY <1>11 DEF ImportBegin, Free, Controls
  <2> QED
    BY <2>1 DEF ExcessInv
<1>12. ASSUME NEW a \in Artifact, SubmitBegin(a) PROVE ExcessInv'
  <2>1. at' \notin {"evict", "unlink"}
    BY <1>12 DEF SubmitBegin, Free, Controls
  <2> QED
    BY <2>1 DEF ExcessInv
<1>13. CASE ImportWrite
  <2>1. at' \notin {"evict", "unlink"}
    BY <1>13 DEF ImportWrite, Ask, Goto, Controls
  <2> QED
    BY <2>1 DEF ExcessInv
<1>14. CASE ImportExtract
  <2>1. at' \notin {"evict", "unlink"}
    BY <1>14 DEF ImportExtract, Step, Goto, Controls
  <2> QED
    BY <2>1 DEF ExcessInv
<1>15. CASE ImportPublish
  <2>1. at' \notin {"evict", "unlink"}
    BY <1>15 DEF ImportPublish, Release, Controls
  <2> QED
    BY <2>1 DEF ExcessInv
<1>16. CASE ImportEnds
  <2>1. at' \notin {"evict", "unlink"}
    BY <1>16 DEF ImportEnds, Release, Controls
  <2> QED
    BY <2>1 DEF ExcessInv
<1>17. CASE Create
  <2>1. at' \notin {"evict", "unlink"}
    BY <1>17 DEF Create, Release, Controls
  <2> QED
    BY <2>1 DEF ExcessInv
<1>18. ASSUME NEW j \in Job, Write(j) PROVE ExcessInv'
  <2>1. CASE at \notin {"evict", "unlink"}
    BY <1>18, <2>1 DEF Write, ExcessInv
  <2>2. CASE at \in {"evict", "unlink"}
    <3>1. Held' + Left' = Held + Left
      BY <1>18, <2>2, WriteIsReserved DEF Write, MutexFree
    <3>2. Held' \in Int /\ Left' \in Int
      <4>1. jobs' \in [Job -> Record] /\ reserved' \in SUBSET Job
        BY DEF TypeOK, Record, State
      <4> DEFINE K == jobs'
                 R == reserved'
      <4>2. IsFiniteSet(Job) /\ IsFiniteSet(R) /\ Job \in SUBSET Job /\ R \in SUBSET R
        BY <4>1, Units, FS_Subset
      <4>3. Whole(HeldBy(K), Job) /\ Whole(LeftBy(K, R), R)
        BY <4>1, Summable
      <4> HIDE DEF K, R
      <4>4. SumFunctionOnSet(HeldBy(K), Job) \in Int /\ SumFunctionOnSet(LeftBy(K, R), R) \in Int
        BY <4>2, <4>3, SumIsInteger
      <4> QED
        BY <4>4 DEF Held, Left, K, R
    <3>3. PICK hh \in Int, ll \in Int : hh = Held' /\ ll = Left'
      BY <3>2
    <3>4. hh + ll = h + l
      BY <1>f, <3>1, <3>3
    <3>5. Base' + Held' = b + hh /\ Left' = ll /\ deleting' = d /\ need' = n /\ excess' = e
      BY <1>18, <1>e, <1>f, <3>3 DEF Write
    <3>6. e = (b + hh) - d + (Maintenance + ll) + n - Limit /\ b + hh \in Int
      BY <1>b, <1>g, <2>2, <3>4
    <3> QED
      BY <1>h, <3>5, <3>6
  <2> QED
    BY <2>1, <2>2
<1>19. ASSUME NEW j \in Job, Finish(j) PROVE ExcessInv'
  <2>1. at' \notin {"evict", "unlink"}
    BY <1>19 DEF Finish, MutexFree
  <2> QED
    BY <2>1 DEF ExcessInv
<1>20. CASE Retain
  <2>1. at' \notin {"evict", "unlink"}
    BY <1>20 DEF Retain, Free, Controls
  <2> QED
    BY <2>1 DEF ExcessInv
<1>21. CASE OperatorCleanup
  <2>1. at' \notin {"evict", "unlink"}
    BY <1>21 DEF OperatorCleanup, Free, Controls
  <2> QED
    BY <2>1 DEF ExcessInv
<1>22. CASE CleanupReturns
  <2>1. at' \notin {"evict", "unlink"}
    BY <1>22 DEF CleanupReturns, Release, Controls
  <2> QED
    BY <2>1 DEF ExcessInv
<1>23. CASE Kill
  <2>1. at' \notin {"evict", "unlink"}
    BY <1>23 DEF Kill, Controls
  <2> QED
    BY <2>1 DEF ExcessInv
<1>24. CASE Start
  <2>1. at' \notin {"evict", "unlink"}
    BY <1>24 DEF Start, Controls
  <2> QED
    BY <2>1 DEF ExcessInv
<1>25. CASE Serve
  <2>1. at' \notin {"evict", "unlink"}
    BY <1>25 DEF Serve, Release, Controls
  <2> QED
    BY <2>1 DEF ExcessInv
<1>26. CASE StartFails
  <2>1. at' \notin {"evict", "unlink"}
    BY <1>26 DEF StartFails, Controls
  <2> QED
    BY <2>1 DEF ExcessInv
<1>27. ASSUME NEW j \in Job, BoundHistory(j) PROVE ExcessInv'
  <2>1. at' \notin {"evict", "unlink"}
    BY <1>27 DEF BoundHistory, Controls
  <2> QED
    BY <2>1 DEF ExcessInv
<1>28. CASE UNCHANGED vars
  BY <1>28, UsedIs, UsedBecomes, ReservedIs, ReservedBecomes, <1>c, <1>d, <1>e DEF vars,
     ExcessInv
<1>. QED
  BY <1>1, <1>2, <1>3, <1>4, <1>5, <1>6, <1>7, <1>8, <1>9, <1>10, <1>11, <1>12, <1>13,
     <1>14,
     <1>15, <1>16, <1>17, <1>18, <1>19, <1>20, <1>21, <1>22, <1>23, <1>24, <1>25, <1>26, <1>27,
     <1>28 DEF Next, Cleanup

\* A cleanup that ends without the room it was asked for has nothing left that it may evict, whatever
\* running jobs wrote since it computed how much to free (cleanupLocked).
THEOREM CleanupIsThorough == Spec => CleanupThorough
<1> DEFINE IInv == Typed /\ LifeInv /\ ImportInv /\ ExcessInv
           Thorough == at = "evict" /\ at' \in {"again", "cleaned"} /\ ~Fits(need) => Evictable = {}
<1>1. Init => IInv
  <2>1. Init => ExcessInv
    BY DEF Init, ExcessInv
  <2> QED
    BY <2>1, StorageInit, ControlsInit, LifeInvInit, ImportInvInit DEF Typed
<1>2. IInv /\ [Next]_vars => IInv'
  BY StorageTypedNext, LifeInvNext, ImportInvNext, ExcessInvNext
<1>3. IInv /\ [Next]_vars => [Thorough]_vars
  <2> SUFFICES ASSUME IInv, [Next]_vars, at = "evict", at' \in {"again", "cleaned"}, ~Fits(need)
               PROVE  Evictable = {}
    OBVIOUS
  <2>1. CleanupEnd
    <3> USE DEF files, gate
    <3>1. ASSUME Ensure PROVE FALSE
      BY <3>1 DEF Ensure, Goto
    <3>2. ASSUME CleanupBegin PROVE FALSE
      BY <3>2 DEF CleanupBegin, Step, Goto
    <3>3. ASSUME Tombstone PROVE FALSE
      BY <3>3 DEF Tombstone, Step, Goto
    <3>4. ASSUME RemoveJob PROVE FALSE
      BY <3>4 DEF RemoveJob, Step, Goto
    <3>5. ASSUME EvictBegin PROVE FALSE
      BY <3>5 DEF EvictBegin
    <3>6. ASSUME Evict PROVE FALSE
      BY <3>6 DEF Evict
    <3>7. ASSUME Unlink PROVE FALSE
      BY <3>7 DEF Unlink, Step, Goto
    <3>8. ASSUME Again PROVE FALSE
      BY <3>8 DEF Again, Goto
    <3>9. ASSUME FailsFull PROVE FALSE
      BY <3>9 DEF FailsFull, Ask, Release
    <3>10. ASSUME NEW a \in Artifact, ImportBegin(a) PROVE FALSE
      BY <3>10 DEF ImportBegin, Free
    <3>11. ASSUME NEW a \in Artifact, SubmitBegin(a) PROVE FALSE
      BY <3>11 DEF SubmitBegin, Free
    <3>12. ASSUME ImportWrite PROVE FALSE
      BY <3>12 DEF ImportWrite, Ask, Goto
    <3>13. ASSUME ImportExtract PROVE FALSE
      BY <3>13 DEF ImportExtract, Step, Goto
    <3>14. ASSUME ImportPublish PROVE FALSE
      BY <3>14 DEF ImportPublish, Release
    <3>15. ASSUME ImportEnds PROVE FALSE
      BY <3>15 DEF ImportEnds, Release
    <3>16. ASSUME Create PROVE FALSE
      BY <3>16 DEF Create, Release
    <3>17. ASSUME NEW j \in Job, Write(j) PROVE FALSE
      BY <3>17 DEF Write
    <3>18. ASSUME NEW j \in Job, Finish(j) PROVE FALSE
      BY <3>18 DEF Finish
    <3>19. ASSUME Retain PROVE FALSE
      BY <3>19 DEF Retain, Free
    <3>20. ASSUME OperatorCleanup PROVE FALSE
      BY <3>20 DEF OperatorCleanup, Free
    <3>21. ASSUME CleanupReturns PROVE FALSE
      BY <3>21 DEF CleanupReturns, Release
    <3>22. ASSUME Kill PROVE FALSE
      BY <3>22 DEF Kill
    <3>23. ASSUME Start PROVE FALSE
      BY <3>23 DEF Start
    <3>24. ASSUME Serve PROVE FALSE
      BY <3>24 DEF Serve, Release
    <3>25. ASSUME StartFails PROVE FALSE
      BY <3>25 DEF StartFails
    <3>26. ASSUME NEW j \in Job, BoundHistory(j) PROVE FALSE
      BY <3>26 DEF BoundHistory
    <3>27. ASSUME UNCHANGED vars PROVE FALSE
      BY <3>27 DEF vars
    <3> QED
      BY <3>1, <3>2, <3>3, <3>4, <3>5, <3>6, <3>7, <3>8, <3>9, <3>10, <3>11, <3>12, <3>13,
         <3>14,
         <3>15, <3>16, <3>17, <3>18, <3>19, <3>20, <3>21, <3>22, <3>23, <3>24, <3>25, <3>26,
         <3>27 DEF Next, Cleanup
  <2>2. CASE excess <= 0
    <3>1. excess = Used - deleting + ReservedBytes + need - Limit /\ deleting = 0
      BY DEF ExcessInv, ImportInv, Typed, Controls, CleanupSteps
    <3>2. Base \in Int /\ Held \in Int /\ Left \in Int /\ need \in Nat /\ Maintenance \in Nat /\ Limit \in Nat
      BY BaseWhole, SumsWhole, Units DEF Typed, Base
    <3>3. Used \in Int /\ ReservedBytes \in Int
      BY <3>2, UsedIs, ReservedIs
    <3>4. PICK u \in Int, r \in Int, n \in Nat, l \in Nat : u = Used /\ r = ReservedBytes /\ n = need /\ l = Limit
      BY <3>2, <3>3
    <3>5. u - 0 + r + n - l <= 0
      BY <2>2, <3>1, <3>4
    <3>6. u + r <= l /\ n <= l - u - r
      BY <3>5
    <3>7. ~(u + r > l)
      BY <3>6
    <3> QED
      BY <3>4, <3>6, <3>7 DEF Fits, OverBudget, Available
  <2> QED
    BY <2>1, <2>2 DEF CleanupEnd
<1> QED
  BY <1>1, <1>2, <1>3, PTL DEF Spec, CleanupThorough
=============================================================================
