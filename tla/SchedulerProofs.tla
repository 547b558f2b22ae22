--------------------------- MODULE SchedulerProofs ---------------------------
(***************************************************************************)
(* The scheduler keeps its invariants for any number of tasks, keys, slots *)
(* and channel places: what try_start_next does, and the theorems about    *)
(* the scheduler and about the records of its tasks.                       *)
(***************************************************************************)
EXTENDS SchedulerSteps, FiniteSetTheorems

-----------------------------------------------------------------------------
(* Ranks number a finite set without gaps, and a filtered sequence has     *)
(* exactly the elements that pass the filter.                              *)

\* Functions that tell their arguments apart, and that reach every value.
LEMMA InjectionFact ==
  ASSUME NEW S, NEW T, NEW g \in [S -> T], \A a, b \in S : g[a] = g[b] => a = b
  PROVE  g \in Injection(S, T)
  BY Zenon DEF Injection, IsInjective

LEMMA SurjectionFact ==
  ASSUME NEW S, NEW T, NEW g \in [S -> T], \A t \in T : \E a \in S : g[a] = t
  PROVE  g \in Surjection(S, T)
  BY Zenon DEF Surjection

\* The elements before i form a finite set that misses i, so a rank is smaller
\* than the size of the set.
LEMMA RankType ==
  ASSUME NEW K \in SUBSET Nat, IsFiniteSet(K), NEW i \in K
  PROVE  Rank(K, i) \in Nat /\ Rank(K, i) < Cardinality(K)
<1> DEFINE B == {j \in K : j < i}
<1>1. IsFiniteSet(B) /\ Cardinality(B) <= Cardinality(K) /\ (Cardinality(K) = Cardinality(B) => K = B)
  BY FS_Subset, B \in SUBSET K
<1>2. i \notin B
  OBVIOUS
<1>3. Cardinality(B) # Cardinality(K)
  BY <1>1, <1>2
<1>4. Cardinality(B) \in Nat /\ Cardinality(K) \in Nat
  BY <1>1, FS_CardinalityType
<1> HIDE DEF B
<1>5. Cardinality(B) < Cardinality(K)
  BY <1>1, <1>3, <1>4
<1> QED
  BY <1>4, <1>5 DEF Rank, B

\* Ranks grow with the elements.
LEMMA RankMonotonic ==
  ASSUME NEW K \in SUBSET Nat, IsFiniteSet(K), NEW i \in K, NEW j \in K, i < j
  PROVE  Rank(K, i) < Rank(K, j)
<1> DEFINE B(x) == {y \in K : y < x}
<1>1. IsFiniteSet(B(i)) /\ IsFiniteSet(B(j))
  BY FS_Subset, B(i) \in SUBSET K, B(j) \in SUBSET K
<1>2. B(i) \in SUBSET B(j) /\ i \in B(j) /\ i \notin B(i)
  <2>1. i \in Nat /\ j \in Nat /\ \A y \in K : y \in Nat
    OBVIOUS
  <2>2. \A y \in K : y < i => y < j
    BY <2>1
  <2>3. ~(i < i)
    BY <2>1
  <2>4. i \in B(j) /\ i \notin B(i)
    BY <2>3
  <2>5. B(i) \subseteq B(j)
    BY <2>2, Zenon
  <2> QED
    BY <2>4, <2>5
<1>3. Cardinality(B(i)) <= Cardinality(B(j)) /\ Cardinality(B(i)) # Cardinality(B(j))
  BY <1>1, <1>2, FS_Subset
<1>4. Cardinality(B(i)) \in Nat /\ Cardinality(B(j)) \in Nat
  BY <1>1, FS_CardinalityType
<1> HIDE DEF B
<1>5. Cardinality(B(i)) < Cardinality(B(j))
  BY <1>3, <1>4
<1> QED
  BY <1>5 DEF Rank, B

\* Different elements have different ranks.
LEMMA RankInjective ==
  ASSUME NEW K \in SUBSET Nat, IsFiniteSet(K), NEW i \in K, NEW j \in K,
         Rank(K, i) = Rank(K, j)
  PROVE  i = j
<1>1. Rank(K, i) \in Nat /\ Rank(K, j) \in Nat
  BY RankType
<1>2. ~(i < j) /\ ~(j < i)
  BY <1>1, RankMonotonic
<1> QED
  BY <1>2

\* An injection between sets of the same size is onto: every rank is taken.
LEMMA RankOnto ==
  ASSUME NEW K \in SUBSET Nat, IsFiniteSet(K), NEW n \in Nat, n < Cardinality(K)
  PROVE  \E i \in K : Rank(K, i) = n
<1> DEFINE N == Cardinality(K)
           T == 0 .. N - 1
           f == [i \in K |-> Rank(K, i)]
<1>1. N \in Nat
  BY FS_CardinalityType
<1>2. IsFiniteSet(T) /\ Cardinality(T) = N
  <2> HIDE DEF N
  <2> QED BY <1>1, FS_Interval
<1>3. f \in [K -> T]
  BY <1>1, RankType
<1>4. f \in Injection(K, T)
  BY <1>3, RankInjective, InjectionFact, Zenon
<1>5. f \in Surjection(K, T)
  BY <1>2, <1>4, FS_Injection
<1>6. n \in T
  BY <1>1
<1>7. \E i \in K : f[i] = n
  BY <1>5, <1>6, Zenon DEF Surjection
<1> QED
  BY <1>7

\* The elements of small rank: there are m of them, or all.
LEMMA RankCount ==
  ASSUME NEW K \in SUBSET Nat, IsFiniteSet(K), NEW m \in Nat
  PROVE  LET P == {i \in K : Rank(K, i) < m}
         IN  /\ IsFiniteSet(P)
             /\ Cardinality(P) = IF m <= Cardinality(K) THEN m ELSE Cardinality(K)
<1> DEFINE P == {i \in K : Rank(K, i) < m}
           N == Cardinality(K)
           h == IF m <= N THEN m ELSE N
           T == 0 .. h - 1
           f == [i \in P |-> Rank(K, i)]
<1>1. N \in Nat /\ h \in Nat
  BY FS_CardinalityType
<1>2. IsFiniteSet(P)
  BY FS_Subset, P \in SUBSET K
<1>3. IsFiniteSet(T) /\ Cardinality(T) = h
  <2> HIDE DEF h, N
  <2>1. 0 \in Int /\ h - 1 \in Int /\ (0 > h - 1 <=> h = 0) /\ h - 1 - 0 + 1 = h
    BY <1>1
  <2> QED BY <2>1, FS_Interval, Zenon
<1>4. f \in [P -> T]
  <2>1. ASSUME NEW i \in P PROVE Rank(K, i) \in T
    <3>1. Rank(K, i) \in Nat /\ Rank(K, i) < N /\ Rank(K, i) < m
      BY RankType
    <3> HIDE DEF N, P
    <3> QED BY <3>1, <1>1
  <2> QED BY <2>1, Zenon
<1>5. \A a, b \in P : f[a] = f[b] => a = b
  BY RankInjective
<1>6. \A t \in T : \E s \in P : f[s] = t
  <2>1. ASSUME NEW t \in T PROVE \E s \in P : f[s] = t
    <3>1. t \in Nat /\ t < N /\ t < m
      <4> HIDE DEF N
      <4> QED BY <1>1
    <3>2. PICK s \in K : Rank(K, s) = t
      BY <3>1, RankOnto
    <3>3. s \in P
      BY <3>1, <3>2
    <3> QED BY <3>2, <3>3
  <2> QED BY <2>1
<1>7. f \in Injection(P, T) /\ f \in Surjection(P, T)
  BY <1>4, <1>5, <1>6, InjectionFact, SurjectionFact, Zenon
<1>8. Cardinality(P) = Cardinality(T)
  BY <1>3, <1>7, FS_Injection
<1> QED
  BY <1>2, <1>3, <1>8

\* Positions of a sequence form a finite set of numbers.
LEMMA PositionsFinite ==
  ASSUME NEW A, NEW q \in Seq(A), NEW P \in SUBSET DOMAIN q
  PROVE  IsFiniteSet(P) /\ P \in SUBSET Nat /\ Cardinality(P) \in Nat
<1>1. DOMAIN q = 1 .. Len(q) /\ Len(q) \in Nat
  OBVIOUS
<1>2. IsFiniteSet(DOMAIN q)
  BY <1>1, FS_Interval
<1>3. IsFiniteSet(P)
  BY <1>2, FS_Subset
<1>4. P \in SUBSET Nat
  BY <1>1
<1> QED
  BY <1>3, <1>4, FS_CardinalityType

\* What Keep keeps: a sequence with exactly the elements of q that lie in S,
\* without repetition if q has none.
LEMMA KeepElements ==
  ASSUME NEW A, NEW q \in Seq(A), NEW S
  PROVE  /\ Keep(q, S) \in Seq(A)
         /\ {Keep(q, S)[n] : n \in DOMAIN Keep(q, S)} = {q[i] : i \in DOMAIN q} \cap S
         /\ (\A i, j \in DOMAIN q : q[i] = q[j] => i = j)
              => \A m, n \in DOMAIN Keep(q, S) : Keep(q, S)[m] = Keep(q, S)[n] => m = n
<1> DEFINE kept == {i \in DOMAIN q : q[i] \in S}
           N == Cardinality(kept)
           at(n) == CHOOSE i \in kept : Rank(kept, i) = n - 1
           r == [n \in 1 .. N |-> q[at(n)]]
<1>1. kept \in SUBSET DOMAIN q
  OBVIOUS
<1>2. IsFiniteSet(kept) /\ kept \in SUBSET Nat /\ N \in Nat
  BY <1>1, PositionsFinite
<1>3. Keep(q, S) = r
  BY DEF Keep
<1>4. ASSUME NEW n \in 1 .. N PROVE at(n) \in kept /\ Rank(kept, at(n)) = n - 1
  <2>1. n - 1 \in Nat /\ n - 1 < N
    <3> HIDE DEF N
    <3> QED BY <1>2
  <2>2. \E i \in kept : Rank(kept, i) = n - 1
    <3> HIDE DEF kept
    <3> QED BY <1>2, <2>1, RankOnto
  <2> HIDE DEF kept
  <2> QED BY <2>2
<1>5. ASSUME NEW i \in kept PROVE \E n \in 1 .. N : at(n) = i
  <2> DEFINE n == Rank(kept, i) + 1
  <2>0. Rank(kept, i) \in Nat /\ Rank(kept, i) < N
    <3> HIDE DEF kept
    <3> QED BY <1>2, RankType
  <2>1. n \in 1 .. N /\ n - 1 = Rank(kept, i)
    <3> HIDE DEF N, kept
    <3> QED BY <2>0, <1>2
  <2> HIDE DEF n
  <2>2. at(n) \in kept /\ Rank(kept, at(n)) = Rank(kept, i)
    BY <2>1, <1>4, Zenon
  <2>3. at(n) = i
    <3> HIDE DEF at, kept
    <3> QED BY <1>2, <2>2, RankInjective, Zenon
  <2> QED
    BY <2>1, <2>3, Zenon
<1>6. ASSUME NEW m \in 1 .. N, NEW n \in 1 .. N, at(m) = at(n) PROVE m = n
  <2>1. m - 1 = n - 1
    BY <1>4, <1>6, Zenon
  <2> HIDE DEF N
  <2> QED
    BY <2>1, <1>2
<1> HIDE DEF at, N
<1>7. DOMAIN r = 1 .. N /\ \A n \in 1 .. N : r[n] = q[at(n)]
  OBVIOUS
<1>8. r \in Seq(A)
  <2>1. ASSUME NEW n \in 1 .. N PROVE q[at(n)] \in A
    <3>1. at(n) \in DOMAIN q
      BY <1>4, Zenon
    <3> QED BY <3>1
  <2>2. r \in [1 .. N -> A]
    BY <2>1
  <2> HIDE DEF r
  <2> QED
    BY <2>2, <1>2
<1>9. {r[n] : n \in DOMAIN r} = {q[i] : i \in DOMAIN q} \cap S
  <2> HIDE DEF r
  <2>1. ASSUME NEW n \in DOMAIN r PROVE r[n] \in {q[i] : i \in DOMAIN q} \cap S
    BY <1>4, <1>7, Zenon
  <2>2. ASSUME NEW i \in DOMAIN q, q[i] \in S PROVE \E n \in DOMAIN r : r[n] = q[i]
    BY <1>5, <1>7, <2>2
  <2> QED
    BY <2>1, <2>2
<1>10. ASSUME \A i, j \in DOMAIN q : q[i] = q[j] => i = j,
              NEW m \in DOMAIN r, NEW n \in DOMAIN r, r[m] = r[n]
       PROVE  m = n
  <2>1. at(m) \in DOMAIN q /\ at(n) \in DOMAIN q /\ q[at(m)] = q[at(n)]
    BY <1>4, <1>7, <1>10, Zenon
  <2>2. at(m) = at(n)
    BY <2>1, <1>10
  <2> QED
    BY <2>2, <1>6, <1>7
<1> HIDE DEF r
<1> QED
  BY <1>3, <1>8, <1>9, <1>10

\* T holds the elements at the positions P of q, which are all different.
HoldsOnce(q, P, T) ==
  /\ \A i, j \in DOMAIN q : q[i] = q[j] => i = j
  /\ \A x : x \in T <=> \E i \in P : x = q[i]

\* Distinct positions of a sequence without repetition hold distinct elements.
LEMMA ImageCount ==
  ASSUME NEW A, NEW q \in Seq(A), NEW P \in SUBSET DOMAIN q, NEW T, HoldsOnce(q, P, T)
  PROVE  IsFiniteSet(T) /\ Cardinality(T) = Cardinality(P)
<1> DEFINE f == [i \in P |-> q[i]]
<1>1. IsFiniteSet(P)
  BY PositionsFinite
<1>2. f \in [P -> T]
  BY DEF HoldsOnce
<1>3. f \in Injection(P, T)
  BY <1>2, InjectionFact DEF HoldsOnce
<1>4. f \in Surjection(P, T)
  <2>1. \A t \in T : \E i \in P : f[i] = t
    BY DEF HoldsOnce
  <2> QED
    BY <1>2, <2>1, SurjectionFact
<1> QED
  BY <1>1, <1>3, <1>4, FS_Surjection

-----------------------------------------------------------------------------
(* The scheduler                                                           *)

USE SchedulerAssumption

\* The keys of one direction that a call of try_start_next starts: waiting keys
\* of that direction, never more than the free slots, and as many as the free
\* slots if one of them is left waiting.
LEMMA StartsInFacts ==
  ASSUME NEW q, NEW qs, NEW a, NEW n, Startable(q, qs, a, n), NEW d \in Direction
  PROVE  LET S == StartsIn(q, a, n, d)
         IN  /\ S \subseteq InDir(qs, d)
             /\ IsFiniteSet(S) /\ Cardinality(S) \in Nat
             /\ n[d] + Cardinality(S) <= MaxConcurrency[d]
             /\ S # InDir(qs, d) => n[d] + Cardinality(S) = MaxConcurrency[d]
<1> DEFINE W == Waiting(q, a, d)
           room == MaxConcurrency[d] - n[d]
           P == {j \in W : n[d] + Rank(W, j) < MaxConcurrency[d]}
           Q == {j \in W : Rank(W, j) < room}
           S == StartsIn(q, a, n, d)
<1>1. W = {i \in DOMAIN q : DirOf[q[i]] = d}
  BY DEF Waiting, Eligible, Startable, Elements
<1>2. q \in Seq(Key) /\ NoRepeat(q) /\ Elements(q) = qs
  BY DEF Startable
<1>3. W \in SUBSET DOMAIN q
  BY <1>1
<1>4. IsFiniteSet(W) /\ W \in SUBSET Nat /\ Cardinality(W) \in Nat
  BY <1>2, <1>3, PositionsFinite
<1>5. n[d] \in Nat /\ MaxConcurrency[d] \in Nat /\ room \in Nat
  BY DEF Startable
<1> HIDE DEF W
<1>6. P = Q
  <2>1. ASSUME NEW j \in W PROVE Rank(W, j) \in Nat
    BY <1>4, RankType
  <2> QED
    BY <2>1, <1>5
<1>7. S = {q[i] : i \in P}
  BY DEF StartsIn, W
<1> HIDE DEF room
<1>8. IsFiniteSet(Q) /\ Cardinality(Q) = IF room <= Cardinality(W) THEN room ELSE Cardinality(W)
  BY <1>4, <1>5, RankCount
<1>9. IsFiniteSet(S) /\ Cardinality(S) = Cardinality(Q)
  <2>1. P \in SUBSET DOMAIN q
    BY <1>3
  <2>2. \A i, j \in DOMAIN q : q[i] = q[j] => i = j
    BY <1>2 DEF NoRepeat
  <2> HIDE DEF P, Q, S
  <2>3. \A x : x \in S <=> \E i \in P : x = q[i]
    BY <1>7
  <2>4. q \in Seq(Key)
    BY <1>2
  <2>5. HoldsOnce(q, P, S)
    BY <2>2, <2>3, Zenon DEF HoldsOnce
  <2>6. IsFiniteSet(S) /\ Cardinality(S) = Cardinality(P)
    BY <2>1, <2>4, <2>5, ImageCount, Zenon
  <2> QED
    BY <2>6, <1>6
<1> HIDE DEF S
<1>10. S \subseteq InDir(qs, d)
  <2>1. ASSUME NEW i \in P PROVE q[i] \in InDir(qs, d)
    <3>1. i \in DOMAIN q /\ DirOf[q[i]] = d
      BY <1>1
    <3> QED BY <3>1, <1>2 DEF InDir, Elements
  <2> QED BY <2>1, <1>7
<1>11. Cardinality(S) \in Nat /\ n[d] + Cardinality(S) <= MaxConcurrency[d]
  <2> HIDE DEF Q, P
  <2> QED BY <1>4, <1>5, <1>8, <1>9 DEF room
<1>12. ASSUME S # InDir(qs, d) PROVE n[d] + Cardinality(S) = MaxConcurrency[d]
  <2>1. PICK k \in InDir(qs, d) : k \notin S
    BY <1>10, <1>12, Zenon
  <2>2. PICK i \in DOMAIN q : q[i] = k
    BY <1>2, <2>1 DEF InDir, Elements
  <2>3. i \in W /\ i \notin Q
    BY <1>1, <1>6, <1>7, <2>1, <2>2, Zenon DEF InDir
  <2>4. Rank(W, i) \in Nat /\ Rank(W, i) < Cardinality(W) /\ ~(Rank(W, i) < room)
    BY <1>4, <2>3, RankType, Zenon
  <2>5. room <= Cardinality(W)
    BY <2>4, <1>4, <1>5
  <2> HIDE DEF Q, P
  <2> QED BY <2>5, <1>5, <1>8, <1>9 DEF room
<1> QED
  BY <1>9, <1>10, <1>11, <1>12 DEF S

\* try_start_next moves the keys S from the queue to the running ones: the queue
\* and its mirror still agree, the counters still count and respect the limits,
\* and whoever is left waiting waits for a full direction.
LEMMA TryStartNextFacts ==
  ASSUME NEW q, NEW qs, NEW a, NEW n, NEW c, NEW st,
         Startable(q, qs, a, n), TryStartNext(q, qs, a, n, c, st),
         groups' \in [Key -> TaskOrNone]
  PROVE  LET S == Starts(q, a, n)
         IN  /\ S \subseteq qs /\ qs \subseteq Key
             /\ active' = a \cup S
             /\ queued_set' = qs \ S
             /\ queued' \in Seq(Key) /\ NoRepeat(queued') /\ Elements(queued') = queued_set'
             /\ active_count' \in [Direction -> Nat]
             /\ \A d \in Direction : /\ active_count'[d] = Cardinality(InDir(active', d))
                                     /\ active_count'[d] <= MaxConcurrency[d]
             /\ \A k \in queued_set' : active_count'[DirOf[k]] = MaxConcurrency[DirOf[k]]
<1> DEFINE S == Starts(q, a, n)
           SD(d) == StartsIn(q, a, n, d)
           Stay == {k \in Key : groups'[k] # NoTask} \ S
<1>1. q \in Seq(Key) /\ NoRepeat(q) /\ Elements(q) = qs /\ a \in SUBSET Key
      /\ \A k \in qs : k \notin a /\ groups'[k] # NoTask
  BY DEF Startable
<1>2. qs \subseteq Key
  BY <1>1 DEF Elements
<1>3. ASSUME NEW d \in Direction
      PROVE  /\ SD(d) \subseteq InDir(qs, d)
             /\ IsFiniteSet(SD(d)) /\ Cardinality(SD(d)) \in Nat
             /\ n[d] + Cardinality(SD(d)) <= MaxConcurrency[d]
             /\ SD(d) # InDir(qs, d) => n[d] + Cardinality(SD(d)) = MaxConcurrency[d]
  BY StartsInFacts
<1>4. S = UNION {SD(d) : d \in Direction}
  BY DEF Starts
<1> HIDE DEF SD
<1>5. S \subseteq qs /\ \A d \in Direction : SD(d) = InDir(S, d)
  BY <1>3, <1>4 DEF InDir
<1>6. /\ queued' = Keep(q, Stay) /\ queued_set' = qs \cap Stay /\ active' = a \cup S
      /\ active_count' = [d \in Direction |-> n[d] + Cardinality(SD(d))]
  BY DEF TryStartNext, SD
<1> HIDE DEF S
<1>7. queued_set' = qs \ S
  BY <1>1, <1>2, <1>6
<1>8. queued' \in Seq(Key) /\ NoRepeat(queued') /\ Elements(queued') = queued_set'
  <2> HIDE DEF Stay
  <2>1. /\ Keep(q, Stay) \in Seq(Key)
        /\ {Keep(q, Stay)[m] : m \in DOMAIN Keep(q, Stay)} = {q[i] : i \in DOMAIN q} \cap Stay
        /\ (\A i, j \in DOMAIN q : q[i] = q[j] => i = j)
             => \A l, m \in DOMAIN Keep(q, Stay) : Keep(q, Stay)[l] = Keep(q, Stay)[m] => l = m
    BY <1>1, KeepElements, Zenon
  <2>2. \A i, j \in DOMAIN q : q[i] = q[j] => i = j
    BY <1>1 DEF NoRepeat
  <2>3. NoRepeat(Keep(q, Stay))
    BY <2>1, <2>2 DEF NoRepeat
  <2>4. Elements(Keep(q, Stay)) = qs \cap Stay
    BY <2>1, <1>1, Zenon DEF Elements
  <2> QED
    BY <2>1, <2>3, <2>4, <1>6, ZenonT(60)
<1>9. ASSUME NEW d \in Direction
      PROVE  /\ n[d] \in Nat /\ n[d] = Cardinality(InDir(a, d))
             /\ active_count'[d] = n[d] + Cardinality(SD(d))
             /\ active_count'[d] \in Nat
             /\ active_count'[d] <= MaxConcurrency[d]
  BY <1>3, <1>6 DEF Startable
<1>10. active_count' \in [Direction -> Nat]
  BY <1>6, <1>9
<1>11. ASSUME NEW d \in Direction
       PROVE  active_count'[d] = Cardinality(InDir(active', d))
  <2>1. InDir(active', d) = InDir(a, d) \cup SD(d) /\ InDir(a, d) \cap SD(d) = {}
    BY <1>1, <1>5, <1>6 DEF InDir
  <2>2. IsFiniteSet(InDir(a, d))
    <3>1. InDir(a, d) \in SUBSET Key
      BY <1>1 DEF InDir
    <3> QED BY <3>1, FS_Subset
  <2>3. IsFiniteSet(SD(d)) /\ Cardinality(SD(d)) \in Nat
    BY <1>3
  <2>4. Cardinality(InDir(a, d) \cup SD(d))
          = Cardinality(InDir(a, d)) + Cardinality(SD(d)) - Cardinality(InDir(a, d) \cap SD(d))
    BY <2>2, <2>3, FS_Union
  <2>5. Cardinality(InDir(a, d) \cap SD(d)) = 0
    BY <2>1, FS_EmptySet, Zenon
  <2>6. Cardinality(InDir(active', d)) = Cardinality(InDir(a, d)) + Cardinality(SD(d)) - 0
    BY <2>1, <2>4, <2>5, Zenon
  <2>7. /\ active_count'[d] = n[d] + Cardinality(SD(d))
        /\ n[d] = Cardinality(InDir(a, d)) /\ n[d] \in Nat
    BY <1>9, Zenon
  <2> QED
    BY <2>3, <2>6, <2>7
<1>12. ASSUME NEW k \in queued_set'
       PROVE  active_count'[DirOf[k]] = MaxConcurrency[DirOf[k]]
  <2>1. k \in Key /\ k \in qs /\ k \notin S /\ DirOf[k] \in Direction
    BY <1>2, <1>7
  <2>2. SD(DirOf[k]) # InDir(qs, DirOf[k])
    BY <1>5, <2>1 DEF InDir
  <2>3. n[DirOf[k]] + Cardinality(SD(DirOf[k])) = MaxConcurrency[DirOf[k]]
    BY <2>1, <2>2, <1>3, Zenon
  <2>4. active_count'[DirOf[k]] = n[DirOf[k]] + Cardinality(SD(DirOf[k]))
    BY <2>1, <1>9, Zenon
  <2> QED
    BY <2>3, <2>4, Zenon
<1> QED
  BY <1>2, <1>5, <1>6, <1>7, <1>8, <1>9, <1>10, <1>11, <1>12, Zenon DEF S

\* A handler that ends in try_start_next re-establishes everything but the types
\* and the recorded progress, which it settles itself.
LEMMA HandlerEnds ==
  ASSUME NEW q, NEW qs, NEW a, NEW n, NEW c \in SUBSET Key, NEW st \in [Task -> Status],
         Startable(q, qs, a, n), GroupsDone(qs, a), WorkersDone(a), TryStartNext(q, qs, a, n, c, st)
  PROVE  /\ Bookkeeping' /\ QueueMirror' /\ SlotAccounting' /\ WorkConserving'
         /\ OneAnswerPerWorker'
         /\ queued' \in Seq(Key) /\ queued_set' \subseteq Key /\ active' \subseteq Key
         /\ active_count' \in [Direction -> Nat]
         /\ cancelled' \subseteq Key
         /\ worker' \in [Key -> Running \cup {"none", "exit"}]
         /\ runner' \in [Key -> TaskOrNone]
         /\ status' \in [Task -> Status]
<1> DEFINE S == Starts(q, a, n)
<1>1. groups' \in [Key -> TaskOrNone]
  BY DEF GroupsDone
<1>2. /\ S \subseteq qs /\ qs \subseteq Key
      /\ active' = a \cup S
      /\ queued_set' = qs \ S
      /\ queued' \in Seq(Key) /\ NoRepeat(queued') /\ Elements(queued') = queued_set'
      /\ active_count' \in [Direction -> Nat]
      /\ \A d \in Direction : /\ active_count'[d] = Cardinality(InDir(active', d))
                              /\ active_count'[d] <= MaxConcurrency[d]
      /\ \A k \in queued_set' : active_count'[DirOf[k]] = MaxConcurrency[DirOf[k]]
  BY <1>1, TryStartNextFacts
<1>3. /\ a \in SUBSET Key
      /\ \A k \in qs : k \notin paused_set' /\ k \notin a /\ groups'[k] # NoTask
  BY DEF Startable
<1>4. /\ worker' = [k \in Key |-> IF k \in S THEN "prepare" ELSE worker[k]]
      /\ runner' = [k \in Key |-> IF k \in S THEN groups'[k] ELSE runner[k]]
      /\ cancelled' = c \ S
      /\ status' \in [Task -> Status]
  BY Zenon DEF TryStartNext, Status, Ended
<1> HIDE DEF S
<1>5. Bookkeeping'
  BY <1>2, <1>3, ZenonT(60) DEF Bookkeeping, GroupsDone, Live
<1>6. QueueMirror' /\ SlotAccounting' /\ WorkConserving'
  BY <1>2, Zenon DEF QueueMirror, SlotAccounting, WorkConserving, NoRepeat, Elements, InDir
<1>7. /\ active' \subseteq Key /\ queued_set' \subseteq Key /\ cancelled' \subseteq Key
      /\ worker' \in [Key -> Running \cup {"none", "exit"}]
      /\ runner' \in [Key -> TaskOrNone]
  <2>1. worker \in [Key -> Running \cup {"none", "exit"}] /\ runner \in [Key -> TaskOrNone]
    BY ZenonT(60) DEF WorkersDone
  <2>2. active' \subseteq Key /\ queued_set' \subseteq Key /\ cancelled' \subseteq Key
    BY <1>2, <1>3, <1>4, Zenon
  <2>3. worker' \in [Key -> Running \cup {"none", "exit"}]
    BY <2>1, <1>4 DEF Running
  <2>4. runner' \in [Key -> TaskOrNone]
    BY <2>1, <1>1, <1>4
  <2> QED
    BY <2>2, <2>3, <2>4
<1>8. OneAnswerPerWorker'
  <2>1. ASSUME NEW k \in Key
        PROVE  /\ worker'[k] # "none" => k \in active' /\ runner'[k] = groups'[k]
               /\ worker'[k] = "exit" <=> outbox'[k] # "none"
    <3>1. CASE k \in S
      <4>1. k \notin a /\ worker[k] = "none"
        BY <3>1, <1>2, <1>3, ZenonT(60) DEF WorkersDone
      <4>2. outbox'[k] = "none"
        BY <4>1, ZenonT(60) DEF WorkersDone
      <4> QED BY <3>1, <4>2, <1>2, <1>4, ZenonT(60)
    <3>2. CASE k \notin S
      <4>1. worker'[k] = worker[k] /\ runner'[k] = runner[k]
        BY <3>2, <1>4, ZenonT(60)
      <4> QED BY <4>1, <1>2, ZenonT(60) DEF WorkersDone
    <3> QED BY <3>1, <3>2, ZenonT(60)
  <2>2. ASSUME NEW k \in active', worker'[k] = "none"
        PROVE  \E i \in DOMAIN worker_rx' : worker_rx'[i].key = k /\ worker_rx'[i].type # "Progress"
    <3>1. k \in Key
      BY <1>7
    <3>2. k \notin S
      BY <2>2, <3>1, <1>4, ZenonT(60)
    <3>3. k \in a /\ worker[k] = "none"
      BY <2>2, <3>1, <3>2, <1>2, <1>4, ZenonT(60)
    <3> QED
      BY <3>3, ZenonT(60) DEF WorkersDone
  <2>3. ASSUME NEW i \in DOMAIN worker_rx'
        PROVE  /\ worker_rx'[i].key \in active' /\ worker_rx'[i].by = groups'[worker_rx'[i].key]
               /\ worker_rx'[i].type # "Progress" =>
                    /\ worker'[worker_rx'[i].key] = "none"
                    /\ \A j \in DOMAIN worker_rx' : worker_rx'[j].key = worker_rx'[i].key => j <= i
    <3> DEFINE k == worker_rx'[i].key
    <3>1. k \in a
      BY ZenonT(60) DEF WorkersDone
    <3>2. k \in Key /\ k \notin S /\ worker'[k] = worker[k]
      BY <3>1, <1>2, <1>3, <1>4, Zenon
    <3> QED
      BY <3>1, <3>2, <1>2, ZenonT(60) DEF WorkersDone
  <2> QED
    BY <2>1, <2>2, <2>3, ZenonT(60) DEF OneAnswerPerWorker
<1> QED
  BY <1>2, <1>4, <1>5, <1>6, <1>7, <1>8, ZenonT(60)

\* A handler that ends in try_start_next preserves the invariant.
LEMMA RescheduleStep == Reschedules => IInv'
<1> SUFFICES ASSUME NEW q, NEW qs, NEW a, NEW n, NEW c \in SUBSET Key,
                    NEW st \in [Task -> Status],
                    Startable(q, qs, a, n), GroupsDone(qs, a), WorkersDone(a),
                    TryStartNext(q, qs, a, n, c, st), RestOK', NoStaleProgress'
             PROVE  IInv'
  BY DEF Reschedules
<1>1. /\ Bookkeeping' /\ QueueMirror' /\ SlotAccounting' /\ WorkConserving'
      /\ OneAnswerPerWorker'
      /\ queued' \in Seq(Key) /\ queued_set' \subseteq Key /\ active' \subseteq Key
      /\ active_count' \in [Direction -> Nat]
      /\ cancelled' \subseteq Key
      /\ worker' \in [Key -> Running \cup {"none", "exit"}]
      /\ runner' \in [Key -> TaskOrNone]
      /\ status' \in [Task -> Status]
  BY HandlerEnds, Zenon
<1>2. TypeOK'
  BY <1>1 DEF TypeOK, RestOK
<1> QED
  BY <1>1, <1>2 DEF IInv

-----------------------------------------------------------------------------
\* Taking a key off the queue: KeepElements, for the queue.
LEMMA FilteringHolds ==
  ASSUME IInv, NEW k \in Key
  PROVE  Filtering(k)
<1>1. queued \in Seq(Key) /\ NoRepeat(queued) /\ Elements(queued) = queued_set
      /\ queued_set \subseteq Key
  BY ZenonT(60) DEF IInv, TypeOK, QueueMirror, NoRepeat, Elements
<1> DEFINE Stay == Key \ {k}
<1>2. /\ Keep(queued, Stay) \in Seq(Key)
      /\ {Keep(queued, Stay)[m] : m \in DOMAIN Keep(queued, Stay)}
           = {queued[i] : i \in DOMAIN queued} \cap Stay
      /\ (\A i, j \in DOMAIN queued : queued[i] = queued[j] => i = j)
           => \A l, m \in DOMAIN Keep(queued, Stay) :
                Keep(queued, Stay)[l] = Keep(queued, Stay)[m] => l = m
  <2> HIDE DEF Stay
  <2> QED BY <1>1, KeepElements, Zenon
<1>3. Unqueued(k) = Keep(queued, Stay)
  BY DEF Unqueued
<1>4. Elements(queued) \cap Stay = queued_set \ {k}
  BY <1>1
<1> HIDE DEF Stay
<1>5. \A i, j \in DOMAIN queued : queued[i] = queued[j] => i = j
  BY <1>1 DEF NoRepeat
<1>6. NoRepeat(Keep(queued, Stay))
  BY <1>2, <1>5 DEF NoRepeat
<1>7. Elements(Keep(queued, Stay)) = Elements(queued) \cap Stay
  BY <1>2 DEF Elements
<1> QED
  BY <1>2, <1>3, <1>4, <1>6, <1>7, ZenonT(60) DEF Filtering

\* remove_active keeps the counters equal to what they count.
LEMMA ReleasingHolds ==
  ASSUME IInv, NEW k \in active
  PROVE  Releasing(k)
<1> DEFINE dk == DirOf[k]
<1>1. active \in SUBSET Key /\ active_count \in [Direction -> Nat] /\ dk \in Direction
  BY DEF IInv, TypeOK
<1>2. \A d \in Direction : /\ active_count[d] = Cardinality(InDir(active, d))
                           /\ active_count[d] <= MaxConcurrency[d]
  BY ZenonT(60) DEF IInv, SlotAccounting, InDir
<1>3. IsFiniteSet(InDir(active, dk)) /\ k \in InDir(active, dk)
  <2>1. InDir(active, dk) \in SUBSET Key
    BY <1>1 DEF InDir
  <2> QED
    BY <2>1, FS_Subset DEF InDir
<1>4. InDir(active \ {k}, dk) = InDir(active, dk) \ {k}
  BY DEF InDir
<1>5. Cardinality(InDir(active \ {k}, dk)) = active_count[dk] - 1
  <2> DEFINE S == InDir(active, dk)
  <2> HIDE DEF S
  <2>1. IsFiniteSet(S) /\ k \in S
    BY <1>3 DEF S
  <2>2. Cardinality(S \ {k}) = Cardinality(S) - 1
    BY <2>1, FS_RemoveElement, Zenon
  <2>3. active_count[dk] = Cardinality(S)
    BY <1>1, <1>2 DEF S
  <2> QED
    BY <2>2, <2>3, <1>4, Zenon DEF S
<1>6. Cardinality(InDir(active \ {k}, dk)) \in Nat
  BY <1>3, <1>4, FS_RemoveElement, FS_CardinalityType, Zenon
<1>7. active_count[dk] > 0 /\ active_count[dk] - 1 \in Nat
  BY <1>1, <1>5, <1>6
<1>8. CountAfterRemove(k) = [active_count EXCEPT ![dk] = active_count[dk] - 1]
  BY <1>7 DEF CountAfterRemove
<1>9. ASSUME NEW d \in Direction
      PROVE  /\ CountAfterRemove(k)[d] = Cardinality(InDir(active \ {k}, d))
             /\ CountAfterRemove(k)[d] <= MaxConcurrency[d]
  <2>1. CASE d = dk
    BY <2>1, <1>1, <1>2, <1>5, <1>7, <1>8
  <2>2. CASE d # dk
    <3>1. InDir(active \ {k}, d) = InDir(active, d)
      BY <2>2 DEF InDir
    <3> QED
      BY <2>2, <3>1, <1>1, <1>2, <1>8
  <2> QED BY <2>1, <2>2
<1>10. CountAfterRemove(k) \in [Direction -> Nat]
  BY <1>1, <1>7, <1>8
<1> QED
  BY <1>9, <1>10, Zenon DEF Releasing

-----------------------------------------------------------------------------
\* The state the scheduler starts from, and the one it leaves behind.
Blank ==
  /\ groups = [k \in Key |-> NoTask]
  /\ mapped = {}
  /\ queued = <<>> /\ queued_set = {}
  /\ paused_set = {} /\ canceling_set = {}
  /\ active = {}
  /\ active_count = [d \in Direction |-> 0]
  /\ offsets = [k \in Key |-> NoTask]
  /\ known_totals = [k \in Key |-> NoTask]
  /\ cancelled = {}
  /\ worker = [k \in Key |-> "none"]
  /\ runner = [k \in Key |-> NoTask]
  /\ outbox = [k \in Key |-> "none"]
  /\ worker_rx = <<>>

\* Everything but the types of what a blank scheduler does not hold.
BlankOK ==
  /\ Bookkeeping /\ QueueMirror /\ SlotAccounting /\ WorkConserving
  /\ OneAnswerPerWorker /\ NoStaleProgress
  /\ groups \in [Key -> TaskOrNone] /\ queued \in Seq(Key)
  /\ active_count \in [Direction -> Nat]
  /\ offsets \in [Key -> TaskOrNone] /\ known_totals \in [Key -> TaskOrNone]
  /\ worker \in [Key -> Running \cup {"none", "exit"}]
  /\ runner \in [Key -> TaskOrNone]
  /\ outbox \in [Key -> TerminalEvent \cup {"none"}]
  /\ worker_rx \in Seq(Event)

\* A blank scheduler satisfies it.
LEMMA BlankFacts == Blank => BlankOK
<1> SUFFICES ASSUME Blank PROVE BlankOK
  OBVIOUS
<1> USE DEF Blank
<1>1. Bookkeeping
  BY DEF Bookkeeping, Live
<1>2. QueueMirror /\ WorkConserving /\ NoStaleProgress
  BY DEF QueueMirror, WorkConserving, NoStaleProgress
<1>3. SlotAccounting
  <2>1. ASSUME NEW d \in Direction PROVE Cardinality({k \in active : DirOf[k] = d}) = 0
    <3>1. {k \in active : DirOf[k] = d} = {}
      OBVIOUS
    <3> QED BY <3>1, FS_EmptySet
  <2> QED
    BY <2>1 DEF SlotAccounting
<1>4. OneAnswerPerWorker
  <2>1. \A k \in Key : worker[k] = "none" /\ outbox[k] = "none"
    BY Zenon
  <2>2. active = {} /\ \A i \in DOMAIN worker_rx : FALSE
    OBVIOUS
  <2> HIDE DEF Blank
  <2> QED
    BY <2>1, <2>2, Zenon DEF OneAnswerPerWorker
<1> QED
  BY <1>1, <1>2, <1>3, <1>4 DEF TaskOrNone, BlankOK

\* So does the state that a handler leaves blank.
LEMMA BlankFactsNext == Blank' => BlankOK'
  BY BlankFacts, PTL

\* The invariant holds initially.
LEMMA InitStep == Init => IInv
<1> SUFFICES ASSUME Init PROVE IInv
  OBVIOUS
<1>1. Blank
  BY DEF Init, Blank
<1>2. TypeOK
  <2>1. terminal \in [Task -> GateState] /\ status \in [Task -> Status]
    BY DEF Init, GateState, Status
  <2> QED
    BY <2>1, <1>1, BlankFacts, ZenonT(60) DEF Init, TypeOK, BlankOK, Blank
<1> QED
  BY <1>1, <1>2, BlankFacts DEF IInv, BlankOK

\* Leaving the loop, after Close or for lack of senders, preserves the invariant.
LEMMA DiscardStep ==
  ASSUME IInv, NEW end \in {"closed", "dropped"}, Discard(end)
  PROVE  IInv'
<1>1. Blank'
  BY DEF Discard, Blank
<1>2. BlankOK'
  BY <1>1, BlankFactsNext
<1>3. TypeOK'
  BY <1>2, ZenonT(60) DEF IInv, TypeOK, Discard, obsVars, BlankOK
<1> QED
  BY <1>2, <1>3 DEF IInv, BlankOK

-----------------------------------------------------------------------------
\* No step of the scheduler, of a caller or of a worker breaks the invariant.
LEMMA NextStep == IInv /\ [Next]_vars => IInv'
<1> SUFFICES ASSUME IInv, [Next]_vars PROVE IInv'
  OBVIOUS
<1>1. CASE UNCHANGED vars
  <2>1. TypeOK'
    BY <1>1, ZenonT(60) DEF IInv, TypeOK, vars, schedVars, workVars, obsVars
  <2>2. Bookkeeping' /\ NoStaleProgress'
    BY <1>1, ZenonT(60) DEF IInv, Bookkeeping, Live, NoStaleProgress, vars, schedVars, workVars, obsVars
  <2>3. QueueMirror' /\ WorkConserving'
    <3>1. UNCHANGED <<queued, queued_set, active_count, phase>>
      BY <1>1 DEF vars, schedVars
    <3>2. QueueMirror'
      BY <3>1, ZenonT(60) DEF IInv, QueueMirror
    <3>3. WorkConserving'
      BY <3>1, Zenon DEF IInv, WorkConserving
    <3> QED
      BY <3>2, <3>3, Zenon
  <2>4. SlotAccounting'
    BY <1>1, Zenon DEF IInv, SlotAccounting, vars, schedVars
  <2>5. OneAnswerPerWorker'
    BY <1>1, ZenonT(60) DEF IInv, OneAnswerPerWorker, vars, schedVars, workVars
  <2> QED
    BY <2>1, <2>2, <2>3, <2>4, <2>5, Zenon DEF IInv
<1>2. ASSUME NEW t \in Task, Command(t) PROVE IInv'
  <2>1. Filtering(KeyOf[t])
    BY FilteringHolds
  <2> QED
    BY <1>2, <2>1, CommandStep, RescheduleStep
<1>3. CASE Close
  BY <1>3, CloseStep
<1>4. CASE CloseFinish \/ CommandChannelClosed
  BY <1>4, DiscardStep DEF CloseFinish, CommandChannelClosed
<1>5. CASE HandleProgress
  BY <1>5, ProgressStep
<1>6. CASE HandleTerminal
  BY <1>6, TerminalStep, ReleasingHolds, RescheduleStep
<1>7. ASSUME NEW k \in Key, Worker(k) PROVE IInv'
  BY <1>7, WorkerStep
<1> QED
  BY <1>1, <1>2, <1>3, <1>4, <1>5, <1>6, <1>7 DEF Next

\* The inductive invariant holds in every reachable state of the scheduler.
THEOREM SchedulerInvariant == Spec => []IInv
  BY InitStep, NextStep, PTL DEF Spec

\* Every variable of the scheduler keeps its type.
THEOREM SchedulerTypes == Spec => []TypeOK
<1>1. IInv => TypeOK
  BY DEF IInv
<1> QED
  BY <1>1, SchedulerInvariant, PTL

\* No task is ever lost between the collections, and every id that answers does
\* so for the live task of its key.
THEOREM SchedulerBookkeeping == Spec => [](Bookkeeping /\ QueueMirror)
<1>1. IInv => Bookkeeping /\ QueueMirror
  BY DEF IInv
<1> QED
  BY <1>1, SchedulerInvariant, PTL

\* The counters count the running keys, and the configured limits are kept.
THEOREM SchedulerLimits == Spec => []SlotAccounting
<1>1. IInv => SlotAccounting
  BY DEF IInv
<1> QED
  BY <1>1, SchedulerInvariant, PTL

\* No slot is idle while a task of its direction waits.
THEOREM SchedulerWorkConserving == Spec => []WorkConserving
<1>1. IInv => WorkConserving
  BY DEF IInv
<1> QED
  BY <1>1, SchedulerInvariant, PTL

\* Each registered worker answers exactly once, for the task that holds the key.
THEOREM SchedulerOneAnswer == Spec => []OneAnswerPerWorker
<1>1. IInv => OneAnswerPerWorker
  BY DEF IInv
<1> QED
  BY <1>1, SchedulerInvariant, PTL

\* No task starts from the progress of an earlier task of the same key.
THEOREM SchedulerFreshProgress == Spec => []NoStaleProgress
<1>1. IInv => NoStaleProgress
  BY DEF IInv
<1> QED
  BY <1>1, SchedulerInvariant, PTL

-----------------------------------------------------------------------------
(* What the records say                                                    *)

\* Every step preserves the invariant, and moves each record as it may.
LEMMA OutcomeStep == IInv /\ IInv' /\ OutcomeInv /\ [Next]_vars => Preserved
  BY NextOutcome, FilteringHolds

\* The gate, the worker and the records of every task agree, in every state.
THEOREM OutcomeInvariant == Spec => [](IInv /\ OutcomeInv)
<1>1. IInv /\ IInv' /\ OutcomeInv /\ [Next]_vars => OutcomeInv'
  BY OutcomeStep, PreservedNext
<1> QED
  BY <1>1, SchedulerInvariant, InitOutcome, PTL DEF Spec

\* A waiting or a paused task can be run to its end: its gate was reopened when
\* its worker became quiescent, and nothing of it is completed or aborted
\* (reset_terminal_pause, handle_worker_event.rs).
THEOREM IdleTasksResume == Spec => []IdleIsResumable
<1>1. IInv /\ OutcomeInv => IdleIsResumable
  <2> SUFFICES ASSUME IInv, OutcomeInv, NEW k \in Key, groups[k] # NoTask, k \notin active
               PROVE  /\ terminal[groups[k]] = OPEN /\ worker[k] = "none"
                      /\ groups[k] \notin acked \cup aborted
    BY DEF IdleIsResumable, Inactive, Live
  <2>1. IdleGate(k)
    BY DEF OutcomeInv, KeyInv
  <2>2. worker[k] = "none"
    BY NoAnswerIdle
  <2> QED
    BY <2>1, <2>2 DEF IdleGate
<1> QED
  BY <1>1, OutcomeInvariant, PTL

\* No outcome is reported that was not earned: completion and abort are final,
\* Canceled was asked for, and close leaves no task without a last record
\* (handle_quiescent_worker_event, settle_required_upload_abort, Close).
THEOREM OutcomesAreEarned == Spec => []EndsAreEarned
<1>1. IInv /\ OutcomeInv => EndsAreEarned
  <2> SUFFICES ASSUME IInv, OutcomeInv PROVE EndsAreEarned
    OBVIOUS
  <2>1. CompletionWins /\ CanceledOnRequest /\ CloseReportsAll
    <3>1. acked \subseteq Task /\ submitted \subseteq Task
      BY DEF IInv, TypeOK
    <3> QED
      BY <3>1, ZenonT(60) DEF OutcomeInv, LifeInv, Earned, CompletionWins, CanceledOnRequest,
         CloseReportsAll
  <2>2. ASSUME NEW t \in Task, t \in aborted
        PROVE  /\ runner[KeyOf[t]] = t => worker[KeyOf[t]] = "exit"
               /\ groups[KeyOf[t]] = t => Answer(KeyOf[t], "Failed")
    <3> DEFINE k == KeyOf[t]
    <3>1. k \in Key /\ KeyInv(k) /\ t # NoTask
      BY DEF OutcomeInv
    <3> HIDE DEF k
    <3>2. runner[k] = t => worker[k] # "none" /\ groups[k] = t
      BY <3>1, RunnerIsLive, Zenon DEF KeyInv
    <3>3. ASSUME runner[k] = t, worker[k] \in Running PROVE FALSE
      <4>1. RunningGate(k)
        BY <3>1, <3>3, RunningWorker, Zenon
      <4>2. groups[k] \notin aborted
        BY <4>1, Zenon DEF RunningGate
      <4> QED
        BY <2>2, <3>2, <3>3, <4>2, Zenon
    <3>4. worker[k] \in Running \cup {"none", "exit"}
      BY <3>1 DEF IInv, TypeOK
    <3>5. groups[k] = t => Answer(k, "Failed")
      BY <2>2, <3>1, ZenonT(60) DEF KeyInv, IdleGate, ActiveGate, AnswerGate
    <3> QED
      BY <3>2, <3>3, <3>4, <3>5, Zenon DEF k
  <2>3. AbortIsFinal
    <3>1. aborted \subseteq Task
      BY DEF IInv, TypeOK
    <3> QED
      BY <2>2, <3>1 DEF AbortIsFinal, Answer
  <2> QED
    BY <2>1, <2>3 DEF EndsAreEarned
<1> QED
  BY <1>1, OutcomeInvariant, PTL

\* The scheduler implements the abstract life of a task: nothing follows a
\* terminal record, and Paused is left only by a resume or a cancel.
THEOREM RecordsRefineLife == Spec => StatusRefinement
<1>1. Init => ObservedLife!Init
  BY DEF Init, ObservedLife!Init
<1>2. IInv /\ IInv' /\ OutcomeInv /\ [Next]_vars => [ObservedLife!Step]_status
  <2> SUFFICES ASSUME IInv', Preserved PROVE ObservedLife!Step
    BY OutcomeStep
  <2>1. status' \in [Task -> ObservedLife!Open \cup {"Complete", "Failed", "Canceled", "Duplicate"}]
    BY DEF IInv, TypeOK, Status, Ended, ObservedLife!Open
  <2>2. ASSUME NEW t \in Task, status'[t] # status[t]
        PROVE  status[t] \in ObservedLife!Open
               /\ status'[t] \in ObservedLife!Move[status[t]]
    <3>1. MayFollow(status[t], status'[t])
      BY Zenon DEF Preserved, TaskStep
    <3>2. /\ ObservedLife!Move["None"] = {"Pending", "Transmission", "Paused", "Duplicate"}
          /\ ObservedLife!Move["Pending"]
               = {"Transmission", "Paused", "Complete", "Failed", "Canceled"}
          /\ ObservedLife!Move["Transmission"] = {"Paused", "Complete", "Failed", "Canceled"}
          /\ ObservedLife!Move["Paused"] = {"Pending", "Transmission", "Canceled"}
      BY Zenon DEF ObservedLife!Move
    <3> QED
      BY <2>2, <3>1, <3>2, Zenon DEF MayFollow, ObservedLife!Open
  <2> QED
    BY <2>1, <2>2 DEF ObservedLife!Step
<1> QED
  BY <1>1, <1>2, OutcomeInvariant, SchedulerInvariant, PTL DEF Spec, StatusRefinement, ObservedLife!Spec
=============================================================================
