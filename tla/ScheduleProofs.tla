---------------------------- MODULE ScheduleProofs ----------------------------
(***************************************************************************)
(* Proofs about ScheduleSweep, for every set of jobs, every period, every   *)
(* configuration and every bound: what a sweep decides about the            *)
(* occurrences, what it leaves due, the overlap policy and the limit.       *)
(***************************************************************************)
EXTENDS ScheduleSweep, FiniteSetTheorems, NaturalsInduction,
        WellFoundedInduction, TLAPS

-----------------------------------------------------------------------------
(* Sorting.                                                                 *)

\* The elements of S have a job and an instant that tell them apart.
Keyed(S) ==
    /\ \A x \in S : x.job \in Nat /\ x.at \in Nat
    /\ \A x, y \in S : x.job = y.job /\ x.at = y.at => x = y

\* s lists S in order.
Lists(s, S) ==
    /\ s \in [1 .. Cardinality(S) -> S]
    /\ \A i, k \in DOMAIN s : i < k => Before(s[i], s[k])

(* A nonempty set of naturals has a least element.                          *)
LEMMA LeastNatural ==
    ASSUME NEW S \in SUBSET Nat, S # {}
    PROVE  \E m \in S : \A k \in S : m <= k
<1> DEFINE R == OpToRel(<, Nat)
<1>1. IsWellFoundedOn(R, Nat)
  BY NatLessThanWellFounded
<1>2. \A k, m \in Nat : k < m => <<k, m>> \in R
  BY DEF OpToRel
<1> HIDE DEF R
<1>3. PICK m \in S : \A k \in S : ~ (<<k, m>> \in R)
  BY <1>1, WFMin
<1>4. \A k \in S : ~ (k < m)
  BY <1>2, <1>3
<1>5. \A k \in S : m <= k
  BY <1>4
<1> QED
  BY <1>5

(* What holds at zero and passes from each number to the next holds         *)
(* throughout.                                                              *)
LEMMA UpTo ==
    ASSUME NEW N \in Nat, NEW S, 0 \in S,
           \A n \in 0 .. N : n # 0 /\ n - 1 \in S => n \in S
    PROVE  \A n \in 0 .. N : n \in S
<1> DEFINE T == {n \in 0 .. N : n \notin S}
<1>1. T \in SUBSET Nat
  OBVIOUS
<1>2. ASSUME T # {} PROVE FALSE
  <2>1. PICK m \in T : \A k \in T : m <= k
    <3> HIDE DEF T
    <3> QED
      BY <1>1, <1>2, LeastNatural
  <2>2. m # 0 /\ m - 1 \in 0 .. N
    BY <2>1
  <2>3. m - 1 \notin T
    BY <2>1, <2>2
  <2> QED
    BY <2>1, <2>2, <2>3
<1> QED
  BY <1>2

(* A finite set has a last element.                                         *)
LEMMA LastExists ==
    ASSUME NEW S, IsFiniteSet(S), S # {}, Keyed(S)
    PROVE  \E m \in S : \A y \in S : y # m => Before(y, m)
<1> DEFINE HasLast(T) == \E m \in T : \A y \in T : y # m => Before(y, m)
           N == Cardinality(S)
           G == {n \in 0 .. N : \A T \in SUBSET S : Cardinality(T) = n /\ T # {} => HasLast(T)}
<1>1. N \in Nat
  BY FS_CardinalityType
<1>2. 0 \in G
  <2> SUFFICES ASSUME NEW T \in SUBSET S, Cardinality(T) = 0 PROVE T = {}
    BY <1>1
  <2>1. IsFiniteSet(T)
    BY FS_Subset
  <2> QED
    BY <2>1, FS_EmptySet
<1>3. ASSUME NEW n \in 0 .. N, n # 0, n - 1 \in G PROVE n \in G
  <2> SUFFICES ASSUME NEW T \in SUBSET S, Cardinality(T) = n, T # {} PROVE HasLast(T)
    OBVIOUS
  <2>1. PICK x \in T : TRUE
    OBVIOUS
  <2>2. PICK U : U = T \ {x}
    OBVIOUS
  <2>3. IsFiniteSet(T)
    BY FS_Subset
  <2>4. U \in SUBSET S /\ Cardinality(U) = n - 1
    BY <2>1, <2>2, <2>3, FS_RemoveElement
  <2>5. CASE U = {}
    BY <2>1, <2>2, <2>5
  <2>6. CASE U # {}
    <3>1. PICK m \in U : \A y \in U : y # m => Before(y, m)
      BY <1>3, <2>4, <2>6
    <3>2. x # m /\ x \in S /\ m \in S
      BY <2>1, <2>2, <3>1
    <3>3. CASE Before(x, m)
      BY <2>2, <3>1, <3>3
    <3>4. CASE ~ Before(x, m)
      <4>1. Before(m, x)
        BY <3>2, <3>4 DEF Before, Keyed
      <4>2. \A y \in U : Before(y, x)
        BY <2>1, <2>2, <3>1, <3>2, <4>1 DEF Before, Keyed
      <4> QED
        BY <2>1, <2>2, <4>2
    <3> QED
      BY <3>3, <3>4
  <2> QED
    BY <2>5, <2>6
<1>4. \A n \in 0 .. N : n \in G
  <2> HIDE DEF N, G
  <2> QED
    BY <1>1, <1>2, <1>3, UpTo
<1> QED
  BY <1>1, <1>4

(* Every finite set can be listed in order.                                 *)
LEMMA ListExists ==
    ASSUME NEW S, IsFiniteSet(S), Keyed(S)
    PROVE  \E s : Lists(s, S)
<1> DEFINE N == Cardinality(S)
           G == {n \in 0 .. N : \A T \in SUBSET S : Cardinality(T) = n => \E s : Lists(s, T)}
<1>1. N \in Nat
  BY FS_CardinalityType
<1>2. 0 \in G
  <2> SUFFICES ASSUME NEW T \in SUBSET S, Cardinality(T) = 0 PROVE \E s : Lists(s, T)
    BY <1>1
  <2>1. 1 .. 0 = {}
    OBVIOUS
  <2>2. [i \in 1 .. 0 |-> i] \in [1 .. 0 -> T]
    BY <2>1
  <2>3. Lists([i \in 1 .. 0 |-> i], T)
    BY <2>1, <2>2 DEF Lists
  <2> QED
    BY <2>3
<1>3. ASSUME NEW n \in 0 .. N, n # 0, n - 1 \in G PROVE n \in G
  <2> SUFFICES ASSUME NEW T \in SUBSET S, Cardinality(T) = n PROVE \E s : Lists(s, T)
    OBVIOUS
  <2>1. IsFiniteSet(T) /\ Keyed(T)
    BY FS_Subset DEF Keyed
  <2>2. T # {}
    BY <1>3, FS_EmptySet
  <2>3. PICK m \in T : \A y \in T : y # m => Before(y, m)
    BY <2>1, <2>2, LastExists
  <2>4. PICK U : U = T \ {m}
    OBVIOUS
  <2>5. U \in SUBSET S /\ Cardinality(U) = n - 1
    BY <2>1, <2>3, <2>4, FS_RemoveElement
  <2>6. PICK s : Lists(s, U)
    BY <1>3, <2>5
  <2>7. n \in Nat /\ s \in [1 .. (n - 1) -> U]
    <3>1. s \in [1 .. Cardinality(U) -> U]
      BY <2>6 DEF Lists
    <3>2. n \in Nat
      BY <1>1
    <3> QED
      BY <2>5, <3>1, <3>2
  <2>8. PICK e : e = [i \in 1 .. n |-> IF i = n THEN m ELSE s[i]]
    OBVIOUS
  <2>9. e \in [1 .. n -> T]
    BY <1>3, <2>3, <2>4, <2>7, <2>8
  <2>10. ASSUME NEW i \in 1 .. n, NEW k \in 1 .. n, i < k PROVE Before(e[i], e[k])
    <3>1. i \in 1 .. (n - 1) /\ i # n /\ e[i] = s[i] /\ s[i] \in U
      BY <2>7, <2>8, <2>10
    <3>2. CASE k = n
      BY <2>3, <2>4, <2>8, <3>1, <3>2
    <3>3. CASE k # n
      <4>1. k \in 1 .. (n - 1) /\ e[k] = s[k]
        BY <2>7, <2>8, <3>3
      <4>2. i \in DOMAIN s /\ k \in DOMAIN s
        BY <2>7, <3>1, <4>1
      <4>3. Before(s[i], s[k])
        BY <2>6, <2>10, <4>2 DEF Lists
      <4> QED
        BY <3>1, <4>1, <4>3
    <3> QED
      BY <3>2, <3>3
  <2>11. Lists(e, T)
    BY <2>9, <2>10 DEF Lists
  <2> QED
    BY <2>11
<1>4. \A n \in 0 .. N : n \in G
  <2> HIDE DEF N, G
  <2> QED
    BY <1>1, <1>2, <1>3, UpTo
<1> QED
  BY <1>1, <1>4

(* `Sorted` is a sequence of the elements of S, each once and in order.     *)
LEMMA SortedLists ==
    ASSUME NEW S, IsFiniteSet(S), Keyed(S)
    PROVE  /\ Sorted(S) \in [1 .. Cardinality(S) -> S]
           /\ \A i, k \in 1 .. Cardinality(S) : i < k => Before(Sorted(S)[i], Sorted(S)[k])
           /\ \A x \in S : \E i \in 1 .. Cardinality(S) : Sorted(S)[i] = x
<1> DEFINE N == Cardinality(S)
<1>1. N \in Nat
  BY FS_CardinalityType
<1>2. PICK s : Lists(s, S)
  BY ListExists
<1>3. Lists(Sorted(S), S)
  BY <1>2 DEF Sorted, Lists
<1>4. PICK q : q = Sorted(S)
  OBVIOUS
<1>5. q \in [1 .. N -> S] /\ \A i, k \in 1 .. N : i < k => Before(q[i], q[k])
  BY <1>3, <1>4 DEF Lists
<1> HIDE DEF N
<1>6. ASSUME NEW i \in 1 .. N, NEW k \in 1 .. N, q[i] = q[k] PROVE i = k
  <2>1. q[i] \in S
    BY <1>5
  <2>2. ~ Before(q[i], q[i])
    BY <2>1 DEF Before, Keyed
  <2>3. ~ (i < k) /\ ~ (k < i)
    BY <1>5, <1>6, <2>2
  <2> QED
    BY <1>1, <2>3
<1>7. q \in Injection(1 .. N, S)
  BY <1>5, <1>6 DEF Injection, IsInjective
<1>8. Cardinality(1 .. N) = N
  BY <1>1, FS_Interval
<1>9. q \in Surjection(1 .. N, S)
  BY <1>7, <1>8, FS_Injection DEF N
<1> QED
  BY <1>4, <1>5, <1>9 DEF N, Surjection

(* A set of items over finitely many jobs and instants is finite.           *)
LEMMA ItemsAreFinite ==
    ASSUME NEW S, NEW N \in Nat, Keyed(S), \A x \in S : x.job \in Jobs /\ x.at \in 0 .. N
    PROVE  IsFiniteSet(S)
<1> DEFINE P == Jobs \X (0 .. N)
           f == [x \in S |-> <<x.job, x.at>>]
<1>1. IsFiniteSet(Jobs) /\ IsFiniteSet(0 .. N)
  BY SweepAssumption, FS_Interval
<1>2. IsFiniteSet(P)
  BY <1>1, FS_Product
<1>3. f \in [S -> P]
  OBVIOUS
<1>4. \A x, y \in S : f[x] = f[y] => x = y
  BY DEF Keyed
<1>5. f \in Injection(S, P)
  BY <1>3, <1>4 DEF Injection, IsInjective
<1> HIDE DEF P, f
<1> QED
  BY <1>2, <1>5, FS_Injection

-----------------------------------------------------------------------------
(* What a sweep keeps of one job's window.                                  *)

\* The job has an occurrence at instant t.
Occurs(j, t) == t % Period[j] = 0

(* The occurrences of a window, one by one.                                 *)
LEMMA DueIs ==
    ASSUME NEW j, NEW a \in Nat, NEW b \in Nat
    PROVE  \A t : t \in Due(j, a, b) <=> t \in Nat /\ a < t /\ t <= b /\ Occurs(j, t)
BY DEF Due, Occurs

(* The least element is one.                                                *)
LEMMA LeastIs ==
    ASSUME NEW S \in SUBSET Nat, S # {}
    PROVE  LeastOf(S) \in S /\ \A y \in S : LeastOf(S) <= y
<1>1. PICK m \in S : \A k \in S : m <= k
  BY LeastNatural
<1> QED
  BY <1>1 DEF LeastOf

(* The greatest element of a bounded set is one.                            *)
LEMMA GreatestIs ==
    ASSUME NEW b \in Nat, NEW S \in SUBSET (0 .. b), S # {}
    PROVE  GreatestOf(S) \in S /\ \A y \in S : y <= GreatestOf(S)
<1> DEFINE T == {n \in 0 .. b : b - n \in S}
<1>1. PICK x \in S : TRUE
  OBVIOUS
<1>2. b - x \in 0 .. b /\ b - (b - x) = x
  BY <1>1
<1>3. b - x \in T
  BY <1>2
<1>4. PICK m \in T : \A k \in T : m <= k
  <2>1. T \in SUBSET Nat /\ T # {}
    BY <1>3
  <2> HIDE DEF T
  <2> QED
    BY <2>1, LeastNatural
<1>5. ASSUME NEW y \in S PROVE y <= b - m
  <2>1. b - y \in 0 .. b /\ b - (b - y) = y
    OBVIOUS
  <2>2. b - y \in T
    BY <2>1
  <2>3. m <= b - y /\ m \in 0 .. b
    BY <1>4, <2>2
  <2> QED
    BY <2>3
<1>6. b - m \in S
  BY <1>4
<1> QED
  BY <1>5, <1>6 DEF GreatestOf

(* The first n elements of a window: a part of it that is closed            *)
(* downwards, not empty unless the window is, and all of a window of n.     *)
LEMMA FirstIs ==
    ASSUME NEW b \in Nat, NEW S \in SUBSET (0 .. b), NEW n \in Nat, n >= 1
    PROVE  /\ First(S, n) \subseteq S
           /\ \A x \in First(S, n) : \A y \in S : y < x => y \in First(S, n)
           /\ S # {} => First(S, n) # {}
           /\ ~ (Cardinality(S) > n) => First(S, n) = S
<1> DEFINE Below(x) == {y \in S : y < x}
<1>1. IsFiniteSet(0 .. b)
  BY FS_Interval
<1>2. IsFiniteSet(S) /\ Cardinality(S) \in Nat
  BY <1>1, FS_Subset, FS_CardinalityType
<1>3. ASSUME NEW x PROVE IsFiniteSet(Below(x)) /\ Cardinality(Below(x)) \in Nat
  <2>1. Below(x) \in SUBSET S
    OBVIOUS
  <2> HIDE DEF Below
  <2> QED
    BY <1>2, <2>1, FS_Subset, FS_CardinalityType
<1>4. First(S, n) = {x \in S : Cardinality(Below(x)) < n}
  BY DEF First
<1>5. ASSUME NEW x \in First(S, n), NEW y \in S, y < x PROVE y \in First(S, n)
  <2>1. x \in S /\ Cardinality(Below(x)) < n
    BY <1>4, <1>5
  <2>2. Below(y) \in SUBSET Below(x)
    <3> SUFFICES ASSUME NEW z \in S, z < y PROVE z < x
      OBVIOUS
    <3>1. x \in Nat /\ y \in Nat /\ z \in Nat
      BY <2>1
    <3> QED
      BY <1>5, <3>1
  <2>3. Cardinality(Below(y)) <= Cardinality(Below(x))
    <3> HIDE DEF Below
    <3> QED
      BY <1>3, <2>2, FS_Subset
  <2>4. Cardinality(Below(y)) < n
    <3> HIDE DEF Below
    <3> QED
      BY <1>3, <2>1, <2>3
  <2> QED
    BY <1>4, <2>4
<1>6. ASSUME S # {} PROVE First(S, n) # {}
  <2>1. PICK m \in S : \A y \in S : m <= y
    BY <1>6, LeastNatural
  <2>2. Below(m) = {}
    <3> SUFFICES ASSUME NEW z \in S, z < m PROVE FALSE
      OBVIOUS
    <3>1. m \in Nat /\ z \in Nat
      BY <2>1
    <3> QED
      BY <2>1, <3>1
  <2>3. Cardinality(Below(m)) = 0
    BY <2>2, FS_EmptySet
  <2>4. m \in First(S, n)
    BY <1>4, <2>1, <2>3
  <2> QED
    BY <2>4
<1>7. ASSUME ~ (Cardinality(S) > n), NEW x \in S PROVE x \in First(S, n)
  <2>1. Below(x) \in SUBSET S /\ x \in S /\ x \notin Below(x)
    OBVIOUS
  <2>2. Cardinality(Below(x)) < Cardinality(S)
    <3> HIDE DEF Below
    <3>1. Cardinality(Below(x)) <= Cardinality(S) /\ Cardinality(S) # Cardinality(Below(x))
      BY <1>2, <2>1, FS_Subset
    <3> QED
      BY <1>2, <1>3, <3>1
  <2>3. Cardinality(Below(x)) < n
    <3> HIDE DEF Below
    <3> QED
      BY <1>2, <1>3, <1>7, <2>2
  <2> QED
    BY <1>4, <2>3
<1> QED
  BY <1>4, <1>5, <1>6, <1>7

(* What a configuration holds.                                              *)
LEMMA ConfigIs ==
    ASSUME config \in Configs
    PROVE  /\ config.catch_up \in {"all", "latest", "none"}
           /\ config.cap \in Nat /\ config.cap >= 1
           /\ config.records \in Nat /\ config.resets \in Nat
BY SweepAssumption

(* A sweep takes at least one occurrence of each job.                       *)
LEMMA ChunkIs ==
    ASSUME config \in Configs, IsFiniteSet(runs)
    PROVE  chunk \in Nat /\ chunk >= 1
<1>1. payloads \in SUBSET runs
  BY DEF payloads
<1>2. IsFiniteSet(payloads)
  BY <1>1, FS_Subset
<1>3. Cardinality(payloads) \in Nat
  BY <1>2, FS_CardinalityType
<1>4. room \in Nat
  BY <1>3, ConfigIs DEF room
<1> QED
  BY <1>4 DEF chunk

\* What a sweep up to `now` keeps of the window of j, and where it moves the cursor.
WindowIsSplit(j, now) ==
    LET due == Due(j, cursor[j], now)
        to  == moved_cursor(j, now)
    IN  /\ Kept(j, now) \subseteq due
        /\ to \in Nat /\ cursor[j] <= to
        /\ to <= now \/ to = cursor[j]
        /\ ~ Beyond(j, now) => now <= to
        /\ config.catch_up = "all" => \A t : t \in Kept(j, now) <=> t \in Due(j, cursor[j], to)
        /\ config.catch_up # "all" =>
              /\ \A t : t \in due <=> t \in Due(j, cursor[j], to)
              /\ \A t \in due \ Kept(j, now) : \A u \in Kept(j, now) : t < u

(* Under `all`, what is kept is exactly what the cursor moves over; under   *)
(* the other policies the cursor moves over the whole window, and what is   *)
(* dropped is older than what is kept.                                      *)
LEMMA KeptIs ==
    ASSUME config \in Configs, IsFiniteSet(runs), cursor \in [Jobs -> Nat],
           NEW j \in Jobs, NEW now \in Nat
    PROVE  WindowIsSplit(j, now)
<1>1. PICK c : c = cursor[j]
  OBVIOUS
<1>2. c \in Nat
  BY <1>1
<1>3. PICK D : D = Due(j, c, now)
  OBVIOUS
<1>4. \A t : t \in D <=> t \in Nat /\ c < t /\ t <= now /\ Occurs(j, t)
  BY <1>2, <1>3, DueIs
<1>5. D \in SUBSET (0 .. now)
  BY <1>2, <1>4
<1>6. chunk \in Nat /\ chunk >= 1
  BY ChunkIs
<1>7. PICK K : K = Kept(j, now)
  OBVIOUS
<1>8. PICK to : to = moved_cursor(j, now)
  OBVIOUS
<1>9. ASSUME config.catch_up = "all" PROVE K = First(D, chunk)
  BY <1>1, <1>3, <1>7, <1>9 DEF Kept
<1>10. ASSUME config.catch_up = "latest" PROVE K = IF D = {} THEN {} ELSE {GreatestOf(D)}
  BY <1>1, <1>3, <1>7, <1>10 DEF Kept
<1>11. ASSUME config.catch_up = "none" PROVE K = {}
  BY <1>7, <1>11 DEF Kept
<1>12. Beyond(j, now) <=> config.catch_up = "all" /\ Cardinality(D) > chunk
  BY <1>1, <1>3 DEF Beyond
<1>13. to = IF Beyond(j, now) THEN GreatestOf(K) ELSE IF now > c THEN now ELSE c
  BY <1>1, <1>7, <1>8 DEF moved_cursor
<1>14. CASE ~ Beyond(j, now)
  <2>1. to \in Nat /\ c <= to /\ now <= to /\ (to <= now \/ to = c)
    BY <1>2, <1>13, <1>14
  <2>2. \A t : t \in Due(j, c, to) <=> t \in D
    <3>1. \A t : t \in Due(j, c, to) <=> t \in Nat /\ c < t /\ t <= to /\ Occurs(j, t)
      BY <1>2, <2>1, DueIs
    <3> QED
      BY <1>2, <1>4, <2>1, <3>1
  <2>3. CASE config.catch_up = "all"
    <3>1. ~ (Cardinality(D) > chunk)
      BY <1>12, <1>14, <2>3
    <3>2. K = D
      BY <1>5, <1>6, <1>9, <2>3, <3>1, FirstIs
    <3> QED
      BY <1>1, <1>3, <1>7, <1>8, <2>1, <2>2, <2>3, <3>2 DEF WindowIsSplit
  <2>4. CASE config.catch_up = "latest"
    <3>1. CASE D = {}
      <4>1. K = {}
        BY <1>10, <2>4, <3>1
      <4> QED
        BY <1>1, <1>3, <1>7, <1>8, <2>1, <2>2, <2>4, <3>1, <4>1 DEF WindowIsSplit
    <3>2. CASE D # {}
      <4>1. PICK g : g = GreatestOf(D)
        OBVIOUS
      <4>2. K = {g} /\ g \in D /\ \A y \in D : y <= g
        BY <1>5, <1>10, <2>4, <3>2, <4>1, GreatestIs
      <4>3. \A t \in D \ K : \A u \in K : t < u
        BY <1>5, <4>2
      <4> QED
        BY <1>1, <1>3, <1>7, <1>8, <2>1, <2>2, <2>4, <4>2, <4>3 DEF WindowIsSplit
    <3> QED
      BY <3>1, <3>2
  <2>5. CASE config.catch_up = "none"
    <3>1. K = {}
      BY <1>11, <2>5
    <3> QED
      BY <1>1, <1>3, <1>7, <1>8, <2>1, <2>2, <2>5, <3>1 DEF WindowIsSplit
  <2> QED
    BY <2>3, <2>4, <2>5, ConfigIs
<1>15. CASE Beyond(j, now)
  <2>1. config.catch_up = "all" /\ Cardinality(D) > chunk
    BY <1>12, <1>15
  <2>2. D # {}
    BY <1>6, <2>1, FS_EmptySet
  <2>3. /\ K \subseteq D /\ K # {}
        /\ \A x \in K : \A y \in D : y < x => y \in K
    BY <1>5, <1>6, <1>9, <2>1, <2>2, FirstIs
  <2>4. to \in K /\ \A y \in K : y <= to
    <3>1. K \in SUBSET (0 .. now)
      BY <1>5, <2>3
    <3> QED
      BY <1>13, <1>15, <2>3, <3>1, GreatestIs
  <2>5. to \in Nat /\ c < to /\ to <= now
    BY <1>4, <2>3, <2>4
  <2>6. \A t : t \in Due(j, c, to) <=> t \in Nat /\ c < t /\ t <= to /\ Occurs(j, t)
    BY <1>2, <2>5, DueIs
  <2>7. \A t : t \in K <=> t \in Due(j, c, to)
    <3>1. ASSUME NEW t \in K PROVE t \in Due(j, c, to)
      BY <1>4, <2>3, <2>4, <2>6
    <3>2. ASSUME NEW t \in Due(j, c, to) PROVE t \in K
      <4>1. t \in Nat /\ c < t /\ t <= to /\ Occurs(j, t)
        BY <2>6
      <4>2. t \in D
        BY <1>4, <2>5, <4>1
      <4>3. t = to \/ t < to
        BY <2>5, <4>1
      <4> QED
        BY <2>3, <2>4, <4>2, <4>3
    <3> QED
      BY <3>1, <3>2
  <2> QED
    BY <1>1, <1>2, <1>3, <1>7, <1>8, <1>15, <2>1, <2>3, <2>5, <2>7 DEF WindowIsSplit
<1> QED
  BY <1>14, <1>15

-----------------------------------------------------------------------------
(* The shape of the state.                                                  *)

Instant == 0 .. MaxClock
Occurrence == [job : Jobs, at : 1 .. MaxClock]
Decision == [job : Jobs, at : 1 .. MaxClock, what : {"run", "skipped", "dropped"}]
By == {"sweep", "manual"}
RunType == [job : Jobs, at : Instant, by : By, phase : Phases, attempt : Nat, due : Nat]
PublicationType == [job : Jobs, at : Instant, by : By, epoch : Nat]
SweeperType == [stage : Stages, now : Instant, todo : Seq(Occurrence), executing : SUBSET Jobs,
                epoch : Nat]

\* Every variable has its type, and the cursors and the sweep are not ahead of the clock.
ShapeInv ==
    /\ config \in Configs
    /\ clock \in Instant /\ epoch \in Nat /\ epoch <= config.resets
    /\ cursor \in [Jobs -> Instant] /\ origin \in [Jobs -> Instant]
    /\ \A j \in Jobs : cursor[j] <= clock
    /\ IsFiniteSet(runs) /\ runs \subseteq RunType
    /\ IsFiniteSet(publications) /\ publications \subseteq PublicationType
    /\ refused \subseteq PublicationType
    /\ \A p \in publications \cup refused : p.epoch <= epoch
    /\ reserved \in Nat
    /\ catch_up_pending \in BOOLEAN /\ schedule_recheck_pending \in BOOLEAN
    /\ shutting_down \in BOOLEAN /\ rerun \in BOOLEAN
    /\ sweeper \in SweeperType /\ sweeper.now <= clock
    /\ \A i \in DOMAIN sweeper.todo : sweeper.todo[i].at <= sweeper.now
    /\ fate \in Seq(Decision)

\* The attempt x is of the same run as r.
Follows(r, x) == x.job = r.job /\ x.at = r.at /\ x.by = r.by

\* An attempt goes on, or its slot is released.
AttemptGoesOn(r) == \/ Dispatch(r) \/ Return(r) \/ Settle(r) \/ SettleRetry(r) \/ CheckMoreDue(r)
                    \/ SweepReleases(r)
RunSteps == \E r \in runs : AttemptGoesOn(r) \/ Release(r)

\* What becomes of r: one attempt, or two of which only the second has a payload.
Becoming(r, x, y) ==
    /\ x \in RunType /\ y \in RunType /\ Follows(r, x) /\ Follows(r, y)
    /\ runs' = (runs \ {r}) \cup {x, y}
    /\ x = y \/ ~ HasPayload(x)
    /\ HasPayload(y) => HasPayload(r)

(* The instants and the jobs are naturals.                                  *)
LEMMA InstantIs == MaxClock \in Nat /\ Instant \subseteq Nat /\ 0 \in Instant /\ Jobs \subseteq Nat
BY SweepAssumption DEF Instant

(* Jobs and instants are naturals, one by one.                              *)
LEMMA KeysAreNatural == (\A j \in Jobs : j \in Nat) /\ (\A t \in 0 .. MaxClock : t \in Nat)
BY InstantIs

(* A run that enters a phase stays the same run.                            *)
LEMMA EnteredRun ==
    ASSUME NEW r \in RunType, NEW phase \in Phases, NEW due \in Nat
    PROVE  /\ [r EXCEPT !.phase = phase, !.due = due] \in RunType
           /\ Follows(r, [r EXCEPT !.phase = phase, !.due = due])
           /\ [r EXCEPT !.phase = phase, !.due = due].phase = phase
<1> HIDE DEF Phases, Instant, By
<1> QED
  BY DEF RunType, Follows

(* So does one that waits for its next attempt.                             *)
LEMMA RetriedRun ==
    ASSUME NEW r \in RunType
    PROVE  Again(r) \in RunType /\ Follows(r, Again(r))
<1>1. "waiting" \in Phases
  BY DEF Phases
<1>2. r.due \in Nat /\ Backoff \in Nat
  BY SweepAssumption DEF RunType
<1>3. PICK d, a : d = r.due + Backoff /\ a = r.attempt + 1
  OBVIOUS
<1>4. d \in Nat /\ a \in Nat
  BY <1>2, <1>3 DEF RunType
<1>5. Again(r) = [r EXCEPT !.phase = "waiting", !.attempt = a, !.due = d]
  BY <1>3 DEF Again
<1> HIDE DEF Phases, Instant, By
<1> QED
  BY <1>1, <1>4, <1>5 DEF RunType, Follows

(* A new publication, and the run it becomes.                               *)
LEMMA EnteredPublication ==
    ASSUME NEW j \in Jobs, NEW t \in Instant, NEW by \in By, epoch \in Nat
    PROVE  /\ Run(j, t, by) \in PublicationType
           /\ Run(j, t, by).job = j /\ Run(j, t, by).epoch = epoch
BY DEF Run, PublicationType

(* The run that a published message becomes.                                *)
LEMMA QueuedRun ==
    ASSUME NEW p \in PublicationType
    PROVE  Queued(p) \in RunType /\ Queued(p).job = p.job
BY DEF Queued, PublicationType, RunType, Phases

(* The sweep before it has collected.                                       *)
LEMMA IdleIs ==
    /\ Idle \in SweeperType /\ Idle.stage = "idle" /\ Idle.now = 0 /\ Idle.todo = <<>>
    /\ \A n \in Instant :
          LET w == [Idle EXCEPT !.stage = "started", !.now = n]
          IN  w \in SweeperType /\ w.stage = "started" /\ w.now = n /\ w.todo = <<>>
<1>1. Idle \in SweeperType
  BY InstantIs DEF Idle, SweeperType, Stages
<1>2. "started" \in Stages
  BY DEF Stages
<1> QED
  BY <1>1, <1>2 DEF Idle, SweeperType

\* The sweep v is w gone on to stage s with the list T, in epoch e.
Becomes(w, v, s, T, e) ==
    v \in SweeperType /\ v.stage = s /\ v.todo = T /\ v.now = w.now /\ v.epoch = e

(* The sweep when it takes the mutex.                                       *)
LEMMA CollectedSweeper ==
    ASSUME NEW w \in SweeperType, NEW T \in Seq(Occurrence), NEW e \in Nat, NEW X \in SUBSET Jobs
    PROVE  Becomes(w, [w EXCEPT !.stage = "admitting", !.todo = T, !.epoch = e, !.executing = X],
                   "admitting", T, e)
<1> DEFINE Q == Seq(Occurrence)
           J == SUBSET Jobs
<1>1. "admitting" \in Stages
  BY DEF Stages
<1>2. SweeperType = [stage : Stages, now : Instant, todo : Q, executing : J, epoch : Nat]
  BY DEF SweeperType
<1>3. T \in Q /\ X \in J
  OBVIOUS
<1> HIDE DEF Q, J, Stages, Instant
<1> QED
  BY <1>1, <1>2, <1>3 DEF Becomes

(* The sweep when it leaves the mutex, or takes the next run.               *)
LEMMA SteppedSweeper ==
    ASSUME NEW w \in SweeperType, NEW T \in Seq(Occurrence), NEW s \in Stages
    PROVE  /\ Becomes(w, [w EXCEPT !.todo = T], w.stage, T, w.epoch)
           /\ Becomes(w, [w EXCEPT !.stage = s], s, w.todo, w.epoch)
           /\ Becomes(w, [w EXCEPT !.todo = T, !.stage = s], s, T, w.epoch)
<1> DEFINE Q == Seq(Occurrence)
           J == SUBSET Jobs
<1>1. SweeperType = [stage : Stages, now : Instant, todo : Q, executing : J, epoch : Nat]
  BY DEF SweeperType
<1>2. T \in Q
  OBVIOUS
<1> HIDE DEF Q, J, Stages, Instant
<1> QED
  BY <1>1, <1>2 DEF Becomes

-----------------------------------------------------------------------------
(* What a sweep lists and what it records.                                  *)

\* The jobs a sweep looks at.
Swept == IF backlog_held THEN {} ELSE Jobs

\* What SweepCollect lists, and what it drops.
KeptRuns(now) == UNION {{[job |-> j, at |-> t] : t \in Kept(j, now)} : j \in Swept}
DroppedRuns(now) ==
    IF config.catch_up = "all" THEN {}
    ELSE UNION {{[job |-> j, at |-> t] : t \in Due(j, cursor[j], now) \ Kept(j, now)} : j \in Swept}

(* The collecting step, with its lists named.                               *)
LEMMA CollectIs ==
    ASSUME SweepCollect
    PROVE  /\ sweeper.stage = "started" /\ ~ shutting_down
           /\ sweeper' = [sweeper EXCEPT !.stage = "admitting", !.todo = Sorted(KeptRuns(sweeper.now)),
                                         !.epoch = epoch,
                                         !.executing = {r.job : r \in {s \in runs : HasSlot(s)}}]
           /\ cursor' = [j \in Jobs |-> IF j \in Swept THEN moved_cursor(j, sweeper.now) ELSE cursor[j]]
           /\ catch_up_pending' = IF backlog_held THEN catch_up_pending ELSE left_due(sweeper.now)
           /\ fate' = Fated(DroppedRuns(sweeper.now), "dropped")
           /\ UNCHANGED <<config, runs, reserved, schedule_recheck_pending, epoch, shutting_down,
                          publications, refused, rerun, clock, moves, manuals, others, origin>>
BY DEF SweepCollect, Swept, KeptRuns, DroppedRuns, environment

(* Occurrences are told apart by job and instant, and they are finitely     *)
(* many.                                                                    *)
LEMMA OccurrencesAreItems ==
    ASSUME NEW S \in SUBSET Occurrence
    PROVE  Keyed(S) /\ IsFiniteSet(S)
<1>1. Keyed(S)
  <2>1. ASSUME NEW x \in S PROVE x.job \in Nat /\ x.at \in Nat /\ x = [job |-> x.job, at |-> x.at]
    <3>1. x \in Occurrence
      OBVIOUS
    <3>2. x.job \in Jobs /\ x.at \in 1 .. MaxClock /\ x = [job |-> x.job, at |-> x.at]
      BY <3>1 DEF Occurrence
    <3> QED
      BY <3>2, InstantIs
  <2> QED
    BY <2>1 DEF Keyed
<1>2. \A x \in S : x.job \in Jobs /\ x.at \in 0 .. MaxClock
  BY InstantIs DEF Occurrence
<1> QED
  BY <1>1, <1>2, InstantIs, ItemsAreFinite

(* A window lies between the cursor and the sweep's instant.                *)
LEMMA WindowIs ==
    ASSUME ShapeInv, NEW j \in Jobs
    PROVE  /\ WindowIsSplit(j, sweeper.now)
           /\ Kept(j, sweeper.now) \subseteq Due(j, cursor[j], sweeper.now)
           /\ \A t \in Due(j, cursor[j], sweeper.now) : t \in 1 .. MaxClock /\ t <= sweeper.now
<1>1. sweeper.now \in Nat /\ sweeper.now <= MaxClock /\ cursor \in [Jobs -> Nat]
  BY InstantIs DEF ShapeInv, SweeperType, Instant
<1>2. WindowIsSplit(j, sweeper.now)
  BY <1>1, KeptIs DEF ShapeInv
<1>3. \A t : t \in Due(j, cursor[j], sweeper.now) =>
                t \in Nat /\ cursor[j] < t /\ t <= sweeper.now
  BY <1>1, DueIs
<1> QED
  BY <1>1, <1>2, <1>3, InstantIs DEF WindowIsSplit

(* What is kept and what is dropped are occurrences up to the sweep's       *)
(* instant.                                                                 *)
LEMMA CollectedAreOccurrences ==
    ASSUME ShapeInv
    PROVE  /\ KeptRuns(sweeper.now) \in SUBSET Occurrence
           /\ DroppedRuns(sweeper.now) \in SUBSET Occurrence
           /\ \A x \in KeptRuns(sweeper.now) : x.at <= sweeper.now
<1>1. Swept \subseteq Jobs
  BY DEF Swept
<1>2. ASSUME NEW x \in KeptRuns(sweeper.now) PROVE x \in Occurrence /\ x.at <= sweeper.now
  <2>0. PICK j \in Swept : \E t \in Kept(j, sweeper.now) : x = [job |-> j, at |-> t]
    BY <1>2 DEF KeptRuns
  <2>1. PICK t \in Kept(j, sweeper.now) : x = [job |-> j, at |-> t]
    BY <2>0
  <2>2. t \in 1 .. MaxClock /\ t <= sweeper.now
    BY <1>1, <2>1, WindowIs
  <2> QED
    BY <1>1, <2>1, <2>2 DEF Occurrence
<1>3. ASSUME NEW x \in DroppedRuns(sweeper.now) PROVE x \in Occurrence
  <2>0. PICK j \in Swept : \E t \in Due(j, cursor[j], sweeper.now) : x = [job |-> j, at |-> t]
    BY <1>3 DEF DroppedRuns
  <2>1. PICK t \in Due(j, cursor[j], sweeper.now) : x = [job |-> j, at |-> t]
    BY <2>0
  <2>2. t \in 1 .. MaxClock
    BY <1>1, <2>1, WindowIs
  <2> QED
    BY <1>1, <2>1, <2>2 DEF Occurrence
<1> QED
  BY <1>2, <1>3

(* The list of a set of occurrences is a sequence of all of them.           *)
LEMMA SortedOccurrences ==
    ASSUME NEW S \in SUBSET Occurrence
    PROVE  /\ Sorted(S) \in Seq(Occurrence) /\ Sorted(S) \in Seq(S)
           /\ \A i, k \in DOMAIN Sorted(S) : i < k => Before(Sorted(S)[i], Sorted(S)[k])
           /\ \A i \in DOMAIN Sorted(S) : Sorted(S)[i] \in S
           /\ \A x \in S : \E i \in DOMAIN Sorted(S) : Sorted(S)[i] = x
<1>1. Keyed(S) /\ IsFiniteSet(S)
  BY OccurrencesAreItems
<1>2. PICK N : N = Cardinality(S)
  OBVIOUS
<1>3. N \in Nat
  BY <1>1, <1>2, FS_CardinalityType
<1>4. PICK q : q = Sorted(S)
  OBVIOUS
<1>5. /\ q \in [1 .. N -> S]
      /\ \A i, k \in 1 .. N : i < k => Before(q[i], q[k])
      /\ \A x \in S : \E i \in 1 .. N : q[i] = x
  BY <1>1, <1>2, <1>4, SortedLists
<1>6. DOMAIN q = 1 .. N /\ \A i \in 1 .. N : q[i] \in S
  BY <1>5
<1>7. q \in Seq(S)
  BY <1>3, <1>5
<1>8. q \in Seq(Occurrence)
  BY <1>3, <1>5
<1> QED
  BY <1>4, <1>5, <1>6, <1>7, <1>8

\* g is `fate` with a decision about each occurrence of S added.
Records(g, S, what) ==
    /\ g \in Seq(Decision)
    /\ Len(fate) <= Len(g)
    /\ \A i \in 1 .. Len(fate) : g[i] = fate[i]
    /\ \A i \in 1 .. Len(g) : i > Len(fate) =>
          g[i].what = what /\ \E x \in S : x.job = g[i].job /\ x.at = g[i].at
    /\ \A x \in S : \E i \in 1 .. Len(g) : i > Len(fate) /\ x.job = g[i].job /\ x.at = g[i].at
    /\ \A i, k \in 1 .. Len(g) :
          i > Len(fate) /\ k > Len(fate) /\ g[i].job = g[k].job /\ g[i].at = g[k].at => i = k

(* The history gets each decision once.                                     *)
LEMMA FatedRecords ==
    ASSUME fate \in Seq(Decision), NEW S \in SUBSET Occurrence,
           NEW what \in {"run", "skipped", "dropped"}
    PROVE  Records(Fated(S, what), S, what)
<1> DEFINE D == {[job |-> x.job, at |-> x.at, what |-> what] : x \in S}
<1>1. \A d \in D : /\ d \in Decision /\ d.what = what /\ d.job \in Jobs /\ d.at \in 0 .. MaxClock
                   /\ \E x \in S : x.job = d.job /\ x.at = d.at
  BY InstantIs DEF Occurrence, Decision
<1>2. ASSUME NEW x \in S PROVE \E d \in D : d.job = x.job /\ d.at = x.at
  <2>1. [job |-> x.job, at |-> x.at, what |-> what] \in D
    OBVIOUS
  <2> QED
    BY <2>1
<1>3. \A d, e \in D : d.job = e.job /\ d.at = e.at => d = e
  OBVIOUS
<1>4. Fated(S, what) = fate \o Sorted(D)
  BY DEF Fated
<1> HIDE DEF D
<1>5. Keyed(D)
  <2>1. ASSUME NEW d \in D PROVE d.job \in Nat /\ d.at \in Nat
    <3>1. d.job \in Jobs /\ d.at \in 0 .. MaxClock
      BY <1>1
    <3> QED
      BY <3>1, KeysAreNatural
  <2> QED
    BY <1>3, <2>1 DEF Keyed
<1>6. IsFiniteSet(D)
  BY <1>1, <1>5, InstantIs, ItemsAreFinite
<1>7. PICK N : N = Cardinality(D)
  OBVIOUS
<1>8. N \in Nat
  BY <1>6, <1>7, FS_CardinalityType
<1>9. PICK q : q = Sorted(D)
  OBVIOUS
<1>10. /\ q \in [1 .. N -> D]
       /\ \A i, k \in 1 .. N : i < k => Before(q[i], q[k])
       /\ \A d \in D : \E i \in 1 .. N : q[i] = d
  BY <1>5, <1>6, <1>7, <1>9, SortedLists
<1>11. q \in Seq(Decision) /\ Len(q) = N
  BY <1>1, <1>8, <1>10
<1>12. PICK g : g = fate \o q
  OBVIOUS
<1>13. PICK L : L = Len(fate)
  OBVIOUS
<1>14. /\ L \in Nat /\ g \in Seq(Decision) /\ Len(g) = L + N
       /\ \A i \in 1 .. L : g[i] = fate[i]
       /\ \A i \in 1 .. (L + N) : i > L => g[i] = q[i - L]
  <2>1. fate \in Seq(Decision) /\ q \in Seq(Decision) /\ Len(q) = N
    BY <1>11
  <2>2. L \in Nat
    BY <1>13, <2>1
  <2>3. g \in Seq(Decision) /\ Len(g) = L + N
    <3>1. fate \o q \in Seq(Decision)
      BY <2>1
    <3>2. Len(fate \o q) = Len(fate) + Len(q)
      BY <2>1
    <3> QED
      BY <1>12, <1>13, <2>1, <3>1, <3>2
  <2>4. \A i \in 1 .. L : g[i] = fate[i]
    BY <1>12, <1>13, <2>1
  <2>5. \A i \in 1 .. (L + N) : i > L => g[i] = q[i - L]
    BY <1>12, <1>13, <2>1
  <2> QED
    BY <2>2, <2>3, <2>4, <2>5
<1>15. ASSUME NEW i \in 1 .. (L + N), i > L
       PROVE  i - L \in 1 .. N /\ g[i] = q[i - L] /\ g[i] \in D
  <2>1. i - L \in 1 .. N
    BY <1>8, <1>14, <1>15
  <2> QED
    BY <1>10, <1>14, <1>15, <2>1
<1>16. ASSUME NEW x \in S
       PROVE  \E i \in 1 .. (L + N) : i > L /\ x.job = g[i].job /\ x.at = g[i].at
  <2>1. PICK d \in D : d.job = x.job /\ d.at = x.at
    BY <1>2
  <2>2. PICK k \in 1 .. N : q[k] = d
    BY <1>10
  <2>3. L + k \in 1 .. (L + N) /\ L + k > L /\ (L + k) - L = k
    BY <1>8, <1>14
  <2>4. g[L + k] = d
    BY <1>14, <2>2, <2>3
  <2> QED
    BY <2>1, <2>3, <2>4
<1>17. ASSUME NEW i \in 1 .. (L + N), NEW k \in 1 .. (L + N), i > L, k > L,
              g[i].job = g[k].job, g[i].at = g[k].at
       PROVE  i = k
  <2>1. /\ i - L \in 1 .. N /\ g[i] = q[i - L] /\ g[i] \in D
        /\ k - L \in 1 .. N /\ g[k] = q[k - L] /\ g[k] \in D
    BY <1>15, <1>17
  <2>2. g[i] = g[k]
    BY <1>3, <1>17, <2>1
  <2>3. ~ Before(g[i], g[i])
    BY <1>5, <2>1 DEF Keyed, Before
  <2>4. ~ (i - L < k - L) /\ ~ (k - L < i - L)
    BY <1>10, <2>1, <2>2, <2>3
  <2> QED
    BY <1>8, <1>14, <2>4
<1>18. Records(g, S, what)
  <2>1. ASSUME NEW i \in 1 .. (L + N), i > L
        PROVE  g[i].what = what /\ \E x \in S : x.job = g[i].job /\ x.at = g[i].at
    BY <1>1, <1>15, <2>1
  <2>2. L <= Len(g)
    BY <1>8, <1>14
  <2> QED
    BY <1>13, <1>14, <1>16, <1>17, <2>1, <2>2 DEF Records
<1> QED
  BY <1>4, <1>9, <1>12, <1>18

-----------------------------------------------------------------------------
(* The shape is kept.                                                       *)

(* The empty history.                                                       *)
LEMMA EmptyIs == <<>> \in Seq(Decision) /\ DOMAIN <<>> = {} /\ Len(<<>>) = 0
OBVIOUS

(* The first state has it.                                                  *)
LEMMA ShapeInit ==
    ASSUME Init
    PROVE  ShapeInv
<1>1. IsFiniteSet({})
  BY FS_EmptySet
<1>2. clock = 0 /\ epoch = 0 /\ reserved = 0 /\ runs = {} /\ publications = {} /\ refused = {}
  BY DEF Init
<1>3. config \in Configs /\ fate = <<>> /\ sweeper = Idle
  BY DEF Init
<1>4. cursor = [j \in Jobs |-> 0] /\ origin = [j \in Jobs |-> 0]
  BY DEF Init
<1>5. /\ catch_up_pending \in BOOLEAN /\ schedule_recheck_pending \in BOOLEAN
      /\ shutting_down \in BOOLEAN /\ rerun \in BOOLEAN
  BY DEF Init
<1>6. config.resets \in Nat
  BY <1>3, ConfigIs
<1>7. DOMAIN sweeper.todo = {} /\ sweeper.now <= 0
  <2>1. sweeper.todo = <<>> /\ sweeper.now = 0
    BY <1>3, IdleIs
  <2> QED
    BY <2>1, EmptyIs
<1>8. fate \in Seq(Decision)
  BY <1>3, EmptyIs
<1>9. sweeper \in SweeperType
  BY <1>3, IdleIs
<1>10. /\ cursor \in [Jobs -> Instant] /\ origin \in [Jobs -> Instant]
       /\ \A j \in Jobs : cursor[j] <= 0
  BY <1>4, InstantIs
<1>11. /\ clock \in Instant /\ epoch \in Nat /\ epoch <= config.resets /\ reserved \in Nat
       /\ sweeper.now <= clock /\ \A j \in Jobs : cursor[j] <= clock
  BY <1>2, <1>6, <1>7, <1>10, InstantIs
<1>12. /\ IsFiniteSet(runs) /\ runs \subseteq RunType
       /\ IsFiniteSet(publications) /\ publications \subseteq PublicationType
       /\ refused \subseteq PublicationType /\ \A p \in publications \cup refused : p.epoch <= epoch
  BY <1>1, <1>2
<1>13. \A i \in DOMAIN sweeper.todo : sweeper.todo[i].at <= sweeper.now
  BY <1>7
<1> QED
  BY <1>3, <1>5, <1>8, <1>9, <1>10, <1>11, <1>12, <1>13 DEF ShapeInv

(* What the steps of the runs leave alone.                                  *)
LEMMA RunStepsLeave ==
    ASSUME RunSteps
    PROVE  /\ UNCHANGED <<config, cursor, reserved, catch_up_pending, schedule_recheck_pending, epoch,
                          shutting_down, publications, refused, sweeper, clock, origin, fate>>
           /\ rerun' = rerun \/ rerun' = (rerun \/ more_due)
BY DEF RunSteps, AttemptGoesOn, Dispatch, Return, Settle, SettleRetry, CheckMoreDue, SweepReleases,
       Release, environment, history

(* Handlers and the sweep's releases are such steps.                        *)
LEMMA TheyAreRunSteps ==
    /\ Handlers => RunSteps
    /\ (\E r \in runs : SweepReleases(r)) => RunSteps
BY DEF Handlers, RunSteps, AttemptGoesOn

(* Where an attempt goes on to.                                             *)
LEMMA AttemptBecomes ==
    ASSUME ShapeInv, NEW r \in runs, AttemptGoesOn(r)
    PROVE  \E x, y : Becoming(r, x, y)
<1>1. r \in RunType /\ clock \in Nat /\ 0 \in Nat
  BY InstantIs DEF ShapeInv
<1>2. ASSUME NEW phase \in Phases, NEW due \in Nat, EnterPhase(r, phase, due),
             HasPayload(r) \/ phase \in {"checking", "late"}
      PROVE  \E x, y : Becoming(r, x, y)
  <2>1. PICK x : x = [r EXCEPT !.phase = phase, !.due = due]
    OBVIOUS
  <2>2. x \in RunType /\ Follows(r, x) /\ x.phase = phase
    BY <1>1, <2>1, EnteredRun
  <2>3. runs' = (runs \ {r}) \cup {x, x}
    BY <1>2, <2>1 DEF EnterPhase
  <2>4. HasPayload(x) => HasPayload(r)
    BY <1>2, <2>2 DEF HasPayload
  <2> QED
    BY <2>2, <2>3, <2>4 DEF Becoming
<1>3. CASE SettleRetry(r)
  <2>1. PICK x : x = [r EXCEPT !.phase = "checking", !.due = 0]
    OBVIOUS
  <2>2. "checking" \in Phases
    BY DEF Phases
  <2>3. x \in RunType /\ Follows(r, x) /\ x.phase = "checking"
    BY <1>1, <2>1, <2>2, EnteredRun
  <2>4. Again(r) \in RunType /\ Follows(r, Again(r))
    BY <1>1, RetriedRun
  <2>5. runs' = (runs \ {r}) \cup {x, Again(r)} /\ HasPayload(r) /\ ~ HasPayload(x)
    BY <1>3, <2>1, <2>3 DEF SettleRetry, HasPayload
  <2> QED
    BY <2>3, <2>4, <2>5 DEF Becoming
<1>4. CASE Dispatch(r)
  BY <1>1, <1>2, <1>4 DEF Dispatch, HasPayload, Phases
<1>5. CASE Return(r)
  BY <1>1, <1>2, <1>5 DEF Return, HasPayload, Phases
<1>6. CASE Settle(r)
  BY <1>1, <1>2, <1>6 DEF Settle, HasPayload, Phases
<1>7. CASE CheckMoreDue(r)
  BY <1>1, <1>2, <1>7 DEF CheckMoreDue, Phases
<1>8. CASE SweepReleases(r)
  BY <1>1, <1>2, <1>8 DEF SweepReleases, RetryDue, HasPayload, Phases
<1> QED
  BY <1>3, <1>4, <1>5, <1>6, <1>7, <1>8 DEF AttemptGoesOn

(* A step of a run.                                                         *)
LEMMA ShapeRunSteps ==
    ASSUME ShapeInv, RunSteps
    PROVE  ShapeInv'
<1>1. PICK r \in runs : AttemptGoesOn(r) \/ Release(r)
  BY DEF RunSteps
<1>2. IsFiniteSet(runs) /\ runs \subseteq RunType /\ IsFiniteSet(runs \ {r})
  BY FS_RemoveElement DEF ShapeInv
<1>3. IsFiniteSet(runs') /\ runs' \subseteq RunType
  <2>1. CASE AttemptGoesOn(r)
    <3>1. PICK x, y : Becoming(r, x, y)
      BY <2>1, AttemptBecomes
    <3>2. IsFiniteSet((runs \ {r}) \cup {x})
      BY <1>2, FS_AddElement
    <3>3. IsFiniteSet(((runs \ {r}) \cup {x}) \cup {y})
      BY <3>2, FS_AddElement
    <3>4. runs' = ((runs \ {r}) \cup {x}) \cup {y} /\ x \in RunType /\ y \in RunType
      BY <3>1 DEF Becoming
    <3> QED
      BY <1>2, <3>3, <3>4
  <2>2. CASE Release(r)
    BY <1>2, <2>2 DEF Release
  <2> QED
    BY <1>1, <2>1, <2>2
<1>4. rerun' \in BOOLEAN
  BY RunStepsLeave DEF ShapeInv, more_due
<1> QED
  BY <1>3, <1>4, RunStepsLeave DEF ShapeInv

(* A clock change.                                                          *)
LEMMA ShapeSetClock ==
    ASSUME ShapeInv, NEW t \in 0 .. MaxClock, SetClock(t)
    PROVE  ShapeInv'
<1>1. clock' = t /\ clock' \in Instant /\ clock < clock' /\ clock \in Nat /\ clock' \in Nat
  BY InstantIs DEF ShapeInv, SetClock, Instant
<1>2. UNCHANGED <<config, cursor, runs, reserved, catch_up_pending, schedule_recheck_pending, epoch,
                  shutting_down, publications, refused, sweeper, origin, fate>>
  BY DEF SetClock, inner, history
<1>3. rerun' \in BOOLEAN
  BY DEF SetClock, Request
<1>4. \A j \in Jobs : cursor[j] <= clock'
  <2>1. \A j \in Jobs : cursor[j] \in Nat /\ cursor[j] <= clock
    BY InstantIs DEF ShapeInv
  <2> QED
    BY <1>1, <2>1
<1>5. sweeper.now <= clock'
  <2>1. sweeper.now \in Nat /\ sweeper.now <= clock
    BY InstantIs DEF ShapeInv, SweeperType
  <2> QED
    BY <1>1, <2>1
<1> QED
  BY <1>1, <1>2, <1>3, <1>4, <1>5 DEF ShapeInv

(* A run enters, queued or to be published.                                 *)
LEMMA EnterShape ==
    ASSUME ShapeInv, NEW j \in Jobs, NEW t \in Instant, NEW by \in By, Enter(j, t, by)
    PROVE  /\ IsFiniteSet(runs') /\ runs' \subseteq RunType
           /\ IsFiniteSet(publications') /\ publications' \subseteq PublicationType
           /\ \A p \in publications' : p.epoch <= epoch
           /\ reserved' \in Nat
<1>1. /\ IsFiniteSet(runs) /\ runs \subseteq RunType /\ IsFiniteSet(publications)
      /\ publications \subseteq PublicationType /\ reserved \in Nat /\ epoch \in Nat
      /\ \A p \in publications : p.epoch <= epoch
  BY DEF ShapeInv
<1>2. PICK p : p = Run(j, t, by)
  OBVIOUS
<1>3. p \in PublicationType /\ p.job = j /\ p.epoch = epoch
  BY <1>1, <1>2, EnteredPublication
<1>4. PICK q : q = Queued(p)
  OBVIOUS
<1>5. q \in RunType
  BY <1>3, <1>4, QueuedRun
<1>6. \/ reserved' = reserved + 1 /\ publications' = publications \cup {p} /\ runs' = runs
      \/ runs' = runs \cup {q} /\ reserved' = reserved /\ publications' = publications
  BY <1>2, <1>4 DEF Enter
<1>7. IsFiniteSet(publications \cup {p}) /\ IsFiniteSet(runs \cup {q})
  BY <1>1, FS_AddElement
<1>8. CASE reserved' = reserved + 1 /\ publications' = publications \cup {p} /\ runs' = runs
  <2>1. reserved + 1 \in Nat /\ epoch <= epoch
    BY <1>1
  <2>2. \A x \in publications \cup {p} : x \in PublicationType /\ x.epoch <= epoch
    BY <1>1, <1>3, <2>1
  <2> QED
    BY <1>1, <1>7, <1>8, <2>1, <2>2
<1>9. CASE runs' = runs \cup {q} /\ reserved' = reserved /\ publications' = publications
  BY <1>1, <1>5, <1>7, <1>9
<1> QED
  BY <1>6, <1>8, <1>9

(* A manual run, and another source.                                        *)
LEMMA ShapeOthers ==
    ASSUME ShapeInv, (\E j \in Jobs : run_schedule(j)) \/ OtherReserves \/ OtherCancels
    PROVE  ShapeInv'
<1>1. CASE \E j \in Jobs : run_schedule(j)
  <2>1. PICK j \in Jobs : run_schedule(j)
    BY <1>1
  <2>2. clock \in Instant /\ "manual" \in By /\ Enter(j, clock, "manual")
    BY <2>1 DEF ShapeInv, run_schedule, By
  <2>3. UNCHANGED <<config, cursor, catch_up_pending, schedule_recheck_pending, epoch,
                    shutting_down, refused, sweeper, rerun, clock, origin, fate>>
    BY <2>1 DEF run_schedule, history
  <2>4. /\ IsFiniteSet(runs') /\ runs' \subseteq RunType
        /\ IsFiniteSet(publications') /\ publications' \subseteq PublicationType
        /\ \A p \in publications' : p.epoch <= epoch
        /\ reserved' \in Nat
    BY <2>2, EnterShape
  <2> QED
    BY <2>3, <2>4 DEF ShapeInv
<1>2. CASE OtherReserves
  <2>1. reserved' \in Nat
    BY <1>2 DEF ShapeInv, OtherReserves
  <2> QED
    BY <1>2, <2>1 DEF ShapeInv, OtherReserves, history
<1>3. CASE OtherCancels
  <2>1. {p \in publications : p.epoch = epoch} \in SUBSET publications /\ IsFiniteSet(publications)
    BY DEF ShapeInv
  <2>2. Charged \in Nat
    BY <2>1, FS_Subset, FS_CardinalityType DEF Charged
  <2>3. reserved \in Nat /\ reserved' = reserved - 1 /\ reserved > Charged
    BY <1>3 DEF ShapeInv, OtherCancels
  <2>4. reserved' \in Nat
    BY <2>2, <2>3
  <2>5. rerun' \in BOOLEAN
    BY <1>3 DEF ShapeInv, OtherCancels, more_due
  <2>6. UNCHANGED <<config, cursor, runs, catch_up_pending, schedule_recheck_pending, epoch,
                    shutting_down, publications, refused, sweeper, clock, origin, fate>>
    BY <1>3 DEF OtherCancels, environment, history
  <2> QED
    BY <2>4, <2>5, <2>6 DEF ShapeInv
<1> QED
  BY <1>1, <1>2, <1>3

(* The publication of a run's message.                                      *)
LEMMA ShapePublications ==
    ASSUME ShapeInv, publish_schedule_messages
    PROVE  ShapeInv'
<1>1. /\ IsFiniteSet(runs) /\ runs \subseteq RunType /\ IsFiniteSet(publications)
      /\ publications \subseteq PublicationType /\ refused \subseteq PublicationType
      /\ reserved \in Nat /\ \A p \in publications \cup refused : p.epoch <= epoch
  BY DEF ShapeInv
<1>2. ASSUME NEW p \in publications, publish(p) PROVE ShapeInv'
  <2>1. PICK q : q = Queued(p)
    OBVIOUS
  <2>2. q \in RunType
    BY <1>1, <2>1, QueuedRun
  <2>3. IsFiniteSet(runs \cup {q}) /\ IsFiniteSet(publications \ {p})
    BY <1>1, FS_AddElement, FS_RemoveElement
  <2>4. (runs' = runs \/ runs' = runs \cup {q}) /\ publications' = publications \ {p}
    BY <1>2, <2>1 DEF publish
  <2>5. reserved' \in Nat
    BY <1>1, <1>2 DEF publish, released
  <2>6. UNCHANGED <<config, cursor, catch_up_pending, schedule_recheck_pending, epoch,
                    shutting_down, refused, sweeper, rerun, clock, origin, fate>>
    BY <1>2 DEF publish, environment, history
  <2>7. IsFiniteSet(runs') /\ runs' \subseteq RunType
    BY <1>1, <2>2, <2>3, <2>4
  <2>8. /\ IsFiniteSet(publications') /\ publications' \subseteq PublicationType
        /\ \A x \in publications' \cup refused : x.epoch <= epoch
    BY <1>1, <2>3, <2>4
  <2> QED
    BY <2>5, <2>6, <2>7, <2>8 DEF ShapeInv
<1>3. ASSUME NEW p \in publications, publication_refused(p) PROVE ShapeInv'
  <2>1. IsFiniteSet(publications \ {p})
    BY <1>1, FS_RemoveElement
  <2>2. /\ publications' = publications \ {p}
        /\ refused' = refused \/ refused' = refused \cup {p}
    BY <1>3 DEF publication_refused
  <2>3. reserved' \in Nat
    BY <1>1, <1>3 DEF publication_refused, released
  <2>4. UNCHANGED <<config, cursor, runs, catch_up_pending, schedule_recheck_pending, epoch,
                    shutting_down, sweeper, rerun, clock, origin, fate>>
    BY <1>3 DEF publication_refused, environment, history
  <2>5. /\ IsFiniteSet(publications') /\ publications' \subseteq PublicationType
        /\ refused' \subseteq PublicationType
        /\ \A x \in publications' \cup refused' : x.epoch <= epoch
    BY <1>1, <1>3, <2>1, <2>2
  <2> QED
    BY <2>3, <2>4, <2>5 DEF ShapeInv
<1>4. ASSUME NEW p \in refused, complete_refused(p) PROVE ShapeInv'
  <2>1. refused' \subseteq refused /\ schedule_recheck_pending' \in BOOLEAN
    BY <1>4 DEF ShapeInv, complete_refused
  <2>2. UNCHANGED <<config, cursor, runs, reserved, catch_up_pending, epoch, shutting_down,
                    publications, sweeper, rerun, clock, origin, fate>>
    BY <1>4 DEF complete_refused, environment, history
  <2> QED
    BY <2>1, <2>2 DEF ShapeInv
<1> QED
  BY <1>2, <1>3, <1>4 DEF publish_schedule_messages

(* The recheck, the shutdown and the reset.                                 *)
LEMMA ShapeControl ==
    ASSUME ShapeInv, Recheck \/ begin_shutdown \/ reset_at
    PROVE  ShapeInv'
<1>1. CASE Recheck
  BY <1>1 DEF ShapeInv, Recheck, Request, environment, history
<1>2. CASE begin_shutdown
  BY <1>2 DEF ShapeInv, begin_shutdown, environment, history
<1>3. CASE reset_at
  <2>1. IsFiniteSet({})
    BY FS_EmptySet
  <2>2. epoch \in Nat /\ config.resets \in Nat /\ epoch' = epoch + 1 /\ epoch < config.resets
    BY <1>3, ConfigIs DEF ShapeInv, reset_at
  <2>3. epoch' \in Nat /\ epoch' <= config.resets
    BY <2>2
  <2>4. runs' = {} /\ reserved' = 0 /\ catch_up_pending' = FALSE /\ schedule_recheck_pending' = FALSE
        /\ fate' = <<>>
    BY <1>3 DEF reset_at
  <2>5. UNCHANGED <<config, shutting_down, publications, refused, sweeper, rerun, clock>>
    BY <1>3 DEF reset_at, environment
  <2>6. cursor' = [j \in Jobs |-> clock] /\ origin' = [j \in Jobs |-> clock] /\ clock \in Instant
    BY <1>3 DEF ShapeInv, reset_at
  <2>7. /\ cursor' \in [Jobs -> Instant] /\ origin' \in [Jobs -> Instant]
        /\ \A j \in Jobs : cursor'[j] <= clock
    BY <2>6, InstantIs
  <2>8. \A p \in publications \cup refused : p.epoch <= epoch'
    <3>1. \A p \in publications \cup refused : p.epoch \in Nat /\ p.epoch <= epoch
      BY DEF ShapeInv, PublicationType
    <3> QED
      BY <2>2, <3>1
  <2> QED
    BY <2>1, <2>3, <2>4, <2>5, <2>7, <2>8, EmptyIs DEF ShapeInv
<1> QED
  BY <1>1, <1>2, <1>3

(* The run whose turn it is, and the ones behind it.                        *)
LEMMA TodoIs ==
    ASSUME ShapeInv, Admitting
    PROVE  /\ NextRun \in Occurrence /\ NextRun = sweeper.todo[1] /\ 1 \in DOMAIN sweeper.todo
           /\ Tail(sweeper.todo) \in Seq(Occurrence)
           /\ \A i \in DOMAIN Tail(sweeper.todo) :
                 i \in Nat /\ i >= 1 /\ i + 1 \in DOMAIN sweeper.todo
                 /\ Tail(sweeper.todo)[i] = sweeper.todo[i + 1]
           /\ \A i \in DOMAIN sweeper.todo :
                 i = 1 \/ (i > 1 /\ i - 1 \in DOMAIN Tail(sweeper.todo)
                           /\ Tail(sweeper.todo)[i - 1] = sweeper.todo[i])
<1>1. PICK s : s = sweeper.todo
  OBVIOUS
<1>2. s \in Seq(Occurrence) /\ s # <<>>
  BY <1>1 DEF ShapeInv, SweeperType, Admitting
<1>3. Head(s) \in Occurrence /\ Head(s) = s[1] /\ 1 \in DOMAIN s
  BY <1>2
<1>4. Tail(s) \in Seq(Occurrence) /\ Len(Tail(s)) = Len(s) - 1 /\ Len(s) \in Nat
  BY <1>2
<1>5. \A i \in DOMAIN Tail(s) : i \in Nat /\ i >= 1 /\ i + 1 \in DOMAIN s /\ Tail(s)[i] = s[i + 1]
  BY <1>2, <1>4
<1>6. \A i \in DOMAIN s : i \in Nat /\ (i = 1 \/ (i > 1 /\ i - 1 \in DOMAIN Tail(s)))
  BY <1>2, <1>4
<1>7. \A i \in DOMAIN s : i = 1 \/ (i > 1 /\ i - 1 \in DOMAIN Tail(s) /\ Tail(s)[i - 1] = s[i])
  BY <1>5, <1>6
<1> QED
  BY <1>1, <1>3, <1>4, <1>5, <1>7 DEF NextRun

\* The sweep goes on in stage s with the list T.
GoesOn(s, T) == Becomes(sweeper, sweeper', s, T, sweeper.epoch)

\* The sweep has no list, in stage s since instant n.
Restarts(s, n) ==
    sweeper' \in SweeperType /\ sweeper'.stage = s /\ sweeper'.now = n /\ sweeper'.todo = <<>>

\* The stage after a run was admitted.
StageAfter == IF NextRun.job \in Publishing THEN "publishing" ELSE "admitting"

(* An occurrence is skipped.                                                *)
LEMMA SkippingSweep ==
    ASSUME ShapeInv, SweepSkips
    PROVE  GoesOn("admitting", Tail(sweeper.todo))
<1>1. Admitting /\ sweeper.stage = "admitting" /\ sweeper' = [sweeper EXCEPT !.todo = Tail(sweeper.todo)]
  BY DEF SweepSkips, Admitting
<1>2. PICK T : T = Tail(sweeper.todo)
  OBVIOUS
<1>3. T \in Seq(Occurrence) /\ sweeper \in SweeperType /\ "admitting" \in Stages
  BY <1>1, <1>2, TodoIs DEF ShapeInv, Stages
<1>4. Becomes(sweeper, [sweeper EXCEPT !.todo = T], sweeper.stage, T, sweeper.epoch)
  BY <1>3, SteppedSweeper
<1> QED
  BY <1>1, <1>2, <1>4 DEF GoesOn

(* An occurrence is admitted.                                               *)
LEMMA AdmittingSweep ==
    ASSUME ShapeInv, SweepAdmits
    PROVE  GoesOn(StageAfter, Tail(sweeper.todo))
<1>1. Admitting /\ sweeper.stage = "admitting"
  BY DEF SweepAdmits, Admitting
<1>2. sweeper' = [sweeper EXCEPT !.todo = Tail(sweeper.todo),
                     !.stage = IF NextRun.job \in Publishing THEN "publishing" ELSE sweeper.stage]
  BY DEF SweepAdmits
<1>3. sweeper' = [sweeper EXCEPT !.todo = Tail(sweeper.todo), !.stage = StageAfter]
  BY <1>1, <1>2 DEF StageAfter
<1>4. PICK T, s : T = Tail(sweeper.todo) /\ s = StageAfter
  OBVIOUS
<1>5. T \in Seq(Occurrence) /\ sweeper \in SweeperType
  BY <1>1, <1>4, TodoIs DEF ShapeInv
<1>6. s \in Stages
  BY <1>4 DEF Stages, StageAfter
<1>7. Becomes(sweeper, [sweeper EXCEPT !.todo = T, !.stage = s], s, T, sweeper.epoch)
  BY <1>5, <1>6, SteppedSweeper
<1> QED
  BY <1>3, <1>4, <1>7 DEF GoesOn

(* The rest of the list is refused.                                         *)
LEMMA RefusingSweep ==
    ASSUME ShapeInv, SweepRefused
    PROVE  GoesOn("admitting", <<>>)
<1>1. sweeper.stage = "admitting" /\ sweeper' = [sweeper EXCEPT !.todo = <<>>]
  BY DEF SweepRefused, Admitting
<1>2. PICK T : T = <<>>
  OBVIOUS
<1>3. T \in Seq(Occurrence) /\ sweeper \in SweeperType /\ "admitting" \in Stages
  BY <1>2 DEF ShapeInv, Stages
<1>4. Becomes(sweeper, [sweeper EXCEPT !.todo = T], sweeper.stage, T, sweeper.epoch)
  BY <1>3, SteppedSweeper
<1> QED
  BY <1>1, <1>2, <1>4 DEF GoesOn

(* The runs are collected.                                                  *)
LEMMA CollectingSweep ==
    ASSUME ShapeInv, SweepCollect
    PROVE  Becomes(sweeper, sweeper', "admitting", Sorted(KeptRuns(sweeper.now)), epoch)
<1>1. PICK T : T = Sorted(KeptRuns(sweeper.now))
  OBVIOUS
<1>2. PICK X : X = {r.job : r \in {s \in runs : HasSlot(s)}}
  OBVIOUS
<1>3. T \in Seq(Occurrence)
  BY <1>1, CollectedAreOccurrences, SortedOccurrences
<1>4. X \in SUBSET Jobs
  BY <1>2 DEF ShapeInv, RunType
<1>5. epoch \in Nat /\ sweeper \in SweeperType
  BY DEF ShapeInv
<1>6. sweeper' = [sweeper EXCEPT !.stage = "admitting", !.todo = T, !.epoch = epoch, !.executing = X]
  BY <1>1, <1>2, CollectIs
<1>7. Becomes(sweeper,
              [sweeper EXCEPT !.stage = "admitting", !.todo = T, !.epoch = epoch, !.executing = X],
              "admitting", T, epoch)
  BY <1>3, <1>4, <1>5, CollectedSweeper
<1> QED
  BY <1>1, <1>6, <1>7

(* A sweep starts, is interrupted, or ends.                                 *)
LEMMA RestartingSweep ==
    ASSUME ShapeInv
    PROVE  /\ SweepStart => Restarts("started", clock)
           /\ SweepRelocks /\ interrupted => Restarts("started", clock)
           /\ SweepStops => Restarts("idle", 0)
           /\ SweepEnd => Restarts("idle", 0)
<1>1. clock \in Instant
  BY DEF ShapeInv
<1>2. PICK w : w = [Idle EXCEPT !.stage = "started", !.now = clock]
  OBVIOUS
<1>3. w \in SweeperType /\ w.stage = "started" /\ w.now = clock /\ w.todo = <<>>
  BY <1>1, <1>2, IdleIs
<1>4. (SweepStart => sweeper' = w) /\ (SweepRelocks /\ interrupted => sweeper' = w)
  BY <1>2 DEF SweepStart, SweepRelocks
<1>5. (SweepStops => sweeper' = Idle) /\ (SweepEnd => sweeper' = Idle)
  BY DEF SweepStops, SweepEnd
<1> QED
  BY <1>3, <1>4, <1>5, IdleIs DEF Restarts

(* The sweep takes the mutex again after a publication.                     *)
LEMMA RelockingSweep ==
    ASSUME ShapeInv, SweepRelocks, ~ interrupted
    PROVE  GoesOn("admitting", sweeper.todo) /\ rerun' = rerun
<1>1. sweeper' = [sweeper EXCEPT !.stage = "admitting"] /\ rerun' = rerun
  BY DEF SweepRelocks
<1>2. PICK s : s = "admitting"
  OBVIOUS
<1>3. s \in Stages /\ sweeper \in SweeperType /\ <<>> \in Seq(Occurrence)
  BY <1>2 DEF ShapeInv, Stages
<1>4. Becomes(sweeper, [sweeper EXCEPT !.stage = s], s, sweeper.todo, sweeper.epoch)
  BY <1>3, SteppedSweeper
<1> QED
  BY <1>1, <1>2, <1>4 DEF GoesOn

\* The instants of the runs of j that were not admitted yet.
Left(j) == {sweeper.todo[i].at : i \in {k \in DOMAIN sweeper.todo : sweeper.todo[k].job = j}}

(* Where a refusal moves a job's cursor: before its first run that was not  *)
(* admitted.                                                                *)
LEMMA MovedBackIs ==
    ASSUME ShapeInv, NEW j \in Jobs
    PROVE  /\ moved_back(j) \in Instant /\ moved_back(j) <= cursor[j]
           /\ Left(j) = {} => moved_back(j) = cursor[j]
           /\ Left(j) # {} => /\ LeastOf(Left(j)) \in Left(j)
                              /\ \A t \in Left(j) : LeastOf(Left(j)) <= t
                              /\ LeastOf(Left(j)) - 1 < cursor[j] => moved_back(j) = LeastOf(Left(j)) - 1
<1>1. \A t \in Left(j) : t \in 1 .. MaxClock
  <2>1. \A i \in DOMAIN sweeper.todo : sweeper.todo[i] \in Occurrence
    BY DEF ShapeInv, SweeperType
  <2> QED
    BY <2>1 DEF Left, Occurrence
<1>2. Left(j) \in SUBSET Nat
  BY <1>1, InstantIs
<1>3. moved_back(j) = IF Left(j) # {} /\ LeastOf(Left(j)) - 1 < cursor[j]
                      THEN LeastOf(Left(j)) - 1 ELSE cursor[j]
  BY DEF moved_back, Left
<1>4. cursor[j] \in Instant /\ cursor[j] \in Nat
  BY InstantIs DEF ShapeInv
<1> HIDE DEF Left
<1>5. CASE Left(j) = {}
  BY <1>3, <1>4, <1>5
<1>6. CASE Left(j) # {}
  <2>1. LeastOf(Left(j)) \in Left(j) /\ \A t \in Left(j) : LeastOf(Left(j)) <= t
    BY <1>2, <1>6, LeastIs
  <2>2. PICK m : m = LeastOf(Left(j))
    OBVIOUS
  <2>3. m \in 1 .. MaxClock
    BY <1>1, <2>1, <2>2
  <2>4. m - 1 \in Instant /\ m - 1 \in Nat
    BY <2>3, InstantIs DEF Instant
  <2> QED
    BY <1>3, <1>4, <1>6, <2>1, <2>2, <2>4
<1> QED
  BY <1>5, <1>6

(* A step of the sweep.                                                     *)
LEMMA ShapeSweep ==
    ASSUME ShapeInv, Sweep
    PROVE  ShapeInv'
<1>1. CASE SweepStart \/ SweepStops \/ SweepEnd \/ SweepRelocks
  <2>1. UNCHANGED <<config, cursor, runs, reserved, catch_up_pending, schedule_recheck_pending, epoch,
                    shutting_down, publications, refused, clock, origin, fate>>
    BY <1>1 DEF SweepStart, SweepStops, SweepEnd, SweepRelocks, inner, environment, history
  <2>2. rerun' \in BOOLEAN
    BY <1>1 DEF ShapeInv, SweepStart, SweepStops, SweepEnd, SweepRelocks
  <2>3. 0 <= clock /\ clock <= clock
    BY InstantIs DEF ShapeInv
  <2>4. /\ sweeper' \in SweeperType /\ sweeper'.now <= clock
        /\ (sweeper'.todo = <<>> \/ (sweeper'.todo = sweeper.todo /\ sweeper'.now = sweeper.now))
    <3>1. CASE Restarts("started", clock)
      BY <2>3, <3>1 DEF Restarts
    <3>2. CASE Restarts("idle", 0)
      BY <2>3, <3>2 DEF Restarts
    <3>3. CASE GoesOn("admitting", sweeper.todo)
      <4>1. sweeper.now <= clock
        BY DEF ShapeInv
      <4> QED
        BY <3>3, <4>1 DEF GoesOn, Becomes
    <3> QED
      BY <1>1, <3>1, <3>2, <3>3, RestartingSweep, RelockingSweep
  <2>5. \A i \in DOMAIN sweeper'.todo : sweeper'.todo[i].at <= sweeper'.now
    BY <2>4, EmptyIs DEF ShapeInv
  <2> QED
    BY <2>1, <2>2, <2>4, <2>5 DEF ShapeInv
<1>2. CASE SweepCollect
  <2>1. PICK T : T = Sorted(KeptRuns(sweeper.now))
    OBVIOUS
  <2>2. KeptRuns(sweeper.now) \in SUBSET Occurrence /\ DroppedRuns(sweeper.now) \in SUBSET Occurrence
        /\ \A x \in KeptRuns(sweeper.now) : x.at <= sweeper.now
    BY CollectedAreOccurrences
  <2>3. T \in Seq(Occurrence) /\ \A i \in DOMAIN T : T[i] \in KeptRuns(sweeper.now)
    BY <2>1, <2>2, SortedOccurrences
  <2>5. epoch \in Nat /\ sweeper \in SweeperType /\ sweeper.now <= clock
    BY DEF ShapeInv
  <2>6. sweeper' \in SweeperType /\ sweeper'.now = sweeper.now /\ sweeper'.todo = T
    BY <1>2, <2>1, CollectingSweep DEF Becomes
  <2>7. \A i \in DOMAIN T : T[i].at <= sweeper.now
    BY <2>2, <2>3
  <2>8. fate' \in Seq(Decision)
    BY <1>2, <2>2, CollectIs, FatedRecords DEF Records, ShapeInv
  <2>9. ASSUME NEW j \in Jobs PROVE cursor'[j] \in Instant /\ cursor'[j] <= clock
    <3>1. cursor'[j] = moved_cursor(j, sweeper.now) \/ cursor'[j] = cursor[j]
      BY <1>2, CollectIs
    <3>2. WindowIsSplit(j, sweeper.now)
      BY WindowIs
    <3>3. PICK m : m = moved_cursor(j, sweeper.now)
      OBVIOUS
    <3>4. m \in Nat /\ (m <= sweeper.now \/ m = cursor[j])
      BY <3>2, <3>3 DEF WindowIsSplit
    <3>5. cursor[j] \in Instant /\ cursor[j] <= clock /\ sweeper.now \in Instant /\ clock \in Instant
      BY DEF ShapeInv, SweeperType
    <3> QED
      BY <2>5, <3>1, <3>3, <3>4, <3>5, InstantIs DEF Instant
  <2>10. cursor' \in [Jobs -> Instant]
    <3>1. cursor' = [j \in Jobs |-> IF j \in Swept THEN moved_cursor(j, sweeper.now) ELSE cursor[j]]
      BY <1>2, CollectIs
    <3> QED
      BY <2>9, <3>1
  <2>11. catch_up_pending' \in BOOLEAN
    BY <1>2, CollectIs DEF ShapeInv, left_due
  <2>12. UNCHANGED <<config, runs, reserved, schedule_recheck_pending, epoch, shutting_down,
                     publications, refused, rerun, clock, origin>>
    BY <1>2, CollectIs
  <2> QED
    BY <2>5, <2>6, <2>7, <2>8, <2>9, <2>10, <2>11, <2>12 DEF ShapeInv
<1>3. CASE SweepSkips \/ SweepAdmits
  <2>1. Admitting
    BY <1>3 DEF SweepSkips, SweepAdmits
  <2>2. /\ sweeper' \in SweeperType /\ sweeper'.todo = Tail(sweeper.todo)
        /\ sweeper'.now = sweeper.now
    BY <1>3, SkippingSweep, AdmittingSweep DEF GoesOn, Becomes
  <2>3. \A i \in DOMAIN sweeper'.todo : sweeper'.todo[i].at <= sweeper'.now
    BY <2>1, <2>2, TodoIs DEF ShapeInv
  <2>4. {NextRun} \in SUBSET Occurrence
    BY <2>1, TodoIs
  <2>5. fate' \in Seq(Decision)
    BY <1>3, <2>4, FatedRecords DEF Records, ShapeInv, SweepSkips, SweepAdmits
  <2>6. CASE SweepSkips
    <3>1. UNCHANGED <<config, cursor, runs, reserved, catch_up_pending, schedule_recheck_pending,
                      epoch, shutting_down, publications, refused, rerun, clock, origin>>
      BY <2>6 DEF SweepSkips, inner, environment
    <3> QED
      BY <2>2, <2>3, <2>5, <3>1 DEF ShapeInv
  <2>7. CASE SweepAdmits
    <3>1. UNCHANGED <<config, cursor, catch_up_pending, schedule_recheck_pending, epoch,
                      shutting_down, refused, rerun, clock, origin>>
      BY <2>7 DEF SweepAdmits, environment
    <3>2. NextRun.job \in Jobs /\ NextRun.at \in Instant /\ "sweep" \in By
      BY <2>1, TodoIs, InstantIs DEF Occurrence, Instant, By
    <3>3. Enter(NextRun.job, NextRun.at, "sweep")
      BY <2>7 DEF SweepAdmits
    <3>4. /\ IsFiniteSet(runs') /\ runs' \subseteq RunType
          /\ IsFiniteSet(publications') /\ publications' \subseteq PublicationType
          /\ \A p \in publications' : p.epoch <= epoch
          /\ reserved' \in Nat
      BY <3>2, <3>3, EnterShape
    <3> QED
      BY <2>2, <2>3, <2>5, <3>1, <3>4 DEF ShapeInv
  <2> QED
    BY <1>3, <2>6, <2>7
<1>4. CASE SweepRefused
  <2>1. sweeper' \in SweeperType /\ sweeper'.todo = <<>> /\ sweeper'.now = sweeper.now
    BY <1>4, RefusingSweep DEF GoesOn, Becomes
  <2>2. cursor' = [j \in Jobs |-> moved_back(j)] /\ catch_up_pending' \in BOOLEAN
    BY <1>4 DEF SweepRefused
  <2>3. ASSUME NEW j \in Jobs PROVE cursor'[j] \in Instant /\ cursor'[j] <= clock
    <3>1. cursor'[j] = moved_back(j)
      BY <2>2
    <3>2. PICK m : m = moved_back(j)
      OBVIOUS
    <3>3. m \in Instant /\ m <= cursor[j]
      BY <3>2, MovedBackIs
    <3>4. cursor[j] \in Instant /\ cursor[j] <= clock /\ clock \in Instant
      BY DEF ShapeInv
    <3> QED
      BY <3>1, <3>2, <3>3, <3>4, InstantIs DEF Instant
  <2>4. cursor' \in [Jobs -> Instant]
    BY <2>2, <2>3
  <2>5. UNCHANGED <<config, runs, reserved, schedule_recheck_pending, epoch, shutting_down,
                    publications, refused, rerun, clock, origin, fate>>
    BY <1>4 DEF SweepRefused, environment, history
  <2> QED
    BY <2>1, <2>2, <2>3, <2>4, <2>5, EmptyIs DEF ShapeInv
<1>5. CASE \E r \in runs : SweepReleases(r)
  BY <1>5, TheyAreRunSteps, ShapeRunSteps
<1> QED
  BY <1>1, <1>2, <1>3, <1>4, <1>5 DEF Sweep

(* Every step keeps the shape.                                              *)
LEMMA ShapeStep ==
    ASSUME ShapeInv, [Next]_vars
    PROVE  ShapeInv'
<1>1. CASE Next
  BY <1>1, ShapeSetClock, TheyAreRunSteps, ShapeRunSteps, ShapeSweep, ShapePublications,
     ShapeControl, ShapeOthers DEF Next
<1>2. CASE UNCHANGED vars
  BY <1>2 DEF ShapeInv, vars, inner, environment, history
<1> QED
  BY <1>1, <1>2

(* The configuration never changes.                                         *)
LEMMA ConfigStays ==
    ASSUME [Next]_vars
    PROVE  config' = config
BY DEF Next, vars, SetClock, Handlers, Dispatch, Return, Settle, SettleRetry, CheckMoreDue, Release,
       Sweep, SweepStart, SweepReleases, SweepCollect, SweepStops, SweepSkips, SweepAdmits, SweepRefused, SweepRelocks, SweepEnd,
       publish_schedule_messages, publish, publication_refused, complete_refused, Recheck,
       run_schedule, OtherReserves, OtherCancels, begin_shutdown, reset_at, inner

-----------------------------------------------------------------------------
(* Overlap.                                                                 *)

Exclusive == config.overlap \in {"skip", "reject"}

\* Runs and publications of one session never share a job.
OneRunPerJob ==
    /\ \A r, s \in runs : r.job = s.job => Follows(r, s)
    /\ \A p, q \in publications : p.epoch = epoch /\ q.epoch = epoch /\ p.job = q.job => p = q
    /\ \A r \in runs : \A p \in publications : p.epoch = epoch => r.job # p.job

OverlapInv == Exclusive => OneRunPerJob

(* The attempts of a run are still of the only run of its job.              *)
LEMMA OverlapAttempt ==
    ASSUME ShapeInv, OneRunPerJob, NEW r \in runs, AttemptGoesOn(r), UNCHANGED <<publications, epoch>>
    PROVE  OneRunPerJob'
<1>1. PICK x, y : Becoming(r, x, y)
  BY AttemptBecomes
<1>2. runs' = (runs \ {r}) \cup {x, y} /\ Follows(r, x) /\ Follows(r, y)
  BY <1>1 DEF Becoming
<1>3. \A s \in runs' : \E o \in runs : Follows(o, s)
  BY <1>2 DEF Follows
<1>4. ASSUME NEW s \in runs', NEW u \in runs', s.job = u.job PROVE Follows(s, u)
  <2>1. PICK o \in runs, v \in runs : Follows(o, s) /\ Follows(v, u)
    BY <1>3
  <2>2. o.job = v.job
    BY <1>4, <2>1 DEF Follows
  <2>3. Follows(o, v)
    BY <2>2 DEF OneRunPerJob
  <2> QED
    BY <2>1, <2>3 DEF Follows
<1>5. ASSUME NEW s \in runs', NEW p \in publications', p.epoch = epoch' PROVE s.job # p.job
  <2>1. PICK o \in runs : Follows(o, s)
    BY <1>3
  <2> QED
    BY <1>5, <2>1 DEF OneRunPerJob, Follows
<1> QED
  BY <1>4, <1>5 DEF OneRunPerJob

(* A run enters when its job is not busy.                                   *)
LEMMA OverlapEnter ==
    ASSUME ShapeInv, OneRunPerJob, NEW j \in Jobs, NEW t \in Instant, NEW by \in By, ~ busy(j),
           Enter(j, t, by), UNCHANGED epoch
    PROVE  OneRunPerJob'
<1>1. PICK p : p = Run(j, t, by)
  OBVIOUS
<1>2. epoch \in Nat
  BY DEF ShapeInv
<1>3. p \in PublicationType /\ p.job = j /\ p.epoch = epoch
  BY <1>1, <1>2, EnteredPublication
<1>4. PICK q : q = Queued(p)
  OBVIOUS
<1>5. q.job = j
  BY <1>3, <1>4, QueuedRun
<1>6. /\ \A r \in runs : r.job # j
      /\ \A o \in publications : o.epoch = epoch => o.job # j
  BY DEF busy
<1>7. \/ publications' = publications \cup {p} /\ runs' = runs
      \/ runs' = runs \cup {q} /\ publications' = publications
  BY <1>1, <1>4 DEF Enter
<1>8. CASE publications' = publications \cup {p} /\ runs' = runs
  BY <1>3, <1>6, <1>8 DEF OneRunPerJob
<1>9. CASE runs' = runs \cup {q} /\ publications' = publications
  BY <1>5, <1>6, <1>9 DEF OneRunPerJob, Follows
<1> QED
  BY <1>7, <1>8, <1>9

(* A message is published or refused.                                       *)
LEMMA OverlapPublish ==
    ASSUME ShapeInv, OneRunPerJob, NEW p \in publications, publish(p) \/ publication_refused(p)
    PROVE  OneRunPerJob'
<1>1. p \in PublicationType
  BY DEF ShapeInv
<1>2. PICK q : q = Queued(p)
  OBVIOUS
<1>3. q.job = p.job
  BY <1>1, <1>2, QueuedRun
<1>4. /\ publications' = publications \ {p} /\ epoch' = epoch
      /\ runs' = runs \/ (p.epoch = epoch /\ runs' = runs \cup {q})
  BY <1>2 DEF publish, publication_refused
<1>5. CASE runs' = runs
  BY <1>4, <1>5 DEF OneRunPerJob
<1>6. CASE p.epoch = epoch /\ runs' = runs \cup {q}
  <2>1. \A r \in runs : r.job # q.job
    BY <1>3, <1>6 DEF OneRunPerJob
  <2>2. \A o \in publications' : o \in publications /\ (o.epoch = epoch => o.job # q.job)
    BY <1>3, <1>4, <1>6 DEF OneRunPerJob
  <2> QED
    BY <1>4, <1>6, <2>1, <2>2 DEF OneRunPerJob, Follows
<1> QED
  BY <1>4, <1>5, <1>6

(* Every step keeps the runs apart.                                         *)
LEMMA OverlapStep ==
    ASSUME ShapeInv, OverlapInv, [Next]_vars
    PROVE  OverlapInv'
<1>1. config' = config
  BY ConfigStays
<1> SUFFICES ASSUME Exclusive, OneRunPerJob
             PROVE  OneRunPerJob'
  BY <1>1 DEF OverlapInv, Exclusive
<1>2. CASE UNCHANGED <<runs, publications, epoch>>
  BY <1>2 DEF OneRunPerJob
<1>3. CASE RunSteps
  <2>1. PICK r \in runs : AttemptGoesOn(r) \/ Release(r)
    BY <1>3 DEF RunSteps
  <2>2. UNCHANGED <<publications, epoch>>
    BY <1>3, RunStepsLeave
  <2>3. CASE Release(r)
    BY <2>2, <2>3 DEF Release, OneRunPerJob
  <2> QED
    BY <2>1, <2>2, <2>3, OverlapAttempt
<1>4. CASE publish_schedule_messages
  <2>1. CASE \E p \in publications : publish(p) \/ publication_refused(p)
    BY <2>1, OverlapPublish
  <2>2. CASE \E p \in refused : complete_refused(p)
    BY <1>2, <2>2 DEF complete_refused
  <2> QED
    BY <1>4, <2>1, <2>2 DEF publish_schedule_messages
<1>5. CASE \E j \in Jobs : run_schedule(j)
  <2>1. PICK j \in Jobs : run_schedule(j)
    BY <1>5
  <2>2. Enter(j, clock, "manual") /\ epoch' = epoch /\ ~ busy(j) /\ clock \in Instant
    BY <2>1 DEF run_schedule, admit_scheduled_run, Exclusive, ShapeInv
  <2>3. "manual" \in By
    BY DEF By
  <2> QED
    BY <2>2, <2>3, OverlapEnter
<1>6. CASE SweepAdmits
  <2>1. Enter(NextRun.job, NextRun.at, "sweep") /\ epoch' = epoch /\ ~ busy(NextRun.job) /\ Admitting
    BY <1>6 DEF SweepAdmits, Suppressed, admit_scheduled_run, Exclusive
  <2>2. NextRun.job \in Jobs /\ NextRun.at \in Instant
    BY <2>1, TodoIs, InstantIs DEF Occurrence, Instant
  <2>3. "sweep" \in By
    BY DEF By
  <2> QED
    BY <2>1, <2>2, <2>3, OverlapEnter
<1>7. CASE reset_at
  <2>1. runs' = {} /\ publications' = publications /\ epoch' = epoch + 1
    BY <1>7 DEF reset_at
  <2>2. \A p \in publications : p.epoch # epoch'
    <3>1. epoch \in Nat /\ \A p \in publications : p.epoch \in Nat /\ p.epoch <= epoch
      BY DEF ShapeInv, PublicationType
    <3> QED
      BY <2>1, <3>1
  <2> QED
    BY <2>1, <2>2 DEF OneRunPerJob
<1> QED
  <2>1. CASE Sweep /\ ~ SweepAdmits
    BY <1>2, <1>3, <2>1, TheyAreRunSteps DEF Sweep, SweepStart, SweepCollect, SweepStops, SweepSkips, SweepRefused,
                      SweepRelocks, SweepEnd, inner
  <2>2. CASE (\E t \in 0 .. MaxClock : SetClock(t)) \/ Recheck \/ OtherReserves \/ OtherCancels
             \/ begin_shutdown
    BY <1>2, <2>2 DEF SetClock, Recheck, OtherReserves, OtherCancels, begin_shutdown, inner
  <2>3. CASE UNCHANGED vars
    BY <1>2, <2>3 DEF vars, inner
  <2> QED
    BY <1>3, <1>4, <1>5, <1>6, <1>7, <2>1, <2>2, <2>3, TheyAreRunSteps DEF Next

(* Runs that differ pairwise in nothing are at most one.                    *)
LEMMA AtMostOne ==
    ASSUME NEW S, \A x, y \in S : x = y
    PROVE  (S = {} /\ Cardinality(S) = 0) \/ Cardinality(S) = 1
<1>1. CASE S = {}
  BY <1>1, FS_EmptySet
<1>2. CASE S # {}
  <2>1. PICK x \in S : TRUE
    BY <1>2
  <2>2. S = {x}
    BY <2>1
  <2> QED
    BY <2>2, FS_Singleton
<1> QED
  BY <1>1, <1>2

(* The invariant says what the property says.                               *)
LEMMA OverlapHolds ==
    ASSUME OverlapInv
    PROVE  NoOverlap
<1> SUFFICES ASSUME OneRunPerJob, NEW j \in Jobs
             PROVE  Cardinality(RunsOf(j))
                    + Cardinality({p \in publications : p.job = j /\ p.epoch = epoch}) <= 1
  BY DEF OverlapInv, Exclusive, NoOverlap
<1>1. PICK R : R = RunsOf(j)
  OBVIOUS
<1>2. PICK P : P = {p \in publications : p.job = j /\ p.epoch = epoch}
  OBVIOUS
<1>3. (\A x, y \in R : x = y) /\ (\A x, y \in P : x = y) /\ (R = {} \/ P = {})
  BY <1>1, <1>2 DEF OneRunPerJob, RunsOf, Follows
<1>4. (R = {} /\ Cardinality(R) = 0) \/ Cardinality(R) = 1
  BY <1>3, AtMostOne
<1>5. (P = {} /\ Cardinality(P) = 0) \/ Cardinality(P) = 1
  BY <1>3, AtMostOne
<1>6. Cardinality({}) = 0
  BY FS_EmptySet
<1>7. Cardinality(R) + Cardinality(P) <= 1
  BY <1>3, <1>4, <1>5, <1>6
<1> QED
  BY <1>1, <1>2, <1>7

-----------------------------------------------------------------------------
(* The admission limit.                                                     *)

\* The reservations cover the runs being published, and the limit is kept.
LimitInv == Charged <= reserved /\ WithinLimit

\* The publications of this session.
Current == {p \in publications : p.epoch = epoch}

(* A part of a finite set with one element added has at most one more.      *)
LEMMA OneMore ==
    ASSUME NEW T, IsFiniteSet(T), NEW x, NEW S \in SUBSET (T \cup {x})
    PROVE  Cardinality(S) \in Nat /\ Cardinality(T) \in Nat /\ Cardinality(S) <= Cardinality(T) + 1
<1>1. /\ IsFiniteSet(T \cup {x}) /\ Cardinality(T) \in Nat
      /\ Cardinality(T \cup {x}) = IF x \in T THEN Cardinality(T) ELSE Cardinality(T) + 1
  BY FS_AddElement, FS_CardinalityType
<1>2. IsFiniteSet(S) /\ Cardinality(S) <= Cardinality(T \cup {x})
  BY <1>1, FS_Subset
<1>3. Cardinality(S) \in Nat
  BY <1>2, FS_CardinalityType
<1> QED
  BY <1>1, <1>2, <1>3

(* A part of a finite set is not larger.                                    *)
LEMMA NoMore ==
    ASSUME NEW T, IsFiniteSet(T), NEW S \in SUBSET T
    PROVE  Cardinality(S) \in Nat /\ Cardinality(T) \in Nat /\ Cardinality(S) <= Cardinality(T)
BY FS_Subset, FS_CardinalityType

(* The counts are naturals.                                                 *)
LEMMA CountsAre ==
    ASSUME ShapeInv
    PROVE  /\ IsFiniteSet(payloads) /\ IsFiniteSet(Current)
           /\ Cardinality(payloads) \in Nat /\ Charged = Cardinality(Current) /\ Charged \in Nat
           /\ reserved \in Nat /\ config.records \in Nat
<1>1. payloads \in SUBSET runs /\ Current \in SUBSET publications
  BY DEF payloads, Current
<1>2. IsFiniteSet(payloads) /\ IsFiniteSet(Current)
  BY <1>1, FS_Subset DEF ShapeInv
<1>3. Charged = Cardinality(Current)
  BY DEF Charged, Current
<1> QED
  BY <1>2, <1>3, FS_CardinalityType, ConfigIs DEF ShapeInv

(* An attempt that goes on adds no payload.                                 *)
LEMMA LimitAttempt ==
    ASSUME ShapeInv, LimitInv, NEW r \in runs, AttemptGoesOn(r),
           UNCHANGED <<config, publications, epoch, reserved>>
    PROVE  LimitInv'
<1>1. PICK x, y : Becoming(r, x, y)
  BY AttemptBecomes
<1>2. /\ runs' = (runs \ {r}) \cup {x, y}
      /\ x = y \/ ~ HasPayload(x)
      /\ HasPayload(y) => HasPayload(r)
  BY <1>1 DEF Becoming
<1>3. /\ \A s : s \in payloads <=> s \in runs /\ HasPayload(s)
      /\ \A s : s \in payloads' <=> s \in runs' /\ HasPayload(s)
  BY DEF payloads, HasPayload
<1>4. Cardinality(payloads') \in Nat /\ Cardinality(payloads') <= Cardinality(payloads)
  <2>1. CASE HasPayload(r)
    <3>1. PICK T : T = payloads \ {r}
      OBVIOUS
    <3>2. payloads' \in SUBSET (T \cup {y})
      BY <1>2, <1>3, <3>1
    <3>3. r \in payloads
      BY <2>1 DEF payloads
    <3>4. IsFiniteSet(T) /\ Cardinality(T) = Cardinality(payloads) - 1
      BY <3>1, <3>3, CountsAre, FS_RemoveElement
    <3>5. Cardinality(payloads') \in Nat /\ Cardinality(T) \in Nat
          /\ Cardinality(payloads') <= Cardinality(T) + 1
      BY <3>2, <3>4, OneMore
    <3> QED
      BY <3>4, <3>5, CountsAre
  <2>2. CASE ~ HasPayload(r)
    <3>1. ~ HasPayload(x) /\ ~ HasPayload(y)
      BY <1>2, <2>2
    <3>2. payloads' \in SUBSET payloads
      BY <1>2, <1>3, <3>1
    <3> QED
      BY <3>2, CountsAre, NoMore
  <2> QED
    BY <2>1, <2>2
<1>5. Charged' = Charged
  BY DEF Charged
<1> QED
  BY <1>4, <1>5, CountsAre DEF LimitInv, WithinLimit

(* A run enters with room for one more record.                              *)
LEMMA LimitEnter ==
    ASSUME ShapeInv, LimitInv, NEW j, NEW t, NEW by, can_admit, Enter(j, t, by),
           UNCHANGED <<config, epoch>>
    PROVE  LimitInv'
<1>1. PICK p : p = Run(j, t, by)
  OBVIOUS
<1>2. PICK q : q = Queued(p)
  OBVIOUS
<1>3. Cardinality(payloads) + reserved + 1 <= config.records
  BY DEF can_admit
<1>4. CASE publications' = publications \cup {p} /\ runs' = runs /\ reserved' = reserved + 1
  <2>1. Current' \in SUBSET (Current \cup {p})
    BY <1>4 DEF Current
  <2>2. Cardinality(Current') \in Nat /\ Cardinality(Current') <= Cardinality(Current) + 1
    BY <2>1, CountsAre, OneMore
  <2>3. Charged' = Cardinality(Current') /\ payloads' = payloads
    BY <1>4 DEF Charged, Current, payloads
  <2> QED
    BY <1>3, <1>4, <2>2, <2>3, CountsAre DEF LimitInv, WithinLimit
<1>5. CASE runs' = runs \cup {q} /\ reserved' = reserved /\ publications' = publications
  <2>1. payloads' \in SUBSET (payloads \cup {q})
    BY <1>5 DEF payloads
  <2>2. Cardinality(payloads') \in Nat /\ Cardinality(payloads') <= Cardinality(payloads) + 1
    BY <2>1, CountsAre, OneMore
  <2>3. Charged' = Charged
    BY <1>5 DEF Charged
  <2> QED
    BY <1>3, <1>5, <2>2, <2>3, CountsAre DEF LimitInv, WithinLimit
<1> QED
  BY <1>1, <1>2, <1>4, <1>5 DEF Enter

(* A reservation becomes a record, or is given back.                        *)
LEMMA LimitPublish ==
    ASSUME ShapeInv, LimitInv, NEW p \in publications, publish(p) \/ publication_refused(p)
    PROVE  LimitInv'
<1>1. PICK q : q = Queued(p)
  OBVIOUS
<1>2. /\ publications' = publications \ {p} /\ reserved' = released(p) /\ epoch' = epoch
      /\ config' = config
  BY DEF publish, publication_refused
<1>3. CASE p.epoch = epoch
  <2>1. p \in Current /\ Current' = Current \ {p}
    BY <1>2, <1>3 DEF Current
  <2>2. Cardinality(Current') = Cardinality(Current) - 1 /\ Cardinality(Current') \in Nat
    BY <2>1, CountsAre, FS_RemoveElement, FS_CardinalityType
  <2>3. Charged' = Cardinality(Current')
    BY DEF Charged, Current
  <2>4. Charged' = Charged - 1 /\ reserved' = reserved - 1
    <3>1. Charged' = Charged - 1 /\ Charged >= 1
      BY <2>2, <2>3, CountsAre
    <3>2. reserved > 0
      BY <3>1, CountsAre DEF LimitInv
    <3> QED
      BY <1>2, <1>3, <3>1, <3>2 DEF released
  <2>5. runs' = runs \/ runs' = runs \cup {q}
    BY <1>1 DEF publish, publication_refused
  <2>6. payloads' \in SUBSET (payloads \cup {q})
    BY <2>5 DEF payloads
  <2>7. Cardinality(payloads') \in Nat /\ Cardinality(payloads') <= Cardinality(payloads) + 1
    BY <2>6, CountsAre, OneMore
  <2> QED
    BY <1>2, <2>4, <2>7, CountsAre DEF LimitInv, WithinLimit
<1>4. CASE p.epoch # epoch
  <2>1. Current' = Current /\ runs' = runs /\ reserved' = reserved
    BY <1>2, <1>4 DEF Current, publish, publication_refused, released
  <2>2. Charged' = Charged /\ payloads' = payloads
    BY <2>1 DEF Charged, Current, payloads
  <2> QED
    BY <1>2, <2>1, <2>2 DEF LimitInv, WithinLimit
<1> QED
  BY <1>3, <1>4

(* Every step keeps the limit.                                              *)
LEMMA LimitStep ==
    ASSUME ShapeInv, LimitInv, [Next]_vars
    PROVE  LimitInv'
<1>1. CASE UNCHANGED <<config, runs, publications, epoch, reserved>>
  <2>1. Charged' = Charged /\ payloads' = payloads
    BY <1>1 DEF Charged, payloads
  <2> QED
    BY <1>1, <2>1 DEF LimitInv, WithinLimit
<1>2. CASE RunSteps
  <2>1. PICK r \in runs : AttemptGoesOn(r) \/ Release(r)
    BY <1>2 DEF RunSteps
  <2>2. UNCHANGED <<config, publications, epoch, reserved>>
    BY <1>2, RunStepsLeave
  <2>3. CASE Release(r)
    <3>1. payloads' \in SUBSET payloads
      BY <2>3 DEF Release, payloads
    <3>2. Cardinality(payloads') \in Nat /\ Cardinality(payloads') <= Cardinality(payloads)
      BY <3>1, CountsAre, NoMore
    <3>3. Charged' = Charged
      BY <2>2 DEF Charged
    <3> QED
      BY <2>2, <3>2, <3>3, CountsAre DEF LimitInv, WithinLimit
  <2> QED
    BY <2>1, <2>2, <2>3, LimitAttempt
<1>3. CASE publish_schedule_messages
  <2>1. CASE \E p \in publications : publish(p) \/ publication_refused(p)
    BY <2>1, LimitPublish
  <2>2. CASE \E p \in refused : complete_refused(p)
    BY <1>1, <2>2 DEF complete_refused
  <2> QED
    BY <1>3, <2>1, <2>2 DEF publish_schedule_messages
<1>4. CASE \E j \in Jobs : run_schedule(j)
  BY <1>4, LimitEnter DEF run_schedule
<1>5. CASE SweepAdmits
  BY <1>5, LimitEnter DEF SweepAdmits
<1>6. CASE OtherReserves
  <2>1. /\ Cardinality(payloads) + reserved + 1 <= config.records /\ reserved' = reserved + 1
        /\ config' = config /\ payloads' = payloads /\ Charged' = Charged
    BY <1>6 DEF OtherReserves, can_admit, payloads, Charged
  <2> QED
    BY <2>1, CountsAre DEF LimitInv, WithinLimit
<1>7. CASE OtherCancels
  <2>1. /\ reserved > Charged /\ reserved' = reserved - 1
        /\ config' = config /\ payloads' = payloads /\ Charged' = Charged
    BY <1>7 DEF OtherCancels, payloads, Charged
  <2> QED
    BY <2>1, CountsAre DEF LimitInv, WithinLimit
<1>8. CASE reset_at
  <2>1. /\ runs' = {} /\ reserved' = 0 /\ publications' = publications /\ epoch' = epoch + 1
        /\ config' = config
    BY <1>8 DEF reset_at
  <2>2. \A p \in publications : p.epoch # epoch'
    <3>1. epoch \in Nat /\ \A p \in publications : p.epoch \in Nat /\ p.epoch <= epoch
      BY DEF ShapeInv, PublicationType
    <3> QED
      BY <2>1, <3>1
  <2>3. payloads' = {} /\ Current' = {}
    BY <2>1, <2>2 DEF payloads, Current
  <2>4. Cardinality(payloads') = 0 /\ Charged' = 0
    BY <2>3, FS_EmptySet DEF Charged, Current
  <2> QED
    BY <2>1, <2>4, CountsAre DEF LimitInv, WithinLimit
<1> QED
  <2>1. CASE Sweep /\ ~ SweepAdmits
    BY <1>1, <1>2, <2>1, TheyAreRunSteps DEF Sweep, SweepStart, SweepCollect, SweepStops, SweepSkips, SweepRefused,
                      SweepRelocks, SweepEnd, inner
  <2>2. CASE (\E t \in 0 .. MaxClock : SetClock(t)) \/ Recheck \/ begin_shutdown
    BY <1>1, <2>2 DEF SetClock, Recheck, begin_shutdown, inner
  <2>3. CASE UNCHANGED vars
    BY <1>1, <2>3 DEF vars, inner
  <2> QED
    BY <1>2, <1>3, <1>4, <1>5, <1>6, <1>7, <1>8, <2>1, <2>2, <2>3, TheyAreRunSteps DEF Next

-----------------------------------------------------------------------------
(* The ledger: what was decided, what is waiting, what the cursors passed.  *)

\* The occurrence of j at t was decided; it is on the list of the sweep.
Decided(j, t) == \E i \in DOMAIN fate : fate[i].job = j /\ fate[i].at = t
Waiting(j, t) == \E i \in DOMAIN sweeper.todo : sweeper.todo[i].job = j /\ sweeper.todo[i].at = t

\* The list of the sweep is of this session, and it will be worked off.
Working == sweeper.stage \in {"admitting", "publishing"} /\ sweeper.epoch = epoch /\ ~ shutting_down

\* What the cursor of j passed.
Passed(j) == Due(j, origin[j], cursor[j])

(* The strengthening of NoOccurrenceLost and NoOccurrenceTwice.  While the  *)
(* sweep works off its list, what the cursors passed was decided or is      *)
(* waiting, and what is waiting is younger than what was decided; at other  *)
(* times all the cursors passed was decided.                                *)
LedgerInv ==
    /\ NoOccurrenceTwice
    /\ sweeper.stage = "admitting" => Working
    /\ sweeper.epoch <= epoch
    /\ \A j \in Jobs : origin[j] <= cursor[j]
    /\ ~ Working /\ ~ shutting_down =>
          \A j \in Jobs : \A t : Decided(j, t) <=> t \in Passed(j)
    /\ Working =>
          /\ \A j \in Jobs : \A t : Decided(j, t) \/ Waiting(j, t) <=> t \in Passed(j)
          /\ \A i \in DOMAIN fate : \A k \in DOMAIN sweeper.todo :
                fate[i].job = sweeper.todo[k].job => fate[i].at < sweeper.todo[k].at
          /\ \A i, k \in DOMAIN sweeper.todo : i < k => Before(sweeper.todo[i], sweeper.todo[k])

(* A window splits at any instant in it.                                    *)
LEMMA DueSplits ==
    ASSUME NEW j, NEW a \in Nat, NEW b \in Nat, NEW c \in Nat, a <= b, b <= c
    PROVE  \A t : t \in Due(j, a, c) <=> t \in Due(j, a, b) \/ t \in Due(j, b, c)
<1>1. \A t : t \in Due(j, a, c) <=> t \in Nat /\ a < t /\ t <= c /\ Occurs(j, t)
  BY DueIs
<1>2. \A t : t \in Due(j, a, b) <=> t \in Nat /\ a < t /\ t <= b /\ Occurs(j, t)
  BY DueIs
<1>3. \A t : t \in Due(j, b, c) <=> t \in Nat /\ b < t /\ t <= c /\ Occurs(j, t)
  BY DueIs
<1> QED
  BY <1>1, <1>2, <1>3

(* The history after a decision.                                            *)
LEMMA DecidedAfter ==
    ASSUME ShapeInv, NEW S, NEW what, Records(fate', S, what)
    PROVE  /\ \A j, t : Decided(j, t)' <=> Decided(j, t) \/ \E x \in S : x.job = j /\ x.at = t
           /\ \A i \in DOMAIN fate' :
                 \/ i \in DOMAIN fate /\ fate'[i] = fate[i]
                 \/ \E x \in S : x.job = fate'[i].job /\ x.at = fate'[i].at
<1>1. PICK g, L, M : g = fate' /\ L = Len(fate) /\ M = Len(fate')
  OBVIOUS
<1>2. /\ fate \in Seq(Decision) /\ g \in Seq(Decision) /\ L \in Nat /\ M \in Nat /\ L <= M
      /\ DOMAIN fate = 1 .. L /\ DOMAIN g = 1 .. M
  BY <1>1 DEF ShapeInv, Records
<1>3. /\ \A i \in 1 .. L : i \in 1 .. M /\ g[i] = fate[i]
      /\ \A i \in 1 .. M : i \in 1 .. L \/ i > L
  BY <1>1, <1>2 DEF Records
<1>4. \A i \in 1 .. M : i > L => \E x \in S : x.job = g[i].job /\ x.at = g[i].at
  BY <1>1 DEF Records
<1>5. \A x \in S : \E i \in 1 .. M : x.job = g[i].job /\ x.at = g[i].at
  BY <1>1 DEF Records
<1>6. ASSUME NEW j, NEW t
      PROVE  Decided(j, t)' <=> Decided(j, t) \/ \E x \in S : x.job = j /\ x.at = t
  <2>1. Decided(j, t)' <=> \E i \in 1 .. M : g[i].job = j /\ g[i].at = t
    BY <1>1, <1>2 DEF Decided
  <2>2. Decided(j, t) <=> \E i \in 1 .. L : fate[i].job = j /\ fate[i].at = t
    BY <1>2 DEF Decided
  <2>3. ASSUME NEW i \in 1 .. M, g[i].job = j, g[i].at = t
        PROVE  Decided(j, t) \/ \E x \in S : x.job = j /\ x.at = t
    <3>1. CASE i \in 1 .. L
      BY <1>3, <2>2, <2>3, <3>1
    <3>2. CASE i > L
      BY <1>4, <2>3, <3>2
    <3> QED
      BY <1>3, <3>1, <3>2
  <2>4. ASSUME Decided(j, t) PROVE \E i \in 1 .. M : g[i].job = j /\ g[i].at = t
    BY <1>3, <2>2, <2>4
  <2>5. ASSUME NEW x \in S, x.job = j, x.at = t PROVE \E i \in 1 .. M : g[i].job = j /\ g[i].at = t
    BY <1>5, <2>5
  <2> QED
    BY <2>1, <2>3, <2>4, <2>5
<1>7. \A i \in DOMAIN g : \/ i \in DOMAIN fate /\ g[i] = fate[i]
                          \/ \E x \in S : x.job = g[i].job /\ x.at = g[i].at
  BY <1>2, <1>3, <1>4
<1> QED
  BY <1>1, <1>6, <1>7

(* New decisions about undecided occurrences: still none is decided twice.  *)
LEMMA StillOnce ==
    ASSUME ShapeInv, NoOccurrenceTwice, NEW S, NEW what, Records(fate', S, what),
           \A x \in S : ~ Decided(x.job, x.at)
    PROVE  NoOccurrenceTwice'
<1>1. PICK g, L, M : g = fate' /\ L = Len(fate) /\ M = Len(fate')
  OBVIOUS
<1>2. /\ fate \in Seq(Decision) /\ g \in Seq(Decision) /\ L \in Nat /\ M \in Nat /\ L <= M
      /\ DOMAIN fate = 1 .. L /\ DOMAIN g = 1 .. M
  BY <1>1 DEF ShapeInv, Records
<1>3. /\ \A i \in 1 .. L : g[i] = fate[i]
      /\ \A i \in 1 .. M : i \in 1 .. L \/ i > L
  BY <1>1, <1>2 DEF Records
<1>4. \A i \in 1 .. M : i > L => \E x \in S : x.job = g[i].job /\ x.at = g[i].at
  BY <1>1 DEF Records
<1>5. \A i \in 1 .. M : i > L => \A k \in 1 .. L : ~ (g[i].job = fate[k].job /\ g[i].at = fate[k].at)
  BY <1>2, <1>4 DEF Decided
<1>6. ASSUME NEW i \in 1 .. M, NEW k \in 1 .. M, g[i].job = g[k].job, g[i].at = g[k].at
      PROVE  i = k
  <2>1. CASE i \in 1 .. L /\ k \in 1 .. L
    BY <1>2, <1>3, <1>6, <2>1 DEF NoOccurrenceTwice
  <2>2. CASE i > L /\ k > L
    BY <1>1, <1>6, <2>2 DEF Records
  <2>3. CASE i \in 1 .. L /\ k > L
    BY <1>3, <1>5, <1>6, <2>3
  <2>4. CASE k \in 1 .. L /\ i > L
    BY <1>3, <1>5, <1>6, <2>4
  <2> QED
    BY <1>3, <2>1, <2>2, <2>3, <2>4
<1>7. \A i, k \in DOMAIN g : (g[i].job = g[k].job /\ g[i].at = g[k].at) => i = k
  BY <1>2, <1>6
<1> QED
  BY <1>1, <1>7 DEF NoOccurrenceTwice

(* The next run of the list is decided.                                     *)
LEMMA LedgerTakes ==
    ASSUME ShapeInv, LedgerInv, Admitting, NEW s \in {"admitting", "publishing"}, NEW what,
           GoesOn(s, Tail(sweeper.todo)), Records(fate', {NextRun}, what),
           UNCHANGED <<cursor, origin, epoch, shutting_down>>
    PROVE  LedgerInv'
<1>1. PICK todo, rest, x : todo = sweeper.todo /\ rest = Tail(sweeper.todo) /\ x = NextRun
  OBVIOUS
<1>2. /\ x \in Occurrence /\ x = todo[1] /\ 1 \in DOMAIN todo
      /\ \A i \in DOMAIN rest :
            i \in Nat /\ i >= 1 /\ i + 1 \in DOMAIN todo /\ rest[i] = todo[i + 1]
      /\ \A i \in DOMAIN todo : i = 1 \/ (i > 1 /\ i - 1 \in DOMAIN rest /\ rest[i - 1] = todo[i])
  BY <1>1, TodoIs
<1>3. Working
  BY DEF LedgerInv, Admitting
<1>4. /\ sweeper'.stage = s /\ sweeper'.todo = rest /\ sweeper'.epoch = sweeper.epoch
  BY <1>1 DEF GoesOn, Becomes
<1>5. Working'
  BY <1>3, <1>4 DEF Working
<1>6. /\ \A i \in DOMAIN fate : \A k \in DOMAIN todo : fate[i].job = todo[k].job => fate[i].at < todo[k].at
      /\ \A i, k \in DOMAIN todo : i < k => Before(todo[i], todo[k])
      /\ \A j \in Jobs : \A t : Decided(j, t) \/ Waiting(j, t) <=> t \in Passed(j)
  BY <1>1, <1>3 DEF LedgerInv
<1>7. \A i \in DOMAIN todo : todo[i] \in Occurrence
  BY <1>1 DEF ShapeInv, SweeperType
<1>8. \A i \in DOMAIN todo : todo[i].job \in Nat /\ todo[i].at \in Nat
  <2>1. \A i \in DOMAIN todo : todo[i].job \in Jobs /\ todo[i].at \in 0 .. MaxClock
    BY <1>7, InstantIs DEF Occurrence
  <2> QED
    BY <2>1, KeysAreNatural
<1>9. /\ \A j, t : Decided(j, t)' <=> Decided(j, t) \/ (x.job = j /\ x.at = t)
      /\ \A i \in DOMAIN fate' : \/ i \in DOMAIN fate /\ fate'[i] = fate[i]
                                 \/ x.job = fate'[i].job /\ x.at = fate'[i].at
  BY <1>1, DecidedAfter
<1>10. ~ Decided(x.job, x.at)
  BY <1>2, <1>6, <1>8 DEF Decided
<1>11. NoOccurrenceTwice'
  BY <1>1, <1>10, StillOnce DEF LedgerInv
<1>12. \A j, t : Waiting(j, t) <=> (x.job = j /\ x.at = t) \/ Waiting(j, t)'
  <2>1. \A j, t : Waiting(j, t) <=> \E i \in DOMAIN todo : todo[i].job = j /\ todo[i].at = t
    BY <1>1 DEF Waiting
  <2>2. \A j, t : Waiting(j, t)' <=> \E i \in DOMAIN rest : rest[i].job = j /\ rest[i].at = t
    BY <1>4 DEF Waiting
  <2> QED
    BY <1>2, <2>1, <2>2
<1>13. \A j \in Jobs : \A t : Decided(j, t)' \/ Waiting(j, t)' <=> t \in Passed(j)
  BY <1>6, <1>9, <1>12
<1>14. \A j \in Jobs : Passed(j)' = Passed(j)
  BY DEF Passed
<1>15. ASSUME NEW i \in DOMAIN fate', NEW k \in DOMAIN rest, fate'[i].job = rest[k].job
       PROVE  fate'[i].at < rest[k].at
  <2>1. k \in Nat /\ k + 1 \in DOMAIN todo /\ rest[k] = todo[k + 1] /\ 1 < k + 1
    BY <1>2
  <2>2. CASE i \in DOMAIN fate /\ fate'[i] = fate[i]
    BY <1>6, <1>15, <2>1, <2>2
  <2>3. CASE x.job = fate'[i].job /\ x.at = fate'[i].at
    <3>1. Before(x, rest[k])
      BY <1>2, <1>6, <2>1
    <3>2. x.job \in Nat /\ x.job = rest[k].job
      BY <1>2, <1>8, <1>15, <2>3
    <3>3. x.at < rest[k].at
      BY <3>1, <3>2 DEF Before
    <3> QED
      BY <2>3, <3>3
  <2> QED
    BY <1>9, <2>2, <2>3
<1>16. ASSUME NEW i \in DOMAIN rest, NEW k \in DOMAIN rest, i < k PROVE Before(rest[i], rest[k])
  <2>1. /\ i \in Nat /\ i + 1 \in DOMAIN todo /\ rest[i] = todo[i + 1]
        /\ k \in Nat /\ k + 1 \in DOMAIN todo /\ rest[k] = todo[k + 1]
    BY <1>2
  <2>2. i + 1 < k + 1
    BY <1>16, <2>1
  <2> QED
    BY <1>6, <2>1, <2>2
<1>17. sweeper'.epoch <= epoch' /\ \A j \in Jobs : origin'[j] <= cursor'[j]
  BY <1>4 DEF LedgerInv
<1> QED
  BY <1>4, <1>5, <1>11, <1>13, <1>14, <1>15, <1>16, <1>17 DEF LedgerInv

(* The first refusal: the cursors go back to what was decided.              *)
LEMMA LedgerRefuses ==
    ASSUME ShapeInv, LedgerInv, SweepRefused
    PROVE  LedgerInv'
<1>1. Working
  BY DEF LedgerInv, SweepRefused, Admitting
<1>2. sweeper'.stage = "admitting" /\ sweeper'.todo = <<>> /\ sweeper'.epoch = sweeper.epoch
  BY RefusingSweep DEF GoesOn, Becomes
<1>3. UNCHANGED <<origin, fate, epoch, shutting_down>> /\ cursor' = [j \in Jobs |-> moved_back(j)]
  BY DEF SweepRefused, history
<1>4. Working'
  BY <1>1, <1>2, <1>3 DEF Working
<1>5. /\ \A i \in DOMAIN fate : \A k \in DOMAIN sweeper.todo :
            fate[i].job = sweeper.todo[k].job => fate[i].at < sweeper.todo[k].at
      /\ \A j \in Jobs : \A t : Decided(j, t) \/ Waiting(j, t) <=> t \in Passed(j)
      /\ \A j \in Jobs : origin[j] <= cursor[j]
  BY <1>1 DEF LedgerInv
<1>6. ASSUME NEW j \in Jobs
      PROVE  origin[j] <= moved_back(j) /\ \A t : Decided(j, t) <=> t \in Due(j, origin[j], moved_back(j))
  <2>1. origin[j] \in Nat /\ cursor[j] \in Nat /\ origin[j] <= cursor[j]
    BY <1>5, InstantIs DEF ShapeInv
  <2>2. \A t : t \in Passed(j) <=> t \in Nat /\ origin[j] < t /\ t <= cursor[j] /\ Occurs(j, t)
    BY <2>1, DueIs DEF Passed
  <2>3. \A t : Waiting(j, t) <=> t \in Left(j)
    BY DEF Waiting, Left
  <2>4. CASE Left(j) = {}
    <3>1. moved_back(j) = cursor[j]
      BY <2>4, MovedBackIs
    <3> QED
      BY <1>5, <2>1, <2>3, <2>4, <3>1 DEF Passed
  <2>5. CASE Left(j) # {}
    <3>1. PICK m : m = LeastOf(Left(j))
      OBVIOUS
    <3>2. m \in Left(j) /\ (\A t \in Left(j) : m <= t)
          /\ (m - 1 < cursor[j] => moved_back(j) = m - 1)
      BY <2>5, <3>1, MovedBackIs
    <3>3. m \in Nat /\ origin[j] < m /\ m <= cursor[j]
      BY <1>5, <2>2, <2>3, <3>2
    <3>4. moved_back(j) = m - 1 /\ m - 1 \in Nat /\ origin[j] <= m - 1
      BY <2>1, <3>2, <3>3
    <3>5. \A t : t \in Due(j, origin[j], m - 1) <=>
                    t \in Nat /\ origin[j] < t /\ t <= m - 1 /\ Occurs(j, t)
      BY <2>1, <3>4, DueIs
    <3>6. ASSUME NEW t, Decided(j, t) PROVE t \in Due(j, origin[j], m - 1)
      <4>1. t \in Nat /\ origin[j] < t /\ t <= cursor[j] /\ Occurs(j, t)
        BY <1>5, <2>2, <3>6
      <4>2. t < m
        BY <1>5, <3>2, <3>6 DEF Decided, Left
      <4> QED
        BY <3>3, <3>5, <4>1, <4>2
    <3>7. ASSUME NEW t \in Due(j, origin[j], m - 1) PROVE Decided(j, t)
      <4>1. t \in Nat /\ origin[j] < t /\ t <= m - 1 /\ Occurs(j, t)
        BY <3>5
      <4>2. t \in Passed(j)
        BY <2>1, <2>2, <3>3, <4>1
      <4>3. t \notin Left(j)
        BY <3>2, <3>3, <4>1
      <4> QED
        BY <1>5, <2>3, <4>2, <4>3
    <3> QED
      BY <3>4, <3>6, <3>7
  <2> QED
    BY <2>4, <2>5
<1>7. \A j, t : (Decided(j, t)' <=> Decided(j, t)) /\ ~ Waiting(j, t)'
  BY <1>2, <1>3, EmptyIs DEF Decided, Waiting
<1>8. \A j \in Jobs : Passed(j)' = Due(j, origin[j], moved_back(j)) /\ origin'[j] <= cursor'[j]
  BY <1>3, <1>6 DEF Passed
<1>9. \A j \in Jobs : \A t : Decided(j, t)' \/ Waiting(j, t)' <=> t \in Passed(j)'
  BY <1>6, <1>7, <1>8
<1>10. NoOccurrenceTwice' /\ sweeper'.epoch <= epoch'
  BY <1>2, <1>3 DEF NoOccurrenceTwice, LedgerInv
<1> QED
  BY <1>2, <1>4, <1>8, <1>9, <1>10, EmptyIs DEF LedgerInv

(* What is kept and dropped, one by one.                                    *)
LEMMA CollectedOneByOne ==
    ASSUME NEW n, NEW j, NEW t
    PROVE  /\ (\E x \in KeptRuns(n) : x.job = j /\ x.at = t) <=> j \in Swept /\ t \in Kept(j, n)
           /\ (\E x \in DroppedRuns(n) : x.job = j /\ x.at = t) <=>
                  /\ j \in Swept /\ config.catch_up # "all"
                  /\ t \in Due(j, cursor[j], n) /\ t \notin Kept(j, n)
<1>1. PICK y : y = [job |-> j, at |-> t]
  OBVIOUS
<1>2. y.job = j /\ y.at = t
  BY <1>1
<1>3. \A x \in KeptRuns(n) : \E i \in Swept : \E u \in Kept(i, n) : x.job = i /\ x.at = u
  BY DEF KeptRuns
<1>4. j \in Swept /\ t \in Kept(j, n) => y \in KeptRuns(n)
  BY <1>1 DEF KeptRuns
<1>5. \A x \in DroppedRuns(n) :
         /\ config.catch_up # "all"
         /\ \E i \in Swept : \E u \in Due(i, cursor[i], n) \ Kept(i, n) : x.job = i /\ x.at = u
  BY DEF DroppedRuns
<1>6. /\ j \in Swept /\ config.catch_up # "all" /\ t \in Due(j, cursor[j], n) \ Kept(j, n)
      => y \in DroppedRuns(n)
  BY <1>1 DEF DroppedRuns
<1> QED
  BY <1>2, <1>3, <1>4, <1>5, <1>6

(* The sweep moves the cursors and lists the runs.                          *)
LEMMA LedgerCollects ==
    ASSUME ShapeInv, LedgerInv, SweepCollect
    PROVE  LedgerInv'
<1>1. PICK n : n = sweeper.now
  OBVIOUS
<1>2. PICK K, D : K = KeptRuns(n) /\ D = DroppedRuns(n)
  OBVIOUS
<1>3. K \in SUBSET Occurrence /\ D \in SUBSET Occurrence
  BY <1>1, <1>2, CollectedAreOccurrences
<1>4. PICK todo : todo = Sorted(K)
  OBVIOUS
<1>5. /\ \A i, k \in DOMAIN todo : i < k => Before(todo[i], todo[k])
      /\ \A i \in DOMAIN todo : todo[i] \in K
      /\ \A x \in K : \E i \in DOMAIN todo : todo[i] = x
  BY <1>3, <1>4, SortedOccurrences
<1>6. sweeper'.stage = "admitting" /\ sweeper'.todo = todo /\ sweeper'.epoch = epoch
  BY <1>1, <1>2, <1>4, CollectingSweep DEF Becomes
<1>7. /\ ~ Working /\ ~ shutting_down /\ UNCHANGED <<origin, epoch, shutting_down>>
      /\ fate' = Fated(D, "dropped")
      /\ \A j \in Jobs : cursor'[j] = IF j \in Swept THEN moved_cursor(j, n) ELSE cursor[j]
  BY <1>1, <1>2, CollectIs DEF Working
<1>8. Working'
  BY <1>6, <1>7 DEF Working
<1>9. Records(fate', D, "dropped")
  BY <1>3, <1>7, FatedRecords DEF ShapeInv
<1>10. /\ \A j, t : Decided(j, t)' <=> Decided(j, t) \/ \E x \in D : x.job = j /\ x.at = t
       /\ \A i \in DOMAIN fate' : \/ i \in DOMAIN fate /\ fate'[i] = fate[i]
                                  \/ \E x \in D : x.job = fate'[i].job /\ x.at = fate'[i].at
  BY <1>9, DecidedAfter
<1>11. \A j \in Jobs : /\ origin[j] \in Nat /\ cursor[j] \in Nat /\ origin[j] <= cursor[j]
                       /\ \A t : Decided(j, t) <=> t \in Passed(j)
  BY <1>7, InstantIs DEF ShapeInv, LedgerInv
<1>12. \A j, t : Waiting(j, t)' <=> \E x \in K : x.job = j /\ x.at = t
  BY <1>5, <1>6 DEF Waiting
<1>13. n \in Nat /\ Swept \subseteq Jobs
  BY <1>1, InstantIs DEF ShapeInv, SweeperType, Swept
<1>14. \A j, t : (\E x \in K : x.job = j /\ x.at = t) <=> j \in Swept /\ t \in Kept(j, n)
  BY <1>2, CollectedOneByOne
<1>15. \A j, t : (\E x \in D : x.job = j /\ x.at = t) <=>
                    /\ j \in Swept /\ config.catch_up # "all"
                    /\ t \in Due(j, cursor[j], n) /\ t \notin Kept(j, n)
  BY <1>2, CollectedOneByOne
<1>16. \A j \in Jobs : WindowIsSplit(j, n)
  BY <1>1, WindowIs
<1>17. ASSUME NEW j \in Jobs
       PROVE  /\ origin[j] <= cursor'[j]
              /\ \A t : Decided(j, t)' \/ Waiting(j, t)' <=> t \in Due(j, origin[j], cursor'[j])
  <2>1. CASE j \notin Swept
    <3>1. cursor'[j] = cursor[j]
      BY <1>7, <2>1
    <3> QED
      BY <1>10, <1>11, <1>12, <1>14, <1>15, <2>1, <3>1 DEF Passed
  <2>2. CASE j \in Swept
    <3>1. PICK to : to = moved_cursor(j, n)
      OBVIOUS
    <3>2. /\ cursor'[j] = to /\ to \in Nat /\ cursor[j] <= to
          /\ Kept(j, n) \subseteq Due(j, cursor[j], n)
          /\ config.catch_up = "all" => \A t : t \in Kept(j, n) <=> t \in Due(j, cursor[j], to)
          /\ config.catch_up # "all" =>
                \A t : t \in Due(j, cursor[j], n) <=> t \in Due(j, cursor[j], to)
      BY <1>7, <1>16, <2>2, <3>1 DEF WindowIsSplit
    <3>3. \A t : t \in Due(j, origin[j], to) <=> t \in Passed(j) \/ t \in Due(j, cursor[j], to)
      BY <1>11, <3>2, DueSplits DEF Passed
    <3>4. \A t : Decided(j, t)' \/ Waiting(j, t)' <=>
                    \/ t \in Passed(j) \/ t \in Kept(j, n)
                    \/ config.catch_up # "all" /\ t \in Due(j, cursor[j], n) /\ t \notin Kept(j, n)
      BY <1>10, <1>11, <1>12, <1>14, <1>15, <2>2
    <3>5. \A t : Decided(j, t)' \/ Waiting(j, t)' <=> t \in Due(j, origin[j], to)
      BY <3>2, <3>3, <3>4
    <3>6. origin[j] <= to
      BY <1>11, <3>2
    <3> QED
      BY <3>2, <3>5, <3>6
  <2> QED
    BY <2>1, <2>2
<1>18. ASSUME NEW j \in Jobs, NEW t \in Due(j, cursor[j], n)
       PROVE  t \in Nat /\ cursor[j] < t /\ \A u \in Passed(j) : u \in Nat /\ u < t
  <2>1. t \in Nat /\ cursor[j] < t /\ cursor[j] \in Nat
    BY <1>11, <1>13, DueIs
  <2>2. \A u \in Passed(j) : u \in Nat /\ u <= cursor[j]
    BY <1>11, DueIs DEF Passed
  <2> QED
    BY <2>1, <2>2
<1>19. NoOccurrenceTwice'
  <2>1. ASSUME NEW x \in D PROVE ~ Decided(x.job, x.at)
    <3>1. x.job \in Jobs /\ x.at \in Due(x.job, cursor[x.job], n)
      BY <1>13, <1>15, <2>1
    <3> QED
      BY <1>11, <1>18, <3>1
  <2> QED
    BY <1>9, <2>1, StillOnce DEF LedgerInv
<1>20. ASSUME NEW i \in DOMAIN fate', NEW k \in DOMAIN todo, fate'[i].job = todo[k].job
       PROVE  fate'[i].at < todo[k].at
  <2>1. PICK j, t : j = todo[k].job /\ t = todo[k].at
    OBVIOUS
  <2>2. j \in Swept /\ j \in Jobs /\ t \in Kept(j, n)
    BY <1>5, <1>13, <1>14, <2>1
  <2>3. t \in Due(j, cursor[j], n)
    BY <1>16, <2>2 DEF WindowIsSplit
  <2>4. CASE i \in DOMAIN fate /\ fate'[i] = fate[i]
    <3>1. Decided(j, fate[i].at)
      BY <1>20, <2>1, <2>4 DEF Decided
    <3> QED
      BY <1>11, <1>18, <2>1, <2>2, <2>3, <2>4, <3>1
  <2>5. CASE \E x \in D : x.job = fate'[i].job /\ x.at = fate'[i].at
    <3>1. /\ config.catch_up # "all" /\ fate'[i].at \in Due(j, cursor[j], n)
          /\ fate'[i].at \notin Kept(j, n)
      BY <1>15, <1>20, <2>1, <2>5
    <3> QED
      BY <1>16, <2>1, <2>2, <3>1 DEF WindowIsSplit
  <2> QED
    BY <1>10, <2>4, <2>5
<1>21. \A j \in Jobs : Passed(j)' = Due(j, origin[j], cursor'[j]) /\ origin'[j] <= cursor'[j]
  BY <1>7, <1>17 DEF Passed
<1>22. sweeper'.epoch <= epoch'
  BY <1>6, <1>7 DEF ShapeInv
<1> QED
  BY <1>5, <1>6, <1>8, <1>17, <1>19, <1>20, <1>21, <1>22 DEF LedgerInv

(* A reset begins a new ledger.                                             *)
LEMMA LedgerResets ==
    ASSUME ShapeInv, LedgerInv, reset_at
    PROVE  LedgerInv'
<1>1. /\ epoch' = epoch + 1 /\ fate' = <<>> /\ UNCHANGED <<shutting_down, sweeper>>
      /\ cursor' = [j \in Jobs |-> clock] /\ origin' = [j \in Jobs |-> clock]
  BY DEF reset_at
<1>2. clock \in Nat /\ epoch \in Nat /\ sweeper.epoch \in Nat
  BY InstantIs DEF ShapeInv, SweeperType
<1>3. sweeper.stage # "admitting"
  BY DEF reset_at, Unlocked
<1>4. sweeper.epoch <= epoch
  BY DEF LedgerInv
<1>5. ~ Working' /\ sweeper'.epoch <= epoch'
  BY <1>1, <1>2, <1>4 DEF Working
<1>6. NoOccurrenceTwice' /\ \A j, t : ~ Decided(j, t)'
  BY <1>1, EmptyIs DEF NoOccurrenceTwice, Decided
<1>7. ASSUME NEW j \in Jobs, NEW t PROVE t \notin Passed(j)' /\ origin'[j] <= cursor'[j]
  <2>1. Passed(j)' = Due(j, clock, clock) /\ clock <= clock
    BY <1>1, <1>2 DEF Passed
  <2>2. t \notin Due(j, clock, clock)
    BY <1>2, DueIs
  <2> QED
    BY <1>1, <2>1, <2>2
<1> QED
  BY <1>1, <1>3, <1>5, <1>6, <1>7 DEF LedgerInv

(* Steps between two sweeps, and around a publication.                      *)
LEMMA LedgerOuter ==
    ASSUME ShapeInv, LedgerInv, SweepStart \/ SweepStops \/ SweepEnd \/ SweepRelocks
    PROVE  LedgerInv'
<1>1. UNCHANGED <<cursor, origin, fate, epoch, shutting_down>>
  BY DEF SweepStart, SweepStops, SweepEnd, SweepRelocks, inner, history
<1>2. /\ NoOccurrenceTwice' /\ \A j \in Jobs : origin'[j] <= cursor'[j]
      /\ \A j, t : Decided(j, t)' <=> Decided(j, t)
      /\ \A j : Passed(j)' = Passed(j)
  BY <1>1 DEF LedgerInv, NoOccurrenceTwice, Decided, Passed
<1>3. CASE SweepRelocks /\ ~ interrupted
  <2>1. sweeper'.stage = "admitting" /\ sweeper'.todo = sweeper.todo /\ sweeper'.epoch = sweeper.epoch
    BY <1>3, RelockingSweep DEF GoesOn, Becomes
  <2>2. Working /\ Working'
    BY <1>1, <1>3, <2>1 DEF SweepRelocks, Working, interrupted
  <2>3. \A j, t : Waiting(j, t)' <=> Waiting(j, t)
    BY <2>1 DEF Waiting
  <2>4. /\ \A i \in DOMAIN fate : \A k \in DOMAIN sweeper.todo :
              fate[i].job = sweeper.todo[k].job => fate[i].at < sweeper.todo[k].at
        /\ \A i, k \in DOMAIN sweeper.todo : i < k => Before(sweeper.todo[i], sweeper.todo[k])
        /\ \A j \in Jobs : \A t : Decided(j, t) \/ Waiting(j, t) <=> t \in Passed(j)
        /\ sweeper.epoch <= epoch
    BY <2>2 DEF LedgerInv
  <2>5. \A j \in Jobs : \A t : Decided(j, t)' \/ Waiting(j, t)' <=> t \in Passed(j)'
    BY <1>2, <2>3, <2>4
  <2> QED
    BY <1>1, <1>2, <2>1, <2>2, <2>4, <2>5 DEF LedgerInv
<1>4. ASSUME ~ (SweepRelocks /\ ~ interrupted) PROVE LedgerInv'
  <2>1. sweeper'.stage = "started" \/ sweeper'.stage = "idle"
    BY <1>4, RestartingSweep DEF Restarts
  <2>2. sweeper'.epoch = 0
    <3>1. PICK w : w = [Idle EXCEPT !.stage = "started", !.now = clock]
      OBVIOUS
    <3>2. w.epoch = 0 /\ Idle.epoch = 0
      BY <3>1 DEF Idle
    <3>3. sweeper' = w \/ sweeper' = Idle
      BY <1>4, <3>1 DEF SweepStart, SweepStops, SweepEnd, SweepRelocks
    <3> QED
      BY <3>2, <3>3
  <2>3. ~ Working' /\ sweeper'.stage # "admitting"
    BY <2>1 DEF Working
  <2>4. sweeper'.epoch <= epoch'
    BY <1>1, <2>2 DEF ShapeInv
  <2>5. ASSUME ~ shutting_down
        PROVE  \A j \in Jobs : \A t : Decided(j, t) <=> t \in Passed(j)
    <3>1. CASE SweepEnd
      <4>1. sweeper.stage = "admitting" /\ sweeper.todo = <<>>
        BY <3>1 DEF SweepEnd, Closing
      <4>2. Working
        BY <4>1 DEF LedgerInv
      <4>3. \A j, t : ~ Waiting(j, t)
        BY <4>1, EmptyIs DEF Waiting
      <4> QED
        BY <4>2, <4>3 DEF LedgerInv
    <3>2. CASE SweepStart \/ SweepStops
      BY <2>5, <3>2 DEF LedgerInv, Working, SweepStart, SweepStops
    <3>3. CASE SweepRelocks /\ interrupted
      BY <2>5, <3>3 DEF LedgerInv, Working, SweepRelocks, interrupted
    <3> QED
      BY <1>4, <3>1, <3>2, <3>3
  <2>6. ~ shutting_down' => \A j \in Jobs : \A t : Decided(j, t)' <=> t \in Passed(j)'
    BY <1>1, <1>2, <2>5
  <2> QED
    BY <1>2, <2>3, <2>4, <2>6 DEF LedgerInv
<1> QED
  BY <1>3, <1>4

(* Every step keeps the ledger.                                             *)
LEMMA LedgerStep ==
    ASSUME ShapeInv, LedgerInv, [Next]_vars
    PROVE  LedgerInv'
<1>1. CASE UNCHANGED <<cursor, origin, fate, epoch, shutting_down, sweeper>>
  BY <1>1 DEF LedgerInv, NoOccurrenceTwice, Working, Decided, Waiting, Passed
<1>2. CASE SweepSkips
  <2>1. /\ Admitting /\ UNCHANGED <<cursor, origin, epoch, shutting_down>>
        /\ fate' = Fated({NextRun}, "skipped")
    BY <1>2 DEF SweepSkips, inner
  <2>2. {NextRun} \in SUBSET Occurrence
    BY <2>1, TodoIs
  <2>3. Records(fate', {NextRun}, "skipped")
    BY <2>1, <2>2, FatedRecords DEF ShapeInv
  <2> QED
    BY <1>2, <2>1, <2>3, SkippingSweep, LedgerTakes
<1>3. CASE SweepAdmits
  <2>1. /\ Admitting /\ UNCHANGED <<cursor, origin, epoch, shutting_down>>
        /\ fate' = Fated({NextRun}, "run")
    BY <1>3 DEF SweepAdmits
  <2>2. {NextRun} \in SUBSET Occurrence
    BY <2>1, TodoIs
  <2>3. Records(fate', {NextRun}, "run")
    BY <2>1, <2>2, FatedRecords DEF ShapeInv
  <2>4. StageAfter \in {"admitting", "publishing"}
    BY DEF StageAfter
  <2> QED
    BY <1>3, <2>1, <2>3, <2>4, AdmittingSweep, LedgerTakes
<1>4. CASE begin_shutdown
  <2>1. /\ UNCHANGED <<cursor, origin, fate, epoch, sweeper>> /\ shutting_down' = TRUE
        /\ sweeper.stage # "admitting"
    BY <1>4 DEF begin_shutdown, history, Unlocked
  <2> QED
    BY <2>1 DEF LedgerInv, NoOccurrenceTwice, Working
<1> QED
  <2>1. CASE Sweep
    BY <1>1, <1>2, <1>3, <2>1, LedgerOuter, LedgerCollects, LedgerRefuses, TheyAreRunSteps,
       RunStepsLeave DEF Sweep
  <2>2. CASE (\E t \in 0 .. MaxClock : SetClock(t)) \/ Recheck \/ OtherReserves \/ OtherCancels
             \/ \E j \in Jobs : run_schedule(j)
    BY <1>1, <2>2 DEF SetClock, Recheck, OtherReserves, OtherCancels, run_schedule, inner, history
  <2>3. CASE Handlers
    BY <1>1, <2>3, TheyAreRunSteps, RunStepsLeave
  <2>4. CASE publish_schedule_messages
    BY <1>1, <2>4 DEF publish_schedule_messages, publish, publication_refused, complete_refused,
                      history
  <2>5. CASE UNCHANGED vars
    BY <1>1, <2>5 DEF vars, inner, history
  <2> QED
    BY <1>4, <2>1, <2>2, <2>3, <2>4, <2>5, LedgerResets DEF Next

-----------------------------------------------------------------------------
(* What is left due.                                                        *)

\* Nothing is due up to the clock, or what is due is remembered.
Served == \A j \in Jobs : \A t \in Due(j, cursor[j], clock) : catch_up_pending

(* The strengthening of BacklogKeepsBusy: unless another sweep is asked     *)
(* for, the one in progress is of this clock, and a list that leaves        *)
(* nothing behind covers every window up to the sweep's instant.            *)
BacklogInv ==
    ~ shutting_down =>
        /\ sweeper.stage = "started" \/ Working => rerun \/ sweeper.now = clock
        /\ sweeper.stage = "idle" => rerun \/ Served
        /\ Working /\ ~ catch_up_pending => \A j \in Jobs : sweeper.now <= cursor[j]

(* Nothing is due after the clock.                                          *)
LEMMA NothingDue ==
    ASSUME NEW j, NEW a \in Nat, NEW b \in Nat, b <= a
    PROVE  Due(j, a, b) = {}
<1>1. \A t : t \in Due(j, a, b) <=> t \in Nat /\ a < t /\ t <= b /\ Occurs(j, t)
  BY DueIs
<1> QED
  BY <1>1

(* The sweep collects.                                                      *)
LEMMA BacklogCollects ==
    ASSUME ShapeInv, BacklogInv, SweepCollect
    PROVE  BacklogInv'
<1>1. sweeper'.stage = "admitting" /\ sweeper'.now = sweeper.now
  BY CollectingSweep DEF Becomes
<1>2. /\ sweeper.stage = "started" /\ ~ shutting_down /\ UNCHANGED <<rerun, clock>>
      /\ catch_up_pending' = IF backlog_held THEN catch_up_pending ELSE left_due(sweeper.now)
      /\ \A j \in Jobs : cursor'[j] = IF j \in Swept THEN moved_cursor(j, sweeper.now) ELSE cursor[j]
  BY CollectIs
<1>3. rerun' \/ sweeper'.now = clock'
  BY <1>1, <1>2 DEF BacklogInv
<1>4. ASSUME ~ catch_up_pending', NEW j \in Jobs PROVE sweeper'.now <= cursor'[j]
  <2>1. ~ backlog_held /\ ~ left_due(sweeper.now)
    BY <1>2, <1>4 DEF backlog_held
  <2>2. ~ Beyond(j, sweeper.now) /\ j \in Swept
    BY <2>1 DEF left_due, Swept
  <2>3. sweeper.now <= moved_cursor(j, sweeper.now)
    BY <2>2, WindowIs DEF WindowIsSplit
  <2> QED
    BY <1>1, <1>2, <2>2, <2>3
<1> QED
  BY <1>1, <1>3, <1>4 DEF BacklogInv

(* The sweep ends.                                                          *)
LEMMA BacklogEnds ==
    ASSUME ShapeInv, LedgerInv, BacklogInv, SweepEnd
    PROVE  BacklogInv'
<1>1. sweeper'.stage = "idle"
  BY RestartingSweep DEF Restarts
<1>2. UNCHANGED <<rerun, clock, cursor, catch_up_pending, shutting_down>>
  BY DEF SweepEnd, inner, environment
<1>3. Working
  BY DEF SweepEnd, Closing, LedgerInv
<1>4. ~ Working'
  BY <1>1 DEF Working
<1>5. ASSUME ~ rerun, NEW j \in Jobs, NEW t \in Due(j, cursor[j], clock) PROVE catch_up_pending
  <2>1. sweeper.now = clock /\ ~ shutting_down
    BY <1>3, <1>5 DEF BacklogInv, Working
  <2>2. ASSUME ~ catch_up_pending PROVE FALSE
    <3>1. clock <= cursor[j]
      BY <1>3, <2>1, <2>2 DEF BacklogInv
    <3>2. clock \in Nat /\ cursor[j] \in Nat
      BY InstantIs DEF ShapeInv
    <3> QED
      BY <1>5, <3>1, <3>2, NothingDue
  <2>3. catch_up_pending \in BOOLEAN
    BY DEF ShapeInv
  <2> QED
    BY <2>2, <2>3
<1>6. rerun' \/ Served'
  BY <1>2, <1>5 DEF Served
<1> QED
  BY <1>1, <1>4, <1>6 DEF BacklogInv

(* Every step keeps it.                                                     *)
LEMMA BacklogStep ==
    ASSUME ShapeInv, LedgerInv, BacklogInv, [Next]_vars
    PROVE  BacklogInv'
<1>1. CASE /\ UNCHANGED <<clock, cursor, catch_up_pending, epoch, shutting_down, sweeper>>
           /\ rerun => rerun'
  BY <1>1 DEF BacklogInv, Working, Served
<1>2. CASE \E t \in 0 .. MaxClock : SetClock(t)
  <2>1. rerun' /\ UNCHANGED <<cursor, catch_up_pending, epoch, shutting_down, sweeper>>
    BY <1>2 DEF SetClock, Request, inner
  <2> QED
    BY <2>1 DEF BacklogInv, Working
<1>3. CASE begin_shutdown
  BY <1>3 DEF begin_shutdown, BacklogInv
<1>4. CASE reset_at
  <2>1. /\ UNCHANGED <<clock, sweeper, rerun, shutting_down>> /\ epoch' = epoch + 1
        /\ cursor' = [j \in Jobs |-> clock] /\ ~ shutting_down
    BY <1>4 DEF reset_at, environment
  <2>2. ~ Working'
    <3>1. epoch \in Nat /\ sweeper.epoch \in Nat /\ sweeper.epoch <= epoch
      BY DEF ShapeInv, SweeperType, LedgerInv
    <3> QED
      BY <2>1, <3>1 DEF Working
  <2>3. \A j \in Jobs : Due(j, clock, clock) = {}
    <3>1. clock \in Nat /\ clock <= clock
      BY InstantIs DEF ShapeInv
    <3> QED
      BY <3>1, NothingDue
  <2>4. Served'
    BY <2>1, <2>3 DEF Served
  <2> QED
    BY <2>1, <2>2, <2>4 DEF BacklogInv
<1>5. CASE SweepStart \/ (SweepRelocks /\ interrupted)
  <2>1. sweeper'.stage = "started" /\ sweeper'.now = clock /\ clock' = clock
    BY <1>5, RestartingSweep DEF Restarts, SweepStart, SweepRelocks, environment
  <2>2. ~ Working'
    BY <2>1 DEF Working
  <2> QED
    BY <2>1, <2>2 DEF BacklogInv
<1>6. CASE SweepRelocks /\ ~ interrupted
  <2>1. sweeper'.stage = "admitting" /\ sweeper'.now = sweeper.now /\ sweeper'.epoch = sweeper.epoch
        /\ rerun' = rerun
    BY <1>6, RelockingSweep DEF GoesOn, Becomes
  <2>2. UNCHANGED <<clock, cursor, catch_up_pending, epoch, shutting_down>>
    BY <1>6 DEF SweepRelocks, inner, environment
  <2>3. Working
    BY <1>6 DEF SweepRelocks, interrupted, Working
  <2> QED
    BY <2>1, <2>2, <2>3 DEF BacklogInv
<1>7. CASE SweepStops
  BY <1>7 DEF SweepStops, BacklogInv, inner
<1>8. CASE SweepSkips \/ SweepAdmits
  <2>1. /\ sweeper'.stage \in {"admitting", "publishing"} /\ sweeper'.now = sweeper.now
        /\ sweeper'.epoch = sweeper.epoch
    BY <1>8, SkippingSweep, AdmittingSweep DEF GoesOn, Becomes, StageAfter
  <2>2. /\ UNCHANGED <<clock, cursor, catch_up_pending, epoch, shutting_down, rerun>>
        /\ sweeper.stage = "admitting"
    BY <1>8 DEF SweepSkips, SweepAdmits, Admitting, inner, environment
  <2>3. Working
    BY <2>2 DEF LedgerInv
  <2> QED
    BY <2>1, <2>2, <2>3 DEF BacklogInv
<1>9. CASE SweepRefused
  <2>1. /\ sweeper'.stage = "admitting" /\ sweeper'.now = sweeper.now
        /\ sweeper'.epoch = sweeper.epoch
    BY <1>9, RefusingSweep DEF GoesOn, Becomes
  <2>2. /\ UNCHANGED <<clock, epoch, shutting_down, rerun>> /\ catch_up_pending'
        /\ sweeper.stage = "admitting"
    BY <1>9 DEF SweepRefused, Admitting, environment
  <2>3. Working
    BY <2>2 DEF LedgerInv
  <2> QED
    BY <2>1, <2>2, <2>3 DEF BacklogInv
<1>10. CASE RunSteps
  BY <1>1, <1>10, RunStepsLeave
<1> QED
  <2>1. CASE Sweep
    BY <1>5, <1>6, <1>7, <1>8, <1>9, <1>10, <2>1, BacklogCollects, BacklogEnds, TheyAreRunSteps
       DEF Sweep
  <2>2. CASE Recheck \/ OtherReserves \/ OtherCancels \/ \E j \in Jobs : run_schedule(j)
    BY <1>1, <2>2 DEF Recheck, Request, OtherReserves, OtherCancels, run_schedule, environment
  <2>3. CASE Handlers
    BY <1>10, <2>3, TheyAreRunSteps
  <2>4. CASE publish_schedule_messages
    BY <1>1, <2>4 DEF publish_schedule_messages, publish, publication_refused, complete_refused,
                      environment
  <2>5. CASE UNCHANGED vars
    BY <1>1, <2>5 DEF vars, inner, environment
  <2> QED
    BY <1>2, <1>3, <1>4, <2>1, <2>2, <2>3, <2>4, <2>5 DEF Next

-----------------------------------------------------------------------------
(* The theorems.                                                            *)

SweepInv == ShapeInv /\ OverlapInv /\ LimitInv /\ LedgerInv /\ BacklogInv

(* The first state satisfies the invariant.                                 *)
LEMMA SweepInvInit ==
    ASSUME Init
    PROVE  SweepInv
<1>1. ShapeInv
  BY ShapeInit
<1>2. /\ runs = {} /\ publications = {} /\ reserved = 0 /\ fate = <<>> /\ sweeper = Idle
      /\ clock = 0 /\ epoch = 0 /\ config \in Configs
      /\ cursor = [j \in Jobs |-> 0] /\ origin = [j \in Jobs |-> 0]
  BY DEF Init
<1>3. OverlapInv
  BY <1>2 DEF OverlapInv, OneRunPerJob
<1>4. LimitInv
  <2>1. payloads = {} /\ {p \in publications : p.epoch = epoch} = {}
    BY <1>2 DEF payloads
  <2>2. Cardinality(payloads) = 0 /\ Charged = 0
    BY <2>1, FS_EmptySet DEF Charged
  <2> QED
    BY <1>2, <2>2, ConfigIs DEF LimitInv, WithinLimit
<1>5. ~ Working /\ sweeper.stage = "idle" /\ sweeper.epoch = 0
  BY <1>2 DEF Working, Idle
<1>6. \A j \in Jobs : Due(j, 0, 0) = {}
  BY NothingDue
<1>7. LedgerInv
  <2>1. NoOccurrenceTwice /\ \A j, t : ~ Decided(j, t)
    BY <1>2, EmptyIs DEF NoOccurrenceTwice, Decided
  <2>2. \A j \in Jobs : Passed(j) = {} /\ origin[j] <= cursor[j]
    BY <1>2, <1>6 DEF Passed
  <2> QED
    BY <1>2, <1>5, <2>1, <2>2 DEF LedgerInv
<1>8. BacklogInv
  <2>1. Served
    BY <1>2, <1>6 DEF Served
  <2> QED
    BY <1>5, <2>1 DEF BacklogInv
<1> QED
  BY <1>1, <1>3, <1>4, <1>7, <1>8 DEF SweepInv

(* The invariant of the schedule sweep: SweepCollect, SweepAdmits,          *)
(* SweepRefused and every other step of `on_clock_changed` and of what runs *)
(* beside it keep the shape, the overlap policy, the limit, the ledger and  *)
(* the account of what is left due.                                         *)
THEOREM SweepInvHolds == Spec => []SweepInv
<1>1. SweepInv /\ [Next]_vars => SweepInv'
  BY ShapeStep, OverlapStep, LimitStep, LedgerStep, BacklogStep DEF SweepInv
<1> QED
  BY <1>1, SweepInvInit, PTL DEF Spec

(* Type correctness and the admission limit: the records of runs and the    *)
(* reservations together never exceed MAX_ACTIVE_EVENT_RECORDS, and a run   *)
(* whose message is being published keeps its reservation.                  *)
THEOREM RecordsStayWithinLimit == Spec => [](TypeOK /\ WithinLimit)
<1>1. ASSUME SweepInv PROVE TypeOK /\ WithinLimit
  <2>1. ShapeInv /\ LimitInv
    BY <1>1 DEF SweepInv
  <2>2. config.resets \in Nat /\ epoch \in 0 .. config.resets
    BY <2>1, ConfigIs DEF ShapeInv
  <2>3. reserved \in Charged .. config.records
    BY <2>1, CountsAre DEF LimitInv, WithinLimit
  <2>4. /\ cursor \in [Jobs -> 0 .. MaxClock] /\ origin \in [Jobs -> 0 .. MaxClock]
        /\ clock \in 0 .. MaxClock
    BY <2>1 DEF ShapeInv, Instant
  <2>5. runs \subseteq [job : Jobs, at : 0 .. MaxClock, by : {"sweep", "manual"}, phase : Phases,
                       attempt : Nat, due : Nat]
    BY <2>1 DEF ShapeInv, RunType, Instant, By
  <2>6. ASSUME NEW p \in publications \cup refused
        PROVE  p \in [job : Jobs, at : 0 .. MaxClock, by : {"sweep", "manual"}, epoch : 0 .. config.resets]
    <3>1. p \in PublicationType /\ p.epoch <= epoch
      BY <2>1 DEF ShapeInv
    <3>2. p.epoch \in Nat
      BY <3>1 DEF PublicationType
    <3>3. p.epoch \in 0 .. config.resets
      BY <2>2, <3>1, <3>2
    <3> QED
      BY <3>1, <3>3 DEF PublicationType, Instant, By
  <2>7. {catch_up_pending, schedule_recheck_pending, shutting_down, rerun} \subseteq BOOLEAN
    BY <2>1 DEF ShapeInv
  <2>8. sweeper.stage \in Stages
    BY <2>1 DEF ShapeInv, SweeperType
  <2> QED
    BY <2>1, <2>2, <2>3, <2>4, <2>5, <2>6, <2>7, <2>8 DEF TypeOK, LimitInv
<1> QED
  BY <1>1, SweepInvHolds, PTL

(* Under `skip` and `reject` no two runs of a function coexist, whatever    *)
(* publishes, resets and manual runs come in between (admit_scheduled_run). *)
THEOREM RunsNeverOverlap == Spec => []NoOverlap
<1>1. SweepInv => NoOverlap
  BY OverlapHolds DEF SweepInv
<1> QED
  BY <1>1, SweepInvHolds, PTL

(* Between sweeps all that the cursor of a job passed was run, skipped or   *)
(* dropped: the first refusal moves every cursor back exactly far enough.   *)
THEOREM OccurrencesAreNotLost == Spec => []NoOccurrenceLost
<1>1. ASSUME SweepInv PROVE NoOccurrenceLost
  <2> SUFFICES ASSUME sweeper.stage \in {"idle", "started"}, ~ shutting_down, NEW j \in Jobs
               PROVE  FatesOf(j) = Due(j, origin[j], cursor[j])
    BY DEF NoOccurrenceLost
  <2>1. ~ Working
    BY DEF Working
  <2>2. \A t : Decided(j, t) <=> t \in Passed(j)
    BY <1>1, <2>1 DEF SweepInv, LedgerInv
  <2>3. \A t : t \in FatesOf(j) <=> Decided(j, t)
    BY DEF FatesOf, Decided
  <2> QED
    BY <2>2, <2>3 DEF Passed
<1> QED
  BY <1>1, SweepInvHolds, PTL

(* No occurrence is decided twice, not even after a refusal moved the       *)
(* cursor back or a publication let a reset in.                             *)
THEOREM OccurrencesAreDecidedOnce == Spec => []NoOccurrenceTwice
<1>1. SweepInv => NoOccurrenceTwice
  BY DEF SweepInv, LedgerInv
<1> QED
  BY <1>1, SweepInvHolds, PTL

(* When no sweep runs and none is asked for, whatever is due keeps          *)
(* `catch_up_pending`, so await-idle does not answer.                       *)
THEOREM BacklogIsRemembered == Spec => []BacklogKeepsBusy
<1>1. ASSUME SweepInv PROVE BacklogKeepsBusy
  <2> SUFFICES ASSUME Quiet, NEW j \in Jobs, Due(j, cursor[j], clock) # {}
               PROVE  catch_up_pending
    BY DEF BacklogKeepsBusy
  <2>1. Served
    BY <1>1 DEF SweepInv, BacklogInv, Quiet
  <2> QED
    BY <2>1 DEF Served
<1> QED
  BY <1>1, SweepInvHolds, PTL

\* What a step may add to the history.
OldestFirstStep ==
    \A i \in DOMAIN fate' :
       (i \notin DOMAIN fate /\ fate'[i].what = "run") =>
          /\ \A k \in DOMAIN sweeper'.todo : fate'[i].at <= sweeper'.todo[k].at
          /\ ~ catch_up_pending =>
                \A j \in Jobs : \A t \in Due(j, cursor[j], clock) : fate'[i].at <= t

(* A decision of another kind adds no run.                                  *)
LEMMA NoRunIsAdded ==
    ASSUME ShapeInv, NEW S, NEW what, what # "run", Records(fate', S, what)
    PROVE  OldestFirstStep
<1>1. PICK g, L : g = fate' /\ L = Len(fate)
  OBVIOUS
<1>2. /\ DOMAIN fate = 1 .. L /\ L \in Nat /\ Len(g) \in Nat /\ DOMAIN g = 1 .. Len(g)
  BY <1>1 DEF ShapeInv, Records
<1>3. \A i \in 1 .. Len(g) : i > L => g[i].what = what
  BY <1>1 DEF Records
<1>4. \A i \in DOMAIN g : i \notin DOMAIN fate => g[i].what # "run"
  BY <1>2, <1>3
<1> QED
  BY <1>1, <1>4 DEF OldestFirstStep

(* An admitted run is not younger than the ones behind it.                  *)
LEMMA TheOldestIsAdmitted ==
    ASSUME SweepInv, SweepAdmits
    PROVE  OldestFirstStep
<1>1. ShapeInv /\ LedgerInv /\ BacklogInv
  BY DEF SweepInv
<1>2. Admitting /\ Working /\ fate' = Fated({NextRun}, "run")
  BY <1>1 DEF SweepAdmits, Admitting, LedgerInv
<1>3. PICK x, todo, rest : x = NextRun /\ todo = sweeper.todo /\ rest = Tail(sweeper.todo)
  OBVIOUS
<1>4. /\ x \in Occurrence /\ x = todo[1] /\ 1 \in DOMAIN todo
      /\ \A i \in DOMAIN rest :
            i \in Nat /\ i >= 1 /\ i + 1 \in DOMAIN todo /\ rest[i] = todo[i + 1]
  BY <1>1, <1>2, <1>3, TodoIs
<1>5. sweeper'.todo = rest
  BY <1>1, <1>3, AdmittingSweep DEF GoesOn, Becomes
<1>6. \A i \in DOMAIN todo : todo[i].job \in Nat /\ todo[i].at \in Nat
  <2>1. \A i \in DOMAIN todo : todo[i] \in Occurrence
    BY <1>1, <1>3 DEF ShapeInv, SweeperType
  <2>2. \A i \in DOMAIN todo : todo[i].job \in Jobs /\ todo[i].at \in 0 .. MaxClock
    BY <2>1, InstantIs DEF Occurrence
  <2> QED
    BY <2>2, KeysAreNatural
<1>7. ASSUME NEW k \in DOMAIN rest PROVE x.at <= rest[k].at
  <2>1. k \in Nat /\ k + 1 \in DOMAIN todo /\ rest[k] = todo[k + 1] /\ 1 < k + 1
    BY <1>4
  <2>2. Before(x, rest[k])
    BY <1>1, <1>2, <1>3, <1>4, <2>1 DEF LedgerInv
  <2>3. x.at \in Nat /\ rest[k].at \in Nat
    BY <1>4, <1>6, <2>1
  <2> QED
    BY <2>2, <2>3 DEF Before
<1>8. ASSUME ~ catch_up_pending, NEW j \in Jobs, NEW t \in Due(j, cursor[j], clock)
      PROVE  x.at <= t
  <2>1. sweeper.now <= cursor[j]
    BY <1>1, <1>2, <1>8 DEF BacklogInv, Working
  <2>2. x.at <= sweeper.now
    BY <1>1, <1>3, <1>4 DEF ShapeInv
  <2>3. cursor[j] \in Nat /\ clock \in Nat /\ sweeper.now \in Nat /\ x.at \in Nat
    BY <1>1, <1>4, <1>6, InstantIs DEF ShapeInv, SweeperType
  <2>4. t \in Nat /\ cursor[j] < t
    BY <2>3, DueIs
  <2> QED
    BY <2>1, <2>2, <2>3, <2>4
<1>9. Records(fate', {x}, "run")
  <2>1. {x} \in SUBSET Occurrence
    BY <1>4
  <2> QED
    BY <1>1, <1>2, <1>3, <2>1, FatedRecords DEF ShapeInv
<1>10. \A i \in DOMAIN fate' : i \notin DOMAIN fate => fate'[i].at = x.at
  BY <1>1, <1>9, DecidedAfter
<1> QED
  BY <1>5, <1>7, <1>8, <1>10 DEF OldestFirstStep

(* `on_clock_changed` admits the oldest run it kept first, whatever its     *)
(* job; and unless the catch-up cap or a refusal left occurrences behind,   *)
(* no older one of any job is due.                                          *)
THEOREM OldestIsAdmittedFirst == Spec => OldestFirst
<1>1. ASSUME SweepInv, [Next]_vars PROVE [OldestFirstStep]_vars
  <2>1. ShapeInv
    BY <1>1 DEF SweepInv
  <2>2. CASE fate' = fate
    BY <2>2 DEF OldestFirstStep
  <2>3. CASE SweepCollect
    <3>1. fate' = Fated(DroppedRuns(sweeper.now), "dropped")
      BY <2>3, CollectIs
    <3>2. Records(fate', DroppedRuns(sweeper.now), "dropped")
      BY <2>1, <3>1, CollectedAreOccurrences, FatedRecords DEF ShapeInv
    <3> QED
      BY <2>1, <3>2, NoRunIsAdded
  <2>4. CASE SweepSkips
    <3>1. fate' = Fated({NextRun}, "skipped") /\ Admitting
      BY <2>4 DEF SweepSkips
    <3>2. {NextRun} \in SUBSET Occurrence
      BY <2>1, <3>1, TodoIs
    <3>3. Records(fate', {NextRun}, "skipped")
      BY <2>1, <3>1, <3>2, FatedRecords DEF ShapeInv
    <3> QED
      BY <2>1, <3>3, NoRunIsAdded
  <2>5. CASE reset_at
    <3>1. fate' = <<>>
      BY <2>5 DEF reset_at
    <3> QED
      BY <3>1, EmptyIs DEF OldestFirstStep
  <2>6. CASE Sweep
    BY <1>1, <2>2, <2>3, <2>4, <2>6, TheOldestIsAdmitted, TheyAreRunSteps, RunStepsLeave
       DEF Sweep, SweepStart, SweepStops, SweepEnd, SweepRelocks, SweepRefused, history
  <2>7. CASE (\E t \in 0 .. MaxClock : SetClock(t)) \/ Recheck \/ OtherReserves \/ OtherCancels
             \/ begin_shutdown \/ \E j \in Jobs : run_schedule(j)
    BY <2>2, <2>7 DEF SetClock, Recheck, OtherReserves, OtherCancels, begin_shutdown, run_schedule,
                      history
  <2>8. CASE Handlers
    BY <2>2, <2>8, TheyAreRunSteps, RunStepsLeave
  <2>9. CASE publish_schedule_messages
    BY <2>2, <2>9 DEF publish_schedule_messages, publish, publication_refused, complete_refused,
                      history
  <2>10. CASE UNCHANGED vars
    BY <2>10
  <2> QED
    BY <1>1, <2>5, <2>6, <2>7, <2>8, <2>9, <2>10 DEF Next
<1>2. Spec => [][OldestFirstStep]_vars
  BY <1>1, SweepInvHolds, PTL DEF Spec
<1> QED
  BY <1>2 DEF OldestFirst, OldestFirstStep
=============================================================================
