---------------------------- MODULE RuntimeProofs ----------------------------
(***************************************************************************)
(* Proofs about event delivery, for every set of functions, ids, programs   *)
(* of source mutations and fault plans, every retention and limit and any   *)
(* number of resets, reloads, exits and clock changes.                      *)
(*                                                                          *)
(* The runtime publishes a batch and releases the due retries in loops over *)
(* the outbox, which the model writes as recursive functions.  That such a  *)
(* loop is defined, and what it computes, is proved by induction in the     *)
(* form of the least number at which a statement fails.                     *)
(***************************************************************************)
EXTENDS FunctionsRuntime, OutboxStateProofs, WellFoundedInduction

-----------------------------------------------------------------------------
(* Least elements, and induction over the steps of a loop.                  *)

(* Every nonempty set of naturals has a least element.                      *)
LEMMA LeastNatural ==
    ASSUME NEW S \in SUBSET Nat, S # {}
    PROVE  \E m \in S : \A k \in S : m <= k
<1> DEFINE R == OpToRel(<, Nat)
<1>1. IsWellFoundedOn(R, Nat)
  BY NatLessThanWellFounded
<1>2. \A k, m \in Nat : k < m => <<k, m>> \in R
  BY DEF OpToRel
<1> HIDE DEF R
<1>3. PICK m \in S : \A k \in S : ~ (<<k, m>> \in R)
  BY <1>1, WFMin
<1>4. \A k \in S : ~ (k < m)
  BY <1>2, <1>3
<1>5. \A k \in S : m <= k
  BY <1>4
<1> QED
  BY <1>5

(* What holds before a loop and is kept by each of its N steps holds after. *)
LEMMA LoopInduction ==
    ASSUME NEW N \in Nat, NEW S, 0 \in S,
           \A n \in 0 .. N : n # 0 /\ n - 1 \in S => n \in S
    PROVE  \A n \in 0 .. N : n \in S
<1> DEFINE T == {n \in 0 .. N : n \notin S}
<1>1. T \in SUBSET Nat
  OBVIOUS
<1>2. ASSUME T # {} PROVE FALSE
  <2>1. PICK m \in T : \A k \in T : m <= k
    <3> HIDE DEF T
    <3> QED
      BY <1>1, <1>2, LeastNatural
  <2>2. m # 0 /\ m - 1 \in 0 .. N
    BY <2>1
  <2>3. m - 1 \notin T
    BY <2>1, <2>2
  <2> QED
    BY <2>1, <2>2, <2>3
<1> QED
  BY <1>2

(* A nonempty set of keys has a first one.                                  *)
LEMMA LeastKey ==
    ASSUME NEW K \in SUBSET Keys, K # {}
    PROVE  \E k \in K : \A l \in K \ {k} : KeyBefore(k, l)
<1>0. \A k \in K : k[1] \in Nat /\ k[2] \in Nat /\ k = <<k[1], k[2]>>
  <2>1. \A k \in K : k[1] \in Instants /\ k[2] \in Ids /\ k = <<k[1], k[2]>>
    BY DEF Keys
  <2>2. Instants \subseteq Nat
    BY InstantAssumption DEF Instants
  <2> QED
    BY <2>1, <2>2, IdsAssumption
<1> DEFINE Times == {k[1] : k \in K}
<1>1. Times \in SUBSET Nat /\ Times # {}
  BY <1>0
<1>2. PICK t \in Times : \A u \in Times : t <= u
  <2> HIDE DEF Times
  <2> QED
    BY <1>1, LeastNatural
<1> DEFINE At == {k \in K : k[1] = t}
           Tied == {k[2] : k \in At}
<1>3. Tied \in SUBSET Nat /\ Tied # {}
  BY <1>0, <1>2
<1>4. PICK i \in Tied : \A j \in Tied : i <= j
  <2> HIDE DEF Tied
  <2> QED
    BY <1>3, LeastNatural
<1>5. PICK k \in K : k[1] = t /\ k[2] = i
  BY <1>4
<1>6. ASSUME NEW l \in K \ {k} PROVE KeyBefore(k, l)
  <2>1. t <= l[1] /\ (l[1] = t => i <= l[2])
    BY <1>2, <1>4
  <2>2. l[1] # k[1] \/ l[2] # k[2]
    BY <1>0, <1>6
  <2> QED
    BY <1>0, <1>5, <2>1, <2>2 DEF KeyBefore
<1> QED
  BY <1>6

-----------------------------------------------------------------------------
(* Publishing a batch.                                                      *)

(* The loop of `publish` over the events of a batch is defined.             *)
LEMMA EnqueuedIsALoop ==
    ASSUME NEW o, NEW r, Len(r.fns) \in Nat
    PROVE  \E f : /\ f[0] = o
                  /\ \A n \in 0 .. Len(r.fns) : n # 0 =>
                        f[n] = enqueue_in_queue(f[n - 1], r.after + n,
                                                NewRecord(r.epoch, r.time), r.fns[n])
                  /\ enqueued(o, r) = f[Len(r.fns)]
<1> DEFINE N == Len(r.fns)
           Step(p, n) == enqueue_in_queue(p, r.after + n, NewRecord(r.epoch, r.time), r.fns[n])
           Rec(g, k) == g = [n \in 0 .. k |-> IF n = 0 THEN o ELSE Step(g[n - 1], n)]
           S == {k \in 0 .. N : \E g : Rec(g, k)}
           f == CHOOSE g : Rec(g, N)
<1>1. enqueued(o, r) = f[N]
  BY DEF enqueued
<1> HIDE DEF Step
<1>2. 0 \in S
  <2> DEFINE g == [n \in 0 .. 0 |-> o]
  <2>1. \A n \in 0 .. 0 : g[n] = IF n = 0 THEN o ELSE Step(g[n - 1], n)
    OBVIOUS
  <2>2. Rec(g, 0)
    BY <2>1
  <2>3. 0 \in 0 .. N
    OBVIOUS
  <2> HIDE DEF g, Rec, N
  <2> QED
    BY <2>2, <2>3
<1>3. ASSUME NEW k \in 0 .. N, k # 0, k - 1 \in S PROVE k \in S
  <2>1. PICK g : Rec(g, k - 1)
    BY <1>3
  <2> DEFINE h == [n \in 0 .. k |-> IF n = k THEN Step(g[k - 1], k) ELSE g[n]]
  <2>2. ASSUME NEW n \in 0 .. k
        PROVE  h[n] = IF n = 0 THEN o ELSE Step(h[n - 1], n)
    <3>1. CASE n = k
      BY <1>3, <3>1
    <3>2. CASE n # k
      <4>1. n \in 0 .. k - 1
        BY <1>3, <3>2
      <4>2. g[n] = IF n = 0 THEN o ELSE Step(g[n - 1], n)
        BY <2>1, <4>1
      <4>3. n # 0 => h[n - 1] = g[n - 1]
        BY <1>3, <4>1
      <4> QED
        BY <3>2, <4>2, <4>3
    <3> QED
      BY <3>1, <3>2
  <2>3. Rec(h, k)
    BY <2>2
  <2> QED
    BY <2>3
<1>4. N \in S
  <2>1. N \in Nat
    OBVIOUS
  <2>2. \A k \in 0 .. N : k # 0 /\ k - 1 \in S => k \in S
    BY <1>3
  <2> HIDE DEF S, N
  <2>3. \A k \in 0 .. N : k \in S
    BY <1>2, <2>1, <2>2, LoopInduction
  <2> QED
    BY <2>1, <2>3
<1>5. Rec(f, N)
  BY <1>4
<1> HIDE DEF f
<1>6. f[0] = o /\ \A n \in 0 .. N : n # 0 => f[n] = Step(f[n - 1], n)
  BY <1>5
<1> QED
  BY <1>1, <1>6 DEF Step

\* The events of a batch that the first n turns of the loop enqueue.
FirstOf(r, n) == (r.after + 1) .. (r.after + n)

\* What the outbox is after n turns of the loop over the batch r from o on.
PublishedUpTo(o, r, p, n) ==
    /\ OutboxType(p)
    /\ IndexOK(p)
    /\ DOMAIN p.records = DOMAIN o.records \cup FirstOf(r, n)
    /\ \A i \in DOMAIN o.records : p.records[i] = o.records[i]
    /\ \A i \in FirstOf(r, n) : p.records[i] = NewRecord(r.epoch, r.time)
    /\ p.active = o.active \cup FirstOf(r, n)
    /\ \A i \in o.active : p.queue_by_id[i] = o.queue_by_id[i]
    /\ \A i \in FirstOf(r, n) : p.queue_by_id[i] = r.fns[i - r.after]

(* Publishing a batch of fresh ids adds its events, pending and each in the *)
(* queue of its function, and changes nothing else.                         *)
LEMMA EnqueuedOK ==
    ASSUME NEW o, OutboxType(o), IndexOK(o), NEW r, r.epoch \in Nat, r.time \in Instants,
           r.after \in Nat, r.fns \in Seq(Queues), IdsOf(r) \subseteq Ids,
           IdsOf(r) \cap DOMAIN o.records = {}
    PROVE  PublishedUpTo(o, r, enqueued(o, r), Len(r.fns))
<1> DEFINE N == Len(r.fns)
<1>1. N \in Nat /\ \A n \in 1 .. N : r.fns[n] \in Queues
  OBVIOUS
<1>2. PICK f : /\ f[0] = o
               /\ \A n \in 0 .. N : n # 0 =>
                     f[n] = enqueue_in_queue(f[n - 1], r.after + n,
                                             NewRecord(r.epoch, r.time), r.fns[n])
               /\ enqueued(o, r) = f[N]
  BY <1>1, EnqueuedIsALoop
<1> DEFINE S == {n \in 0 .. N : PublishedUpTo(o, r, f[n], n)}
<1>3. 0 \in S
  <2>1. FirstOf(r, 0) = {}
    BY DEF FirstOf
  <2> QED
    BY <1>1, <1>2, <2>1 DEF PublishedUpTo
<1>4. ASSUME NEW n \in 0 .. N, n # 0, n - 1 \in S PROVE n \in S
  <2> DEFINE p == f[n - 1]
             id == r.after + n
             q == r.fns[n]
  <2>1. PublishedUpTo(o, r, p, n - 1)
    BY <1>4
  <2>2. id \in Ids /\ id \notin DOMAIN o.records /\ id \notin FirstOf(r, n - 1) /\ q \in Queues
    BY <1>1, <1>4 DEF IdsOf, FirstOf
  <2>3. FirstOf(r, n) = FirstOf(r, n - 1) \cup {id} /\ id - r.after = n
    <3>1. PICK a \in Nat : a = r.after
      OBVIOUS
    <3>2. n \in Nat \ {0}
      BY <1>1, <1>4
    <3>3. \A i \in Int : i \in (a + 1) .. (a + n) <=> i \in (a + 1) .. (a + (n - 1)) \/ i = a + n
      BY <3>2
    <3>4. (a + 1) .. (a + n) = (a + 1) .. (a + (n - 1)) \cup {a + n}
      BY <3>2, <3>3
    <3> QED
      BY <3>1, <3>2, <3>4 DEF FirstOf
  <2>4. f[n] = enqueue_in_queue(p, id, NewRecord(r.epoch, r.time), q)
    BY <1>2, <1>4
  <2> HIDE DEF p, q, id
  <2>5. OutboxType(p) /\ IndexOK(p) /\ id \notin DOMAIN p.records
    BY <2>1, <2>2 DEF PublishedUpTo
  <2>6. OutboxType(f[n]) /\ IndexOK(f[n])
    BY <2>2, <2>4, <2>5, EnqueueOK
  <2>7. /\ DOMAIN f[n].records = DOMAIN p.records \cup {id}
        /\ \A i \in DOMAIN p.records : f[n].records[i] = p.records[i]
        /\ f[n].records[id] = NewRecord(r.epoch, r.time)
        /\ f[n].active = p.active \cup {id}
        /\ f[n].queue_by_id = Put(p.queue_by_id, id, q)
    BY <2>2, <2>4, <2>5, EnqueuedOne
  <2>8. /\ DOMAIN f[n].records = DOMAIN o.records \cup FirstOf(r, n)
        /\ f[n].active = o.active \cup FirstOf(r, n)
    BY <2>1, <2>3, <2>7 DEF PublishedUpTo
  <2>9. /\ \A i \in DOMAIN o.records : f[n].records[i] = o.records[i]
        /\ \A i \in FirstOf(r, n) : f[n].records[i] = NewRecord(r.epoch, r.time)
    BY <2>1, <2>3, <2>7 DEF PublishedUpTo
  <2>10. /\ f[n].queue_by_id[id] = q
         /\ \A i \in p.active : f[n].queue_by_id[i] = p.queue_by_id[i]
    <3>1. DOMAIN p.queue_by_id = p.active /\ id \notin p.active
      BY <2>5 DEF IndexOK, QueueIndexOK, ActiveIndexOK
    <3> QED
      BY <2>7, <3>1 DEF Put
  <2>11. /\ \A i \in o.active : f[n].queue_by_id[i] = o.queue_by_id[i]
         /\ \A i \in FirstOf(r, n) : f[n].queue_by_id[i] = r.fns[i - r.after]
    BY <2>1, <2>3, <2>10 DEF PublishedUpTo, q
  <2>12. PublishedUpTo(o, r, f[n], n)
    BY <2>6, <2>8, <2>9, <2>11 DEF PublishedUpTo
  <2> QED
    BY <2>12
<1>5. N \in S
  <2>1. \A n \in 0 .. N : n # 0 /\ n - 1 \in S => n \in S
    BY <1>4
  <2> HIDE DEF S, N
  <2>2. \A n \in 0 .. N : n \in S
    BY <1>1, <1>3, <2>1, LoopInduction
  <2> QED
    BY <1>1, <2>2
<1> QED
  BY <1>2, <1>5

-----------------------------------------------------------------------------
(* Releasing the due retries.                                               *)

(* The loop of the sweep over the due retries is defined.                   *)
LEMMA ReleasedIsALoop ==
    ASSUME NEW o, NEW now, NEW order, Cardinality(retries_due(o, now)) \in Nat
    PROVE  \E f : /\ f[0] = o
                  /\ \A n \in 0 .. Cardinality(retries_due(o, now)) : n # 0 =>
                        f[n] = reindex(f[n - 1], order[n], retry_due(o.records[order[n]], now))
                  /\ released(o, now, order) = f[Cardinality(retries_due(o, now))]
<1> DEFINE N == Cardinality(retries_due(o, now))
           Step(p, n) == reindex(p, order[n], retry_due(o.records[order[n]], now))
           Rec(g, k) == g = [n \in 0 .. k |-> IF n = 0 THEN o ELSE Step(g[n - 1], n)]
           S == {k \in 0 .. N : \E g : Rec(g, k)}
           f == CHOOSE g : Rec(g, N)
<1>1. released(o, now, order) = f[N]
  BY DEF released
<1> HIDE DEF Step
<1>2. 0 \in S
  <2> DEFINE g == [n \in 0 .. 0 |-> o]
  <2>1. \A n \in 0 .. 0 : g[n] = IF n = 0 THEN o ELSE Step(g[n - 1], n)
    OBVIOUS
  <2>2. Rec(g, 0)
    BY <2>1
  <2>3. 0 \in 0 .. N
    OBVIOUS
  <2> HIDE DEF g, Rec, N
  <2> QED
    BY <2>2, <2>3
<1>3. ASSUME NEW k \in 0 .. N, k # 0, k - 1 \in S PROVE k \in S
  <2>1. PICK g : Rec(g, k - 1)
    BY <1>3
  <2> DEFINE h == [n \in 0 .. k |-> IF n = k THEN Step(g[k - 1], k) ELSE g[n]]
  <2>2. ASSUME NEW n \in 0 .. k
        PROVE  h[n] = IF n = 0 THEN o ELSE Step(h[n - 1], n)
    <3>1. CASE n = k
      BY <1>3, <3>1
    <3>2. CASE n # k
      <4>1. n \in 0 .. k - 1
        BY <1>3, <3>2
      <4>2. g[n] = IF n = 0 THEN o ELSE Step(g[n - 1], n)
        BY <2>1, <4>1
      <4>3. n # 0 => h[n - 1] = g[n - 1]
        BY <1>3, <4>1
      <4> QED
        BY <3>2, <4>2, <4>3
    <3> QED
      BY <3>1, <3>2
  <2>3. Rec(h, k)
    BY <2>2
  <2> QED
    BY <2>3
<1>4. N \in S
  <2>1. N \in Nat
    OBVIOUS
  <2>2. \A k \in 0 .. N : k # 0 /\ k - 1 \in S => k \in S
    BY <1>3
  <2> HIDE DEF S, N
  <2>3. \A k \in 0 .. N : k \in S
    BY <1>2, <2>1, <2>2, LoopInduction
  <2> QED
    BY <2>1, <2>3
<1>5. Rec(f, N)
  BY <1>4
<1> HIDE DEF f
<1>6. f[0] = o /\ \A n \in 0 .. N : n # 0 => f[n] = Step(f[n - 1], n)
  BY <1>5
<1> QED
  BY <1>1, <1>6 DEF Step

\* The outbox o with the retries of S released: p.
ReleasedSet(o, p, S, now) ==
    /\ OutboxType(p)
    /\ IndexOK(p)
    /\ DOMAIN p.records = DOMAIN o.records
    /\ \A i \in DOMAIN o.records :
          p.records[i] = IF i \in S THEN retry_due(o.records[i], now) ELSE o.records[i]
    /\ p.active = o.active
    /\ p.queue_by_id = o.queue_by_id

(* A due timer belongs to a record that waits for its retry.                *)
LEMMA DueIsWaiting ==
    ASSUME NEW o, OutboxType(o), IndexOK(o), NEW now, NEW i \in retries_due(o, now)
    PROVE  /\ i \in DOMAIN o.records /\ i \in Ids /\ i \in o.active
           /\ o.records[i].state = "RetryWaiting"
<1>1. PICK k \in o.retrying : i = k[2]
  BY DEF retries_due
<1>2. k[2] \in InState(o, "RetryWaiting")
  BY <1>1 DEF IndexOK, RetryIndexOK
<1>3. i \in DOMAIN o.records /\ o.records[i].state = "RetryWaiting"
  BY <1>1, <1>2 DEF InState
<1>4. i \in o.active
  BY <1>3 DEF IndexOK, ActiveIndexOK, is_terminal, TerminalStates
<1> QED
  BY <1>3, <1>4 DEF OutboxType, IsMap

(* The sweep releases exactly the due retries.                              *)
LEMMA ReleasedOK ==
    ASSUME NEW o, OutboxType(o), IndexOK(o), NEW now \in Instants,
           NEW order \in IncreasingSeqs(retries_due(o, now))
    PROVE  ReleasedSet(o, released(o, now, order), retries_due(o, now), now)
<1> DEFINE due == retries_due(o, now)
           N == Cardinality(due)
           done(n) == {order[k] : k \in 1 .. n}
<1>1. \A i \in due : /\ i \in DOMAIN o.records /\ i \in Ids /\ i \in o.active
                     /\ o.records[i].state = "RetryWaiting"
  BY DueIsWaiting
<1>2. IsFiniteSet(due) /\ N \in Nat
  <2>1. due \in SUBSET Ids
    BY <1>1
  <2>2. IsFiniteSet(due)
    BY <2>1, IdsAssumption, FS_Subset
  <2> QED
    BY <2>2, FS_CardinalityType
<1>3. /\ order \in [1 .. N -> due]
      /\ \A i, j \in 1 .. N : i < j => order[i] < order[j]
      /\ \A x \in due : \E i \in 1 .. N : order[i] = x
  BY DEF IncreasingSeqs
<1>4. PICK f : /\ f[0] = o
               /\ \A n \in 0 .. N : n # 0 =>
                     f[n] = reindex(f[n - 1], order[n], retry_due(o.records[order[n]], now))
               /\ released(o, now, order) = f[N]
  BY <1>2, ReleasedIsALoop
<1> HIDE DEF due, N
<1> DEFINE S == {n \in 0 .. N : ReleasedSet(o, f[n], done(n), now)}
<1>5. 0 \in S
  <2>1. done(0) = {}
    OBVIOUS
  <2> HIDE DEF done
  <2>2. ReleasedSet(o, o, done(0), now)
    BY <2>1 DEF ReleasedSet
  <2> QED
    BY <1>2, <1>4, <2>2
<1>6. ASSUME NEW n \in 0 .. N, n # 0, n - 1 \in S PROVE n \in S
  <2> DEFINE p == f[n - 1]
             id == order[n]
             r == retry_due(o.records[id], now)
  <2>1. ReleasedSet(o, p, done(n - 1), now)
    BY <1>6
  <2>2. n \in 1 .. N /\ n - 1 \in Nat /\ \A k \in 1 .. n - 1 : k \in 1 .. N /\ k < n
    BY <1>2, <1>6
  <2>3. id \in due
    BY <1>3, <2>2
  <2>4. id \notin done(n - 1)
    <3>1. \A k \in 1 .. n - 1 : order[k] < id /\ order[k] \in Nat
      BY <1>1, <1>3, <2>2, IdsAssumption
    <3>2. id \in Nat
      BY <1>1, <2>3, IdsAssumption
    <3>3. \A k \in 1 .. n - 1 : order[k] # id
      BY <3>1, <3>2
    <3> QED
      BY <3>3
  <2>5. done(n) = done(n - 1) \cup {id}
    <3>1. \A k : k \in 1 .. n <=> k \in 1 .. n - 1 \/ k = n
      BY <2>2
    <3> QED
      BY <3>1
  <2>6. f[n] = reindex(p, id, r)
    BY <1>4, <1>6
  <2>7. id \in DOMAIN o.records /\ id \in Ids /\ id \in o.active /\ o.records[id] \in EventRecords
    BY <1>1, <2>3 DEF OutboxType, IsMap
  <2>8. o.records[id].state = "RetryWaiting"
    BY <1>1, <2>3
  <2> HIDE DEF p, id, done
  <2>9. /\ OutboxType(p) /\ IndexOK(p)
        /\ DOMAIN p.records = DOMAIN o.records
        /\ p.records[id] = o.records[id]
        /\ p.active = o.active
        /\ p.queue_by_id = o.queue_by_id
    BY <2>1, <2>4, <2>7 DEF ReleasedSet
  <2>10. KeepsRecord(o.records[id], r)
    <3>1. \A a \in Attempts : backoff_for_attempt(Policy, a) \in Nat
      BY PolicyAssumption, RuntimeAssumption DEF IsRetryPolicy
    <3>2. 0 \in Nat
      OBVIOUS
    <3> QED
      BY <2>7, <3>1, <3>2, TransitionsKeepRecord
  <2>11. ~ is_terminal(r)
    BY <2>7, <2>8 DEF retry_due, is_terminal, TerminalStates, EventRecords
  <2> HIDE DEF r
  <2>12. OutboxType(f[n]) /\ IndexOK(f[n])
    BY <2>6, <2>7, <2>9, <2>10, ReindexOK
  <2>13. /\ DOMAIN f[n].records = DOMAIN p.records \cup {id}
         /\ \A i \in DOMAIN p.records \cup {id} :
               f[n].records[i] = IF i = id THEN r ELSE p.records[i]
    BY <2>6, <2>9, <2>11, ReindexEvictsNothing DEF IndexOK
  <2>14. f[n].active = p.active \cup {id} /\ f[n].queue_by_id = p.queue_by_id
    BY <2>6, <2>11, ReindexedIndexes
  <2>15. DOMAIN f[n].records = DOMAIN o.records /\ f[n].active = o.active
    BY <2>7, <2>9, <2>13, <2>14
  <2>16. ASSUME NEW i \in DOMAIN o.records
         PROVE  f[n].records[i] = IF i \in done(n) THEN retry_due(o.records[i], now)
                                  ELSE o.records[i]
    <3>1. CASE i = id
      BY <2>5, <2>7, <2>13, <3>1 DEF r
    <3>2. CASE i # id
      <4>1. f[n].records[i] = p.records[i] /\ (i \in done(n) <=> i \in done(n - 1))
        BY <2>5, <2>9, <2>13, <3>2
      <4> QED
        BY <2>1, <4>1 DEF ReleasedSet
    <3> QED
      BY <3>1, <3>2
  <2>17. ReleasedSet(o, f[n], done(n), now)
    BY <2>9, <2>12, <2>14, <2>15, <2>16 DEF ReleasedSet
  <2> QED
    BY <2>17
<1>7. N \in S
  <2>1. \A n \in 0 .. N : n # 0 /\ n - 1 \in S => n \in S
    BY <1>6
  <2> HIDE DEF S
  <2>2. \A n \in 0 .. N : n \in S
    BY <1>2, <1>5, <2>1, LoopInduction
  <2> QED
    BY <1>2, <2>2
<1>8. done(N) = due
  BY <1>3
<1> QED
  BY <1>4, <1>7, <1>8 DEF due

-----------------------------------------------------------------------------
(* One delivery of a record.                                                *)

\* What the runtime's policy and the width of the counters give.
LEMMA PolicyFacts ==
    /\ Policy.max_attempts \in 1 .. MaxAttempt
    /\ Policy.max_backoff \in Nat
    /\ \A a \in Attempts : backoff_for_attempt(Policy, a) \in Nat
<1>1. Policy.max_attempts \in Nat \ {0} /\ Policy.max_backoff \in Nat
  BY RuntimeAssumption DEF IsRetryPolicy
<1>2. \A a \in Attempts : backoff_for_attempt(Policy, a) \in 0 .. Policy.max_backoff
  BY PolicyAssumption
<1> QED
  BY <1>1, <1>2, PolicyAssumption, AttemptAssumption

(* A pending record has an attempt left, so its lease and its start both    *)
(* succeed.                                                                 *)
LEMMA StartedOK ==
    ASSUME NEW r \in EventRecords, r.state = "Pending", r.attempt < Policy.max_attempts
    PROVE  /\ KeepsRecord(r, start(lease(r)))
           /\ start(lease(r)).state = "Running"
           /\ start(lease(r)).attempt \in 1 .. Policy.max_attempts
<1> USE DEF EventRecords
<1>1. r.attempt \in 0 .. MaxAttempt /\ r.attempt < MaxAttempt
  BY PolicyFacts, AttemptAssumption DEF Attempts
<1>2. lease(r) = [r EXCEPT !.state = "Leased"]
  BY DEF lease
<1>3. PICK l \in EventRecords : l = lease(r)
  BY <1>2 DEF EventStates, ActiveStates
<1>4. l.state = "Leased" /\ l.attempt = r.attempt /\ l.time = r.time /\ l.epoch = r.epoch
  BY <1>2, <1>3
<1>5. PICK a \in Attempts : a = l.attempt + 1
  <2>1. r.attempt + 1 \in 0 .. MaxAttempt
    BY <1>1, AttemptAssumption
  <2> QED
    BY <1>4, <2>1 DEF Attempts
<1>6. start(l) = [l EXCEPT !.state = "Running", !.attempt = a]
  BY <1>1, <1>4, <1>5 DEF start
<1>7. start(l) \in EventRecords
  BY <1>6 DEF EventStates, ActiveStates
<1>8. a \in 1 .. Policy.max_attempts
  BY <1>1, <1>4, <1>5, PolicyFacts DEF Attempts
<1>9. ~ is_terminal(r)
  BY DEF is_terminal, TerminalStates
<1> QED
  BY <1>3, <1>4, <1>6, <1>7, <1>8, <1>9 DEF KeepsRecord

(* Every outcome takes a running record on: it is over, or it is pending or *)
(* waiting with an attempt left.                                            *)
LEMMA SettledOK ==
    ASSUME NEW r \in EventRecords, r.state = "Running", r.attempt \in 1 .. Policy.max_attempts,
           NEW fl, fl.now \in Instants, fl.now + Policy.max_backoff <= MaxInstant
    PROVE  /\ KeepsRecord(r, settled(fl, r))
           /\ settled(fl, r).state \notin {"Running", "Leased"}
           /\ StillActive(settled(fl, r)) <=> ~ is_terminal(settled(fl, r))
           /\ ~ is_terminal(settled(fl, r)) => settled(fl, r).attempt < Policy.max_attempts
<1> USE DEF EventRecords
<1> DEFINE Good(s) == /\ s.state \notin {"Running", "Leased"}
                      /\ StillActive(s) <=> ~ is_terminal(s)
                      /\ ~ is_terminal(s) => s.attempt < Policy.max_attempts
<1>0. \A s : s.state \in TerminalStates => Good(s)
  BY DEF is_terminal, TerminalStates, StillActive
<1>1. r.attempt \in Attempts /\ r.attempt \in Nat
  BY PolicyFacts
<1>2. ASSUME NEW s, NEW st \in TerminalStates, s = [r EXCEPT !.state = st]
      PROVE  KeepsRecord(r, s) /\ Good(s)
  <2>1. s \in EventRecords /\ s.state = st /\ s.time = r.time /\ s.epoch = r.epoch
    BY <1>2 DEF EventStates
  <2>2. ~ is_terminal(r)
    BY DEF is_terminal, TerminalStates
  <2> QED
    BY <1>0, <2>1, <2>2 DEF KeepsRecord
<1>3. "Succeeded" \in TerminalStates /\ "DeadLettered" \in TerminalStates
  BY DEF TerminalStates
<1>4. succeed(r) = [r EXCEPT !.state = "Succeeded"]
  BY DEF succeed
<1>5. KeepsRecord(r, interrupt(r)) /\ Good(interrupt(r))
  <2>1. PICK a \in Attempts : a = r.attempt - 1
    BY <1>1, AttemptAssumption, PolicyFacts DEF Attempts
  <2>2. (IF r.attempt > 0 THEN r.attempt - 1 ELSE 0) = a
    BY <2>1
  <2>3. interrupt(r) = [r EXCEPT !.state = "Pending", !.attempt = a]
    BY <2>2 DEF interrupt
  <2>4. interrupt(r).state = "Pending" /\ interrupt(r).attempt = a
    BY <2>3
  <2>5. a < Policy.max_attempts
    BY <2>1, PolicyFacts
  <2>6. Good(interrupt(r))
    BY <2>4, <2>5 DEF is_terminal, TerminalStates, StillActive
  <2>7. interrupt(r) \in EventRecords
    BY <2>3 DEF EventStates, ActiveStates
  <2> QED
    BY <2>3, <2>6, <2>7 DEF KeepsRecord, is_terminal, TerminalStates
<1>6. KeepsRecord(r, fail(r, Single, fl.now)) /\ Good(fail(r, Single, fl.now))
  <2>1. ~ allows_retry_after_elapsed(Single, r.attempt, elapsed_since(r, fl.now))
    BY <1>1 DEF allows_retry_after_elapsed, allows_retry_after, Single
  <2>2. fail(r, Single, fl.now) = [r EXCEPT !.state = "DeadLettered"]
    BY <2>1 DEF fail
  <2> QED
    BY <1>2, <1>3, <2>2
<1>7. KeepsRecord(r, fail(r, Policy, fl.now)) /\ Good(fail(r, Policy, fl.now))
  <2> DEFINE elapsed == elapsed_since(r, fl.now)
  <2>1. CASE allows_retry_after_elapsed(Policy, r.attempt, elapsed)
    <3>1. r.attempt < Policy.max_attempts
      BY <2>1, PolicyAssumption DEF allows_retry_after_elapsed, allows_retry_after
    <3>2. PICK b \in 0 .. Policy.max_backoff : b = backoff_for_attempt(Policy, r.attempt)
      BY <1>1, PolicyAssumption
    <3>3. PICK at \in Instants : at = fl.now + b
      BY <3>2, PolicyFacts, InstantAssumption DEF Instants
    <3>4. ~ (at > MaxInstant)
      BY <3>3, InstantAssumption DEF Instants
    <3>5. fail(r, Policy, fl.now) = [r EXCEPT !.state = "RetryWaiting", !.retry_at = at]
      BY <2>1, <3>2, <3>3, <3>4 DEF fail
    <3>6. /\ fail(r, Policy, fl.now) \in EventRecords
          /\ fail(r, Policy, fl.now).state = "RetryWaiting"
          /\ fail(r, Policy, fl.now).attempt = r.attempt
          /\ fail(r, Policy, fl.now).time = r.time
          /\ fail(r, Policy, fl.now).epoch = r.epoch
      BY <3>5 DEF EventStates, ActiveStates
    <3>7. Good(fail(r, Policy, fl.now))
      BY <3>1, <3>6 DEF is_terminal, TerminalStates, StillActive
    <3> QED
      BY <3>6, <3>7 DEF KeepsRecord, is_terminal, TerminalStates
  <2>2. CASE ~ allows_retry_after_elapsed(Policy, r.attempt, elapsed)
    <3>1. fail(r, Policy, fl.now) = [r EXCEPT !.state = "DeadLettered"]
      BY <2>2 DEF fail
    <3> QED
      BY <1>2, <1>3, <3>1
  <2> QED
    BY <2>1, <2>2
<1>8. KeepsRecord(r, succeed(r)) /\ Good(succeed(r))
  BY <1>2, <1>3, <1>4
<1>9. settled(fl, r) \in {succeed(r), interrupt(r), fail(r, Policy, fl.now), fail(r, Single, fl.now)}
  BY DEF settled
<1> HIDE DEF Good
<1>10. KeepsRecord(r, settled(fl, r)) /\ Good(settled(fl, r))
  BY <1>5, <1>6, <1>7, <1>8, <1>9
<1> QED
  BY <1>10 DEF Good

-----------------------------------------------------------------------------
(* The inductive invariant.                                                 *)

\* The fields of an invocation task.
FlightShape(fl) ==
    fl = [id |-> fl.id, attempt |-> fl.attempt, epoch |-> fl.epoch, fn |-> fl.fn,
          runner |-> fl.runner, fault |-> fl.fault, phase |-> fl.phase,
          outcome |-> fl.outcome, now |-> fl.now]

\* What is kept of each structure: the fields that the proofs read.
ShapeInv ==
    /\ config \in Configs
    /\ epoch \in Nat /\ next_event \in Nat /\ next_event <= config.events
    /\ reserved_event_records \in Nat
    /\ clock \in 0 .. config.clock /\ sweep \in {NoSweep} \cup 0 .. config.clock
    /\ runner \in Nat
    /\ dispatcher = [phase |-> dispatcher.phase, now |-> dispatcher.now, ready |-> dispatcher.ready]
    /\ \A d \in draining : d = [runner |-> d.runner, keys |-> d.keys]
    /\ \A fl \in flights : FlightShape(fl)

\* The container is consistent and the payloads are those of its active records.
DeliveryInv ==
    /\ OutboxType(outbox)
    /\ IndexOK(outbox)
    /\ DOMAIN payloads = outbox.active
    /\ \A id \in outbox.active : payloads[id] = outbox.queue_by_id[id]

\* A reserved batch: a run of ids that was drawn from the counter.
IsReservation(r) ==
    /\ r.epoch \in Nat /\ r.epoch <= epoch
    /\ r.time \in Instants
    /\ r.after \in Nat
    /\ r.fns \in Seq(Queues)
    /\ r.after + Len(r.fns) <= next_event

\* Ids are drawn once: no reserved id is another batch's, a record's or a flight's.
ReservationInv ==
    /\ \A r \in reservations : IsReservation(r)
    /\ \A r, s \in reservations : r # s => IdsOf(r) \cap IdsOf(s) = {}
    /\ \A r \in reservations : IdsOf(r) \cap DOMAIN outbox.records = {}
    /\ \A r \in reservations : \A fl \in flights : fl.id \notin IdsOf(r)
    /\ \A id \in DOMAIN outbox.records : id <= next_event

\* An active record is of this session and has attempts left.
RecordInv ==
    \A id \in DOMAIN outbox.records :
        LET r == outbox.records[id] IN
        /\ r.epoch <= epoch
        /\ id \in outbox.active => r.epoch = epoch
        /\ r.state # "Leased"
        /\ r.state \in {"Pending", "RetryWaiting"} => r.attempt < Policy.max_attempts
        /\ r.state = "Running" => r.attempt \in 1 .. Policy.max_attempts

\* An invocation of this session whose outcome has not been applied.
Current(fl) == fl.epoch = epoch /\ Unsettled(fl)

\* Flights and running records belong to each other.
FlightInv ==
    /\ \A fl \in flights :
          /\ fl.id \in Ids /\ fl.id <= next_event
          /\ fl.epoch \in Nat /\ fl.epoch <= epoch
          /\ fl.now \in 0 .. config.clock
          /\ fl.epoch # epoch => fl.id \notin outbox.active
          /\ Current(fl) => /\ fl.id \in DOMAIN outbox.records
                            /\ outbox.records[fl.id].state = "Running"
                            /\ outbox.records[fl.id].attempt = fl.attempt
    /\ \A fl, other \in flights :
          Current(fl) /\ Current(other) /\ fl.id = other.id => fl = other
    /\ \A id \in DOMAIN outbox.records :
          outbox.records[id].state = "Running" => \E fl \in flights : fl.id = id /\ Current(fl)

\* A live process is the current one or drains, and runs this session's handlers only.
RunnerInv ==
    /\ \A d \in draining : d.runner \in 0 .. runner
    /\ \A p \in live : p = runner \/ \E d \in draining : d.runner = p
    /\ \A fl \in flights : fl.runner \in 0 .. runner
    /\ \A fl \in flights : fl.runner \in live => fl.epoch = epoch

\* During a pass the candidates are pending keys.
PassInv == dispatcher.phase = "passing" => dispatcher.ready \subseteq outbox.pending

\* The reservations of this session.
HeldNow == {r \in reservations : r.epoch = epoch}

CapacityInv ==
    /\ reserved_event_records = Cardinality(UNION {IdsOf(r) : r \in HeldNow})
    /\ Cardinality(DOMAIN payloads) + reserved_event_records <= MaxRecords
    /\ shutdown = "stopped" => reserved_event_records = 0

RuntimeInv ==
    /\ ShapeInv /\ DeliveryInv /\ ReservationInv /\ RecordInv
    /\ FlightInv /\ RunnerInv /\ PassInv /\ CapacityInv

(* The invariant holds at the start.                                        *)
LEMMA RuntimeInit == Init => RuntimeInv
<1> SUFFICES ASSUME Init PROVE RuntimeInv
  OBVIOUS
<1> USE DEF Init
<1>1. /\ EmptyOutbox.records = EmptyMap
      /\ EmptyOutbox.active = {}
      /\ DOMAIN EmptyMap = {}
  BY DEF EmptyOutbox, EmptyMap
<1>2. config.clock \in Nat /\ config.events \in Nat /\ MaxRecords \in Nat
  BY RuntimeAssumption, InstantAssumption
<1>3. ShapeInv
  BY <1>2 DEF ShapeInv, NoSweep
<1>4. DeliveryInv
  BY <1>1, EmptyOutboxOK DEF DeliveryInv
<1>5. ReservationInv /\ RecordInv /\ FlightInv
  BY <1>1 DEF ReservationInv, RecordInv, FlightInv
<1>6. RunnerInv /\ PassInv
  BY DEF RunnerInv, PassInv
<1>7. CapacityInv
  <2>1. UNION {IdsOf(r) : r \in HeldNow} = {}
    BY DEF HeldNow
  <2>2. Cardinality(UNION {IdsOf(r) : r \in HeldNow}) = 0
    BY <2>1, FS_EmptySet
  <2>3. Cardinality(DOMAIN payloads) = 0
    BY <1>1, FS_EmptySet
  <2> QED
    BY <1>2, <2>2, <2>3 DEF CapacityInv
<1> QED
  BY <1>3, <1>4, <1>5, <1>6, <1>7 DEF RuntimeInv

-----------------------------------------------------------------------------
(* What each part of the invariant depends on.                              *)

(* The shapes depend on these variables.                                    *)
LEMMA ShapeStays ==
    ShapeInv /\ UNCHANGED <<config, epoch, next_event, reserved_event_records, clock, sweep, runner,
                            dispatcher, draining, flights>>
    => ShapeInv'
  BY DEF ShapeInv

(* The payloads and indexes depend on outbox and payloads.                  *)
LEMMA DeliveryStays == DeliveryInv /\ UNCHANGED <<outbox, payloads>> => DeliveryInv'
  BY DEF DeliveryInv

(* Flights that only move on keep the reservations disjoint.                *)
LEMMA ReservationStays ==
    /\ ReservationInv
    /\ UNCHANGED <<reservations, epoch, next_event, outbox>>
    /\ \A fl \in flights' : \E old \in flights : old.id = fl.id
    => ReservationInv'
<1> SUFFICES ASSUME ReservationInv, UNCHANGED <<reservations, epoch, next_event, outbox>>,
                    \A fl \in flights' : \E old \in flights : old.id = fl.id
             PROVE  ReservationInv'
  OBVIOUS
<1>1. \A r \in reservations : IsReservation(r)'
  BY DEF ReservationInv, IsReservation
<1>2. \A r \in reservations' : \A fl \in flights' : fl.id \notin IdsOf(r)
  BY DEF ReservationInv
<1> QED
  BY <1>1, <1>2 DEF ReservationInv

(* The records depend on the outbox and the epoch.                          *)
LEMMA RecordStays == RecordInv /\ UNCHANGED <<outbox, epoch>> => RecordInv'
  BY DEF RecordInv

(* Flights and running records depend on these variables.                   *)
LEMMA FlightStays ==
    FlightInv /\ UNCHANGED <<flights, outbox, epoch, next_event, config>> => FlightInv'
  BY DEF FlightInv, Current, Unsettled

(* The accounting of processes depends on these variables.                  *)
LEMMA RunnerStays ==
    RunnerInv /\ UNCHANGED <<draining, live, runner, flights, epoch>> => RunnerInv'
  BY DEF RunnerInv

(* The candidates matter during a pass only.                                *)
LEMMA PassStays ==
    PassInv /\ (UNCHANGED <<dispatcher, outbox>> \/ dispatcher'.phase # "passing") => PassInv'
  BY DEF PassInv

(* A shutdown stops the dispatcher only when all is handed off.             *)
LEMMA CapacityStays ==
    /\ CapacityInv
    /\ UNCHANGED <<reservations, epoch, reserved_event_records, payloads>>
    /\ shutdown' = "stopped" => shutdown = "stopped" \/ handed_off
    => CapacityInv'
  BY DEF CapacityInv, HeldNow, handed_off

-----------------------------------------------------------------------------
(* The steps that leave the outbox, the payloads and the reservations alone. *)

\* What such a step does not touch.
QuietlyUnchanged ==
    UNCHANGED <<config, outbox, payloads, reserved_event_records, next_event, epoch, reservations>>

(* For a quiet step only flights, runners and the pass are left to show.    *)
LEMMA QuietStep ==
    ASSUME RuntimeInv, QuietlyUnchanged,
           shutdown' = "stopped" => shutdown = "stopped" \/ handed_off,
           \A fl \in flights' : \E old \in flights : old.id = fl.id,
           ShapeInv', FlightInv', RunnerInv', PassInv'
    PROVE  RuntimeInv'
<1> USE DEF RuntimeInv, QuietlyUnchanged
<1>1. DeliveryInv' /\ RecordInv'
  BY DeliveryStays, RecordStays
<1>2. ReservationInv'
  BY ReservationStays
<1>3. CapacityInv'
  BY CapacityStays
<1> QED
  BY <1>1, <1>2, <1>3

\* NotifiedShutdown does not stop the dispatcher.
LEMMA NotifyingStopsNothing == NotifiedShutdown = "stopped" => shutdown = "stopped"
  BY DEF NotifiedShutdown

(* What follows a candidate in its queue is pending.                        *)
LEMMA FollowingIsPending ==
    ASSUME NEW o, IndexOK(o), NEW q \in Queues, NEW k
    PROVE  next_dispatchable_in_queue(o, q, k) \subseteq o.pending
<1>1. next_dispatchable_in_queue(o, q, k) \subseteq o.pending_by_queue[q]
  BY DEF next_dispatchable_in_queue
<1>2. o.pending_by_queue[q] \subseteq o.pending
  BY DEF IndexOK, QueueIndexOK, PendingIndexOK, KeysOf
<1> QED
  BY <1>1, <1>2

(* The heads of the queues are pending.                                     *)
LEMMA HeadsArePending ==
    ASSUME NEW o, IndexOK(o)
    PROVE  dispatchable_queue_heads(o) \subseteq o.pending
<1>1. \A q \in Queues : o.pending_by_queue[q] \subseteq o.pending
  BY DEF IndexOK, QueueIndexOK, PendingIndexOK, KeysOf
<1> QED
  BY <1>1 DEF dispatchable_queue_heads

(* The candidate of a pass is the key of a pending record of the function's *)
(* queue.                                                                   *)
LEMMA CandidateOK ==
    ASSUME RuntimeInv, dispatcher.phase = "passing", dispatcher.ready # {}
    PROVE  /\ Candidate \in dispatcher.ready
           /\ CandidateId \in DOMAIN outbox.records
           /\ CandidateId \in Ids /\ CandidateId \in outbox.active
           /\ outbox.records[CandidateId].state = "Pending"
           /\ Candidate = <<outbox.records[CandidateId].time, CandidateId>>
           /\ CandidateFn \in Queues
<1>1. dispatcher.ready \subseteq outbox.pending /\ OutboxType(outbox) /\ IndexOK(outbox)
  BY DEF RuntimeInv, PassInv, DeliveryInv
<1>2. dispatcher.ready \in SUBSET Keys
  BY <1>1 DEF OutboxType
<1>3. \E k \in dispatcher.ready : \A l \in dispatcher.ready \ {k} : KeyBefore(k, l)
  BY <1>2, LeastKey
<1>4. Candidate \in dispatcher.ready
  BY <1>3 DEF Candidate
<1> HIDE DEF Candidate
<1>5. /\ Candidate[2] \in InState(outbox, "Pending")
      /\ Candidate[1] = outbox.records[Candidate[2]].time
      /\ Candidate \in Keys
  BY <1>1, <1>4 DEF IndexOK, PendingIndexOK, KeysOf
<1>6. Candidate = <<Candidate[1], Candidate[2]>>
  BY <1>5 DEF Keys
<1>7. CandidateId \in DOMAIN outbox.records /\ outbox.records[CandidateId].state = "Pending"
  BY <1>5 DEF InState, CandidateId
<1>8. CandidateId \in outbox.active
  BY <1>1, <1>7 DEF IndexOK, ActiveIndexOK, is_terminal, TerminalStates
<1>9. CandidateId \in Ids /\ CandidateFn \in Queues
  <2>1. CandidateId \in DOMAIN outbox.queue_by_id
    BY <1>1, <1>8 DEF IndexOK, QueueIndexOK
  <2> HIDE DEF CandidateId
  <2> QED
    BY <1>1, <2>1 DEF OutboxType, IsMap, CandidateFn
<1> QED
  BY <1>4, <1>5, <1>6, <1>7, <1>8, <1>9 DEF CandidateId

(* A pass that goes on has a candidate.                                     *)
LEMMA PassNotOver ==
    ASSUME ~ PassOver PROVE dispatcher.ready # {}
  BY DEF PassOver

(* The steps of a pass that start nothing.                                  *)
LEMMA PassStep ==
    ASSUME RuntimeInv,
           \/ DispatchBegin \/ DispatchEnd \/ DispatchBlocked \/ DispatchHeld
           \/ \E plan \in config.plans : DispatchDelay(plan)
    PROVE  RuntimeInv'
<1>0. ShapeInv /\ DeliveryInv /\ FlightInv /\ RunnerInv /\ PassInv
  BY DEF RuntimeInv
<1>1. /\ QuietlyUnchanged
      /\ UNCHANGED <<clock, sweep, runner, draining, flights, live, shutdown>>
  BY DEF QuietlyUnchanged, DispatchBegin, DispatchEnd, DispatchBlocked, DispatchHeld, DispatchDelay,
         inner, codebase, bounds
<1>2. /\ dispatcher' = [phase |-> dispatcher'.phase, now |-> dispatcher'.now,
                        ready |-> dispatcher'.ready]
      /\ dispatcher'.phase = "passing" => dispatcher'.ready \subseteq outbox.pending
  <2>1. CASE DispatchBegin
    <3>1. dispatchable_queue_heads(outbox) \subseteq outbox.pending
      BY <1>0, HeadsArePending DEF DeliveryInv
    <3> QED
      BY <1>0, <2>1, <3>1 DEF DispatchBegin, ShapeInv
  <2>2. CASE DispatchEnd
    BY <2>2 DEF DispatchEnd
  <2>3. CASE DispatchBlocked
    BY <1>0, <2>3 DEF DispatchBlocked, ShapeInv, PassInv
  <2>4. CASE DispatchHeld \/ \E plan \in config.plans : DispatchDelay(plan)
    <3>1. /\ dispatcher.phase = "passing" /\ ~ PassOver
          /\ dispatcher' = [dispatcher EXCEPT !.ready = (@ \ {Candidate}) \cup Following]
      BY <2>4 DEF DispatchHeld, DispatchDelay, Dispatchable
    <3>2. CandidateFn \in Queues
      BY <3>1, CandidateOK, PassNotOver
    <3>3. Following \subseteq outbox.pending
      BY <1>0, <3>2, FollowingIsPending DEF Following, DeliveryInv
    <3> QED
      BY <1>0, <3>1, <3>3 DEF ShapeInv, PassInv
  <2> QED
    BY <2>1, <2>2, <2>3, <2>4
<1>3. ShapeInv'
  BY <1>0, <1>1, <1>2 DEF ShapeInv, QuietlyUnchanged
<1>4. FlightInv' /\ RunnerInv'
  BY <1>0, <1>1, FlightStays, RunnerStays DEF QuietlyUnchanged
<1>5. PassInv'
  BY <1>1, <1>2 DEF PassInv, QuietlyUnchanged
<1> QED
  BY <1>1, <1>3, <1>4, <1>5, QuietStep

(* Killing processes and forgetting draining ones: the invariant of the     *)
(* runners needs that whoever stays alive stays accounted for.              *)
LEMMA WakeStep ==
    ASSUME RuntimeInv, NEW expired \in SUBSET draining, DispatchWake(expired)
    PROVE  RuntimeInv'
<1> USE DEF DispatchWake
<1>0. ShapeInv /\ FlightInv /\ RunnerInv /\ PassInv
  BY DEF RuntimeInv
<1>1. QuietlyUnchanged /\ UNCHANGED <<clock, sweep, runner, flights>>
  BY DEF QuietlyUnchanged, bounds
<1>2. ShapeInv'
  BY <1>0, <1>1 DEF ShapeInv, QuietlyUnchanged
<1>3. FlightInv'
  BY <1>0, <1>1, FlightStays DEF QuietlyUnchanged
<1>4. RunnerInv'
  BY <1>0, <1>1 DEF RunnerInv, QuietlyUnchanged
<1>5. PassInv'
  BY DEF PassInv
<1>6. shutdown' = "stopped" => shutdown = "stopped"
  BY NotifyingStopsNothing
<1> QED
  BY <1>1, <1>2, <1>3, <1>4, <1>5, <1>6, QuietStep

\* An invocation task that moves on.
MovedOn(fl, ph, t, oc) == [fl EXCEPT !.phase = ph, !.now = t, !.outcome = oc]

(* Its phase, the clock it read and its outcome change, nothing else.       *)
LEMMA FlightUpdate ==
    ASSUME NEW fl, FlightShape(fl), NEW ph, NEW t, NEW oc
    PROVE  LET new == MovedOn(fl, ph, t, oc)
           IN  /\ new.id = fl.id /\ new.attempt = fl.attempt /\ new.epoch = fl.epoch
               /\ new.runner = fl.runner /\ new.phase = ph /\ new.now = t
               /\ FlightShape(new)
<1>1. PICK f : f = [fl EXCEPT !.phase = ph]
  OBVIOUS
<1>2. PICK g : g = [f EXCEPT !.now = t]
  OBVIOUS
<1>3. PICK h : h = [g EXCEPT !.outcome = oc]
  OBVIOUS
<1>4. h = MovedOn(fl, ph, t, oc)
  BY <1>1, <1>2, <1>3 DEF MovedOn
<1>5. f = [id |-> fl.id, attempt |-> fl.attempt, epoch |-> fl.epoch, fn |-> fl.fn,
           runner |-> fl.runner, fault |-> fl.fault, phase |-> ph,
           outcome |-> fl.outcome, now |-> fl.now]
  BY <1>1 DEF FlightShape
<1>6. g = [id |-> fl.id, attempt |-> fl.attempt, epoch |-> fl.epoch, fn |-> fl.fn,
           runner |-> fl.runner, fault |-> fl.fault, phase |-> ph,
           outcome |-> fl.outcome, now |-> t]
  BY <1>2, <1>5
<1>7. h = [id |-> fl.id, attempt |-> fl.attempt, epoch |-> fl.epoch, fn |-> fl.fn,
           runner |-> fl.runner, fault |-> fl.fault, phase |-> ph, outcome |-> oc, now |-> t]
  BY <1>3, <1>6
<1>8. /\ h.id = fl.id /\ h.attempt = fl.attempt /\ h.epoch = fl.epoch
      /\ h.runner = fl.runner /\ h.phase = ph /\ h.now = t
      /\ FlightShape(h)
  BY <1>7 DEF FlightShape
<1> QED
  BY <1>4, <1>8

(* The outcome of an invocation becomes known.                              *)
LEMMA InvokeStep ==
    ASSUME RuntimeInv, NEW fl \in flights, NEW outcome, InvokeEnds(fl, outcome)
    PROVE  RuntimeInv'
<1> DEFINE new == MovedOn(fl, "settling", clock, outcome)
<1>0. ShapeInv /\ FlightInv /\ RunnerInv /\ PassInv
  BY DEF RuntimeInv
<1>1. /\ QuietlyUnchanged
      /\ UNCHANGED <<clock, sweep, runner, draining, dispatcher, live, shutdown>>
  BY DEF QuietlyUnchanged, InvokeEnds, inner, codebase, bounds
<1>2. flights' = (flights \ {fl}) \cup {new} /\ fl.phase = "invoking"
  BY DEF InvokeEnds, Replace, MovedOn
<1>3. /\ new.id = fl.id /\ new.attempt = fl.attempt /\ new.epoch = fl.epoch
      /\ new.runner = fl.runner /\ new.phase = "settling" /\ new.now = clock
      /\ FlightShape(new)
  BY <1>0, FlightUpdate DEF ShapeInv
<1> HIDE DEF new
<1>4. ShapeInv'
  BY <1>0, <1>1, <1>2, <1>3 DEF ShapeInv, QuietlyUnchanged
<1>5. RunnerInv'
  BY <1>0, <1>1, <1>2, <1>3 DEF RunnerInv, QuietlyUnchanged
<1>6. PassInv'
  BY <1>0, <1>1, PassStays DEF QuietlyUnchanged
<1>7. Unsettled(fl) /\ Unsettled(new) /\ (Current(fl) <=> Current(new))
  BY <1>2, <1>3 DEF Unsettled, Current
<1>8. \A f : Current(f)' <=> Current(f)
  BY <1>1 DEF Current, Unsettled, QuietlyUnchanged
<1>9. FlightInv'
  <2>1. \A f \in flights' :
          /\ f.id \in Ids /\ f.id <= next_event
          /\ f.epoch \in Nat /\ f.epoch <= epoch
          /\ f.now \in 0 .. config.clock
          /\ f.epoch # epoch => f.id \notin outbox.active
          /\ Current(f) => /\ f.id \in DOMAIN outbox.records
                           /\ outbox.records[f.id].state = "Running"
                           /\ outbox.records[f.id].attempt = f.attempt
    BY <1>0, <1>2, <1>3, <1>7 DEF FlightInv, ShapeInv
  <2>2. \A f, other \in flights' :
          Current(f) /\ Current(other) /\ f.id = other.id => f = other
    BY <1>0, <1>2, <1>3, <1>7 DEF FlightInv
  <2>3. \A id \in DOMAIN outbox.records :
          outbox.records[id].state = "Running" => \E f \in flights' : f.id = id /\ Current(f)
    BY <1>0, <1>2, <1>3, <1>7 DEF FlightInv
  <2> QED
    BY <1>1, <1>8, <2>1, <2>2, <2>3 DEF FlightInv, QuietlyUnchanged
<1>10. \A f \in flights' : \E old \in flights : old.id = f.id
  BY <1>2, <1>3
<1> QED
  BY <1>1, <1>4, <1>5, <1>6, <1>9, <1>10, QuietStep

(* A slot is freed and an emptied generation killed.                        *)
LEMMA ReleaseStep ==
    ASSUME RuntimeInv, NEW fl \in flights, release(fl)
    PROVE  RuntimeInv'
<1> DEFINE less(d) == [d EXCEPT !.keys = @ \ {SlotOf(fl)}]
           left == {less(d) : d \in draining}
<1>0. ShapeInv /\ FlightInv /\ RunnerInv /\ PassInv
  BY DEF RuntimeInv
<1>1. QuietlyUnchanged /\ UNCHANGED <<clock, sweep, runner, dispatcher>>
  BY DEF QuietlyUnchanged, release, bounds
<1>2. /\ flights' = flights \ {fl} /\ fl.phase \in {"late", "releasing"}
      /\ draining' = {d \in left : d.keys # {}}
      /\ live' = live \ {d.runner : d \in {e \in left : e.keys = {}}}
      /\ shutdown' = NotifiedShutdown
  BY DEF release
<1>3. \A d \in draining : /\ less(d).runner = d.runner
                          /\ less(d) = [runner |-> less(d).runner, keys |-> less(d).keys]
  <2>1. \A d \in draining : d = [runner |-> d.runner, keys |-> d.keys]
    BY <1>0 DEF ShapeInv
  <2> QED
    BY <2>1
<1> HIDE DEF less
<1>4. ShapeInv'
  BY <1>0, <1>1, <1>2, <1>3 DEF ShapeInv, QuietlyUnchanged
<1>5. RunnerInv'
  <2>1. \A d \in draining' : d.runner \in 0 .. runner
    BY <1>0, <1>2, <1>3 DEF RunnerInv
  <2>2. ASSUME NEW p \in live', p # runner PROVE \E d \in draining' : d.runner = p
    <3>1. PICK d \in draining : d.runner = p
      BY <1>0, <1>2, <2>2 DEF RunnerInv
    <3>2. less(d) \in left /\ less(d).runner = p
      BY <1>3, <3>1
    <3>3. less(d).keys # {}
      BY <1>2, <2>2, <3>2
    <3> QED
      BY <1>2, <3>2, <3>3
  <2> QED
    BY <1>0, <1>1, <1>2, <2>1, <2>2 DEF RunnerInv, QuietlyUnchanged
<1>6. PassInv'
  BY <1>0, <1>1, PassStays DEF QuietlyUnchanged
<1>7. FlightInv'
  <2>1. ~ Current(fl)
    BY <1>2 DEF Current, Unsettled
  <2>2. \A f : Current(f)' <=> Current(f)
    BY <1>1 DEF Current, Unsettled, QuietlyUnchanged
  <2>3. \A id \in DOMAIN outbox.records :
          outbox.records[id].state = "Running" => \E f \in flights' : f.id = id /\ Current(f)
    BY <1>0, <1>2, <2>1 DEF FlightInv
  <2> QED
    BY <1>0, <1>1, <1>2, <2>2, <2>3 DEF FlightInv, QuietlyUnchanged
<1>8. shutdown' = "stopped" => shutdown = "stopped"
  BY <1>2, NotifyingStopsNothing
<1>9. \A f \in flights' : \E old \in flights : old.id = f.id
  BY <1>2
<1> QED
  BY <1>1, <1>4, <1>5, <1>6, <1>7, <1>8, <1>9, QuietStep

(* Runners that leave, and runners that are installed.                      *)
LEMMA RunnerStep ==
    ASSUME RuntimeInv,
           \/ \E r \in live : RunnerExits(r)
           \/ ShutdownRunners \/ RecoveryInstalls \/ reload_codebase
    PROVE  RuntimeInv'
<1>0. ShapeInv /\ FlightInv /\ RunnerInv /\ PassInv
  BY DEF RuntimeInv
<1>1. /\ QuietlyUnchanged
      /\ UNCHANGED <<clock, sweep, dispatcher, flights, shutdown>>
  BY DEF QuietlyUnchanged, RunnerExits, ShutdownRunners, RecoveryInstalls, reload_codebase, inner,
         codebase, bounds
<1>2. runner \in Nat
  BY <1>0 DEF ShapeInv
<1>3. /\ runner' \in Nat
      /\ \A d \in draining' : d = [runner |-> d.runner, keys |-> d.keys]
      /\ RunnerInv'
  <2>1. CASE \E r \in live : RunnerExits(r)
    <3>1. UNCHANGED <<runner, draining>> /\ live' \subseteq live
      BY <2>1 DEF RunnerExits, inner
    <3> QED
      BY <1>0, <1>1, <3>1 DEF ShapeInv, RunnerInv, QuietlyUnchanged
  <2>2. CASE ShutdownRunners
    BY <1>0, <1>1, <2>2 DEF ShutdownRunners, ShapeInv, RunnerInv, QuietlyUnchanged
  <2>3. CASE RecoveryInstalls /\ ~ still_current
    <3>1. UNCHANGED <<runner, draining, live>>
      BY <2>3 DEF RecoveryInstalls, inner
    <3> QED
      BY <1>0, <1>1, <3>1 DEF ShapeInv, RunnerInv, QuietlyUnchanged
  <2>4. CASE RecoveryInstalls /\ still_current
    <3>1. /\ runner' = runner + 1 /\ draining' = draining
          /\ live' = (live \ {runner}) \cup {runner + 1}
      BY <2>4 DEF RecoveryInstalls, NextRunner, inner
    <3> QED
      BY <1>0, <1>1, <1>2, <3>1 DEF ShapeInv, RunnerInv, QuietlyUnchanged
  <2>5. CASE reload_codebase
    <3> DEFINE pending == {k \in DOMAIN running : running[k].runner = runner}
    <3>1. /\ runner' = runner + 1
          /\ live' = (IF pending = {} THEN live \ {runner} ELSE live) \cup {runner + 1}
          /\ draining' = IF pending = {} THEN draining
                         ELSE draining \cup {[runner |-> runner, keys |-> pending]}
      BY <2>5 DEF reload_codebase, NextRunner
    <3> HIDE DEF pending
    <3>2. CASE pending = {}
      BY <1>0, <1>1, <1>2, <3>1, <3>2 DEF ShapeInv, RunnerInv, QuietlyUnchanged
    <3>3. CASE pending # {}
      <4>1. PICK d : d = [runner |-> runner, keys |-> pending]
        OBVIOUS
      <4>2. d.runner = runner /\ d = [runner |-> d.runner, keys |-> d.keys]
        BY <4>1
      <4>3. draining' = draining \cup {d} /\ live' = live \cup {runner + 1}
        BY <3>1, <3>3, <4>1
      <4>4. \A e \in draining' : e = [runner |-> e.runner, keys |-> e.keys]
        BY <1>0, <4>2, <4>3 DEF ShapeInv
      <4>5. RunnerInv'
        BY <1>0, <1>1, <1>2, <3>1, <4>2, <4>3 DEF RunnerInv, QuietlyUnchanged
      <4> QED
        BY <1>2, <3>1, <4>4, <4>5
    <3> QED
      BY <3>2, <3>3
  <2> QED
    BY <2>1, <2>2, <2>3, <2>4, <2>5
<1>4. ShapeInv'
  BY <1>0, <1>1, <1>3 DEF ShapeInv, QuietlyUnchanged
<1>5. FlightInv'
  BY <1>0, <1>1, FlightStays DEF QuietlyUnchanged
<1>6. PassInv'
  BY <1>0, <1>1, PassStays DEF QuietlyUnchanged
<1> QED
  BY <1>1, <1>3, <1>4, <1>5, <1>6, QuietStep

(* Clock, gate, reset request and shutdown flags.                           *)
LEMMA FlagStep ==
    ASSUME RuntimeInv,
           \/ RestartTakesGate \/ RecoveryCaptures \/ RecoveryFails \/ ResetRequested
           \/ AdvanceClock \/ SweepBegin \/ begin_shutdown \/ ShutdownChecks \/ UNCHANGED vars
    PROVE  RuntimeInv'
<1>0. ShapeInv /\ FlightInv /\ RunnerInv /\ PassInv
  BY DEF RuntimeInv
<1>1. QuietlyUnchanged /\ UNCHANGED <<runner, draining, live, dispatcher, flights>>
  BY DEF QuietlyUnchanged, RestartTakesGate, RecoveryCaptures, RecoveryFails, ResetRequested,
         AdvanceClock, SweepBegin, begin_shutdown, ShutdownChecks, vars, inner, codebase, bounds
<1>2. clock' \in 0 .. config.clock /\ sweep' \in {NoSweep} \cup 0 .. config.clock
  <2>1. clock \in 0 .. config.clock /\ sweep \in {NoSweep} \cup 0 .. config.clock
    BY <1>0 DEF ShapeInv
  <2>2. config.clock \in Nat
    BY <1>0, RuntimeAssumption, InstantAssumption DEF ShapeInv
  <2>3. CASE AdvanceClock
    BY <2>1, <2>2, <2>3 DEF AdvanceClock
  <2>4. CASE SweepBegin
    BY <2>1, <2>4 DEF SweepBegin
  <2> QED
    BY <2>1, <2>3, <2>4
       DEF RestartTakesGate, RecoveryCaptures, RecoveryFails, ResetRequested, begin_shutdown,
           ShutdownChecks, vars
<1>3. shutdown' = "stopped" => shutdown = "stopped" \/ handed_off
  BY NotifyingStopsNothing
     DEF RestartTakesGate, RecoveryCaptures, RecoveryFails, ResetRequested,
         AdvanceClock, SweepBegin, begin_shutdown, ShutdownChecks, vars
<1>4. ShapeInv'
  BY <1>0, <1>1, <1>2 DEF ShapeInv, QuietlyUnchanged
<1>5. FlightInv' /\ RunnerInv' /\ PassInv'
  BY <1>0, <1>1, FlightStays, RunnerStays, PassStays DEF QuietlyUnchanged
<1> QED
  BY <1>1, <1>3, <1>4, <1>5, QuietStep

-----------------------------------------------------------------------------
(* Reservations and the capacity they hold.                                 *)

(* A batch holds as many ids as it has events.                              *)
LEMMA IdsOfSize ==
    ASSUME NEW r, r.after \in Nat, r.fns \in Seq(Queues)
    PROVE  /\ IsFiniteSet(IdsOf(r))
           /\ Cardinality(IdsOf(r)) = Len(r.fns)
           /\ Len(r.fns) \in Nat
<1>1. PICK a \in Nat : a = r.after
  OBVIOUS
<1>2. PICK n \in Nat : n = Len(r.fns)
  OBVIOUS
<1>3. /\ IsFiniteSet((a + 1) .. (a + n))
      /\ Cardinality((a + 1) .. (a + n)) = IF a + 1 > a + n THEN 0 ELSE (a + n) - (a + 1) + 1
  BY FS_Interval
<1> QED
  BY <1>1, <1>2, <1>3 DEF IdsOf

(* Disjoint finite sets add up.                                             *)
LEMMA DisjointSum ==
    ASSUME NEW S, IsFiniteSet(S), NEW T, IsFiniteSet(T), S \cap T = {}
    PROVE  /\ IsFiniteSet(S \cup T)
           /\ Cardinality(S \cup T) = Cardinality(S) + Cardinality(T)
           /\ Cardinality(S) \in Nat /\ Cardinality(T) \in Nat
  BY FS_Union, FS_EmptySet, FS_CardinalityType

\* The ids that the batches of R hold.
HeldIds(R) == UNION {IdsOf(r) : r \in R}

(* Reserved ids are drawn from the counter.                                 *)
LEMMA HeldIdsDrawn ==
    ASSUME ReservationInv, ShapeInv, NEW R \in SUBSET reservations
    PROVE  /\ HeldIds(R) \in SUBSET (1 .. next_event)
           /\ IsFiniteSet(HeldIds(R))
           /\ HeldIds(R) \subseteq Ids
<1>1. ASSUME NEW r \in R PROVE IdsOf(r) \subseteq 1 .. next_event
  <2>1. /\ r.after \in Nat /\ r.fns \in Seq(Queues) /\ r.after + Len(r.fns) <= next_event
        /\ Len(r.fns) \in Nat
    BY <1>1 DEF ReservationInv, IsReservation
  <2>2. PICK n \in Nat : n = Len(r.fns)
    BY <2>1
  <2> QED
    BY <2>1, <2>2 DEF IdsOf, ShapeInv
<1>2. HeldIds(R) \in SUBSET (1 .. next_event)
  BY <1>1 DEF HeldIds
<1>3. IsFiniteSet(1 .. next_event)
  <2>1. next_event \in Int
    BY DEF ShapeInv
  <2> QED
    BY <2>1, FS_Interval
<1>4. IsFiniteSet(HeldIds(R))
  BY <1>2, <1>3, FS_Subset
<1>5. 1 .. next_event \subseteq Ids
  <2>1. 1 .. config.events \subseteq Ids /\ config.events \in Nat
    BY RuntimeAssumption DEF ShapeInv
  <2> QED
    BY <2>1 DEF ShapeInv
<1> QED
  BY <1>2, <1>4, <1>5

(* Handing a batch over frees exactly the ids it held.                      *)
LEMMA HandedOver ==
    ASSUME ReservationInv, ShapeInv, NEW R \in SUBSET reservations, NEW r \in R
    PROVE  /\ HeldIds(R) = HeldIds(R \ {r}) \cup IdsOf(r)
           /\ HeldIds(R \ {r}) \cap IdsOf(r) = {}
           /\ Cardinality(HeldIds(R)) = Cardinality(HeldIds(R \ {r})) + Len(r.fns)
           /\ Cardinality(HeldIds(R \ {r})) \in Nat
           /\ Len(r.fns) \in Nat
<1>1. HeldIds(R) = HeldIds(R \ {r}) \cup IdsOf(r)
  BY DEF HeldIds
<1>2. HeldIds(R \ {r}) \cap IdsOf(r) = {}
  BY DEF HeldIds, ReservationInv
<1>3. /\ IsFiniteSet(IdsOf(r)) /\ Cardinality(IdsOf(r)) = Len(r.fns) /\ Len(r.fns) \in Nat
  BY IdsOfSize DEF ReservationInv, IsReservation
<1>4. R \ {r} \in SUBSET reservations
  OBVIOUS
<1>5. IsFiniteSet(HeldIds(R \ {r}))
  BY <1>4, HeldIdsDrawn
<1>6. /\ Cardinality(HeldIds(R \ {r}) \cup IdsOf(r))
           = Cardinality(HeldIds(R \ {r})) + Cardinality(IdsOf(r))
      /\ Cardinality(HeldIds(R \ {r})) \in Nat
  BY <1>2, <1>3, <1>5, DisjointSum
<1> QED
  BY <1>1, <1>2, <1>3, <1>6

(* The capacity after a step, from what is held after it.                   *)
LEMMA CapacityHolds ==
    ASSUME NEW held, held = HeldNow', reserved_event_records' = Cardinality(HeldIds(held)),
           Cardinality(DOMAIN payloads') + reserved_event_records' <= MaxRecords,
           shutdown' = "stopped" => reserved_event_records' = 0
    PROVE  CapacityInv'
  BY DEF CapacityInv, HeldIds

(* The reserved records are what this session's batches hold.               *)
LEMMA CapacityNow ==
    ASSUME CapacityInv
    PROVE  reserved_event_records = Cardinality(HeldIds(HeldNow))
  BY DEF CapacityInv, HeldIds

(* A batch is reserved: its ids are new to everyone.                        *)
LEMMA ReserveStep ==
    ASSUME RuntimeInv, NEW batch \in config.batches, reserve_drafts(batch)
    PROVE  RuntimeInv'
<1>n. PICK new : new = [epoch |-> epoch, time |-> clock, after |-> next_event, fns |-> batch]
  OBVIOUS
<1>0. /\ ShapeInv /\ DeliveryInv /\ ReservationInv /\ RecordInv
      /\ FlightInv /\ RunnerInv /\ PassInv /\ CapacityInv
  BY DEF RuntimeInv
<1>1. /\ UNCHANGED <<config, epoch, clock, sweep, runner, dispatcher, draining, flights, outbox,
                     payloads, live, shutdown>>
      /\ shutdown # "stopped"
      /\ reservations' = reservations \cup {new}
      /\ next_event' = next_event + Len(batch)
      /\ next_event + Len(batch) <= config.events
      /\ reserved_event_records' = reserved_event_records + Len(batch)
      /\ can_admit_events(Len(batch))
  BY <1>n DEF reserve_drafts, ShuttingDown, codebase, bounds
<1>2. batch \in Seq(Queues) /\ Len(batch) \in Nat
  BY <1>0, RuntimeAssumption DEF ShapeInv
<1>3. PICK n \in Nat : n = Len(batch)
  BY <1>2
<1>4. /\ new.epoch = epoch /\ new.time = clock /\ new.after = next_event /\ new.fns = batch
      /\ IdsOf(new) = (next_event + 1) .. (next_event + n)
  BY <1>n, <1>3 DEF IdsOf
<1>5. next_event \in Nat /\ epoch \in Nat
  BY <1>0 DEF ShapeInv
<1>6. ShapeInv'
  BY <1>0, <1>1, <1>3 DEF ShapeInv
<1>7. FlightInv'
  <2>1. \A fl \in flights : fl.id \in Nat
    BY <1>0, IdsAssumption DEF FlightInv
  <2>2. \A fl \in flights : fl.id <= next_event'
    BY <1>0, <1>1, <1>3, <1>5, <2>1 DEF FlightInv
  <2> QED
    BY <1>0, <1>1, <2>2 DEF FlightInv, Current, Unsettled
<1>8. ReservationInv'
  <2>1. ASSUME NEW r \in reservations PROVE IsReservation(r)'
    BY <1>0, <1>1, <1>3, <1>5, <2>1 DEF ReservationInv, IsReservation
  <2>2. clock \in Instants
    <3>1. config.clock \in 0 .. MaxInstant /\ clock \in 0 .. config.clock
      BY <1>0, RuntimeAssumption DEF ShapeInv
    <3> QED
      BY <3>1, InstantAssumption DEF Instants
  <2>3. IsReservation(new)'
    BY <1>1, <1>2, <1>3, <1>4, <1>5, <2>2 DEF IsReservation
  <2>4. \A r \in reservations : IdsOf(r) \cap IdsOf(new) = {}
    <3>1. \A r \in reservations : IdsOf(r) \subseteq 1 .. next_event
      <4>1. HeldIds(reservations) \in SUBSET (1 .. next_event)
        BY <1>0, HeldIdsDrawn
      <4> QED
        BY <4>1 DEF HeldIds
    <3> QED
      BY <1>4, <1>5, <3>1
  <2>5. IdsOf(new) \cap DOMAIN outbox.records = {}
    <3>1. \A id \in DOMAIN outbox.records : id \in Nat /\ id <= next_event
      BY <1>0, IdsAssumption DEF ReservationInv, DeliveryInv, OutboxType, IsMap
    <3> QED
      BY <1>4, <1>5, <3>1
  <2>6. \A fl \in flights : fl.id \notin IdsOf(new)
    <3>1. \A fl \in flights : fl.id \in Nat /\ fl.id <= next_event
      BY <1>0, IdsAssumption DEF FlightInv
    <3> QED
      BY <1>4, <1>5, <3>1
  <2>7. \A id \in DOMAIN outbox.records : id <= next_event'
    <3>1. \A id \in DOMAIN outbox.records : id \in Nat /\ id <= next_event
      BY <1>0, IdsAssumption DEF ReservationInv, DeliveryInv, OutboxType, IsMap
    <3> QED
      BY <1>1, <1>3, <1>5, <3>1
  <2>8. \A r, s \in reservations' : r # s => IdsOf(r) \cap IdsOf(s) = {}
    BY <1>0, <1>1, <2>4 DEF ReservationInv
  <2> QED
    BY <1>0, <1>1, <2>1, <2>3, <2>5, <2>6, <2>7, <2>8 DEF ReservationInv
<1>9. CapacityInv'
  <2>1. HeldNow' = HeldNow \cup {new}
    BY <1>1, <1>4 DEF HeldNow
  <2>2. PICK held : held = HeldNow \cup {new}
    OBVIOUS
  <2>3. HeldIds(held) = HeldIds(HeldNow) \cup IdsOf(new)
    BY <2>2 DEF HeldIds
  <2>4. HeldNow \in SUBSET reservations
    BY DEF HeldNow
  <2>5. HeldIds(HeldNow) \in SUBSET (1 .. next_event) /\ IsFiniteSet(HeldIds(HeldNow))
    BY <1>0, <2>4, HeldIdsDrawn
  <2>6. HeldIds(HeldNow) \cap IdsOf(new) = {}
    BY <1>4, <1>5, <2>5
  <2>7. IsFiniteSet(IdsOf(new)) /\ Cardinality(IdsOf(new)) = n
    BY <1>2, <1>3, <1>4, <1>5, IdsOfSize
  <2>8. Cardinality(HeldIds(held)) = Cardinality(HeldIds(HeldNow)) + n
    BY <2>3, <2>5, <2>6, <2>7, DisjointSum
  <2>9. reserved_event_records' = Cardinality(HeldIds(held))
    BY <1>0, <1>1, <1>3, <2>8, CapacityNow
  <2>10. Cardinality(DOMAIN payloads') + reserved_event_records' <= MaxRecords
    <3>1. IsFiniteSet(DOMAIN payloads)
      BY <1>0, IdsAssumption, FS_Subset DEF DeliveryInv, OutboxType
    <3>2. Cardinality(DOMAIN payloads) \in Nat
      BY <3>1, FS_CardinalityType
    <3> QED
      BY <1>0, <1>1, <1>3, <3>2, RuntimeAssumption DEF can_admit_events, ShapeInv
  <2> QED
    BY <1>1, <2>1, <2>2, <2>9, <2>10, CapacityHolds
<1>10. DeliveryInv' /\ RecordInv' /\ RunnerInv' /\ PassInv'
  BY <1>0, <1>1, DeliveryStays, RecordStays, RunnerStays, PassStays
<1> QED
  BY <1>6, <1>7, <1>8, <1>9, <1>10 DEF RuntimeInv

(* What leaves with a batch: its ids from what the session holds, and its   *)
(* count from the reserved records.                                         *)
LEMMA HeldAfter ==
    ASSUME ReservationInv, ShapeInv, CapacityInv, NEW r \in reservations,
           reservations' = reservations \ {r}, UNCHANGED epoch
    PROVE  /\ r.epoch # epoch => HeldNow' = HeldNow
           /\ r.epoch = epoch =>
                 /\ HeldNow' = HeldNow \ {r}
                 /\ Cardinality(HeldIds(HeldNow \ {r})) = reserved_event_records - Len(r.fns)
                 /\ Len(r.fns) \in Nat /\ reserved_event_records - Len(r.fns) \in Nat
<1>1. r.epoch # epoch => HeldNow' = HeldNow
  BY DEF HeldNow
<1>2. ASSUME r.epoch = epoch
      PROVE  /\ HeldNow' = HeldNow \ {r}
             /\ Cardinality(HeldIds(HeldNow \ {r})) = reserved_event_records - Len(r.fns)
             /\ Len(r.fns) \in Nat /\ reserved_event_records - Len(r.fns) \in Nat
  <2>1. HeldNow' = HeldNow \ {r} /\ HeldNow \in SUBSET reservations /\ r \in HeldNow
    BY <1>2 DEF HeldNow
  <2>2. /\ Cardinality(HeldIds(HeldNow)) = Cardinality(HeldIds(HeldNow \ {r})) + Len(r.fns)
        /\ Cardinality(HeldIds(HeldNow \ {r})) \in Nat
        /\ Len(r.fns) \in Nat
    BY <2>1, HandedOver
  <2>3. reserved_event_records = Cardinality(HeldIds(HeldNow))
    BY CapacityNow
  <2> QED
    BY <2>1, <2>2, <2>3
<1> QED
  BY <1>1, <1>2

(* There are finitely many payloads.                                        *)
LEMMA PayloadsFinite ==
    ASSUME DeliveryInv
    PROVE  IsFiniteSet(DOMAIN payloads) /\ Cardinality(DOMAIN payloads) \in Nat
<1>1. IsFiniteSet(DOMAIN payloads)
  BY IdsAssumption, FS_Subset DEF DeliveryInv, OutboxType
<1> QED
  BY <1>1, FS_CardinalityType

(* A batch that is cancelled, or that a reset left behind.                  *)
LEMMA CancelStep ==
    ASSUME RuntimeInv, NEW r \in reservations,
           cancel_reservation(r) \/ (publish(r) /\ ~ published(r))
    PROVE  RuntimeInv'
<1>0. /\ ShapeInv /\ DeliveryInv /\ ReservationInv /\ RecordInv
      /\ FlightInv /\ RunnerInv /\ PassInv /\ CapacityInv
  BY DEF RuntimeInv
<1>1. /\ UNCHANGED <<config, epoch, next_event, clock, sweep, runner, dispatcher, draining, flights,
                     outbox, payloads, live>>
      /\ shutdown' = "stopped" => shutdown = "stopped"
      /\ reservations' = reservations \ {r}
      /\ r.epoch # epoch => reserved_event_records' = reserved_event_records
      /\ r.epoch = epoch => reserved_event_records' = reserved_event_records - Len(r.fns)
  BY NotifyingStopsNothing DEF cancel_reservation, publish, published, refunded, codebase, bounds
<1>2. reserved_event_records \in Nat /\ MaxRecords \in Nat
  BY <1>0, RuntimeAssumption DEF ShapeInv
<1>3. /\ reserved_event_records' = Cardinality(HeldIds(HeldNow'))
      /\ reserved_event_records' \in Nat /\ reserved_event_records' <= reserved_event_records
  <2>1. CASE r.epoch = epoch
    <3>1. /\ HeldNow' = HeldNow \ {r}
          /\ Cardinality(HeldIds(HeldNow \ {r})) = reserved_event_records - Len(r.fns)
          /\ Len(r.fns) \in Nat /\ reserved_event_records - Len(r.fns) \in Nat
      BY <1>0, <1>1, <2>1, HeldAfter
    <3> QED
      BY <1>1, <1>2, <2>1, <3>1
  <2>2. CASE r.epoch # epoch
    <3>1. HeldNow' = HeldNow
      BY <1>0, <1>1, <2>2, HeldAfter
    <3> QED
      BY <1>0, <1>1, <1>2, <2>2, <3>1, CapacityNow
  <2> QED
    BY <2>1, <2>2
<1>4. CapacityInv'
  <2>1. PICK held : held = HeldNow'
    OBVIOUS
  <2>2. Cardinality(DOMAIN payloads) \in Nat
    BY <1>0, PayloadsFinite
  <2>3. Cardinality(DOMAIN payloads') + reserved_event_records' <= MaxRecords
    BY <1>0, <1>1, <1>2, <1>3, <2>2 DEF CapacityInv
  <2>4. shutdown' = "stopped" => reserved_event_records' = 0
    BY <1>0, <1>1, <1>2, <1>3 DEF CapacityInv
  <2> QED
    BY <1>3, <2>1, <2>3, <2>4, CapacityHolds
<1>5. ShapeInv'
  BY <1>0, <1>1, <1>3 DEF ShapeInv
<1>6. ReservationInv'
  BY <1>0, <1>1 DEF ReservationInv, IsReservation
<1>7. DeliveryInv' /\ RecordInv' /\ RunnerInv' /\ PassInv' /\ FlightInv'
  BY <1>0, <1>1, DeliveryStays, RecordStays, RunnerStays, PassStays, FlightStays
<1> QED
  BY <1>4, <1>5, <1>6, <1>7 DEF RuntimeInv

(* The conditions of EnqueuedOK hold for every reservation.                 *)
LEMMA PublishedOK ==
    ASSUME RuntimeInv, NEW r \in reservations
    PROVE  /\ PublishedUpTo(outbox, r, enqueued(outbox, r), Len(r.fns))
           /\ FirstOf(r, Len(r.fns)) = IdsOf(r)
<1>0. ShapeInv /\ DeliveryInv /\ ReservationInv
  BY DEF RuntimeInv
<1>1. /\ r.epoch \in Nat /\ r.time \in Instants /\ r.after \in Nat /\ r.fns \in Seq(Queues)
      /\ IdsOf(r) \cap DOMAIN outbox.records = {}
  BY <1>0 DEF ReservationInv, IsReservation
<1>2. IdsOf(r) \subseteq Ids
  <2>1. HeldIds(reservations) \subseteq Ids
    BY <1>0, HeldIdsDrawn
  <2> QED
    BY <2>1 DEF HeldIds
<1>3. OutboxType(outbox) /\ IndexOK(outbox)
  BY <1>0 DEF DeliveryInv
<1> QED
  BY <1>1, <1>2, <1>3, EnqueuedOK DEF FirstOf, IdsOf

(* A batch of this session is published.                                    *)
LEMMA PublishStep ==
    ASSUME RuntimeInv, NEW r \in reservations, publish(r), published(r)
    PROVE  RuntimeInv'
<1>0. /\ ShapeInv /\ DeliveryInv /\ ReservationInv /\ RecordInv
      /\ FlightInv /\ RunnerInv /\ PassInv /\ CapacityInv
  BY DEF RuntimeInv
<1>1. /\ UNCHANGED <<config, epoch, next_event, clock, sweep, runner, dispatcher, draining, flights,
                     live>>
      /\ dispatcher.phase # "passing"
      /\ shutdown' = "stopped" => shutdown = "stopped"
      /\ reservations' = reservations \ {r}
      /\ r.epoch = epoch
      /\ reserved_event_records' = reserved_event_records - Len(r.fns)
      /\ outbox' = enqueued(outbox, r)
      /\ payloads' = [i \in DOMAIN payloads \cup IdsOf(r) |->
                        IF i \in IdsOf(r) THEN r.fns[i - r.after] ELSE payloads[i]]
  BY NotifyingStopsNothing DEF publish, published, Unlocked, codebase, bounds
<1>2. /\ OutboxType(outbox') /\ IndexOK(outbox')
      /\ DOMAIN outbox'.records = DOMAIN outbox.records \cup IdsOf(r)
      /\ \A i \in DOMAIN outbox.records : outbox'.records[i] = outbox.records[i]
      /\ \A i \in IdsOf(r) : outbox'.records[i] = NewRecord(r.epoch, r.time)
      /\ outbox'.active = outbox.active \cup IdsOf(r)
      /\ \A i \in outbox.active : outbox'.queue_by_id[i] = outbox.queue_by_id[i]
      /\ \A i \in IdsOf(r) : outbox'.queue_by_id[i] = r.fns[i - r.after]
  BY <1>1, PublishedOK DEF PublishedUpTo
<1>3. IdsOf(r) \cap DOMAIN outbox.records = {} /\ \A fl \in flights : fl.id \notin IdsOf(r)
  BY <1>0 DEF ReservationInv
<1>4. outbox.active \subseteq DOMAIN outbox.records
  BY <1>0 DEF DeliveryInv, IndexOK, ActiveIndexOK
<1>5. /\ HeldNow' = HeldNow \ {r}
      /\ Cardinality(HeldIds(HeldNow \ {r})) = reserved_event_records - Len(r.fns)
      /\ Len(r.fns) \in Nat /\ reserved_event_records - Len(r.fns) \in Nat
      /\ reserved_event_records \in Nat
  BY <1>0, <1>1, HeldAfter DEF ShapeInv
<1>6. \A i \in IdsOf(r) : i <= next_event
  <2>1. HeldIds(reservations) \in SUBSET (1 .. next_event)
    BY <1>0, HeldIdsDrawn
  <2> QED
    BY <1>0, <2>1 DEF HeldIds, ShapeInv
<1>7. ShapeInv'
  BY <1>0, <1>1, <1>5 DEF ShapeInv
<1>8. DeliveryInv'
  <2>1. DOMAIN payloads' = outbox'.active
    BY <1>0, <1>1, <1>2 DEF DeliveryInv
  <2>2. \A i \in outbox'.active : payloads'[i] = outbox'.queue_by_id[i]
    BY <1>0, <1>1, <1>2, <1>3, <1>4 DEF DeliveryInv
  <2> QED
    BY <1>2, <2>1, <2>2 DEF DeliveryInv
<1>9. ReservationInv'
  <2>1. \A s \in reservations' : IsReservation(s)'
    BY <1>0, <1>1 DEF ReservationInv, IsReservation
  <2>2. \A s \in reservations' : IdsOf(s) \cap DOMAIN outbox'.records = {}
    BY <1>0, <1>1, <1>2 DEF ReservationInv
  <2>3. \A id \in DOMAIN outbox'.records : id <= next_event
    BY <1>0, <1>2, <1>6 DEF ReservationInv
  <2> QED
    BY <1>0, <1>1, <2>1, <2>2, <2>3 DEF ReservationInv
<1>10. \A i \in IdsOf(r) : /\ outbox'.records[i].state = "Pending"
                           /\ outbox'.records[i].attempt = 0
                           /\ outbox'.records[i].epoch = epoch
  BY <1>1, <1>2 DEF NewRecord
<1>11. RecordInv'
  <2>1. 0 < Policy.max_attempts /\ epoch <= epoch
    BY <1>0, PolicyFacts DEF ShapeInv
  <2>2. ASSUME NEW i \in DOMAIN outbox'.records
        PROVE  /\ outbox'.records[i].epoch <= epoch
               /\ i \in outbox'.active => outbox'.records[i].epoch = epoch
               /\ outbox'.records[i].state # "Leased"
               /\ outbox'.records[i].state \in {"Pending", "RetryWaiting"} =>
                     outbox'.records[i].attempt < Policy.max_attempts
               /\ outbox'.records[i].state = "Running" =>
                     outbox'.records[i].attempt \in 1 .. Policy.max_attempts
    <3>1. CASE i \in IdsOf(r)
      BY <1>10, <2>1, <3>1
    <3>2. CASE i \notin IdsOf(r)
      <4>1. /\ i \in DOMAIN outbox.records /\ outbox'.records[i] = outbox.records[i]
            /\ i \in outbox'.active => i \in outbox.active
        BY <1>2, <2>2, <3>2
      <4> QED
        BY <1>0, <4>1 DEF RecordInv
    <3> QED
      BY <3>1, <3>2
  <2> QED
    BY <1>1, <2>2 DEF RecordInv
<1>12. FlightInv'
  <2>1. \A fl : Current(fl)' <=> Current(fl)
    BY <1>1 DEF Current, Unsettled
  <2>2. \A fl \in flights : fl.id \in outbox'.active => fl.id \in outbox.active
    BY <1>2, <1>3
  <2>3. \A fl \in flights :
          Current(fl) => /\ fl.id \in DOMAIN outbox'.records
                         /\ outbox'.records[fl.id].state = "Running"
                         /\ outbox'.records[fl.id].attempt = fl.attempt
    BY <1>0, <1>2 DEF FlightInv
  <2>4. \A id \in DOMAIN outbox'.records :
          outbox'.records[id].state = "Running" => \E fl \in flights : fl.id = id /\ Current(fl)
    BY <1>0, <1>2, <1>10 DEF FlightInv
  <2> QED
    BY <1>0, <1>1, <2>1, <2>2, <2>3, <2>4 DEF FlightInv
<1>13. CapacityInv'
  <2>1. PICK held : held = HeldNow \ {r}
    OBVIOUS
  <2>2. IsFiniteSet(DOMAIN payloads) /\ Cardinality(DOMAIN payloads) \in Nat
    BY <1>0, PayloadsFinite
  <2>3. IsFiniteSet(IdsOf(r)) /\ Cardinality(IdsOf(r)) = Len(r.fns)
    BY <1>0, IdsOfSize DEF ReservationInv, IsReservation
  <2>4. DOMAIN payloads \cap IdsOf(r) = {}
    BY <1>0, <1>3, <1>4 DEF DeliveryInv
  <2>5. Cardinality(DOMAIN payloads \cup IdsOf(r)) = Cardinality(DOMAIN payloads) + Len(r.fns)
    BY <2>2, <2>3, <2>4, DisjointSum
  <2>6. Cardinality(DOMAIN payloads') = Cardinality(DOMAIN payloads) + Len(r.fns)
    BY <1>1, <2>5
  <2>7. Cardinality(DOMAIN payloads') + reserved_event_records' <= MaxRecords
    BY <1>0, <1>1, <1>5, <2>2, <2>6, RuntimeAssumption DEF CapacityInv
  <2>8. shutdown' = "stopped" => reserved_event_records' = 0
    BY <1>0, <1>1, <1>5 DEF CapacityInv
  <2> QED
    BY <1>1, <1>5, <2>1, <2>7, <2>8, CapacityHolds
<1>14. RunnerInv' /\ PassInv'
  BY <1>0, <1>1, RunnerStays, PassStays
<1> QED
  BY <1>7, <1>8, <1>9, <1>11, <1>12, <1>13, <1>14 DEF RuntimeInv

-----------------------------------------------------------------------------
(* The steps that move records: start, completion, sweep and reset.         *)

(* A key does not follow itself.                                            *)
LEMMA FollowingIsLater ==
    ASSUME NEW o, NEW q, NEW k, k[1] \in Nat, k[2] \in Nat
    PROVE  k \notin next_dispatchable_in_queue(o, q, k)
<1>1. ~ KeyBefore(k, k)
  BY DEF KeyBefore
<1> QED
  BY <1>1 DEF next_dispatchable_in_queue

(* A candidate is leased, started and its invocation spawned.               *)
LEMMA StartStep ==
    ASSUME RuntimeInv, NEW plan, DispatchStart(plan)
    PROVE  RuntimeInv'
<1>0. /\ ShapeInv /\ DeliveryInv /\ ReservationInv /\ RecordInv
      /\ FlightInv /\ RunnerInv /\ PassInv /\ CapacityInv
  BY DEF RuntimeInv
<1>a. PICK id : id = CandidateId
  OBVIOUS
<1>b. PICK r : r = start(lease(outbox.records[id]))
  OBVIOUS
<1>c. PICK fault : fault = IF id \in DOMAIN delayed THEN delayed[id].fault ELSE plan.fault
  OBVIOUS
<1>d. PICK fl : fl = [id |-> id, attempt |-> r.attempt, epoch |-> r.epoch, fn |-> CandidateFn,
                      runner |-> runner, fault |-> fault, phase |-> "invoking", outcome |-> "none",
                      now |-> 0]
  OBVIOUS
<1>1. /\ UNCHANGED <<config, epoch, next_event, reserved_event_records, clock, sweep, runner,
                     draining, payloads, reservations, shutdown>>
      /\ dispatcher.phase = "passing" /\ ~ PassOver
      /\ outbox' = reindex(outbox, id, r)
      /\ flights' = flights \cup {fl}
      /\ live' \subseteq live
      /\ dispatcher' = [dispatcher EXCEPT !.ready = (@ \ {Candidate}) \cup Following]
  BY <1>a, <1>b, <1>c, <1>d DEF DispatchStart, Dispatchable
<1>2. /\ Candidate \in dispatcher.ready
      /\ id \in DOMAIN outbox.records /\ id \in Ids /\ id \in outbox.active
      /\ outbox.records[id].state = "Pending"
      /\ Candidate = <<outbox.records[id].time, id>>
      /\ CandidateFn \in Queues
  BY <1>1, <1>a, CandidateOK, PassNotOver
<1>3. OutboxType(outbox) /\ IndexOK(outbox) /\ outbox.records[id] \in EventRecords
  BY <1>0, <1>2 DEF DeliveryInv, OutboxType, IsMap
<1>4. outbox.records[id].attempt < Policy.max_attempts /\ outbox.records[id].epoch = epoch
  BY <1>0, <1>2 DEF RecordInv
<1>5. /\ KeepsRecord(outbox.records[id], r) /\ r.state = "Running"
      /\ r.attempt \in 1 .. Policy.max_attempts
  BY <1>2, <1>3, <1>4, <1>b, StartedOK
<1>6. ~ is_terminal(r) /\ r.epoch = epoch /\ r.time = outbox.records[id].time
  BY <1>4, <1>5 DEF is_terminal, TerminalStates, KeepsRecord
<1>7. OutboxType(outbox') /\ IndexOK(outbox')
  BY <1>1, <1>2, <1>3, <1>5, ReindexOK
<1>8. /\ DOMAIN outbox'.records = DOMAIN outbox.records
      /\ outbox'.records[id] = r
      /\ \A i \in DOMAIN outbox.records : i # id => outbox'.records[i] = outbox.records[i]
  <2>1. /\ DOMAIN reindex(outbox, id, r).records = DOMAIN outbox.records \cup {id}
        /\ \A i \in DOMAIN outbox.records \cup {id} :
              reindex(outbox, id, r).records[i] = IF i = id THEN r ELSE outbox.records[i]
    BY <1>3, <1>6, ReindexEvictsNothing DEF IndexOK
  <2> QED
    BY <1>1, <1>2, <2>1
<1>9. /\ outbox'.active = outbox.active
      /\ outbox'.queue_by_id = outbox.queue_by_id
      /\ outbox'.pending = outbox.pending \ {Candidate}
  <2>1. /\ reindex(outbox, id, r).active = outbox.active \cup {id}
        /\ reindex(outbox, id, r).queue_by_id = outbox.queue_by_id
        /\ reindex(outbox, id, r).pending = outbox.pending \ {<<r.time, id>>}
    <3>1. r.state # "Pending"
      BY <1>5
    <3> QED
      BY <1>6, <3>1, ReindexedIndexes
  <2> QED
    BY <1>1, <1>2, <1>6, <2>1
<1>10. /\ fl.id = id /\ fl.attempt = r.attempt /\ fl.epoch = epoch /\ fl.runner = runner
       /\ fl.phase = "invoking" /\ fl.now = 0 /\ FlightShape(fl)
  BY <1>d, <1>6 DEF FlightShape
<1>11. PassInv' /\ dispatcher' = [phase |-> dispatcher'.phase, now |-> dispatcher'.now,
                                  ready |-> dispatcher'.ready]
  <2>1. Following \subseteq outbox.pending
    BY <1>2, <1>3, FollowingIsPending DEF Following
  <2>2. Candidate[1] \in Nat /\ Candidate[2] \in Nat
    BY <1>2, <1>3, IdsAssumption, InstantAssumption DEF EventRecords, Instants
  <2>3. Candidate \notin Following
    BY <2>2, FollowingIsLater DEF Following
  <2>4. dispatcher.ready \subseteq outbox.pending
    BY <1>0, <1>1 DEF PassInv
  <2>5. /\ dispatcher' = [phase |-> dispatcher'.phase, now |-> dispatcher'.now,
                          ready |-> dispatcher'.ready]
        /\ dispatcher'.ready = (dispatcher.ready \ {Candidate}) \cup Following
    BY <1>0, <1>1 DEF ShapeInv
  <2>6. dispatcher'.ready \subseteq outbox'.pending
    BY <1>9, <2>1, <2>3, <2>4, <2>5
  <2> QED
    BY <2>5, <2>6 DEF PassInv
<1>12. ShapeInv'
  BY <1>0, <1>1, <1>10, <1>11 DEF ShapeInv
<1>13. DeliveryInv'
  BY <1>0, <1>1, <1>7, <1>9 DEF DeliveryInv
<1>14. ReservationInv'
  <2>1. \A s \in reservations : IsReservation(s)'
    BY <1>0, <1>1 DEF ReservationInv, IsReservation
  <2>2. \A s \in reservations : \A f \in flights' : f.id \notin IdsOf(s)
    BY <1>0, <1>1, <1>2, <1>10 DEF ReservationInv
  <2> QED
    BY <1>0, <1>1, <1>8, <2>1, <2>2 DEF ReservationInv
<1>15. RecordInv'
  <2>1. ASSUME NEW i \in DOMAIN outbox.records
        PROVE  /\ outbox'.records[i].epoch <= epoch
               /\ i \in outbox.active => outbox'.records[i].epoch = epoch
               /\ outbox'.records[i].state # "Leased"
               /\ outbox'.records[i].state \in {"Pending", "RetryWaiting"} =>
                     outbox'.records[i].attempt < Policy.max_attempts
               /\ outbox'.records[i].state = "Running" =>
                     outbox'.records[i].attempt \in 1 .. Policy.max_attempts
    <3>1. CASE i = id
      BY <1>0, <1>5, <1>6, <1>8, <3>1 DEF ShapeInv
    <3>2. CASE i # id
      BY <1>0, <1>8, <3>2 DEF RecordInv
    <3> QED
      BY <3>1, <3>2
  <2> QED
    BY <1>1, <1>8, <1>9, <2>1 DEF RecordInv
<1>16. FlightInv'
  <2>1. \A f : Current(f)' <=> Current(f)
    BY <1>1 DEF Current, Unsettled
  <2>2. \A f \in flights : Current(f) => f.id # id
    BY <1>0, <1>2 DEF FlightInv
  <2>3. Current(fl)
    BY <1>10 DEF Current, Unsettled
  <2>4. /\ id <= next_event /\ 0 \in 0 .. config.clock /\ epoch \in Nat /\ epoch <= epoch
    <3>1. config.clock \in Nat
      BY <1>0, RuntimeAssumption, InstantAssumption DEF ShapeInv
    <3> QED
      BY <1>0, <1>2, <3>1 DEF ReservationInv, ShapeInv
  <2>5. \A f \in flights' :
          /\ f.id \in Ids /\ f.id <= next_event
          /\ f.epoch \in Nat /\ f.epoch <= epoch
          /\ f.now \in 0 .. config.clock
          /\ f.epoch # epoch => f.id \notin outbox.active
    BY <1>0, <1>1, <1>2, <1>10, <2>4 DEF FlightInv
  <2>6. \A f \in flights' :
          Current(f) => /\ f.id \in DOMAIN outbox.records
                        /\ outbox'.records[f.id].state = "Running"
                        /\ outbox'.records[f.id].attempt = f.attempt
    BY <1>0, <1>1, <1>2, <1>5, <1>8, <1>10, <2>2 DEF FlightInv
  <2>7. \A f, other \in flights' : Current(f) /\ Current(other) /\ f.id = other.id => f = other
    BY <1>0, <1>1, <1>10, <2>2 DEF FlightInv
  <2>8. \A i \in DOMAIN outbox.records :
          outbox'.records[i].state = "Running" => \E f \in flights' : f.id = i /\ Current(f)
    BY <1>0, <1>1, <1>8, <1>10, <2>3 DEF FlightInv
  <2> QED
    BY <1>1, <1>8, <1>9, <2>1, <2>5, <2>6, <2>7, <2>8 DEF FlightInv
<1>17. RunnerInv'
  <2>1. runner \in 0 .. runner
    BY <1>0 DEF ShapeInv
  <2> QED
    BY <1>0, <1>1, <1>10, <2>1 DEF RunnerInv
<1>18. CapacityInv'
  BY <1>0, <1>1, CapacityStays
<1> QED
  BY <1>11, <1>12, <1>13, <1>14, <1>15, <1>16, <1>17, <1>18 DEF RuntimeInv

\* The outbox o after the record of fl became s and was filed.
CompletedTo(fl, s, o) ==
    /\ fl.id \in DOMAIN outbox.records /\ fl.id \in outbox.active
    /\ OutboxType(o) /\ IndexOK(o)
    /\ DOMAIN o.records \subseteq DOMAIN outbox.records
    /\ fl.id \in DOMAIN o.records => o.records[fl.id] = s
    /\ \A i \in DOMAIN o.records : i # fl.id => o.records[i] = outbox.records[i]
    /\ o.active = IF is_terminal(s) THEN outbox.active \ {fl.id} ELSE outbox.active
    /\ \A i \in o.active : o.queue_by_id[i] = outbox.queue_by_id[i]
    /\ StillActive(s) <=> ~ is_terminal(s)
    /\ s.state \notin {"Running", "Leased"} /\ s.epoch = epoch
    /\ ~ is_terminal(s) => s.attempt < Policy.max_attempts

(* What `complete` does with an invocation of this session: its record is   *)
(* settled, every other one stays, and the payload goes with the record.    *)
LEMMA CompletedOK ==
    ASSUME RuntimeInv, NEW fl \in flights, fl.phase = "settling", of_this_session(fl),
           NEW s, s = settled(fl, outbox.records[fl.id]),
           NEW o, o = reindex(outbox, fl.id, s)
    PROVE  CompletedTo(fl, s, o)
<1>0. ShapeInv /\ DeliveryInv /\ RecordInv /\ FlightInv
  BY DEF RuntimeInv
<1>1. Current(fl)
  BY DEF Current, Unsettled, of_this_session
<1>2. /\ fl.id \in DOMAIN outbox.records /\ outbox.records[fl.id].state = "Running"
      /\ OutboxType(outbox) /\ IndexOK(outbox)
  BY <1>0, <1>1 DEF FlightInv, DeliveryInv
<1>3. fl.id \in outbox.active /\ outbox.records[fl.id] \in EventRecords
  <2>1. ~ is_terminal(outbox.records[fl.id])
    BY <1>2 DEF is_terminal, TerminalStates
  <2> QED
    BY <1>2, <2>1 DEF IndexOK, ActiveIndexOK, OutboxType, IsMap
<1>4. /\ outbox.records[fl.id].attempt \in 1 .. Policy.max_attempts
      /\ outbox.records[fl.id].epoch = epoch
  BY <1>0, <1>2, <1>3 DEF RecordInv
<1>5. fl.now \in Instants /\ fl.now + Policy.max_backoff <= MaxInstant
  <2>1. /\ fl.now \in 0 .. config.clock /\ config.clock \in 0 .. MaxInstant
        /\ config.clock + Policy.max_backoff <= MaxInstant
    BY <1>0, RuntimeAssumption, PolicyAssumption DEF FlightInv, ShapeInv
  <2> QED
    BY <2>1, PolicyFacts, InstantAssumption DEF Instants
<1>6. /\ KeepsRecord(outbox.records[fl.id], s)
      /\ s.state \notin {"Running", "Leased"}
      /\ StillActive(s) <=> ~ is_terminal(s)
      /\ ~ is_terminal(s) => s.attempt < Policy.max_attempts
  BY <1>2, <1>3, <1>4, <1>5, SettledOK
<1>7. s.epoch = epoch
  BY <1>4, <1>6 DEF KeepsRecord
<1>8. OutboxType(o) /\ IndexOK(o)
  BY <1>2, <1>6, ReindexOK
<1>9. \A i \in DOMAIN o.records :
         /\ i = fl.id => o.records[i] = s
         /\ i # fl.id => i \in DOMAIN outbox.records /\ o.records[i] = outbox.records[i]
  <2>1. \A i \in DOMAIN reindex(outbox, fl.id, s).records :
          /\ i = fl.id => reindex(outbox, fl.id, s).records[i] = s
          /\ i # fl.id => /\ i \in DOMAIN outbox.records
                          /\ reindex(outbox, fl.id, s).records[i] = outbox.records[i]
    BY ReindexedRecords
  <2> QED
    BY <2>1
<1>10. /\ is_terminal(s) => /\ o.active = outbox.active \ {fl.id}
                            /\ o.queue_by_id = Remove(outbox.queue_by_id, fl.id)
       /\ ~ is_terminal(s) => /\ o.active = outbox.active \cup {fl.id}
                              /\ o.queue_by_id = outbox.queue_by_id
  BY ReindexedIndexes
<1>11. DOMAIN outbox.queue_by_id = outbox.active
  BY <1>2 DEF IndexOK, QueueIndexOK
<1>12. \A i \in o.active : o.queue_by_id[i] = outbox.queue_by_id[i]
  BY <1>10, <1>11 DEF Remove, RestrictTo
<1>13. o.active = IF is_terminal(s) THEN outbox.active \ {fl.id} ELSE outbox.active
  BY <1>3, <1>10
<1> QED
  BY <1>2, <1>3, <1>6, <1>7, <1>8, <1>9, <1>12, <1>13 DEF CompletedTo

(* An outcome is applied, or ignored when a reset came first.               *)
LEMMA CompleteStep ==
    ASSUME RuntimeInv, NEW fl \in flights, complete(fl)
    PROVE  RuntimeInv'
<1>0. /\ ShapeInv /\ DeliveryInv /\ ReservationInv /\ RecordInv
      /\ FlightInv /\ RunnerInv /\ PassInv /\ CapacityInv
  BY DEF RuntimeInv
<1>a. PICK new : new = MovedOn(fl, after_settling(fl), 0, "none")
  OBVIOUS
<1>1. /\ UNCHANGED <<config, epoch, next_event, reserved_event_records, clock, sweep, runner,
                     draining, live, dispatcher, reservations>>
      /\ dispatcher.phase # "passing" /\ fl.phase = "settling"
      /\ flights' = (flights \ {fl}) \cup {new}
      /\ shutdown' = "stopped" => shutdown = "stopped"
  BY <1>a, NotifyingStopsNothing DEF complete, Replace, MovedOn, Unlocked, codebase, bounds
<1>2. /\ new.id = fl.id /\ new.epoch = fl.epoch /\ new.runner = fl.runner
      /\ new.phase = after_settling(fl) /\ new.now = 0 /\ FlightShape(new)
  <2>1. FlightShape(fl)
    BY <1>0 DEF ShapeInv
  <2> QED
    BY <1>a, <2>1, FlightUpdate
<1>3. ~ Current(new)
  BY <1>2 DEF Current, Unsettled, after_settling
<1>4. ShapeInv'
  BY <1>0, <1>1, <1>2 DEF ShapeInv
<1>5. RunnerInv'
  BY <1>0, <1>1, <1>2 DEF RunnerInv
<1>6. PassInv'
  BY <1>1 DEF PassInv
<1>7. /\ DOMAIN payloads' \subseteq DOMAIN payloads
      /\ DeliveryInv' /\ RecordInv'
      /\ DOMAIN outbox'.records \subseteq DOMAIN outbox.records
      /\ outbox'.active \subseteq outbox.active
      /\ \A f \in flights \ {fl} :
            Current(f) => /\ f.id \in DOMAIN outbox'.records
                          /\ outbox'.records[f.id] = outbox.records[f.id]
      /\ \A i \in DOMAIN outbox'.records :
            outbox'.records[i].state = "Running" =>
                /\ outbox'.records[i] = outbox.records[i]
                /\ i = fl.id => ~ Current(fl)
  <2>1. CASE ~ of_this_session(fl)
    <3>1. outbox' = outbox /\ payloads' = Remove(payloads, fl.id)
      BY <2>1 DEF complete
    <3>2. fl.id \notin outbox.active /\ ~ Current(fl)
      BY <1>0, <2>1 DEF FlightInv, of_this_session, Current
    <3>3. DOMAIN payloads' = DOMAIN payloads /\ \A i \in DOMAIN payloads : payloads'[i] = payloads[i]
      BY <1>0, <3>1, <3>2 DEF Remove, RestrictTo, DeliveryInv
    <3>4. DeliveryInv'
      BY <1>0, <3>1, <3>3 DEF DeliveryInv
    <3>5. RecordInv'
      BY <1>0, <1>1, <3>1, RecordStays
    <3> QED
      BY <1>0, <3>1, <3>2, <3>3, <3>4, <3>5 DEF FlightInv
  <2>2. CASE of_this_session(fl)
    <3>a. PICK s : s = settled(fl, outbox.records[fl.id])
      OBVIOUS
    <3>1. /\ outbox' = reindex(outbox, fl.id, s)
          /\ payloads' = IF StillActive(s) THEN payloads ELSE Remove(payloads, fl.id)
      BY <2>2, <3>a DEF complete
    <3>2. /\ fl.id \in DOMAIN outbox.records /\ fl.id \in outbox.active
          /\ OutboxType(outbox') /\ IndexOK(outbox')
          /\ DOMAIN outbox'.records \subseteq DOMAIN outbox.records
          /\ fl.id \in DOMAIN outbox'.records => outbox'.records[fl.id] = s
          /\ \A i \in DOMAIN outbox'.records : i # fl.id => outbox'.records[i] = outbox.records[i]
          /\ outbox'.active = IF is_terminal(s) THEN outbox.active \ {fl.id} ELSE outbox.active
          /\ \A i \in outbox'.active : outbox'.queue_by_id[i] = outbox.queue_by_id[i]
          /\ StillActive(s) <=> ~ is_terminal(s)
          /\ s.state \notin {"Running", "Leased"} /\ s.epoch = epoch
          /\ ~ is_terminal(s) => s.attempt < Policy.max_attempts
      <4>1. CompletedTo(fl, s, outbox')
        BY <1>1, <2>2, <3>a, <3>1, CompletedOK
      <4> QED
        BY <4>1 DEF CompletedTo
    <3>3. DOMAIN payloads' = outbox'.active /\ \A i \in DOMAIN payloads' : payloads'[i] = payloads[i]
      BY <1>0, <3>1, <3>2 DEF Remove, RestrictTo, DeliveryInv
    <3>4. DeliveryInv'
      BY <1>0, <3>2, <3>3 DEF DeliveryInv
    <3>5. RecordInv'
      <4>1. ASSUME NEW i \in DOMAIN outbox'.records
            PROVE  /\ outbox'.records[i].epoch <= epoch
                   /\ i \in outbox'.active => outbox'.records[i].epoch = epoch
                   /\ outbox'.records[i].state # "Leased"
                   /\ outbox'.records[i].state \in {"Pending", "RetryWaiting"} =>
                         outbox'.records[i].attempt < Policy.max_attempts
                   /\ outbox'.records[i].state = "Running" =>
                         outbox'.records[i].attempt \in 1 .. Policy.max_attempts
        <5>1. CASE i = fl.id
          <6>1. epoch <= epoch /\ (s.state \in {"Pending", "RetryWaiting"} => ~ is_terminal(s))
            BY <1>0 DEF ShapeInv, is_terminal, TerminalStates
          <6> QED
            BY <3>2, <4>1, <5>1, <6>1
        <5>2. CASE i # fl.id
          BY <1>0, <3>2, <4>1, <5>2 DEF RecordInv
        <5> QED
          BY <5>1, <5>2
      <4> QED
        BY <1>1, <4>1 DEF RecordInv
    <3>6. ASSUME NEW f \in flights \ {fl}, Current(f)
          PROVE  f.id \in DOMAIN outbox'.records /\ outbox'.records[f.id] = outbox.records[f.id]
      <4>1. Current(fl)
        BY <1>1, <2>2 DEF Current, Unsettled, of_this_session
      <4>2. f.id # fl.id /\ f.id \in DOMAIN outbox.records /\ outbox.records[f.id].state = "Running"
        BY <1>0, <3>6, <4>1 DEF FlightInv
      <4>3. f.id \in outbox.active
        BY <1>0, <4>2 DEF DeliveryInv, IndexOK, ActiveIndexOK, is_terminal, TerminalStates
      <4>4. f.id \in outbox'.active
        BY <3>2, <4>2, <4>3
      <4>5. f.id \in DOMAIN outbox'.records
        BY <3>2, <4>4 DEF IndexOK, ActiveIndexOK
      <4> QED
        BY <3>2, <4>2, <4>5
    <3>7. \A i \in DOMAIN outbox'.records :
            outbox'.records[i].state = "Running" => /\ i # fl.id
                                                    /\ outbox'.records[i] = outbox.records[i]
      BY <3>2
    <3>8. outbox'.active \subseteq outbox.active /\ DOMAIN payloads' \subseteq DOMAIN payloads
      BY <1>0, <3>2, <3>3 DEF DeliveryInv
    <3> QED
      BY <3>2, <3>4, <3>5, <3>6, <3>7, <3>8
  <2> QED
    BY <2>1, <2>2
<1>8. ReservationInv'
  <2>1. \A r \in reservations : IsReservation(r)'
    BY <1>0, <1>1 DEF ReservationInv, IsReservation
  <2>2. \A r \in reservations : \A f \in flights' : f.id \notin IdsOf(r)
    BY <1>0, <1>1, <1>2 DEF ReservationInv
  <2>3. \A r \in reservations : IdsOf(r) \cap DOMAIN outbox'.records = {}
    BY <1>0, <1>7 DEF ReservationInv
  <2>4. \A id \in DOMAIN outbox'.records : id <= next_event
    BY <1>0, <1>7 DEF ReservationInv
  <2> QED
    BY <1>0, <1>1, <2>1, <2>2, <2>3, <2>4 DEF ReservationInv
<1>9. FlightInv'
  <2>1. \A f : Current(f)' <=> Current(f)
    BY <1>1 DEF Current, Unsettled
  <2>2. 0 \in 0 .. config.clock
    BY <1>0, RuntimeAssumption, InstantAssumption DEF ShapeInv
  <2>3. \A f \in flights' :
          /\ f.id \in Ids /\ f.id <= next_event
          /\ f.epoch \in Nat /\ f.epoch <= epoch
          /\ f.now \in 0 .. config.clock
          /\ f.epoch # epoch => f.id \notin outbox'.active
    BY <1>0, <1>1, <1>2, <1>7, <2>2 DEF FlightInv
  <2>4. \A f \in flights' :
          Current(f) => /\ f.id \in DOMAIN outbox'.records
                        /\ outbox'.records[f.id].state = "Running"
                        /\ outbox'.records[f.id].attempt = f.attempt
    BY <1>0, <1>1, <1>3, <1>7 DEF FlightInv
  <2>5. \A f, other \in flights' : Current(f) /\ Current(other) /\ f.id = other.id => f = other
    BY <1>0, <1>1, <1>3 DEF FlightInv
  <2>6. ASSUME NEW i \in DOMAIN outbox'.records, outbox'.records[i].state = "Running"
        PROVE  \E f \in flights' : f.id = i /\ Current(f)
    <3>1. i \in DOMAIN outbox.records /\ outbox.records[i].state = "Running"
      BY <1>7, <2>6
    <3>2. PICK f \in flights : f.id = i /\ Current(f)
      BY <1>0, <3>1 DEF FlightInv
    <3>3. f # fl
      BY <1>7, <2>6, <3>2
    <3> QED
      BY <1>1, <3>2, <3>3
  <2> QED
    BY <1>1, <2>1, <2>3, <2>4, <2>5, <2>6 DEF FlightInv
<1>10. CapacityInv'
  <2>1. IsFiniteSet(DOMAIN payloads) /\ Cardinality(DOMAIN payloads) \in Nat
    BY <1>0, PayloadsFinite
  <2>2. /\ Cardinality(DOMAIN payloads') <= Cardinality(DOMAIN payloads)
        /\ Cardinality(DOMAIN payloads') \in Nat
    <3>1. DOMAIN payloads' \in SUBSET (DOMAIN payloads)
      BY <1>7
    <3>2. /\ IsFiniteSet(DOMAIN payloads')
          /\ Cardinality(DOMAIN payloads') <= Cardinality(DOMAIN payloads)
      BY <2>1, <3>1, FS_Subset
    <3> QED
      BY <3>2, FS_CardinalityType
  <2>3. Cardinality(DOMAIN payloads') + reserved_event_records' <= MaxRecords
    BY <1>0, <1>1, <2>1, <2>2, RuntimeAssumption DEF CapacityInv, ShapeInv
  <2> QED
    BY <1>0, <1>1, <2>3 DEF CapacityInv, HeldNow
<1> QED
  BY <1>4, <1>5, <1>6, <1>7, <1>8, <1>9, <1>10 DEF RuntimeInv

(* A retry that is released keeps its event and its attempts.               *)
LEMMA ReleasedRecord ==
    ASSUME NEW r \in EventRecords, NEW now, r.state = "RetryWaiting"
    PROVE  /\ retry_due(r, now).state \in {"Pending", "RetryWaiting"}
           /\ retry_due(r, now).attempt = r.attempt
           /\ retry_due(r, now).epoch = r.epoch
  BY DEF retry_due, EventRecords

(* The sweep releases the due retries.                                      *)
LEMMA SweepStep ==
    ASSUME RuntimeInv, on_clock_changed
    PROVE  RuntimeInv'
<1>0. /\ ShapeInv /\ DeliveryInv /\ ReservationInv /\ RecordInv
      /\ FlightInv /\ RunnerInv /\ PassInv /\ CapacityInv
  BY DEF RuntimeInv
<1>1. /\ UNCHANGED <<config, epoch, next_event, reserved_event_records, clock, runner, draining,
                     live, dispatcher, reservations, payloads, flights, shutdown>>
      /\ dispatcher.phase # "passing" /\ sweep # NoSweep /\ sweep' = NoSweep
  BY DEF on_clock_changed, Unlocked, codebase, bounds
<1>2. ShapeInv' /\ RunnerInv' /\ PassInv' /\ CapacityInv'
  BY <1>0, <1>1, RunnerStays, PassStays, CapacityStays DEF ShapeInv
<1>3. CASE ShuttingDown
  <2>1. outbox' = outbox
    BY <1>3 DEF on_clock_changed
  <2> QED
    BY <1>0, <1>1, <1>2, <2>1, DeliveryStays, ReservationStays, RecordStays, FlightStays
       DEF RuntimeInv
<1>4. CASE ~ ShuttingDown
  <2>1. PICK order \in IncreasingSeqs(retries_due(outbox, sweep)) :
            outbox' = released(outbox, sweep, order)
    BY <1>4 DEF on_clock_changed
  <2>2. sweep \in Instants
    <3>1. config.clock \in 0 .. MaxInstant /\ sweep \in 0 .. config.clock
      BY <1>0, <1>1, RuntimeAssumption DEF ShapeInv
    <3> QED
      BY <3>1, InstantAssumption DEF Instants
  <2>3. OutboxType(outbox) /\ IndexOK(outbox)
    BY <1>0 DEF DeliveryInv
  <2>a. PICK due : due = retries_due(outbox, sweep)
    OBVIOUS
  <2>4. ReleasedSet(outbox, outbox', due, sweep)
    BY <2>1, <2>2, <2>3, <2>a, ReleasedOK
  <2>5. \A i \in due : /\ i \in DOMAIN outbox.records
                       /\ outbox.records[i].state = "RetryWaiting"
    BY <2>3, <2>a, DueIsWaiting
  <2>6. /\ OutboxType(outbox') /\ IndexOK(outbox')
        /\ DOMAIN outbox'.records = DOMAIN outbox.records
        /\ outbox'.active = outbox.active /\ outbox'.queue_by_id = outbox.queue_by_id
        /\ \A i \in DOMAIN outbox.records : i \notin due => outbox'.records[i] = outbox.records[i]
    BY <2>4 DEF ReleasedSet
  <2>7. \A i \in due : /\ outbox'.records[i].state \in {"Pending", "RetryWaiting"}
                       /\ outbox'.records[i].attempt = outbox.records[i].attempt
                       /\ outbox'.records[i].epoch = outbox.records[i].epoch
    <3>1. \A i \in due : outbox'.records[i] = retry_due(outbox.records[i], sweep)
      BY <2>4, <2>5 DEF ReleasedSet
    <3>2. \A i \in due : outbox.records[i] \in EventRecords
      BY <2>3, <2>5 DEF OutboxType, IsMap
    <3> QED
      BY <2>5, <3>1, <3>2, ReleasedRecord
  <2>8. DeliveryInv'
    BY <1>0, <1>1, <2>6 DEF DeliveryInv
  <2>9. ReservationInv'
    BY <1>0, <1>1, <2>6 DEF ReservationInv, IsReservation
  <2>10. RecordInv'
    <3>1. ASSUME NEW i \in DOMAIN outbox.records
          PROVE  /\ outbox'.records[i].epoch <= epoch
                 /\ i \in outbox.active => outbox'.records[i].epoch = epoch
                 /\ outbox'.records[i].state # "Leased"
                 /\ outbox'.records[i].state \in {"Pending", "RetryWaiting"} =>
                       outbox'.records[i].attempt < Policy.max_attempts
                 /\ outbox'.records[i].state = "Running" =>
                       outbox'.records[i].attempt \in 1 .. Policy.max_attempts
      <4>1. CASE i \in due
        BY <1>0, <2>5, <2>7, <4>1 DEF RecordInv
      <4>2. CASE i \notin due
        BY <1>0, <2>6, <4>2 DEF RecordInv
      <4> QED
        BY <4>1, <4>2
    <3> QED
      BY <1>1, <2>6, <3>1 DEF RecordInv
  <2>11. FlightInv'
    <3>1. \A f : Current(f)' <=> Current(f)
      BY <1>1 DEF Current, Unsettled
    <3>2. \A i \in DOMAIN outbox.records :
            /\ outbox'.records[i].state = "Running" <=> outbox.records[i].state = "Running"
            /\ outbox'.records[i].attempt = outbox.records[i].attempt
      BY <2>5, <2>6, <2>7
    <3>3. \A fl \in flights :
            Current(fl) => /\ fl.id \in DOMAIN outbox'.records
                           /\ outbox'.records[fl.id].state = "Running"
                           /\ outbox'.records[fl.id].attempt = fl.attempt
      BY <1>0, <2>6, <3>2 DEF FlightInv
    <3>4. \A id \in DOMAIN outbox'.records :
            outbox'.records[id].state = "Running" => \E fl \in flights : fl.id = id /\ Current(fl)
      BY <1>0, <2>6, <3>2 DEF FlightInv
    <3> QED
      BY <1>0, <1>1, <2>6, <3>1, <3>3, <3>4 DEF FlightInv
  <2> QED
    BY <1>2, <2>8, <2>9, <2>10, <2>11 DEF RuntimeInv
<1> QED
  BY <1>3, <1>4

(* A reset discards every record and kills every process.                   *)
LEMMA ResetStep ==
    ASSUME RuntimeInv, reset_at
    PROVE  RuntimeInv'
<1>0. /\ ShapeInv /\ DeliveryInv /\ ReservationInv /\ RecordInv
      /\ FlightInv /\ RunnerInv /\ PassInv /\ CapacityInv
  BY DEF RuntimeInv
<1>1. /\ UNCHANGED <<config, next_event, clock, sweep, runner, dispatcher, reservations, flights>>
      /\ dispatcher.phase # "passing"
      /\ epoch' = epoch + 1 /\ draining' = {} /\ payloads' = EmptyMap
      /\ reserved_event_records' = 0
      /\ live' = live \ killed_by_reset
  BY DEF reset_at, Unlocked, bounds
<1>2. epoch \in Nat
  BY <1>0 DEF ShapeInv
<1>3. PICK e \in Nat : e = epoch + 1
  BY <1>2
<1>4. PICK order \in IncreasingSeqs(StaleIds(outbox, e)) :
          outbox' = discard_stale(outbox, e, order)
  BY <1>3 DEF reset_at
<1>5. OutboxType(outbox) /\ IndexOK(outbox)
  BY <1>0 DEF DeliveryInv
<1>6. StaleIds(outbox, e) = outbox.active
  <2>1. \A i \in outbox.active : i \in DOMAIN outbox.records
    BY <1>5 DEF IndexOK, ActiveIndexOK
  <2>2. \A i \in outbox.active : outbox.records[i].epoch < e
    BY <1>0, <1>2, <1>3, <2>1 DEF RecordInv
  <2> QED
    BY <2>2 DEF StaleIds
<1>7. IsFiniteSet(StaleIds(outbox, e))
  BY <1>5, <1>6, IdsAssumption, FS_Subset DEF OutboxType
<1>8. OutboxType(outbox') /\ IndexOK(outbox')
  BY <1>4, <1>5, <1>7, DiscardOK
<1>9. /\ outbox'.active = {}
      /\ \A i \in DOMAIN outbox'.records :
            /\ i \in DOMAIN outbox.records
            /\ outbox'.records[i] = discard_stale_record(outbox.records[i], e)
  BY <1>4, <1>6, DiscardedRecords
<1>10. \A i \in DOMAIN outbox'.records : is_terminal(outbox'.records[i])
  BY <1>8, <1>9 DEF IndexOK, ActiveIndexOK
<1>11. \A i \in DOMAIN outbox'.records :
          outbox'.records[i].state \notin {"Leased", "Pending", "RetryWaiting", "Running"}
  BY <1>10 DEF is_terminal, TerminalStates
<1>12. DOMAIN EmptyMap = {}
  BY DEF EmptyMap
<1>13. ShapeInv'
  BY <1>0, <1>1, <1>2 DEF ShapeInv
<1>14. DeliveryInv'
  BY <1>1, <1>8, <1>9, <1>12 DEF DeliveryInv
<1>15. ReservationInv'
  <2>1. \A r \in reservations : IsReservation(r)'
    BY <1>0, <1>1, <1>2 DEF ReservationInv, IsReservation
  <2> QED
    BY <1>0, <1>1, <1>9, <2>1 DEF ReservationInv
<1>16. RecordInv'
  <2>1. ASSUME NEW i \in DOMAIN outbox'.records PROVE outbox'.records[i].epoch <= epoch'
    <3>1. i \in DOMAIN outbox.records /\ outbox.records[i] \in EventRecords
      BY <1>5, <1>9, <2>1 DEF OutboxType, IsMap
    <3>2. outbox'.records[i].epoch = outbox.records[i].epoch
      BY <1>9, <2>1, <3>1 DEF discard_stale_record, EventRecords
    <3>3. outbox.records[i].epoch <= epoch /\ outbox.records[i].epoch \in Nat
      BY <1>0, <3>1 DEF RecordInv, EventRecords
    <3> QED
      BY <1>1, <1>2, <3>2, <3>3
  <2> QED
    BY <1>9, <1>11, <2>1 DEF RecordInv
<1>17. \A fl \in flights : fl.epoch \in Nat /\ fl.epoch <= epoch' /\ fl.epoch # epoch'
  BY <1>0, <1>1, <1>2 DEF FlightInv
<1>18. FlightInv'
  <2>1. \A fl \in flights : ~ Current(fl)'
    BY <1>17 DEF Current
  <2> QED
    BY <1>0, <1>1, <1>9, <1>11, <1>17, <2>1 DEF FlightInv
<1>19. RunnerInv'
  <2>1. live' = {}
    BY <1>0, <1>1 DEF RunnerInv, killed_by_reset
  <2> QED
    BY <1>0, <1>1, <2>1 DEF RunnerInv
<1>20. PassInv'
  BY <1>1 DEF PassInv
<1>21. CapacityInv'
  <2>1. \A r \in reservations : r.epoch # epoch'
    BY <1>0, <1>1, <1>2 DEF ReservationInv, IsReservation
  <2>2. HeldNow' = {}
    BY <1>1, <2>1 DEF HeldNow
  <2>3. PICK held : held = HeldNow'
    OBVIOUS
  <2>4. HeldIds(held) = {}
    BY <2>2, <2>3 DEF HeldIds
  <2>5. Cardinality(HeldIds(held)) = 0 /\ Cardinality(DOMAIN payloads') = 0
    BY <1>1, <1>12, <2>4, FS_EmptySet
  <2> QED
    BY <1>1, <2>3, <2>5, CapacityHolds, RuntimeAssumption
<1> QED
  BY <1>13, <1>14, <1>15, <1>16, <1>18, <1>19, <1>20, <1>21 DEF RuntimeInv

(* Every step keeps the invariant.                                          *)
LEMMA RuntimeStep == RuntimeInv /\ [Next]_vars => RuntimeInv'
<1> SUFFICES ASSUME RuntimeInv, [Next]_vars PROVE RuntimeInv'
  OBVIOUS
<1>1. CASE Source
  <2>1. CASE \E batch \in config.batches : reserve_drafts(batch)
    BY <2>1, ReserveStep
  <2>2. CASE \E r \in reservations : publish(r) \/ cancel_reservation(r)
    BY <2>2, PublishStep, CancelStep
  <2> QED
    BY <1>1, <2>1, <2>2 DEF Source
<1>2. CASE DispatchLoop
  <2>1. CASE \E expired \in SUBSET draining : DispatchWake(expired)
    BY <2>1, WakeStep
  <2>2. CASE \/ DispatchBegin \/ DispatchEnd \/ DispatchBlocked \/ DispatchHeld
             \/ \E plan \in config.plans : DispatchDelay(plan)
    BY <2>2, PassStep
  <2>3. CASE \E plan \in config.plans : DispatchStart(plan)
    BY <2>3, StartStep
  <2> QED
    BY <1>2, <2>1, <2>2, <2>3 DEF DispatchLoop
<1>3. CASE Invocation
  <2>1. PICK fl \in flights :
            \/ \E outcome \in Outcomes(fl) : InvokeEnds(fl, outcome)
            \/ complete(fl)
            \/ release(fl)
    BY <1>3 DEF Invocation
  <2> QED
    BY <2>1, InvokeStep, CompleteStep, ReleaseStep
<1>4. CASE Recovery
  BY <1>4, RunnerStep, FlagStep DEF Recovery
<1>5. CASE Sweep
  BY <1>5, SweepStep, FlagStep DEF Sweep
<1>6. CASE Lifecycle
  BY <1>6, ResetStep, RunnerStep, FlagStep DEF Lifecycle
<1>7. CASE (\E r \in live : RunnerExits(r)) \/ reload_codebase
  BY <1>7, RunnerStep
<1>8. CASE AdvanceClock \/ UNCHANGED vars
  BY <1>8, FlagStep
<1> QED
  BY <1>1, <1>2, <1>3, <1>4, <1>5, <1>6, <1>7, <1>8 DEF Next

(* The inductive invariant holds in every reachable state.                  *)
THEOREM RuntimeInvHolds == Spec => []RuntimeInv
  BY RuntimeInit, RuntimeStep, PTL DEF Spec

-----------------------------------------------------------------------------
(* What the invariant gives.                                                *)

(* Exactly the active records keep a payload: whatever source mutations,    *)
(* outcomes, retries, resets and reloads happen, none is stranded without   *)
(* one and no finished event keeps one.                                     *)
THEOREM PayloadsMatch == Spec => []PayloadsMatchRecords
<1>1. RuntimeInv => PayloadsMatchRecords
  BY DEF RuntimeInv, DeliveryInv, PayloadsMatchRecords
<1> QED
  BY <1>1, RuntimeInvHolds, PTL

(* The reservation counter is exact and the admission limit is kept, for    *)
(* every limit and every size of batches.                                   *)
THEOREM CapacityIsKept == Spec => []CapacityIsHonest
<1>1. RuntimeInv => CapacityIsHonest
  BY DEF RuntimeInv, CapacityInv, CapacityIsHonest, HeldNow
<1> QED
  BY <1>1, RuntimeInvHolds, PTL

(* No event is delivered twice at once, none waits for an invocation that   *)
(* is gone, and an invocation settles the attempt it was started for.       *)
THEOREM OneInvocation == Spec => []OneInvocationPerAttempt
<1>1. ASSUME RuntimeInv PROVE OneInvocationPerAttempt
  <2>1. FlightInv
    BY <1>1 DEF RuntimeInv
  <2>2. ASSUME NEW id \in DOMAIN outbox.records,
               NEW mine, mine = {fl \in flights : fl.id = id /\ fl.epoch = epoch /\ Unsettled(fl)}
        PROVE  /\ outbox.records[id].state = "Running" <=> mine # {}
               /\ \A fl, other \in mine : fl = other
               /\ \A fl \in mine : fl.attempt = outbox.records[id].attempt
    BY <2>1, <2>2 DEF FlightInv, Current
  <2> QED
    BY <2>2 DEF OneInvocationPerAttempt
<1> QED
  BY <1>1, RuntimeInvHolds, PTL

(* After a reset no handler of an earlier session executes.                 *)
THEOREM OldHandlersAreStopped == Spec => []ResetStopsOldHandlers
<1>1. RuntimeInv => ResetStopsOldHandlers
  BY DEF RuntimeInv, RunnerInv, ResetStopsOldHandlers, Executing
<1> QED
  BY <1>1, RuntimeInvHolds, PTL

\* What a step may do to the record of id.
RecordChange(id) ==
    \/ id \in DOMAIN outbox.records /\ outbox'.records[id] = outbox.records[id]
    \/ id \in DOMAIN outbox.records /\ outbox'.records[id].epoch = epoch'
    \/ id \in DOMAIN outbox.records /\ outbox'.records[id].state = "DiscardedStaleEpoch"
    \/ shutdown # "stopped" /\ outbox'.records[id].epoch = epoch'

(* A publication adds records of this session, before the stop.             *)
LEMMA PublishChanges ==
    ASSUME RuntimeInv, NEW r \in reservations, publish(r), published(r),
           NEW id \in DOMAIN outbox'.records
    PROVE  RecordChange(id)
<1>0. ShapeInv /\ ReservationInv /\ CapacityInv
  BY DEF RuntimeInv
<1>1. /\ outbox' = enqueued(outbox, r) /\ epoch' = epoch /\ r.epoch = epoch
      /\ reservations' = reservations \ {r}
  BY DEF publish, published
<1>2. /\ DOMAIN outbox'.records = DOMAIN outbox.records \cup IdsOf(r)
      /\ \A i \in DOMAIN outbox.records : outbox'.records[i] = outbox.records[i]
      /\ \A i \in IdsOf(r) : outbox'.records[i] = NewRecord(r.epoch, r.time)
  BY <1>1, PublishedOK DEF PublishedUpTo
<1>3. CASE id \in DOMAIN outbox.records
  BY <1>2, <1>3 DEF RecordChange
<1>4. CASE id \in IdsOf(r)
  <2>1. outbox'.records[id].epoch = epoch'
    BY <1>1, <1>2, <1>4 DEF NewRecord
  <2>2. Len(r.fns) \in Nat /\ reserved_event_records - Len(r.fns) \in Nat
    BY <1>0, <1>1, HeldAfter
  <2>3. Len(r.fns) # 0
    BY <1>0, <1>4 DEF IdsOf, ReservationInv, IsReservation
  <2>4. reserved_event_records # 0
    BY <1>0, <2>2, <2>3 DEF ShapeInv
  <2>5. shutdown # "stopped"
    BY <1>0, <2>4 DEF CapacityInv
  <2> QED
    BY <2>1, <2>5 DEF RecordChange
<1> QED
  BY <1>2, <1>3, <1>4

(* A start changes a record of this session.                                *)
LEMMA StartChanges ==
    ASSUME RuntimeInv, NEW plan, DispatchStart(plan), NEW id \in DOMAIN outbox'.records
    PROVE  RecordChange(id)
<1>1. PICK c : c = CandidateId
  OBVIOUS
<1>2. PICK r : r = start(lease(outbox.records[c]))
  OBVIOUS
<1>3. /\ outbox' = reindex(outbox, c, r) /\ epoch' = epoch
      /\ dispatcher.phase = "passing" /\ ~ PassOver
  BY <1>1, <1>2 DEF DispatchStart, Dispatchable
<1>4. /\ c \in DOMAIN outbox.records /\ c \in outbox.active
      /\ outbox.records[c].state = "Pending"
  BY <1>1, <1>3, CandidateOK, PassNotOver
<1>5. /\ outbox.records[c].epoch = epoch /\ outbox.records[c] \in EventRecords
      /\ outbox.records[c].attempt < Policy.max_attempts
  BY <1>4 DEF RuntimeInv, RecordInv, DeliveryInv, OutboxType, IsMap
<1>6. r.epoch = epoch
  BY <1>2, <1>4, <1>5, StartedOK DEF KeepsRecord
<1>7. /\ id = c => outbox'.records[id] = r
      /\ id # c => id \in DOMAIN outbox.records /\ outbox'.records[id] = outbox.records[id]
  BY <1>3, ReindexedRecords
<1> QED
  BY <1>3, <1>4, <1>6, <1>7 DEF RecordChange

(* A completion changes a record of this session or none.                   *)
LEMMA CompleteChanges ==
    ASSUME RuntimeInv, NEW fl \in flights, complete(fl), NEW id \in DOMAIN outbox'.records
    PROVE  RecordChange(id)
<1>1. epoch' = epoch /\ fl.phase = "settling"
  BY DEF complete
<1>2. CASE ~ of_this_session(fl)
  <2>1. outbox' = outbox
    BY <1>2 DEF complete
  <2> QED
    BY <2>1 DEF RecordChange
<1>3. CASE of_this_session(fl)
  <2>1. PICK s : s = settled(fl, outbox.records[fl.id])
    OBVIOUS
  <2>2. outbox' = reindex(outbox, fl.id, s)
    BY <1>3, <2>1 DEF complete
  <2>3. CompletedTo(fl, s, outbox')
    BY <1>1, <1>3, <2>1, <2>2, CompletedOK
  <2> QED
    BY <1>1, <2>3 DEF CompletedTo, RecordChange
<1> QED
  BY <1>2, <1>3

(* The sweep changes records of this session.                               *)
LEMMA SweepChanges ==
    ASSUME RuntimeInv, on_clock_changed, NEW id \in DOMAIN outbox'.records
    PROVE  RecordChange(id)
<1>0. ShapeInv /\ DeliveryInv /\ RecordInv
  BY DEF RuntimeInv
<1>1. epoch' = epoch /\ sweep # NoSweep
  BY DEF on_clock_changed
<1>2. CASE ShuttingDown
  <2>1. outbox' = outbox
    BY <1>2 DEF on_clock_changed
  <2> QED
    BY <2>1 DEF RecordChange
<1>3. CASE ~ ShuttingDown
  <2>1. PICK order \in IncreasingSeqs(retries_due(outbox, sweep)) :
            outbox' = released(outbox, sweep, order)
    BY <1>3 DEF on_clock_changed
  <2>2. sweep \in Instants
    <3>1. config.clock \in 0 .. MaxInstant /\ sweep \in 0 .. config.clock
      BY <1>0, <1>1, RuntimeAssumption DEF ShapeInv
    <3> QED
      BY <3>1, InstantAssumption DEF Instants
  <2>3. OutboxType(outbox) /\ IndexOK(outbox)
    BY <1>0 DEF DeliveryInv
  <2>4. ReleasedSet(outbox, outbox', retries_due(outbox, sweep), sweep)
    BY <2>1, <2>2, <2>3, ReleasedOK
  <2>5. id \in DOMAIN outbox.records
    BY <2>4 DEF ReleasedSet
  <2>6. CASE id \in retries_due(outbox, sweep)
    <3>1. outbox.records[id].state = "RetryWaiting" /\ id \in outbox.active
      BY <2>3, <2>6, DueIsWaiting
    <3>2. outbox.records[id] \in EventRecords /\ outbox.records[id].epoch = epoch
      BY <1>0, <2>3, <2>5, <3>1 DEF RecordInv, OutboxType, IsMap
    <3>3. outbox'.records[id] = retry_due(outbox.records[id], sweep)
      BY <2>4, <2>5, <2>6 DEF ReleasedSet
    <3>4. outbox'.records[id].epoch = epoch
      BY <3>1, <3>2, <3>3, ReleasedRecord
    <3> QED
      BY <1>1, <2>5, <3>4 DEF RecordChange
  <2>7. CASE id \notin retries_due(outbox, sweep)
    BY <2>4, <2>5, <2>7 DEF ReleasedSet, RecordChange
  <2> QED
    BY <2>6, <2>7
<1> QED
  BY <1>2, <1>3

(* A reset discards records or leaves them.                                 *)
LEMMA ResetChanges ==
    ASSUME RuntimeInv, reset_at, NEW id \in DOMAIN outbox'.records
    PROVE  RecordChange(id)
<1>1. PICK e : e = epoch + 1
  OBVIOUS
<1>2. PICK order \in IncreasingSeqs(StaleIds(outbox, e)) :
          outbox' = discard_stale(outbox, e, order)
  BY <1>1 DEF reset_at
<1>3. /\ id \in DOMAIN outbox.records
      /\ outbox'.records[id] = discard_stale_record(outbox.records[id], e)
  BY <1>2, DiscardedRecords
<1>4. outbox.records[id] \in EventRecords
  BY <1>3 DEF RuntimeInv, DeliveryInv, OutboxType, IsMap
<1> QED
  BY <1>3, <1>4 DEF discard_stale_record, EventRecords, RecordChange

(* A step adds records to this session only, and only while the dispatcher  *)
(* runs; what it changes is of this session or discarded.                   *)
LEMMA RecordChanges ==
    ASSUME RuntimeInv, [Next]_vars, NEW id \in DOMAIN outbox'.records
    PROVE  RecordChange(id)
<1>0. CASE outbox' = outbox
  BY <1>0 DEF RecordChange
<1>1. CASE Source
  <2>1. CASE \E batch \in config.batches : reserve_drafts(batch)
    BY <1>0, <2>1 DEF reserve_drafts
  <2>2. ASSUME NEW r \in reservations, publish(r), ~ published(r) PROVE RecordChange(id)
    BY <1>0, <2>2 DEF publish
  <2>3. ASSUME NEW r \in reservations, cancel_reservation(r) PROVE RecordChange(id)
    BY <1>0, <2>3 DEF cancel_reservation
  <2>4. ASSUME NEW r \in reservations, publish(r), published(r) PROVE RecordChange(id)
    BY <2>4, PublishChanges
  <2> QED
    BY <1>1, <2>1, <2>2, <2>3, <2>4 DEF Source
<1>2. CASE DispatchLoop
  <2>1. CASE \/ \E expired \in SUBSET draining : DispatchWake(expired)
             \/ DispatchBegin \/ DispatchEnd \/ DispatchBlocked \/ DispatchHeld
             \/ \E plan \in config.plans : DispatchDelay(plan)
    BY <1>0, <2>1 DEF DispatchWake, DispatchBegin, DispatchEnd, DispatchBlocked, DispatchHeld,
                      DispatchDelay, inner
  <2>2. CASE \E plan \in config.plans : DispatchStart(plan)
    BY <2>2, StartChanges
  <2> QED
    BY <1>2, <2>1, <2>2 DEF DispatchLoop
<1>3. CASE Invocation
  <2>1. PICK fl \in flights :
            \/ \E outcome \in Outcomes(fl) : InvokeEnds(fl, outcome)
            \/ complete(fl)
            \/ release(fl)
    BY <1>3 DEF Invocation
  <2>2. CASE (\E outcome \in Outcomes(fl) : InvokeEnds(fl, outcome)) \/ release(fl)
    BY <1>0, <2>2 DEF InvokeEnds, release, inner
  <2> QED
    BY <2>1, <2>2, CompleteChanges
<1>4. CASE Recovery
  BY <1>0, <1>4
     DEF Recovery, RestartTakesGate, RecoveryCaptures, RecoveryInstalls, RecoveryFails, inner
<1>5. CASE Sweep
  <2>1. CASE SweepBegin
    BY <1>0, <2>1 DEF SweepBegin, inner
  <2> QED
    BY <1>5, <2>1, SweepChanges DEF Sweep
<1>6. CASE Lifecycle
  <2>1. CASE ResetRequested \/ begin_shutdown \/ ShutdownChecks \/ ShutdownRunners
    BY <1>0, <2>1 DEF ResetRequested, begin_shutdown, ShutdownChecks, ShutdownRunners, inner
  <2> QED
    BY <1>6, <2>1, ResetChanges DEF Lifecycle
<1>7. CASE (\E r \in live : RunnerExits(r)) \/ reload_codebase \/ AdvanceClock \/ UNCHANGED vars
  BY <1>0, <1>7 DEF RunnerExits, reload_codebase, AdvanceClock, vars, inner
<1> QED
  BY <1>1, <1>2, <1>3, <1>4, <1>5, <1>6, <1>7 DEF Next

(* ADR-011: work of an older session changes no record of this one and adds *)
(* none, in whatever order tasks, publications and resets take the mutex.   *)
THEOREM OldSessionsStayInert == Spec => OldSessionsAreInert
<1> DEFINE Inert == \A id \in DOMAIN outbox'.records :
                       \/ id \in DOMAIN outbox.records /\ outbox'.records[id] = outbox.records[id]
                       \/ outbox'.records[id].epoch = epoch'
                       \/ outbox'.records[id].state = "DiscardedStaleEpoch"
<1>1. RuntimeInv /\ [Next]_vars => Inert
  BY RecordChanges DEF RecordChange
<1>2. RuntimeInv /\ [Next]_vars => [Inert]_vars
  BY <1>1
<1> QED
  BY <1>2, RuntimeInvHolds, PTL DEF Spec, OldSessionsAreInert

(* Once the dispatcher stopped nothing is enqueued any more: every batch    *)
(* admitted before the shutdown was handed off first.                       *)
THEOREM StoppedEnqueuesNothing == Spec => NothingEnqueuedAfterStop
<1> DEFINE Closed == shutdown = "stopped" =>
                        DOMAIN outbox'.records \subseteq DOMAIN outbox.records
<1>1. RuntimeInv /\ [Next]_vars => Closed
  BY RecordChanges DEF RecordChange
<1>2. RuntimeInv /\ [Next]_vars => [Closed]_vars
  BY <1>1
<1> QED
  BY <1>2, RuntimeInvHolds, PTL DEF Spec, NothingEnqueuedAfterStop
=============================================================================
