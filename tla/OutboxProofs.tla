---------------------------- MODULE OutboxProofs ----------------------------
(***************************************************************************)
(* Proofs about the outbox on its own, for every set of ids and queues,     *)
(* every retention, policy and bound.                                       *)
(***************************************************************************)
EXTENDS Outbox, OutboxStateProofs, NaturalsInduction, WellFoundedInduction

-----------------------------------------------------------------------------
(* The component.                                                           *)

\* The inductive invariant: types and exact indexes support each other.
OutboxInv == TypeOK /\ IndexesAgree

(* An empty outbox is consistent.                                           *)
LEMMA InitInv == Init => OutboxInv
  BY EmptyOutboxOK DEF Init, OutboxInv, TypeOK, IndexesAgree

(* Every call keeps the outbox consistent.                                  *)
LEMMA NextInv == OutboxInv /\ [Next]_vars => OutboxInv'
<1> SUFFICES ASSUME OutboxInv, [Next]_vars PROVE OutboxInv'
  OBVIOUS
<1>0. OutboxType(outbox) /\ IndexOK(outbox) /\ failures \in [Ids -> Nat]
  BY DEF OutboxInv, TypeOK, IndexesAgree
<1>1. ASSUME OutboxType(outbox'), IndexOK(outbox'), failures' \in [Ids -> Nat]
      PROVE  OutboxInv'
  BY <1>1 DEF OutboxInv, TypeOK, IndexesAgree
<1>2. ASSUME NEW id \in Ids, NEW q \in Queues, NEW e \in 0 .. MaxEpoch, NEW t \in Instants,
             Enqueue(id, q, e, t)
      PROVE  OutboxInv'
  <2>1. e \in Nat
    BY OutboxBoundsAssumption
  <2>2. failures' \in [Ids -> Nat]
    BY <1>0, <1>2 DEF Enqueue
  <2> QED
    BY <1>0, <1>1, <1>2, <2>1, <2>2, EnqueueOK DEF Enqueue
<1>3. ASSUME NEW id \in DOMAIN outbox.records, NEW r, KeepsRecord(Record(id), r), Update(id, r),
             failures' \in [Ids -> Nat]
      PROVE  OutboxInv'
  BY <1>0, <1>1, <1>3, ReindexOK DEF Update, Record
<1>4. ASSUME NEW id \in DOMAIN outbox.records
      PROVE  Record(id) \in EventRecords /\ id \in Ids
  BY <1>0 DEF OutboxType, IsMap, Record
<1>5. 0 \in Instants /\ 0 \in Nat
  BY InstantAssumption DEF Instants
<1>6. ASSUME NEW id \in DOMAIN outbox.records,
             Lease(id) \/ Start(id) \/ Succeed(id) \/ Interrupt(id) \/ Cancel(id)
      PROVE  OutboxInv'
  <2>1. failures' \in [Ids -> Nat]
    BY <1>0, <1>6 DEF Lease, Start, Succeed, Interrupt, Cancel
  <2>2. CASE Lease(id)
    BY <1>3, <1>4, <1>5, <2>1, <2>2, BackoffAssumption, TransitionsKeepRecord DEF Lease
  <2>3. CASE Start(id)
    BY <1>3, <1>4, <1>5, <2>1, <2>3, BackoffAssumption, TransitionsKeepRecord DEF Start
  <2>4. CASE Succeed(id)
    BY <1>3, <1>4, <1>5, <2>1, <2>4, BackoffAssumption, TransitionsKeepRecord DEF Succeed
  <2>5. CASE Interrupt(id)
    BY <1>3, <1>4, <1>5, <2>1, <2>5, BackoffAssumption, TransitionsKeepRecord DEF Interrupt
  <2>6. CASE Cancel(id)
    BY <1>3, <1>4, <1>5, <2>1, <2>6, BackoffAssumption, TransitionsKeepRecord DEF Cancel
  <2> QED
    BY <1>6, <2>2, <2>3, <2>4, <2>5, <2>6
<1>7. ASSUME NEW id \in DOMAIN outbox.records, NEW now \in Instants, Fail(id, now)
      PROVE  OutboxInv'
  <2>1. failures' \in [Ids -> Nat]
    BY <1>0, <1>4, <1>7 DEF Fail
  <2> QED
    BY <1>3, <1>4, <1>5, <1>7, <2>1, BackoffAssumption, TransitionsKeepRecord DEF Fail
<1>8. ASSUME NEW id \in DOMAIN outbox.records, NEW now \in Instants, RetryDue(id, now)
      PROVE  OutboxInv'
  <2>1. failures' \in [Ids -> Nat]
    BY <1>0, <1>8 DEF RetryDue
  <2> QED
    BY <1>3, <1>4, <1>5, <1>8, <2>1, BackoffAssumption, TransitionsKeepRecord DEF RetryDue
<1>9. ASSUME NEW epoch \in 0 .. MaxEpoch, DiscardStale(epoch)
      PROVE  OutboxInv'
  <2>1. epoch \in Nat
    BY OutboxBoundsAssumption
  <2>2. PICK order \in IncreasingSeqs(StaleIds(outbox, epoch)) :
              outbox' = discard_stale(outbox, epoch, order)
    BY <1>9 DEF DiscardStale
  <2>3. IsFiniteSet(StaleIds(outbox, epoch))
    <3>1. StaleIds(outbox, epoch) \in SUBSET Ids
      BY <1>0 DEF StaleIds, OutboxType
    <3> QED
      BY <3>1, IdsAssumption, FS_Subset
  <2>4. failures' \in [Ids -> Nat]
    BY <1>0, <1>9 DEF DiscardStale
  <2> QED
    BY <1>0, <1>1, <2>1, <2>2, <2>3, <2>4, DiscardOK
<1>10. CASE UNCHANGED vars
  BY <1>0, <1>1, <1>10 DEF vars
<1> QED
  BY <1>2, <1>6, <1>7, <1>8, <1>9, <1>10 DEF Next

(* Every index of the outbox is exact in every reachable state, whatever    *)
(* the ids, queues, retention, policy and bounds.                           *)
THEOREM IndexesAlwaysAgree == Spec => [](TypeOK /\ IndexesAgree)
<1>1. Spec => []OutboxInv
  BY InitInv, NextInv, PTL DEF Spec
<1> QED
  BY <1>1, PTL DEF OutboxInv

-----------------------------------------------------------------------------
(* INV-EVENT-001 for the whole outbox.                                      *)

(* A record that reached a terminal state never changes again, whatever     *)
(* calls follow: INV-EVENT-001 of the event state machine.                  *)
THEOREM TerminalRecordsNeverRegress == Spec => TerminalNeverRegresses
<1>1. ASSUME OutboxInv, Next PROVE KeepsTerminal(outbox, outbox')
  <2>0. OutboxType(outbox)
    BY <1>1 DEF OutboxInv, TypeOK
  <2>1. ASSUME NEW id \in DOMAIN outbox.records
        PROVE  Record(id) \in EventRecords /\ Record(id) = outbox.records[id]
    BY <2>0 DEF OutboxType, IsMap, Record
  <2>2. 0 \in Instants /\ 0 \in Nat
    BY InstantAssumption DEF Instants
  <2>3. ASSUME NEW id \in DOMAIN outbox.records, NEW r, KeepsRecord(Record(id), r), Update(id, r)
        PROVE  KeepsTerminal(outbox, outbox')
    BY <2>1, <2>3, ReindexKeepsTerminal DEF Update
  <2>4. ASSUME NEW id \in Ids, NEW q \in Queues, NEW e \in 0 .. MaxEpoch, NEW t \in Instants,
               Enqueue(id, q, e, t)
        PROVE  KeepsTerminal(outbox, outbox')
    <3> DEFINE b == [outbox EXCEPT !.queue_by_id = Put(outbox.queue_by_id, id, q)]
    <3>1. b.records = outbox.records
      BY <2>0 DEF OutboxType, OutboxFields
    <3>2. outbox' = reindex(b, id, NewRecord(e, t)) /\ id \notin DOMAIN outbox.records
      BY <2>4 DEF Enqueue, enqueue_in_queue
    <3> HIDE DEF b
    <3>3. KeepsTerminal(b, outbox')
      BY <3>1, <3>2, ReindexKeepsTerminal
    <3> QED
      BY <3>1, <3>3 DEF KeepsTerminal
  <2>5. ASSUME NEW id \in DOMAIN outbox.records,
               Lease(id) \/ Start(id) \/ Succeed(id) \/ Interrupt(id) \/ Cancel(id)
        PROVE  KeepsTerminal(outbox, outbox')
    BY <2>1, <2>2, <2>3, <2>5, BackoffAssumption, TransitionsKeepRecord
       DEF Lease, Start, Succeed, Interrupt, Cancel
  <2>6. ASSUME NEW id \in DOMAIN outbox.records, NEW now \in Instants,
               Fail(id, now) \/ RetryDue(id, now)
        PROVE  KeepsTerminal(outbox, outbox')
    BY <2>1, <2>2, <2>3, <2>6, BackoffAssumption, TransitionsKeepRecord DEF Fail, RetryDue
  <2>7. ASSUME NEW epoch \in 0 .. MaxEpoch, DiscardStale(epoch)
        PROVE  KeepsTerminal(outbox, outbox')
    <3>1. PICK order \in IncreasingSeqs(StaleIds(outbox, epoch)) :
                outbox' = discard_stale(outbox, epoch, order)
      BY <2>7 DEF DiscardStale
    <3> DEFINE m == all_discarded(outbox, epoch, order)
    <3>2. /\ DOMAIN m = OutboxFields
          /\ m.records = [i \in DOMAIN outbox.records |-> discard_stale_record(outbox.records[i], epoch)]
      BY DEF all_discarded, OutboxFields
    <3> HIDE DEF m
    <3>3. KeepsTerminal(outbox, m)
      BY <3>2 DEF KeepsTerminal, discard_stale_record
    <3> QED
      BY <3>1, <3>2, <3>3, EvictKeepsTerminal DEF discard_stale, m
  <2> QED
    BY <1>1, <2>4, <2>5, <2>6, <2>7 DEF Next
<1>2. OutboxInv /\ [Next]_vars =>
        [\A id \in DOMAIN outbox.records :
            is_terminal(outbox.records[id]) =>
               \/ id \notin DOMAIN outbox'.records
               \/ outbox'.records[id] = outbox.records[id]]_vars
  BY <1>1 DEF KeepsTerminal
<1>3. Spec => []OutboxInv
  BY InitInv, NextInv, PTL DEF Spec
<1> QED
  BY <1>2, <1>3, PTL DEF Spec, TerminalNeverRegresses

-----------------------------------------------------------------------------
(* The retry budget.                                                        *)

\* RetryBudget for one record with n failures since it was enqueued.
Charged(r, n) ==
    /\ r.state \in {"Pending", "Leased", "RetryWaiting"} => r.attempt = n
    /\ r.state = "Running" => r.attempt = n + 1
    /\ r.state = "DeadLettered" => n >= Policy.max_attempts

(* No transition but a failure changes what a record is charged with, and a *)
(* failure charges one more, unless its retry instant does not fit.         *)
LEMMA TransitionsChargeFailures ==
    ASSUME NEW r \in EventRecords, NEW now \in Instants, NEW e \in Nat, NEW n \in Nat,
           Charged(r, n)
    PROVE  /\ Charged(lease(r), n)
           /\ Charged(start(r), n)
           /\ Charged(succeed(r), n)
           /\ Charged(interrupt(r), n)
           /\ Charged(retry_due(r, now), n)
           /\ Charged(cancel(r), n)
           /\ Charged(discard_stale_record(r, e), n)
           /\ fail(r, Policy, now) # r => Charged(fail(r, Policy, now), n + 1)
<1> USE DEF Charged, EventRecords
<1>0. r.attempt \in Nat
  BY AttemptAssumption DEF Attempts
<1>1. Charged(lease(r), n)
  BY DEF lease
<1>2. Charged(start(r), n)
  <2>1. CASE r.state = "Leased" /\ r.attempt < MaxAttempt
    <3>1. PICK a \in Nat : a = r.attempt + 1
      BY <1>0
    <3>2. start(r) = [r EXCEPT !.state = "Running", !.attempt = a]
      BY <2>1, <3>1 DEF start
    <3> QED
      BY <2>1, <3>1, <3>2
  <2> QED
    BY <2>1 DEF start
<1>3. Charged(succeed(r), n)
  BY DEF succeed
<1>4. Charged(interrupt(r), n)
  <2>1. CASE r.state = "Running"
    <3>1. r.attempt = n + 1
      BY <2>1
    <3>2. (IF r.attempt > 0 THEN r.attempt - 1 ELSE 0) = n
      BY <1>0, <3>1
    <3>3. interrupt(r) = [r EXCEPT !.state = "Pending", !.attempt = n]
      BY <2>1, <3>2 DEF interrupt
    <3> QED
      BY <3>3
  <2> QED
    BY <2>1 DEF interrupt
<1>5. Charged(retry_due(r, now), n)
  BY DEF retry_due
<1>6. Charged(cancel(r), n)
  BY DEF cancel
<1>7. Charged(discard_stale_record(r, e), n)
  BY DEF discard_stale_record
<1>8. ASSUME fail(r, Policy, now) # r
      PROVE  Charged(fail(r, Policy, now), n + 1)
  <2>1. r.state = "Running" /\ r.attempt = n + 1
    BY <1>8 DEF fail
  <2>2. CASE allows_retry_after_elapsed(Policy, r.attempt, elapsed_since(r, now))
    <3>1. PICK at : at = now + backoff_for_attempt(Policy, r.attempt)
      OBVIOUS
    <3>2. fail(r, Policy, now) = [r EXCEPT !.state = "RetryWaiting", !.retry_at = at]
      BY <1>8, <2>1, <2>2, <3>1 DEF fail
    <3> QED
      BY <2>1, <3>2
  <2>3. CASE ~ allows_retry_after_elapsed(Policy, r.attempt, elapsed_since(r, now))
    <3>1. fail(r, Policy, now) = [r EXCEPT !.state = "DeadLettered"]
      BY <2>1, <2>3 DEF fail
    <3>2. ~ (r.attempt < Policy.max_attempts)
      BY <2>3 DEF allows_retry_after_elapsed, allows_retry_after
    <3>3. n + 1 >= Policy.max_attempts
      BY <2>1, <3>2, PolicyAssumption DEF IsRetryPolicy
    <3> QED
      BY <3>1, <3>3
  <2> QED
    BY <2>2, <2>3
<1> QED
  BY <1>1, <1>2, <1>3, <1>4, <1>5, <1>6, <1>7, <1>8

(* Every call keeps the attempts within the failures counted.               *)
LEMMA BudgetKept == OutboxInv /\ RetryBudget /\ [Next]_vars => RetryBudget'
<1> SUFFICES ASSUME OutboxInv, RetryBudget, [Next]_vars PROVE RetryBudget'
  OBVIOUS
<1>0. OutboxType(outbox) /\ failures \in [Ids -> Nat]
  BY DEF OutboxInv, TypeOK
<1>1. \A i \in DOMAIN outbox.records :
        /\ i \in Ids
        /\ outbox.records[i] \in EventRecords
        /\ failures[i] \in Nat
        /\ Charged(outbox.records[i], failures[i])
        /\ Record(i) = outbox.records[i]
  BY <1>0 DEF RetryBudget, Charged, OutboxType, IsMap, Record
<1>2. ASSUME \A i \in DOMAIN outbox'.records : Charged(outbox'.records[i], failures'[i])
      PROVE  RetryBudget'
  BY <1>2 DEF RetryBudget, Charged
<1>3. ASSUME NEW id \in DOMAIN outbox.records, NEW r, Update(id, r), Charged(r, failures'[id]),
             \A i \in DOMAIN outbox.records : i # id => failures'[i] = failures[i]
      PROVE  RetryBudget'
  <2>1. ASSUME NEW i \in DOMAIN outbox'.records PROVE Charged(outbox'.records[i], failures'[i])
    <3>1. outbox' = reindex(outbox, id, r)
      BY <1>3 DEF Update
    <3>2. CASE i = id
      BY <1>3, <2>1, <3>1, <3>2, ReindexedRecords
    <3>3. CASE i # id
      <4>1. i \in DOMAIN outbox.records /\ outbox'.records[i] = outbox.records[i]
        BY <2>1, <3>1, <3>3, ReindexedRecords
      <4> QED
        BY <1>1, <1>3, <3>3, <4>1
    <3> QED
      BY <3>2, <3>3
  <2> QED
    BY <1>2, <2>1
<1>4. 0 \in Instants /\ 0 \in Nat
  BY InstantAssumption DEF Instants
<1>5. ASSUME NEW id \in Ids, NEW q \in Queues, NEW e \in 0 .. MaxEpoch, NEW t \in Instants,
             Enqueue(id, q, e, t)
      PROVE  RetryBudget'
  <2> DEFINE b == [outbox EXCEPT !.queue_by_id = Put(outbox.queue_by_id, id, q)]
  <2>1. b.records = outbox.records
    BY <1>0 DEF OutboxType, OutboxFields
  <2>2. outbox' = reindex(b, id, NewRecord(e, t)) /\ id \notin DOMAIN outbox.records
    BY <1>5 DEF Enqueue, enqueue_in_queue
  <2>3. failures' = [failures EXCEPT ![id] = 0]
    BY <1>5 DEF Enqueue
  <2> HIDE DEF b
  <2>4. Charged(NewRecord(e, t), 0) /\ failures'[id] = 0
    BY <1>0, <2>3 DEF Charged, NewRecord
  <2>5. ASSUME NEW i \in DOMAIN outbox'.records PROVE Charged(outbox'.records[i], failures'[i])
    <3>1. CASE i = id
      <4>1. outbox'.records[i] = NewRecord(e, t)
        BY <2>2, <2>5, <3>1, ReindexedRecords
      <4> QED
        BY <2>4, <3>1, <4>1
    <3>2. CASE i # id
      <4>1. i \in DOMAIN outbox.records /\ outbox'.records[i] = outbox.records[i]
        BY <2>1, <2>2, <2>5, <3>2, ReindexedRecords
      <4>2. failures'[i] = failures[i]
        BY <1>0, <1>1, <2>3, <3>2, <4>1
      <4> QED
        BY <1>1, <4>1, <4>2
    <3> QED
      BY <3>1, <3>2
  <2> QED
    BY <1>2, <2>5
<1>6. ASSUME NEW id \in DOMAIN outbox.records,
             Lease(id) \/ Start(id) \/ Succeed(id) \/ Interrupt(id) \/ Cancel(id)
      PROVE  RetryBudget'
  <2>1. failures' = failures
    BY <1>6 DEF Lease, Start, Succeed, Interrupt, Cancel
  <2>2. /\ Charged(lease(Record(id)), failures[id])
        /\ Charged(start(Record(id)), failures[id])
        /\ Charged(succeed(Record(id)), failures[id])
        /\ Charged(interrupt(Record(id)), failures[id])
        /\ Charged(cancel(Record(id)), failures[id])
    BY <1>1, <1>4, TransitionsChargeFailures
  <2> QED
    BY <1>3, <1>6, <2>1, <2>2 DEF Lease, Start, Succeed, Interrupt, Cancel
<1>7. ASSUME NEW id \in DOMAIN outbox.records, NEW now \in Instants, RetryDue(id, now)
      PROVE  RetryBudget'
  <2>1. failures' = failures
    BY <1>7 DEF RetryDue
  <2>2. Charged(retry_due(Record(id), now), failures[id])
    BY <1>1, <1>4, TransitionsChargeFailures
  <2> QED
    BY <1>3, <1>7, <2>1, <2>2 DEF RetryDue
<1>8. ASSUME NEW id \in DOMAIN outbox.records, NEW now \in Instants, Fail(id, now)
      PROVE  RetryBudget'
  <2> DEFINE r == fail(Record(id), Policy, now)
  <2>1. Update(id, r)
    BY <1>8 DEF Fail
  <2>2. failures' = [failures EXCEPT ![id] = IF r # Record(id) THEN @ + 1 ELSE @]
    BY <1>8 DEF Fail
  <2>3. \A i \in DOMAIN outbox.records : i # id => failures'[i] = failures[i]
    BY <1>0, <1>1, <2>2
  <2>4. CASE r = Record(id)
    <3>1. failures'[id] = failures[id]
      BY <1>0, <1>1, <2>2, <2>4
    <3> QED
      BY <1>1, <1>3, <2>1, <2>3, <2>4, <3>1
  <2>5. CASE r # Record(id)
    <3>1. failures'[id] = failures[id] + 1
      BY <1>0, <1>1, <2>2, <2>5
    <3>2. Charged(r, failures[id] + 1)
      BY <1>1, <1>4, <2>5, TransitionsChargeFailures
    <3> QED
      BY <1>3, <2>1, <2>3, <3>1, <3>2
  <2> QED
    BY <2>4, <2>5
<1>9. ASSUME NEW epoch \in 0 .. MaxEpoch, DiscardStale(epoch)
      PROVE  RetryBudget'
  <2>1. PICK order \in IncreasingSeqs(StaleIds(outbox, epoch)) :
              outbox' = discard_stale(outbox, epoch, order)
    BY <1>9 DEF DiscardStale
  <2> DEFINE m == all_discarded(outbox, epoch, order)
  <2>2. /\ DOMAIN m = OutboxFields
        /\ m.records = [i \in DOMAIN outbox.records |-> discard_stale_record(outbox.records[i], epoch)]
    BY DEF all_discarded, OutboxFields
  <2>3. outbox' = evict(m)
    BY <2>1 DEF discard_stale
  <2> HIDE DEF m
  <2>4. outbox'.records = RestrictTo(m.records, DOMAIN m.records \ Oldest(m, Excess(m)))
    BY <2>2, <2>3 DEF evict, OutboxFields
  <2>5. \A i \in DOMAIN outbox'.records :
          /\ i \in DOMAIN outbox.records
          /\ outbox'.records[i] = discard_stale_record(outbox.records[i], epoch)
    BY <2>2, <2>4 DEF RestrictTo
  <2>6. epoch \in Nat
    BY OutboxBoundsAssumption
  <2>7. \A i \in DOMAIN outbox.records :
          Charged(discard_stale_record(outbox.records[i], epoch), failures[i])
    BY <1>1, <1>4, <2>6, TransitionsChargeFailures
  <2>8. failures' = failures
    BY <1>9 DEF DiscardStale
  <2> QED
    BY <1>2, <2>5, <2>7, <2>8
<1>10. CASE UNCHANGED vars
  BY <1>10 DEF vars, RetryBudget
<1> QED
  BY <1>5, <1>6, <1>7, <1>8, <1>9, <1>10 DEF Next

(* The attempt counter of a record is what its failures have used of the    *)
(* retry budget, however often attempts were interrupted, and a record is   *)
(* dead-lettered only when the policy's attempts are used up.               *)
THEOREM RetryBudgetIsExact == Spec => []RetryBudget
<1>1. Init => RetryBudget
  BY DEF Init, EmptyOutbox, EmptyMap, RetryBudget
<1>2. Spec => []OutboxInv
  BY InitInv, NextInv, PTL DEF Spec
<1> QED
  BY <1>1, <1>2, BudgetKept, PTL DEF Spec

-----------------------------------------------------------------------------
(* The loop of `discard_stale`.                                             *)

(* What holds at zero and passes from each number to the next holds         *)
(* throughout.                                                              *)
LEMMA UpTo ==
    ASSUME NEW N \in Nat, NEW S, 0 \in S, \A n \in 1 .. N : n - 1 \in S => n \in S
    PROVE  \A n \in 0 .. N : n \in S
<1> DEFINE T == {n \in 0 .. N : n \notin S}
           R == OpToRel(<, Nat)
<1>1. IsWellFoundedOn(R, Nat)
  BY NatLessThanWellFounded
<1>2. \A k, m \in Nat : k < m => <<k, m>> \in R
  BY DEF OpToRel
<1> HIDE DEF R
<1>3. T \in SUBSET Nat
  OBVIOUS
<1>4. ASSUME T # {} PROVE FALSE
  <2>1. PICK m \in T : \A k \in T : ~ (<<k, m>> \in R)
    <3> HIDE DEF T
    <3> QED
      BY <1>1, <1>3, <1>4, WFMin
  <2>2. m \in 1 .. N /\ m - 1 \in 0 .. N /\ m - 1 < m /\ m \in Nat /\ m - 1 \in Nat
    BY <2>1
  <2>3. m - 1 \notin T
    BY <1>2, <2>1, <2>2
  <2> QED
    BY <2>1, <2>2, <2>3
<1> QED
  BY <1>4

\* f is what the loop over `list` has made of o after each of the first m updates.
IsDiscardLoop(o, epoch, list, m, f) ==
    f = [n \in 0 .. m |-> IF n = 0 THEN o ELSE DiscardNext(f[n - 1], epoch, list[n])]

(* The recursion of IteratedDiscard has a solution.                         *)
LEMMA DiscardLoopExists ==
    ASSUME NEW o, NEW epoch, NEW list, NEW N \in Nat
    PROVE  \E f : IsDiscardLoop(o, epoch, list, N, f)
<1> DEFINE S == {m \in 0 .. N : \E f : IsDiscardLoop(o, epoch, list, m, f)}
<1>1. 0 \in S
  <2>1. PICK f : f = [n \in 0 .. 0 |-> o]
    OBVIOUS
  <2>2. IsDiscardLoop(o, epoch, list, 0, f)
    BY <2>1 DEF IsDiscardLoop
  <2> QED
    BY <2>2
<1>2. ASSUME NEW m \in 1 .. N, m - 1 \in S PROVE m \in S
  <2>1. PICK p \in Nat : p = m - 1
    OBVIOUS
  <2>2. PICK f : IsDiscardLoop(o, epoch, list, p, f)
    BY <1>2, <2>1
  <2>3. \A n \in 0 .. p : f[n] = IF n = 0 THEN o ELSE DiscardNext(f[n - 1], epoch, list[n])
    BY <2>2 DEF IsDiscardLoop
  <2>4. PICK g : g = [n \in 0 .. m |-> IF n = 0 THEN o ELSE DiscardNext(f[n - 1], epoch, list[n])]
    OBVIOUS
  <2>5. \A n \in 0 .. p : g[n] = f[n]
    BY <2>1, <2>3, <2>4
  <2>6. \A n \in 0 .. m : n # 0 => n - 1 \in 0 .. p
    BY <2>1
  <2>7. \A n \in 0 .. m : g[n] = IF n = 0 THEN o ELSE DiscardNext(g[n - 1], epoch, list[n])
    BY <2>4, <2>5, <2>6
  <2>8. IsDiscardLoop(o, epoch, list, m, g)
    BY <2>4, <2>7 DEF IsDiscardLoop
  <2> QED
    BY <2>8
<1>3. \A m \in 0 .. N : m \in S
  <2> HIDE DEF S
  <2> QED
    BY <1>1, <1>2, UpTo
<1> QED
  BY <1>3

LEMMA DiscardLoopIs ==
    ASSUME NEW o, NEW epoch, NEW list, Len(list) \in Nat
    PROVE  \E f : /\ IsDiscardLoop(o, epoch, list, Len(list), f)
                  /\ IteratedDiscard(o, epoch, list) = f[Len(list)]
<1>1. PICK N \in Nat : N = Len(list)
  OBVIOUS
<1>2. PICK f : f = CHOOSE g : IsDiscardLoop(o, epoch, list, N, g)
  OBVIOUS
<1>3. \E g : IsDiscardLoop(o, epoch, list, N, g)
  BY DiscardLoopExists
<1>4. IsDiscardLoop(o, epoch, list, N, f)
  BY <1>2, <1>3
<1>5. IteratedDiscard(o, epoch, list)
        = (CHOOSE g : g = [n \in 0 .. Len(list) |->
              IF n = 0 THEN o ELSE DiscardNext(g[n - 1], epoch, list[n])])[Len(list)]
  BY DEF IteratedDiscard
<1>6. IteratedDiscard(o, epoch, list) = f[N]
  BY <1>1, <1>2, <1>5 DEF IsDiscardLoop
<1> QED
  BY <1>1, <1>4, <1>6

-----------------------------------------------------------------------------
(* An outbox is its nine fields.                                            *)
IsOutbox(o) == o = [f \in OutboxFields |-> o[f]]

LEMMA EqualOutboxes ==
    ASSUME NEW p, NEW q, IsOutbox(p), IsOutbox(q),
           p.records = q.records, p.pending = q.pending, p.pending_by_queue = q.pending_by_queue,
           p.queue_by_id = q.queue_by_id, p.retrying = q.retrying,
           p.retry_at_by_id = q.retry_at_by_id, p.active = q.active, p.terminal = q.terminal,
           p.evicted = q.evicted
    PROVE  p = q
<1>1. \A f \in OutboxFields : p[f] = q[f]
  BY DEF OutboxFields
<1>2. [f \in OutboxFields |-> p[f]] = [f \in OutboxFields |-> q[f]]
  BY <1>1
<1> QED
  BY <1>2 DEF IsOutbox

Evicts(m, e) ==
    /\ IsOutbox(e)
    /\ e.terminal = SubSeq(m.terminal, Excess(m) + 1, Len(m.terminal))
    /\ e.records = RestrictTo(m.records, DOMAIN m.records \ Oldest(m, Excess(m)))
    /\ e.evicted = m.evicted + Excess(m)
    /\ e.pending = m.pending /\ e.pending_by_queue = m.pending_by_queue
    /\ e.queue_by_id = m.queue_by_id /\ e.retrying = m.retrying
    /\ e.retry_at_by_id = m.retry_at_by_id /\ e.active = m.active

LEMMA EvictIs ==
    ASSUME NEW m, DOMAIN m = OutboxFields, NEW e, e = evict(m)
    PROVE  Evicts(m, e)
BY DEF evict, Evicts, IsOutbox, OutboxFields

Files(o, id, r, m) ==
    /\ IsOutbox(m)
    /\ m.records = Put(o.records, id, r)
    /\ m.pending = (o.pending \ {<<r.time, id>>}) \cup (IF r.state = "Pending" THEN {<<r.time, id>>} ELSE {})
    /\ m.pending_by_queue =
         [q \in Queues |->
            IF id \in DOMAIN o.queue_by_id /\ o.queue_by_id[id] = q
            THEN (o.pending_by_queue[q] \ {<<r.time, id>>})
                 \cup (IF r.state = "Pending" THEN {<<r.time, id>>} ELSE {})
            ELSE o.pending_by_queue[q]]
    /\ m.queue_by_id = IF is_terminal(r) THEN Remove(o.queue_by_id, id) ELSE o.queue_by_id
    /\ m.retrying = cleared_retrying(o, id) \cup (IF r.state = "RetryWaiting" THEN {<<r.retry_at, id>>} ELSE {})
    /\ m.retry_at_by_id = IF r.state = "RetryWaiting" THEN Put(o.retry_at_by_id, id, r.retry_at)
                          ELSE Remove(o.retry_at_by_id, id)
    /\ m.active = IF is_terminal(r) THEN o.active \ {id} ELSE o.active \cup {id}
    /\ m.terminal = IF is_terminal(r) /\ id \in o.active THEN Append(o.terminal, id) ELSE o.terminal
    /\ m.evicted = o.evicted

LEMMA FiledIs ==
    ASSUME NEW o, NEW id, NEW r, NEW m, m = refiled(o, id, r)
    PROVE  Files(o, id, r, m)
BY DEF refiled, Files, IsOutbox, OutboxFields

(* Filing an active record where it already is changes nothing.             *)
LEMMA ReindexSame ==
    ASSUME NEW p, IsOutbox(p), OutboxType(p), IndexOK(p), NEW x \in p.active,
           NEW r, r = p.records[x]
    PROVE  reindex(p, x, r) = p
<1>1. PICK m : m = refiled(p, x, r)
  OBVIOUS
<1>2. Files(p, x, r, m)
  BY <1>1, FiledIs
<1>3. x \in DOMAIN p.records /\ ~is_terminal(r) /\ x \in Ids /\ r \in EventRecords
  BY DEF IndexOK, ActiveIndexOK, OutboxType, IsMap
<1>4. m.records = p.records
  <2>1. Put(p.records, x, r) = p.records
    BY <1>3 DEF Put, OutboxType, IsMap
  <2> QED
    BY <1>2, <2>1 DEF Files
<1>5. r.state = "Pending" <=> <<r.time, x>> \in p.pending
  <2>1. <<r.time, x>> \in Keys
    BY <1>3 DEF Keys, EventRecords
  <2> QED
    BY <1>3, <2>1 DEF IndexOK, PendingIndexOK, KeysOf, InState
<1>6. m.pending = p.pending
  BY <1>2, <1>5 DEF Files
<1>7. m.pending_by_queue = p.pending_by_queue
  <2>1. x \in DOMAIN p.queue_by_id
    BY DEF IndexOK, QueueIndexOK
  <2>2. ASSUME NEW q \in Queues, p.queue_by_id[x] = q
        PROVE  r.state = "Pending" <=> <<r.time, x>> \in p.pending_by_queue[q]
    <3>1. <<r.time, x>> \in Keys
      BY <1>3 DEF Keys, EventRecords
    <3> QED
      BY <1>3, <2>2, <3>1 DEF IndexOK, QueueIndexOK, KeysOf, InState
  <2>3. ASSUME NEW q \in Queues PROVE m.pending_by_queue[q] = p.pending_by_queue[q]
    <3>1. m.pending_by_queue[q] =
            IF p.queue_by_id[x] = q
            THEN (p.pending_by_queue[q] \ {<<r.time, x>>})
                 \cup (IF r.state = "Pending" THEN {<<r.time, x>>} ELSE {})
            ELSE p.pending_by_queue[q]
      BY <1>2, <2>1 DEF Files
    <3>2. CASE p.queue_by_id[x] = q
      BY <2>2, <3>1, <3>2
    <3>3. CASE p.queue_by_id[x] # q
      BY <3>1, <3>3
    <3> QED
      BY <3>2, <3>3
  <2>4. m.pending_by_queue = [q \in Queues |-> m.pending_by_queue[q]]
    BY <1>2 DEF Files
  <2>5. p.pending_by_queue = [q \in Queues |-> p.pending_by_queue[q]]
    BY DEF OutboxType
  <2> QED
    BY <2>3, <2>4, <2>5
<1>8. m.queue_by_id = p.queue_by_id
  BY <1>2, <1>3 DEF Files
<1>9. m.retry_at_by_id = p.retry_at_by_id /\ m.retrying = p.retrying
  <2>1. CASE r.state = "RetryWaiting"
    <3>1. x \in DOMAIN p.retry_at_by_id /\ p.retry_at_by_id[x] = r.retry_at
      BY <1>3, <2>1 DEF IndexOK, RetryIndexOK, InState
    <3>2. Put(p.retry_at_by_id, x, r.retry_at) = p.retry_at_by_id
      BY <3>1 DEF Put, OutboxType, IsMap
    <3>3. <<r.retry_at, x>> \in p.retrying
      <4>1. <<r.retry_at, x>> \in Keys
        BY <1>3 DEF Keys, EventRecords
      <4> QED
        BY <1>3, <2>1, <4>1 DEF IndexOK, RetryIndexOK, InState
    <3>4. cleared_retrying(p, x) \cup {<<r.retry_at, x>>} = p.retrying
      BY <3>1, <3>3 DEF cleared_retrying
    <3> QED
      BY <1>2, <2>1, <3>2, <3>4 DEF Files
  <2>2. CASE r.state # "RetryWaiting"
    <3>1. x \notin DOMAIN p.retry_at_by_id
      BY <1>3, <2>2 DEF IndexOK, RetryIndexOK, InState
    <3>2. Remove(p.retry_at_by_id, x) = p.retry_at_by_id
      BY <3>1 DEF Remove, RestrictTo, OutboxType, IsMap
    <3>3. cleared_retrying(p, x) = p.retrying
      BY <3>1 DEF cleared_retrying
    <3> QED
      BY <1>2, <2>2, <3>2, <3>3 DEF Files
  <2> QED
    BY <2>1, <2>2
<1>10. m.active = p.active /\ m.terminal = p.terminal /\ m.evicted = p.evicted
  BY <1>2, <1>3 DEF Files
<1>11. m = p
  BY <1>2, <1>4, <1>6, <1>7, <1>8, <1>9, <1>10, EqualOutboxes DEF Files
<1>12. evict(p) = p
  <2>1. PICK e : e = evict(p)
    OBVIOUS
  <2>2. DOMAIN p = OutboxFields
    BY DEF IsOutbox
  <2>3. Evicts(p, e)
    BY <2>1, <2>2, EvictIs
  <2>4. Excess(p) = 0 /\ p.terminal \in Seq(Ids) /\ p.evicted \in Nat
    BY RetentionAssumption, LenProperties DEF Excess, OutboxType, IndexOK, TerminalIndexOK
  <2>5. e.terminal = p.terminal
    <3>1. SubSeq(p.terminal, 1, Len(p.terminal)) = p.terminal
      BY <2>4
    <3> QED
      BY <2>3, <2>4, <3>1 DEF Evicts
  <2>6. e.records = p.records
    <3>1. Oldest(p, 0) = {}
      BY DEF Oldest
    <3>2. RestrictTo(p.records, DOMAIN p.records \ {}) = p.records
      BY DEF RestrictTo, OutboxType, IsMap
    <3> QED
      BY <2>3, <2>4, <3>1, <3>2 DEF Evicts
  <2>7. e.evicted = p.evicted
    BY <2>3, <2>4 DEF Evicts
  <2>8. e = p
    BY <2>3, <2>5, <2>6, <2>7, EqualOutboxes DEF Evicts
  <2> QED
    BY <2>1, <2>8
<1> QED
  BY <1>1, <1>11, <1>12 DEF reindex

-----------------------------------------------------------------------------
(* The indexes of p are those of o without the ids of G.                    *)
Without(o, G, p) ==
    /\ p.pending = {k \in o.pending : k[2] \notin G}
    /\ p.pending_by_queue = [q \in Queues |-> {k \in o.pending_by_queue[q] : k[2] \notin G}]
    /\ p.queue_by_id = RestrictTo(o.queue_by_id, DOMAIN o.queue_by_id \ G)
    /\ p.retrying = {k \in o.retrying : k[2] \notin G}
    /\ p.retry_at_by_id = RestrictTo(o.retry_at_by_id, DOMAIN o.retry_at_by_id \ G)
    /\ p.active = o.active \ G

LEMMA WithoutOne ==
    ASSUME NEW o, OutboxType(o), IndexOK(o), NEW G, NEW p, Without(o, G, p),
           NEW x \in o.active, x \notin G, NEW r, is_terminal(r), r.time = o.records[x].time,
           NEW q, q = reindex(p, x, r)
    PROVE  Without(o, G \cup {x}, q)
<1>1. PICK m : m = refiled(p, x, r)
  OBVIOUS
<1>2. Files(p, x, r, m)
  BY <1>1, FiledIs
<1>3. DOMAIN m = OutboxFields /\ q = evict(m)
  BY <1>1, <1>2 DEF Files, IsOutbox, reindex
<1>4. Evicts(m, q)
  BY <1>3, EvictIs
<1>5. r.state # "Pending" /\ r.state # "RetryWaiting"
  BY DEF is_terminal, TerminalStates
<1>6. PICK key : key = <<r.time, x>>
  OBVIOUS
<1>7. q.pending = {k \in o.pending : k[2] \notin G \cup {x}}
  <2>1. \A k \in o.pending : k[2] = x <=> k = key
    BY <1>6 DEF IndexOK, PendingIndexOK, KeysOf, Keys
  <2>2. q.pending = p.pending \ {key}
    BY <1>2, <1>4, <1>5, <1>6 DEF Files, Evicts
  <2> QED
    BY <2>1, <2>2 DEF Without
<1>8. q.pending_by_queue = [l \in Queues |-> {k \in o.pending_by_queue[l] : k[2] \notin G \cup {x}}]
  <2>1. x \in DOMAIN p.queue_by_id /\ p.queue_by_id[x] = o.queue_by_id[x]
    BY DEF Without, RestrictTo, IndexOK, QueueIndexOK
  <2>2. q.pending_by_queue = [l \in Queues |-> IF o.queue_by_id[x] = l THEN p.pending_by_queue[l] \ {key}
                                               ELSE p.pending_by_queue[l]]
    BY <1>2, <1>4, <1>5, <1>6, <2>1 DEF Files, Evicts
  <2>3. ASSUME NEW l \in Queues
        PROVE  q.pending_by_queue[l] = {k \in o.pending_by_queue[l] : k[2] \notin G \cup {x}}
    <3>1. p.pending_by_queue[l] = {k \in o.pending_by_queue[l] : k[2] \notin G}
      BY DEF Without
    <3>2. CASE o.queue_by_id[x] = l
      <4>1. \A k \in o.pending_by_queue[l] : k[2] = x <=> k = key
        BY <1>6 DEF IndexOK, QueueIndexOK, KeysOf, Keys
      <4>2. q.pending_by_queue[l] = p.pending_by_queue[l] \ {key}
        BY <2>2, <3>2
      <4> QED
        BY <3>1, <4>1, <4>2
    <3>3. CASE o.queue_by_id[x] # l
      <4>1. \A k \in o.pending_by_queue[l] : k[2] # x
        BY <3>3 DEF IndexOK, QueueIndexOK, KeysOf, Keys
      <4>2. q.pending_by_queue[l] = p.pending_by_queue[l]
        BY <2>2, <3>3
      <4> QED
        BY <3>1, <4>1, <4>2
    <3> QED
      BY <3>2, <3>3
  <2> QED
    BY <2>2, <2>3
<1>9. q.queue_by_id = RestrictTo(o.queue_by_id, DOMAIN o.queue_by_id \ (G \cup {x}))
  <2>1. q.queue_by_id = Remove(p.queue_by_id, x)
    BY <1>2, <1>4 DEF Files, Evicts
  <2> QED
    BY <2>1 DEF Without, Remove, RestrictTo
<1>10. q.retry_at_by_id = RestrictTo(o.retry_at_by_id, DOMAIN o.retry_at_by_id \ (G \cup {x}))
  <2>1. q.retry_at_by_id = Remove(p.retry_at_by_id, x)
    BY <1>2, <1>4, <1>5 DEF Files, Evicts
  <2> QED
    BY <2>1 DEF Without, Remove, RestrictTo
<1>11. q.retrying = {k \in o.retrying : k[2] \notin G \cup {x}}
  <2>1. q.retrying = cleared_retrying(p, x)
    BY <1>2, <1>4, <1>5 DEF Files, Evicts
  <2>2. p.retrying = {k \in o.retrying : k[2] \notin G}
    BY DEF Without
  <2>3. CASE x \in DOMAIN o.retry_at_by_id
    <3>1. x \in DOMAIN p.retry_at_by_id /\ p.retry_at_by_id[x] = o.retry_at_by_id[x]
      BY <2>3 DEF Without, RestrictTo
    <3>2. \A k \in o.retrying : k[2] = x <=> k = <<o.retry_at_by_id[x], x>>
      BY DEF IndexOK, RetryIndexOK, Keys
    <3> QED
      BY <2>1, <2>2, <3>1, <3>2 DEF cleared_retrying
  <2>4. CASE x \notin DOMAIN o.retry_at_by_id
    <3>1. x \notin DOMAIN p.retry_at_by_id
      BY <2>4 DEF Without, RestrictTo
    <3>2. \A k \in o.retrying : k[2] # x
      BY <2>4 DEF IndexOK, RetryIndexOK
    <3> QED
      BY <2>1, <2>2, <3>1, <3>2 DEF cleared_retrying
  <2> QED
    BY <2>3, <2>4
<1>12. q.active = o.active \ (G \cup {x})
  BY <1>2, <1>4 DEF Files, Evicts, Without
<1> QED
  BY <1>7, <1>8, <1>9, <1>10, <1>11, <1>12 DEF Without

-----------------------------------------------------------------------------
(* Evicting after each retirement is evicting once at the end.              *)

\* How many of n terminal records are beyond the retention window.
Beyond(n) == IF n > TerminalRetention THEN n - TerminalRetention ELSE 0

LEMMA BeyondNext ==
    ASSUME NEW n \in Nat, NEW b, b = Beyond(n), NEW l, l = n - b + 1,
           NEW x, x = IF l > TerminalRetention THEN l - TerminalRetention ELSE 0
    PROVE  b \in 0 .. n /\ l \in Nat \ {0} /\ x \in 0 .. l /\ Beyond(n + 1) = b + x
BY RetentionAssumption DEF Beyond

First(list, b) == {list[h] : h \in 1 .. b}

\* p keeps of the first n ids of `list` those inside the window, and has evicted the others.
Listed(o, list, n, p) ==
    /\ p.terminal \in Seq(Ids) /\ Len(p.terminal) = n - Beyond(n)
    /\ \A h \in 1 .. n - Beyond(n) : p.terminal[h] = list[h + Beyond(n)]
    /\ p.evicted = o.evicted + Beyond(n)

\* The records of p are those of o, the ones of G discarded and the evicted ones gone.
Kept(o, epoch, G, list, n, p) ==
    p.records = [i \in DOMAIN o.records \ First(list, Beyond(n)) |->
                   IF i \in G THEN discard_stale_record(o.records[i], epoch) ELSE o.records[i]]

\* What is evicted of m are the ids of `list` from b + 1 to c.
Drops(m, list, b, c) == Oldest(m, Excess(m)) = {list[h] : h \in b + 1 .. c}

LEMMA ListedNext ==
    ASSUME NEW o, o.evicted \in Nat, NEW list, NEW n \in Nat, NEW p, Listed(o, list, n, p),
           NEW x \in p.active, x \in Ids, x = list[n + 1], NEW r, is_terminal(r),
           NEW m, m = refiled(p, x, r), NEW q, q = evict(m)
    PROVE  /\ Listed(o, list, n + 1, q)
           /\ Beyond(n + 1) = Beyond(n) + Excess(m)
           /\ Beyond(n) \in Nat /\ Excess(m) \in Nat
           /\ Drops(m, list, Beyond(n), Beyond(n + 1))
<1>1. Files(p, x, r, m)
  BY FiledIs
<1>2. Evicts(m, q)
  BY <1>1, EvictIs DEF Files, IsOutbox
<1>3. PICK b : b = Beyond(n)
  OBVIOUS
<1>4. PICK t : t = p.terminal
  OBVIOUS
<1>5. PICK u : u = Append(t, x)
  OBVIOUS
<1>6. m.terminal = u /\ m.evicted = p.evicted
  BY <1>1, <1>4, <1>5 DEF Files
<1>7. PICK l : l = n - b + 1
  OBVIOUS
<1>8. PICK e : e = IF l > TerminalRetention THEN l - TerminalRetention ELSE 0
  OBVIOUS
<1>9. b \in 0 .. n /\ l \in Nat \ {0} /\ e \in 0 .. l /\ Beyond(n + 1) = b + e
  BY <1>3, <1>7, <1>8, BeyondNext
<1>10. t \in Seq(Ids) /\ Len(t) = n - b /\ \A h \in 1 .. n - b : t[h] = list[h + b]
  BY <1>3, <1>4 DEF Listed
<1>11. u \in Seq(Ids) /\ Len(u) = l
  <2>1. u \in Seq(Ids) /\ Len(u) = Len(t) + 1
    BY <1>5, <1>10, AppendProperties
  <2> QED
    BY <1>7, <1>10, <2>1
<1>12. \A h \in 1 .. l : u[h] = list[h + b]
  <2>1. ASSUME NEW h \in 1 .. l PROVE u[h] = list[h + b]
    <3>1. CASE h \in 1 .. n - b
      BY <1>5, <1>9, <1>10, <3>1
    <3>2. CASE h = l
      <4>1. u[h] = x
        BY <1>5, <1>7, <1>9, <1>10, <3>2
      <4>2. h + b = n + 1
        BY <1>7, <1>9, <3>2
      <4> QED
        BY <4>1, <4>2
    <3>3. h \in 1 .. n - b \/ h = l
      BY <1>7, <1>9
    <3> QED
      BY <3>1, <3>2, <3>3
  <2> QED
    BY <2>1
<1>13. Excess(m) = e
  BY <1>6, <1>8, <1>11 DEF Excess
<1>14. q.terminal = SubSeq(u, e + 1, l)
  BY <1>2, <1>6, <1>11, <1>13 DEF Evicts
<1>15. /\ q.terminal \in Seq(Ids) /\ Len(q.terminal) = l - e
       /\ \A h \in 1 .. l - e : q.terminal[h] = u[h + e]
  <2>1. PICK v : v = SubSeq(u, e + 1, l)
    OBVIOUS
  <2>2. v \in Seq(Ids) /\ Len(v) = l - e
    BY <1>9, <1>11, <2>1, SubSeqProperties
  <2>3. \A h \in 1 .. l - e : v[h] = u[h + e]
    <3>1. \A h \in 1 .. Len(v) : v[h] = u[e + 1 + h - 1]
      BY <1>9, <1>11, <2>1, <2>2, SubSeqProperties
    <3>2. \A h \in 1 .. l - e : e + 1 + h - 1 = h + e
      BY <1>9
    <3> QED
      BY <2>2, <3>1, <3>2
  <2> QED
    BY <1>14, <2>1, <2>2, <2>3
<1>16. PICK c : c = b + e
  OBVIOUS
<1>17. Beyond(n + 1) = c /\ c \in Nat /\ n + 1 - c = l - e
  BY <1>7, <1>9, <1>16
<1>18. \A h \in 1 .. n + 1 - c : q.terminal[h] = list[h + c]
  <2>1. \A h \in 1 .. l - e : h + e \in 1 .. l /\ h + e + b = h + c
    BY <1>9, <1>16
  <2> QED
    BY <1>12, <1>15, <1>17, <2>1
<1>19. q.evicted = o.evicted + c
  <2>1. q.evicted = p.evicted + e /\ p.evicted = o.evicted + b
    BY <1>2, <1>3, <1>6, <1>13 DEF Evicts, Listed
  <2> QED
    BY <1>9, <1>16, <2>1
<1>20. Listed(o, list, n + 1, q)
  BY <1>15, <1>17, <1>18, <1>19 DEF Listed
<1>21. Oldest(m, e) = {list[h] : h \in b + 1 .. c}
  <2>1. Oldest(m, e) = {u[h] : h \in 1 .. e}
    BY <1>6 DEF Oldest
  <2>2. \A h \in 1 .. e : u[h] = list[h + b] /\ h + b \in b + 1 .. c
    BY <1>9, <1>12, <1>16
  <2>3. \A h \in b + 1 .. c : h - b \in 1 .. e /\ (h - b) + b = h
    BY <1>9, <1>16
  <2>4. \A h \in b + 1 .. c : list[h] = u[h - b]
    BY <2>2, <2>3
  <2> QED
    BY <2>1, <2>2, <2>3, <2>4
<1>22. Drops(m, list, b, c)
  BY <1>13, <1>21 DEF Drops
<1> QED
  BY <1>3, <1>9, <1>13, <1>16, <1>17, <1>20, <1>22

LEMMA KeptNext ==
    ASSUME NEW o, NEW epoch, NEW G, NEW list, NEW n \in Nat, NEW p, Kept(o, epoch, G, list, n, p),
           NEW x \in DOMAIN p.records, NEW r, r = discard_stale_record(o.records[x], epoch),
           NEW m, m.records = Put(p.records, x, r), NEW e \in Nat, NEW b \in Nat, b = Beyond(n),
           Beyond(n + 1) = b + e, NEW A, A = {list[h] : h \in b + 1 .. b + e},
           NEW q, q.records = RestrictTo(m.records, DOMAIN m.records \ A)
    PROVE  Kept(o, epoch, G \cup {x}, list, n + 1, q)
<1>1. PICK D, E : D = DOMAIN o.records /\ E = First(list, b)
  OBVIOUS
<1>2. DOMAIN p.records = D \ E /\ x \in D
  BY <1>1 DEF Kept
<1>3. DOMAIN m.records = D \ E
  BY <1>2 DEF Put
<1>4. First(list, b + e) = E \cup A
  <2>1. \A h \in 1 .. b + e : h \in 1 .. b \/ h \in b + 1 .. b + e
    OBVIOUS
  <2>2. \A h \in 1 .. b : h \in 1 .. b + e
    OBVIOUS
  <2>3. \A h \in b + 1 .. b + e : h \in 1 .. b + e
    OBVIOUS
  <2> QED
    BY <1>1, <2>1, <2>2, <2>3 DEF First
<1>5. DOMAIN q.records = D \ (E \cup A)
  BY <1>3 DEF RestrictTo
<1>6. \A i \in D \ (E \cup A) :
        q.records[i] = IF i \in G \cup {x} THEN discard_stale_record(o.records[i], epoch) ELSE o.records[i]
  <2>1. \A i \in D \ (E \cup A) : q.records[i] = IF i = x THEN r ELSE p.records[i]
    BY <1>2, <1>3 DEF RestrictTo, Put
  <2>2. \A i \in D \ E : p.records[i] = IF i \in G THEN discard_stale_record(o.records[i], epoch) ELSE o.records[i]
    BY <1>1 DEF Kept
  <2> QED
    BY <2>1, <2>2
<1>7. q.records = [i \in D \ (E \cup A) |-> q.records[i]]
  BY <1>3 DEF RestrictTo
<1> QED
  BY <1>1, <1>4, <1>6, <1>7 DEF Kept

-----------------------------------------------------------------------------
(* p is what is left of o once the first c ids of `order` are discarded.    *)
DiscardedTo(o, epoch, order, c, p) ==
    /\ IsOutbox(p) /\ OutboxType(p) /\ IndexOK(p)
    /\ Without(o, First(order, c), p)
    /\ Listed(o, o.terminal \o order, Len(o.terminal) + c, p)
    /\ Kept(o, epoch, First(order, c), o.terminal \o order, Len(o.terminal) + c, p)

(* What an increasing enumeration is.                                       *)
LEMMA IncreasingIs ==
    ASSUME NEW S, S \in SUBSET Ids, NEW s \in IncreasingSeqs(S)
    PROVE  /\ Cardinality(S) \in Nat
           /\ s \in Seq(Ids) /\ Len(s) = Cardinality(S)
           /\ \A i \in 1 .. Cardinality(S) : s[i] \in S
           /\ \A i, j \in 1 .. Cardinality(S) : i < j => s[i] < s[j]
           /\ \A x \in S : \E i \in 1 .. Cardinality(S) : s[i] = x
<1>1. PICK K \in Nat : K = Cardinality(S)
  BY IdsAssumption, FS_Subset, FS_CardinalityType
<1>2. /\ s \in [1 .. K -> S]
      /\ \A i, j \in 1 .. K : i < j => s[i] < s[j]
      /\ \A x \in S : \E i \in 1 .. K : s[i] = x
  BY <1>1 DEF IncreasingSeqs
<1>3. s \in [1 .. K -> Ids]
  BY <1>2
<1>4. s \in Seq(Ids) /\ Len(s) = K
  BY <1>3
<1> QED
  BY <1>1, <1>2, <1>4

LEMMA DiscardStarts ==
    ASSUME NEW o, IsOutbox(o), OutboxType(o), IndexOK(o), NEW epoch, NEW order \in Seq(Ids)
    PROVE  DiscardedTo(o, epoch, order, 0, o)
<1>1. First(order, 0) = {}
  BY DEF First
<1>2. Without(o, {}, o)
  <2>1. o.pending_by_queue = [q \in Queues |-> {k \in o.pending_by_queue[q] : k[2] \notin {}}]
    <3>1. \A q \in Queues : {k \in o.pending_by_queue[q] : k[2] \notin {}} = o.pending_by_queue[q]
      OBVIOUS
    <3>2. o.pending_by_queue = [q \in Queues |-> o.pending_by_queue[q]]
      BY DEF OutboxType
    <3> QED
      BY <3>1, <3>2
  <2>2. o.queue_by_id = RestrictTo(o.queue_by_id, DOMAIN o.queue_by_id \ {})
    BY DEF RestrictTo, OutboxType, IsMap
  <2>3. o.retry_at_by_id = RestrictTo(o.retry_at_by_id, DOMAIN o.retry_at_by_id \ {})
    BY DEF RestrictTo, OutboxType, IsMap
  <2>4. /\ o.pending = {k \in o.pending : k[2] \notin {}} /\ o.retrying = {k \in o.retrying : k[2] \notin {}}
        /\ o.active = o.active \ {}
    OBVIOUS
  <2> QED
    BY <2>1, <2>2, <2>3, <2>4 DEF Without
<1>3. PICK n, t : n = Len(o.terminal) /\ t = o.terminal
  OBVIOUS
<1>4. n \in Nat /\ t \in Seq(Ids) /\ Len(t) = n /\ n + 0 = n /\ Beyond(n) = 0
  BY <1>3, RetentionAssumption, LenProperties DEF OutboxType, IndexOK, TerminalIndexOK, Beyond
<1>5. Listed(o, t \o order, n, o)
  <2>1. \A h \in 1 .. n : t[h] = (t \o order)[h]
    BY <1>4, ConcatProperties
  <2>2. \A h \in 1 .. n : h + 0 = h
    BY <1>4
  <2>3. n - 0 = n /\ o.evicted + 0 = o.evicted
    BY <1>4 DEF OutboxType
  <2> QED
    BY <1>3, <1>4, <2>1, <2>2, <2>3 DEF Listed
<1>6. Kept(o, epoch, {}, t \o order, n, o)
  <2>1. First(t \o order, 0) = {}
    BY DEF First
  <2>2. o.records = [i \in DOMAIN o.records |-> o.records[i]]
    BY DEF OutboxType, IsMap
  <2> QED
    BY <1>4, <2>1, <2>2 DEF Kept
<1> QED
  BY <1>1, <1>2, <1>3, <1>4, <1>5, <1>6 DEF DiscardedTo

(* An id that is not stale is passed over.                                  *)
LEMMA DiscardPasses ==
    ASSUME NEW o, OutboxType(o), IndexOK(o), NEW epoch \in Nat, NEW order, NEW c,
           First(order, c) \in SUBSET StaleIds(o, epoch), NEW p, DiscardedTo(o, epoch, order, c, p),
           NEW x \in o.active, x \notin StaleIds(o, epoch)
    PROVE  DiscardNext(p, epoch, x) = p
<1>1. x \in p.active /\ x \in DOMAIN p.records /\ IsOutbox(p) /\ OutboxType(p) /\ IndexOK(p)
  BY DEF DiscardedTo, Without, IndexOK, ActiveIndexOK
<1>2. x \notin First(order, c)
  OBVIOUS
<1>3. p.records[x] = o.records[x]
  BY <1>1, <1>2 DEF DiscardedTo, Kept
<1>4. o.records[x] \in EventRecords
  BY DEF IndexOK, ActiveIndexOK, OutboxType, IsMap
<1>5. o.records[x].epoch >= epoch
  BY <1>4 DEF StaleIds, EventRecords
<1>6. discard_stale_record(p.records[x], epoch) = p.records[x]
  BY <1>3, <1>5 DEF discard_stale_record
<1> QED
  BY <1>1, <1>6, ReindexSame DEF DiscardNext

(* The next stale id is discarded.                                          *)
LEMMA DiscardsNext ==
    ASSUME NEW o, OutboxType(o), IndexOK(o), NEW epoch \in Nat,
           NEW order \in Seq(Ids), NEW c \in Nat, c + 1 \in 1 .. Len(order),
           NEW p, DiscardedTo(o, epoch, order, c, p),
           NEW x, x = order[c + 1], x \in StaleIds(o, epoch), x \notin First(order, c)
    PROVE  DiscardedTo(o, epoch, order, c + 1, DiscardNext(p, epoch, x))
<1>1. PICK n, list, G : n = Len(o.terminal) + c /\ list = o.terminal \o order /\ G = First(order, c)
  OBVIOUS
<1>2. /\ IsOutbox(p) /\ OutboxType(p) /\ IndexOK(p) /\ Without(o, G, p)
      /\ Listed(o, list, n, p) /\ Kept(o, epoch, G, list, n, p)
  BY <1>1 DEF DiscardedTo
<1>3. x \in o.active /\ x \notin G /\ x \in Ids
  BY <1>1 DEF StaleIds, OutboxType
<1>4. x \in p.active /\ x \in DOMAIN p.records
  BY <1>2, <1>3 DEF Without, IndexOK, ActiveIndexOK
<1>5. p.records[x] = o.records[x]
  BY <1>2, <1>3, <1>4 DEF Kept
<1>6. o.records[x] \in EventRecords /\ ~is_terminal(o.records[x]) /\ o.records[x].epoch < epoch
  BY <1>3 DEF IndexOK, ActiveIndexOK, OutboxType, IsMap, StaleIds
<1>7. PICK r : r = discard_stale_record(o.records[x], epoch)
  OBVIOUS
<1>8. is_terminal(r) /\ r.time = o.records[x].time
  <2>1. r = [o.records[x] EXCEPT !.state = "DiscardedStaleEpoch", !.retry_at = 0]
    BY <1>6, <1>7 DEF discard_stale_record, EventRecords
  <2> QED
    BY <1>6, <2>1 DEF is_terminal, TerminalStates, EventRecords
<1>9. PICK m : m = refiled(p, x, r)
  OBVIOUS
<1>10. PICK q : q = evict(m)
  OBVIOUS
<1>11. q = reindex(p, x, r) /\ q = DiscardNext(p, epoch, x)
  BY <1>4, <1>5, <1>7, <1>9, <1>10 DEF reindex, DiscardNext
<1>12. First(order, c + 1) = G \cup {x}
  <2>1. \A h \in 1 .. c + 1 : h \in 1 .. c \/ h = c + 1
    OBVIOUS
  <2>2. c + 1 \in 1 .. c + 1 /\ \A h \in 1 .. c : h \in 1 .. c + 1
    OBVIOUS
  <2> QED
    BY <1>1, <2>1, <2>2 DEF First
<1>13. n \in Nat /\ Len(o.terminal) + (c + 1) = n + 1 /\ list[n + 1] = x
  <2>1. PICK k \in Nat : k = Len(o.terminal)
    BY LenProperties DEF OutboxType
  <2>5. PICK l \in Nat : l = Len(order)
    BY LenProperties
  <2>6. n = k + c /\ c + 1 \in 1 .. l
    BY <1>1, <2>1, <2>5
  <2>2. n \in Nat /\ k + (c + 1) = n + 1 /\ n + 1 - k = c + 1 /\ n + 1 \in k + 1 .. k + l
    BY <2>6
  <2>3. o.terminal \in Seq(Ids)
    BY DEF OutboxType
  <2>4. list[n + 1] = order[n + 1 - k]
    BY <1>1, <2>1, <2>5, <2>2, <2>3, ConcatProperties
  <2>7. list[n + 1] = order[c + 1]
    BY <2>2, <2>4
  <2>8. Len(o.terminal) + (c + 1) = n + 1
    BY <2>1, <2>2
  <2> QED
    BY <2>2, <2>7, <2>8
<1>14. Without(o, G \cup {x}, q)
  BY <1>2, <1>3, <1>8, <1>11, WithoutOne
<1>15. o.evicted \in Nat
  BY DEF OutboxType
<1>16. /\ Listed(o, list, n + 1, q)
       /\ Beyond(n + 1) = Beyond(n) + Excess(m)
       /\ Beyond(n) \in Nat /\ Excess(m) \in Nat
       /\ Drops(m, list, Beyond(n), Beyond(n + 1))
  BY <1>2, <1>3, <1>4, <1>8, <1>9, <1>10, <1>13, <1>15, ListedNext
<1>17. Files(p, x, r, m)
  BY <1>9, FiledIs
<1>18. Evicts(m, q)
  BY <1>10, <1>17, EvictIs DEF Files, IsOutbox
<1>19. Kept(o, epoch, G \cup {x}, list, n + 1, q)
  <2>1. PICK e \in Nat : e = Excess(m)
    BY <1>16
  <2>2. PICK b \in Nat : b = Beyond(n)
    BY <1>16
  <2>3. PICK A : A = {list[h] : h \in b + 1 .. b + e}
    OBVIOUS
  <2>4. m.records = Put(p.records, x, r)
    BY <1>17 DEF Files
  <2>6. Beyond(n + 1) = b + e
    BY <1>16, <2>1, <2>2
  <2>7. Oldest(m, Excess(m)) = A
    BY <1>16, <2>2, <2>3, <2>6 DEF Drops
  <2>5. q.records = RestrictTo(m.records, DOMAIN m.records \ A)
    BY <1>18, <2>7 DEF Evicts
  <2> QED
    BY <1>2, <1>4, <1>7, <1>13, <2>2, <2>3, <2>4, <2>5, <2>6, KeptNext
<1>20. OutboxType(q) /\ IndexOK(q)
  <2>1. 0 \in Instants
    BY InstantAssumption DEF Instants
  <2>2. KeepsRecord(p.records[x], r)
    BY <1>5, <1>6, <1>7, <2>1, BackoffAssumption, TransitionsKeepRecord
  <2> QED
    BY <1>2, <1>4, <1>11, <2>2, ReindexOK
<1>21. DiscardedTo(o, epoch, order, c + 1, q)
  BY <1>1, <1>12, <1>13, <1>14, <1>16, <1>18, <1>19, <1>20 DEF DiscardedTo, Evicts
<1> QED
  BY <1>11, <1>21

(* Once all of them are, the closed form is reached.                        *)
LEMMA DiscardEnds ==
    ASSUME NEW o, OutboxType(o), IndexOK(o), NEW epoch \in Nat,
           NEW order \in IncreasingSeqs(StaleIds(o, epoch)),
           NEW p, DiscardedTo(o, epoch, order, Cardinality(StaleIds(o, epoch)), p)
    PROVE  p = discard_stale(o, epoch, order)
<1>1. PICK stale : stale = StaleIds(o, epoch)
  OBVIOUS
<1>2. stale \in SUBSET Ids
  BY <1>1 DEF StaleIds, OutboxType
<1>3. PICK K \in Nat : K = Cardinality(stale)
  BY <1>1, <1>2, IncreasingIs
<1>4. /\ order \in Seq(Ids) /\ Len(order) = K /\ \A i \in 1 .. K : order[i] \in stale
      /\ \A x \in stale : \E i \in 1 .. K : order[i] = x
  BY <1>1, <1>2, <1>3, IncreasingIs
<1>5. First(order, K) = stale
  BY <1>4 DEF First
<1>6. PICK n, list : n = Len(o.terminal) + K /\ list = o.terminal \o order
  OBVIOUS
<1>7. list \in Seq(Ids) /\ Len(list) = n /\ n \in Nat
  <2>1. o.terminal \in Seq(Ids) /\ Len(o.terminal) \in Nat
    BY LenProperties DEF OutboxType
  <2>2. PICK t, k : t = o.terminal /\ k = Len(t)
    OBVIOUS
  <2>3. t \in Seq(Ids) /\ k \in Nat /\ n = k + K /\ list = t \o order
    BY <1>6, <2>1, <2>2
  <2>4. list \in Seq(Ids) /\ Len(list) = k + K
    BY <1>4, <2>2, <2>3, ConcatProperties
  <2> QED
    BY <2>3, <2>4
<1>8. IsOutbox(p) /\ Without(o, stale, p) /\ Listed(o, list, n, p) /\ Kept(o, epoch, stale, list, n, p)
  BY <1>1, <1>3, <1>5, <1>6 DEF DiscardedTo
<1>9. PICK m : m = all_discarded(o, epoch, order)
  OBVIOUS
<1>10. PICK d : d = discard_stale(o, epoch, order)
  OBVIOUS
<1>11. /\ DOMAIN m = OutboxFields
       /\ m.records = [i \in DOMAIN o.records |-> discard_stale_record(o.records[i], epoch)]
       /\ m.terminal = list /\ m.evicted = o.evicted
  BY <1>6, <1>9 DEF all_discarded, OutboxFields
<1>12. Without(o, stale, m)
  BY <1>1, <1>9 DEF all_discarded, Without
<1>13. Evicts(m, d)
  BY <1>9, <1>10, <1>11, EvictIs DEF discard_stale
<1>14. PICK b : b = Beyond(n)
  OBVIOUS
<1>15. b \in 0 .. n /\ Excess(m) = b
  BY <1>7, <1>11, <1>14, RetentionAssumption DEF Beyond, Excess
<1>16. /\ d.pending = p.pending /\ d.pending_by_queue = p.pending_by_queue
       /\ d.queue_by_id = p.queue_by_id /\ d.retrying = p.retrying
       /\ d.retry_at_by_id = p.retry_at_by_id /\ d.active = p.active
  BY <1>8, <1>12, <1>13 DEF Without, Evicts
<1>17. d.evicted = p.evicted
  BY <1>8, <1>11, <1>13, <1>14, <1>15 DEF Listed, Evicts
<1>18. d.terminal = p.terminal
  <2>1. PICK v, w : v = d.terminal /\ w = p.terminal
    OBVIOUS
  <2>2. v = SubSeq(list, b + 1, n)
    BY <1>7, <1>11, <1>13, <1>15, <2>1 DEF Evicts
  <2>3. v \in Seq(Ids) /\ Len(v) = n - b
    BY <1>7, <1>15, <2>2, SubSeqProperties
  <2>4. \A h \in 1 .. n - b : v[h] = list[h + b]
    <3>1. \A h \in 1 .. Len(v) : v[h] = list[b + 1 + h - 1]
      BY <1>7, <1>15, <2>2, <2>3, SubSeqProperties
    <3>2. \A h \in 1 .. n - b : b + 1 + h - 1 = h + b
      BY <1>7, <1>15
    <3> QED
      BY <2>3, <3>1, <3>2
  <2>5. w \in Seq(Ids) /\ Len(w) = n - b /\ \A h \in 1 .. n - b : w[h] = list[h + b]
    BY <1>8, <1>14, <2>1 DEF Listed
  <2>6. v = w
    BY <2>3, <2>4, <2>5, SeqEqual
  <2> QED
    BY <2>1, <2>6
<1>19. d.records = p.records
  <2>1. PICK D, E : D = DOMAIN o.records /\ E = First(list, b)
    OBVIOUS
  <2>2. d.records = RestrictTo(m.records, DOMAIN m.records \ E)
    BY <1>11, <1>13, <1>15, <2>1 DEF Evicts, Oldest, First
  <2>3. \A i \in D : discard_stale_record(o.records[i], epoch)
                       = IF i \in stale THEN discard_stale_record(o.records[i], epoch) ELSE o.records[i]
    <3>1. ASSUME NEW i \in D, i \notin stale PROVE discard_stale_record(o.records[i], epoch) = o.records[i]
      <4>1. o.records[i] \in EventRecords /\ (is_terminal(o.records[i]) \/ ~ (o.records[i].epoch < epoch))
        BY <1>1, <2>1, <3>1 DEF StaleIds, IndexOK, ActiveIndexOK, OutboxType, IsMap
      <4>2. is_terminal(o.records[i]) \/ o.records[i].epoch >= epoch
        BY <4>1 DEF EventRecords
      <4> QED
        BY <4>2 DEF discard_stale_record
    <3> QED
      BY <3>1
  <2>4. d.records = [i \in D \ E |-> discard_stale_record(o.records[i], epoch)]
    BY <1>11, <2>1, <2>2 DEF RestrictTo
  <2>5. p.records = [i \in D \ E |-> IF i \in stale THEN discard_stale_record(o.records[i], epoch)
                                      ELSE o.records[i]]
    BY <1>8, <1>14, <2>1 DEF Kept
  <2> QED
    BY <2>3, <2>4, <2>5
<1>20. IsOutbox(d)
  BY <1>13 DEF Evicts
<1>21. d = p
  BY <1>8, <1>16, <1>17, <1>18, <1>19, <1>20, EqualOutboxes
<1> QED
  BY <1>10, <1>21

-----------------------------------------------------------------------------
(* The loop itself.                                                         *)

\* s lists the N ids of S in increasing order.
Enumerates(s, N, S) ==
    /\ \A i \in 1 .. N : s[i] \in S
    /\ \A i, j \in 1 .. N : i < j => s[i] < s[j]
    /\ \A x \in S : \E i \in 1 .. N : s[i] = x

(* The loop meets the stale ids in the order of their own enumeration.      *)
LEMMA NextStaleIs ==
    ASSUME NEW stale, NEW act, NEW K \in Nat, NEW L \in Nat, NEW order, NEW loop,
           stale \in SUBSET act, act \in SUBSET Ids,
           Enumerates(order, K, stale), Enumerates(loop, L, act),
           NEW c \in 0 .. K, NEW m \in 1 .. L, First(order, c) = First(loop, m - 1) \cap stale,
           NEW y, y = loop[m], y \in stale
    PROVE  y \notin First(order, c) /\ c + 1 \in 1 .. K /\ y = order[c + 1]
<1>a. /\ \A i \in 1 .. K : order[i] \in stale
      /\ \A i, j \in 1 .. K : i < j => order[i] < order[j]
      /\ \A x \in stale : \E i \in 1 .. K : order[i] = x
  BY DEF Enumerates
<1>b. /\ \A i \in 1 .. L : loop[i] \in act
      /\ \A i, j \in 1 .. L : i < j => loop[i] < loop[j]
      /\ \A x \in act : \E i \in 1 .. L : loop[i] = x
  BY DEF Enumerates
<1>0. \A i \in Ids : i \in Nat
  BY IdsAssumption
<1>1. \A i \in 1 .. K : order[i] \in Nat
  BY <1>0, <1>a
<1>2. \A i \in 1 .. L : loop[i] \in Nat
  BY <1>0, <1>b
<1>3. loop[m] \notin First(loop, m - 1)
  <2>1. ASSUME NEW h \in 1 .. m - 1 PROVE loop[h] # loop[m]
    <3>1. h \in 1 .. L /\ h < m
      OBVIOUS
    <3>2. loop[h] < loop[m] /\ loop[h] \in Nat /\ loop[m] \in Nat
      BY <1>2, <1>b, <3>1
    <3> QED
      BY <3>2
  <2> QED
    BY <2>1 DEF First
<1>4. loop[m] \notin First(order, c)
  BY <1>3
<1>5. PICK h \in 1 .. K : order[h] = loop[m]
  BY <1>a
<1>6. h \notin 1 .. c
  BY <1>4, <1>5 DEF First
<1>7. c + 1 \in 1 .. K /\ c + 1 <= h
  BY <1>6
<1>8. ASSUME c + 1 < h PROVE FALSE
  <2>1. order[c + 1] < loop[m] /\ order[c + 1] \in stale /\ order[c + 1] \in act
    BY <1>5, <1>7, <1>8, <1>a
  <2>2. PICK g \in 1 .. L : loop[g] = order[c + 1]
    BY <2>1, <1>b
  <2>3. g < m
    <3>1. CASE g = m
      <4>1. loop[m] < loop[m] /\ loop[m] \in Nat
        BY <1>2, <2>1, <2>2, <3>1
      <4> QED
        BY <4>1
    <3>2. CASE m < g
      <4>1. loop[m] < loop[g] /\ loop[g] < loop[m] /\ loop[m] \in Nat /\ loop[g] \in Nat
        BY <1>2, <1>b, <2>1, <2>2, <3>2
      <4> QED
        BY <4>1
    <3> QED
      BY <3>1, <3>2
  <2>4. g \in 1 .. m - 1
    BY <2>3
  <2>5. order[c + 1] \in First(order, c)
    BY <2>1, <2>2, <2>4 DEF First
  <2>6. PICK f \in 1 .. c : order[f] = order[c + 1]
    BY <2>5 DEF First
  <2>7. f \in 1 .. K /\ f < c + 1
    BY <1>7
  <2>8. order[f] < order[c + 1] /\ order[f] \in Nat /\ order[c + 1] \in Nat
    BY <1>1, <1>7, <1>a, <2>7
  <2> QED
    BY <2>6, <2>8
<1>9. h = c + 1
  BY <1>7, <1>8
<1> QED
  BY <1>4, <1>5, <1>7, <1>9

(* After m updates the stale ones of the first m ids are discarded, and     *)
(* nothing else has changed.                                                *)
LEMMA LoopDiscards ==
    ASSUME NEW o, IsOutbox(o), OutboxType(o), IndexOK(o), NEW epoch \in Nat,
           NEW order \in IncreasingSeqs(StaleIds(o, epoch)), NEW loop \in IncreasingSeqs(o.active)
    PROVE  discard_stale(o, epoch, order) = IteratedDiscard(o, epoch, loop)
<1>1. PICK stale, act : stale = StaleIds(o, epoch) /\ act = o.active
  OBVIOUS
<1>2. stale \in SUBSET act /\ act \in SUBSET Ids
  BY <1>1 DEF StaleIds, OutboxType
<1>3. stale \in SUBSET Ids
  BY <1>2
<1>4. PICK K \in Nat : K = Cardinality(stale)
  BY <1>1, <1>3, IncreasingIs
<1>5. PICK L \in Nat : L = Cardinality(act)
  BY <1>1, <1>2, IncreasingIs
<1>6. /\ order \in Seq(Ids) /\ Len(order) = K
      /\ \A i \in 1 .. K : order[i] \in stale
      /\ \A i, j \in 1 .. K : i < j => order[i] < order[j]
      /\ \A x \in stale : \E i \in 1 .. K : order[i] = x
  BY <1>1, <1>3, <1>4, IncreasingIs
<1>7. /\ loop \in Seq(Ids) /\ Len(loop) = L
      /\ \A i \in 1 .. L : loop[i] \in act
      /\ \A i, j \in 1 .. L : i < j => loop[i] < loop[j]
      /\ \A x \in act : \E i \in 1 .. L : loop[i] = x
  BY <1>1, <1>2, <1>5, IncreasingIs
<1>8. PICK f : IsDiscardLoop(o, epoch, loop, L, f) /\ IteratedDiscard(o, epoch, loop) = f[L]
  BY <1>7, DiscardLoopIs
<1>9. \A n \in 0 .. L : f[n] = IF n = 0 THEN o ELSE DiscardNext(f[n - 1], epoch, loop[n])
  BY <1>8 DEF IsDiscardLoop
<1> DEFINE S == {m \in 0 .. L : \E c \in 0 .. K : /\ First(order, c) = First(loop, m) \cap stale
                                                 /\ DiscardedTo(o, epoch, order, c, f[m])}
<1>10. 0 \in S
  <2>1. f[0] = o
    BY <1>9
  <2>2. First(order, 0) = First(loop, 0) \cap stale
    BY DEF First
  <2>3. DiscardedTo(o, epoch, order, 0, f[0])
    BY <1>6, <2>1, DiscardStarts
  <2> QED
    BY <2>2, <2>3
<1>11. ASSUME NEW m \in 1 .. L, m - 1 \in S PROVE m \in S
  <2>1. PICK c \in 0 .. K : /\ First(order, c) = First(loop, m - 1) \cap stale
                            /\ DiscardedTo(o, epoch, order, c, f[m - 1])
    BY <1>11
  <2>2. PICK p, x : p = f[m - 1] /\ x = loop[m]
    OBVIOUS
  <2>3. f[m] = DiscardNext(p, epoch, x) /\ x \in act /\ m \in 0 .. L
    BY <1>7, <1>9, <2>2
  <2>4. First(loop, m) = First(loop, m - 1) \cup {x}
    <3>1. \A h \in 1 .. m : h \in 1 .. m - 1 \/ h = m
      OBVIOUS
    <3>2. m \in 1 .. m /\ \A h \in 1 .. m - 1 : h \in 1 .. m
      OBVIOUS
    <3> QED
      BY <2>2, <3>1, <3>2 DEF First
  <2>5. CASE x \notin stale
    <3>1. First(order, c) = First(loop, m) \cap stale
      BY <2>1, <2>4, <2>5
    <3>2. First(order, c) \in SUBSET StaleIds(o, epoch)
      BY <1>1, <3>1
    <3>3. DiscardedTo(o, epoch, order, c, p) /\ x \in o.active /\ x \notin StaleIds(o, epoch)
      BY <1>1, <2>1, <2>2, <2>3, <2>5
    <3>4. DiscardNext(p, epoch, x) = p
      BY <3>2, <3>3, DiscardPasses
    <3>5. DiscardedTo(o, epoch, order, c, f[m])
      BY <2>3, <3>3, <3>4
    <3> QED
      BY <2>3, <3>1, <3>5
  <2>6. CASE x \in stale
    <3>0. Enumerates(order, K, stale) /\ Enumerates(loop, L, act)
      BY <1>6, <1>7 DEF Enumerates
    <3>1. x \notin First(order, c) /\ c + 1 \in 1 .. K /\ x = order[c + 1]
      BY <1>2, <2>1, <2>2, <2>6, <3>0, NextStaleIs
    <3>2. c \in Nat /\ c + 1 \in 1 .. Len(order) /\ c + 1 \in 0 .. K
      BY <1>6, <3>1
    <3>3. DiscardedTo(o, epoch, order, c, p) /\ x \in StaleIds(o, epoch)
      BY <1>1, <2>1, <2>2, <2>6
    <3>4. DiscardedTo(o, epoch, order, c + 1, DiscardNext(p, epoch, x))
      BY <1>6, <3>1, <3>2, <3>3, DiscardsNext
    <3>5. First(order, c + 1) = First(order, c) \cup {x}
      <4>1. \A h \in 1 .. c + 1 : h \in 1 .. c \/ h = c + 1
        OBVIOUS
      <4>2. c + 1 \in 1 .. c + 1 /\ \A h \in 1 .. c : h \in 1 .. c + 1
        OBVIOUS
      <4> QED
        BY <3>1, <4>1, <4>2 DEF First
    <3>6. First(order, c + 1) = First(loop, m) \cap stale
      BY <2>1, <2>4, <2>6, <3>5
    <3>7. DiscardedTo(o, epoch, order, c + 1, f[m])
      BY <2>3, <3>4
    <3> QED
      BY <2>3, <3>2, <3>6, <3>7
  <2> QED
    BY <2>5, <2>6
<1>12. \A m \in 0 .. L : m \in S
  <2> HIDE DEF S
  <2> QED
    BY <1>10, <1>11, UpTo
<1>13. PICK c \in 0 .. K : /\ First(order, c) = First(loop, L) \cap stale
                           /\ DiscardedTo(o, epoch, order, c, f[L])
  BY <1>12
<1>14. First(order, c) = stale
  <2>1. First(loop, L) = act
    BY <1>7 DEF First
  <2> QED
    BY <1>2, <1>13, <2>1
<1>15. c = K
  <2>1. ASSUME c # K PROVE FALSE
    <3>1. K \in 1 .. K /\ order[K] \in First(order, c)
      BY <1>6, <1>14, <2>1
    <3>2. PICK h \in 1 .. c : order[h] = order[K]
      BY <3>1 DEF First
    <3>3. h \in 1 .. K /\ h < K
      BY <2>1
    <3>4. order[h] < order[K] /\ order[h] \in Nat /\ order[K] \in Nat
      BY <1>3, <1>6, <3>1, <3>3, IdsAssumption
    <3> QED
      BY <3>2, <3>4
  <2> QED
    BY <2>1
<1>16. DiscardedTo(o, epoch, order, Cardinality(StaleIds(o, epoch)), f[L])
  BY <1>1, <1>4, <1>13, <1>15
<1>17. f[L] = discard_stale(o, epoch, order)
  BY <1>16, DiscardEnds
<1> QED
  BY <1>8, <1>17

-----------------------------------------------------------------------------
(* The outbox is a record of its nine fields in every state.                *)
LEMMA IsOutboxKept == OutboxInv /\ IsOutbox(outbox) /\ [Next]_vars => IsOutbox(outbox')
<1> SUFFICES ASSUME OutboxInv, IsOutbox(outbox), [Next]_vars PROVE IsOutbox(outbox')
  OBVIOUS
<1>1. ASSUME NEW o, NEW id, NEW r, outbox' = reindex(o, id, r) PROVE IsOutbox(outbox')
  <2>1. PICK m : m = refiled(o, id, r)
    OBVIOUS
  <2>2. DOMAIN m = OutboxFields
    <3>1. Files(o, id, r, m)
      BY <2>1, FiledIs
    <3> QED
      BY <3>1 DEF Files, IsOutbox
  <2> QED
    BY <1>1, <2>1, <2>2, EvictIs DEF reindex, Evicts
<1>2. ASSUME NEW id, NEW q, NEW e, NEW t, Enqueue(id, q, e, t) PROVE IsOutbox(outbox')
  <2>1. PICK b : b = [outbox EXCEPT !.queue_by_id = Put(@, id, q)]
    OBVIOUS
  <2>2. outbox' = reindex(b, id, NewRecord(e, t))
    BY <1>2, <2>1 DEF Enqueue, enqueue_in_queue
  <2> QED
    BY <1>1, <2>2
<1>3. ASSUME NEW id, NEW r, Update(id, r) PROVE IsOutbox(outbox')
  BY <1>1, <1>3 DEF Update
<1>4. ASSUME NEW epoch, DiscardStale(epoch) PROVE IsOutbox(outbox')
  <2>1. PICK order : outbox' = discard_stale(outbox, epoch, order)
    BY <1>4 DEF DiscardStale
  <2>2. PICK m : m = all_discarded(outbox, epoch, order)
    OBVIOUS
  <2>3. DOMAIN m = OutboxFields
    BY <2>2 DEF all_discarded, OutboxFields
  <2> QED
    BY <2>1, <2>2, <2>3, EvictIs DEF discard_stale, Evicts
<1>5. CASE UNCHANGED vars
  BY <1>5 DEF vars
<1>6. ASSUME NEW id, Lease(id) \/ Start(id) \/ Succeed(id) \/ Interrupt(id) \/ Cancel(id)
      PROVE  IsOutbox(outbox')
  BY <1>3, <1>6 DEF Lease, Start, Succeed, Interrupt, Cancel
<1>7. ASSUME NEW id, NEW now, Fail(id, now) \/ RetryDue(id, now) PROVE IsOutbox(outbox')
  BY <1>3, <1>7 DEF Fail, RetryDue
<1> QED
  BY <1>2, <1>4, <1>5, <1>6, <1>7 DEF Next

(* `discard_stale` updates every active id in turn, evicting after each;    *)
(* the model's closed form gives the outbox that loop gives, in every       *)
(* reachable state and for every epoch.                                     *)
THEOREM DiscardAgreesWithTheLoop == Spec => []DiscardIsTheLoop
<1> DEFINE Inv == OutboxInv /\ IsOutbox(outbox)
<1>1. Init => Inv
  <2>1. IsOutbox(EmptyOutbox)
    BY DEF EmptyOutbox, IsOutbox, OutboxFields
  <2> QED
    BY <2>1, InitInv DEF Init
<1>2. Inv /\ [Next]_vars => Inv'
  BY NextInv, IsOutboxKept
<1>3. Inv => DiscardIsTheLoop
  <2> SUFFICES ASSUME OutboxInv, IsOutbox(outbox), NEW epoch \in 0 .. MaxEpoch,
                      NEW order \in IncreasingSeqs(StaleIds(outbox, epoch)),
                      NEW loop \in IncreasingSeqs(outbox.active)
               PROVE  discard_stale(outbox, epoch, order) = IteratedDiscard(outbox, epoch, loop)
    BY DEF DiscardIsTheLoop
  <2>1. OutboxType(outbox) /\ IndexOK(outbox) /\ epoch \in Nat
    BY OutboxBoundsAssumption DEF OutboxInv, TypeOK, IndexesAgree
  <2> QED
    BY <2>1, LoopDiscards
<1> HIDE DEF Inv
<1> QED
  BY <1>1, <1>2, <1>3, PTL DEF Spec
=============================================================================
