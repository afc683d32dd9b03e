-------------------------- MODULE OutboxStateProofs --------------------------
(***************************************************************************)
(* Proofs about the operators of the event container, for every set of ids  *)
(* and queues and every retention: each maps a consistent outbox to a       *)
(* consistent one.  OutboxProofs uses them for the outbox on its own,       *)
(* RuntimeProofs for the runtime that composes them.                        *)
(***************************************************************************)
EXTENDS OutboxState, TLAPS, SequenceTheorems, FiniteSetTheorems

-----------------------------------------------------------------------------
(* The transitions of an event record.                                      *)

\* What every transition of state.rs keeps: the type, the event, and a terminal state.
KeepsRecord(r, s) ==
    /\ s \in EventRecords
    /\ s.time = r.time
    /\ s.epoch = r.epoch
    /\ is_terminal(r) => s = r

(* Every transition keeps the record's type, its event and a terminal       *)
(* state: INV-EVENT-001 for a single record.                                *)
LEMMA TransitionsKeepRecord ==
    ASSUME NEW r \in EventRecords, NEW now \in Instants, NEW e \in Nat, NEW p,
           \A a \in Attempts : backoff_for_attempt(p, a) \in Nat
    PROVE  /\ KeepsRecord(r, lease(r))
           /\ KeepsRecord(r, start(r))
           /\ KeepsRecord(r, succeed(r))
           /\ KeepsRecord(r, fail(r, p, now))
           /\ KeepsRecord(r, interrupt(r))
           /\ KeepsRecord(r, retry_due(r, now))
           /\ KeepsRecord(r, cancel(r))
           /\ KeepsRecord(r, discard_stale_record(r, e))
<1> USE DEF KeepsRecord, EventRecords, EventStates, ActiveStates, TerminalStates, is_terminal
<1>0. 0 \in Instants
  BY InstantAssumption DEF Instants
<1>1. KeepsRecord(r, lease(r))
  BY DEF lease
<1>2. KeepsRecord(r, start(r))
  <2>1. CASE r.state = "Leased" /\ r.attempt < MaxAttempt
    <3>1. PICK a \in Attempts : a = r.attempt + 1
      BY <2>1, AttemptAssumption DEF Attempts
    <3>2. start(r) = [r EXCEPT !.state = "Running", !.attempt = a]
      BY <2>1, <3>1 DEF start
    <3> QED
      BY <2>1, <3>2
  <2> QED
    BY <2>1 DEF start
<1>3. KeepsRecord(r, succeed(r))
  BY DEF succeed
<1>4. KeepsRecord(r, fail(r, p, now))
  <2>1. CASE /\ r.state = "Running"
             /\ allows_retry_after_elapsed(p, r.attempt, elapsed_since(r, now))
             /\ ~ (now + backoff_for_attempt(p, r.attempt) > MaxInstant)
    <3>1. PICK b \in Nat : b = backoff_for_attempt(p, r.attempt)
      OBVIOUS
    <3>2. PICK at \in Instants : at = now + b
      BY <2>1, <3>1, InstantAssumption DEF Instants
    <3>3. fail(r, p, now) = [r EXCEPT !.state = "RetryWaiting", !.retry_at = at]
      BY <2>1, <3>1, <3>2 DEF fail
    <3> QED
      BY <2>1, <3>3
  <2>2. CASE /\ r.state = "Running"
             /\ ~ allows_retry_after_elapsed(p, r.attempt, elapsed_since(r, now))
    <3>1. fail(r, p, now) = [r EXCEPT !.state = "DeadLettered"]
      BY <2>2 DEF fail
    <3> QED
      BY <2>2, <3>1
  <2>3. CASE \/ r.state # "Running"
             \/ /\ allows_retry_after_elapsed(p, r.attempt, elapsed_since(r, now))
                /\ now + backoff_for_attempt(p, r.attempt) > MaxInstant
    <3>1. fail(r, p, now) = r
      BY <2>3 DEF fail
    <3> QED
      BY <3>1
  <2> QED
    BY <2>1, <2>2, <2>3
<1>5. KeepsRecord(r, interrupt(r))
  <2>1. CASE r.state = "Running"
    <3>1. PICK a \in Attempts : a = IF r.attempt > 0 THEN r.attempt - 1 ELSE 0
      BY AttemptAssumption DEF Attempts
    <3>2. interrupt(r) = [r EXCEPT !.state = "Pending", !.attempt = a]
      BY <2>1, <3>1 DEF interrupt
    <3> QED
      BY <2>1, <3>2
  <2> QED
    BY <2>1 DEF interrupt
<1>6. KeepsRecord(r, retry_due(r, now))
  BY <1>0 DEF retry_due
<1>7. KeepsRecord(r, cancel(r))
  BY <1>0 DEF cancel
<1>8. KeepsRecord(r, discard_stale_record(r, e))
  BY <1>0 DEF discard_stale_record
<1> QED
  BY <1>1, <1>2, <1>3, <1>4, <1>5, <1>6, <1>7, <1>8

-----------------------------------------------------------------------------
(* Eviction.                                                                *)

\* TerminalIndexOK without its bound: what holds before `evict`.
TerminalListOK(o) ==
    /\ {o.terminal[k] : k \in 1 .. Len(o.terminal)}
          = {i \in DOMAIN o.records : is_terminal(o.records[i])}
    /\ \A j, k \in 1 .. Len(o.terminal) : o.terminal[j] = o.terminal[k] => j = k

(* `evict` removes terminal records only and restores the retention bound.  *)
LEMMA EvictOK ==
    ASSUME NEW o, OutboxType(o), ActiveIndexOK(o), PendingIndexOK(o), QueueIndexOK(o),
           RetryIndexOK(o), TerminalListOK(o)
    PROVE  OutboxType(evict(o)) /\ IndexOK(evict(o))
<1> DEFINE n == Len(o.terminal)
           x == Excess(o)
           e == evict(o)
           gone == Oldest(o, x)
<1>1. n \in Nat /\ x \in 0 .. n /\ n - x <= TerminalRetention
  BY RetentionAssumption, LenProperties DEF OutboxType, Excess
<1>2. /\ DOMAIN e = OutboxFields
      /\ e.terminal = SubSeq(o.terminal, x + 1, n)
      /\ e.records = RestrictTo(o.records, DOMAIN o.records \ gone)
      /\ e.evicted = o.evicted + x
      /\ e.pending = o.pending
      /\ e.pending_by_queue = o.pending_by_queue
      /\ e.queue_by_id = o.queue_by_id
      /\ e.retrying = o.retrying
      /\ e.retry_at_by_id = o.retry_at_by_id
      /\ e.active = o.active
  BY DEF evict, OutboxType, OutboxFields
<1> HIDE DEF x, e
<1>3. \A i \in gone : i \in DOMAIN o.records /\ is_terminal(o.records[i])
  BY <1>1 DEF TerminalListOK, Oldest, n
<1>4. /\ DOMAIN e.records = DOMAIN o.records \ gone
      /\ \A i \in DOMAIN e.records : e.records[i] = o.records[i]
      /\ \A i \in DOMAIN o.records : ~ is_terminal(o.records[i]) => i \in DOMAIN e.records
  BY <1>2, <1>3 DEF RestrictTo
<1>5. /\ e.terminal \in Seq(Ids)
      /\ Len(e.terminal) = n - x
      /\ \A k \in 1 .. (n - x) : e.terminal[k] = o.terminal[x + k]
  BY <1>1, <1>2, SubSeqProperties DEF OutboxType, n
<1>6. OutboxType(e)
  <2>1. IsMap(e.records, Ids, EventRecords)
    BY <1>2, <1>4 DEF IsMap, OutboxType, RestrictTo
  <2> QED
    BY <1>1, <1>2, <1>5, <2>1 DEF OutboxType
<1>7. ActiveIndexOK(e)
  BY <1>2, <1>4 DEF ActiveIndexOK
<1>8. /\ InState(e, "Pending") = InState(o, "Pending")
      /\ InState(e, "RetryWaiting") = InState(o, "RetryWaiting")
  BY <1>4 DEF InState, is_terminal, TerminalStates
<1>9. \A S \in SUBSET InState(o, "Pending") : KeysOf(e, S) = KeysOf(o, S)
  BY <1>4, <1>8 DEF KeysOf, InState
<1>10. PendingIndexOK(e) /\ QueueIndexOK(e)
  BY <1>2, <1>8, <1>9 DEF PendingIndexOK, QueueIndexOK
<1>11. RetryIndexOK(e)
  <2>1. \A i \in InState(o, "RetryWaiting") : e.records[i] = o.records[i]
    BY <1>4, <1>8 DEF InState
  <2>2. {k \in Keys : k[2] \in InState(e, "RetryWaiting") /\ k[1] = e.records[k[2]].retry_at}
          = {k \in Keys : k[2] \in InState(o, "RetryWaiting") /\ k[1] = o.records[k[2]].retry_at}
    BY <1>8, <2>1
  <2> QED
    BY <1>2, <1>8, <2>1, <2>2 DEF RetryIndexOK
<1>12. TerminalIndexOK(e)
  <2>1. \A j, k \in 1 .. (n - x) : e.terminal[j] = e.terminal[k] => j = k
    BY <1>1, <1>5 DEF TerminalListOK, n
  <2>2. ASSUME NEW k \in 1 .. (n - x)
        PROVE  e.terminal[k] \in DOMAIN e.records /\ is_terminal(e.records[e.terminal[k]])
    <3>1. o.terminal[x + k] \in DOMAIN o.records /\ is_terminal(o.records[o.terminal[x + k]])
      BY <1>1 DEF TerminalListOK, n
    <3>2. o.terminal[x + k] \notin gone
      BY <1>1 DEF TerminalListOK, Oldest, n
    <3> QED
      BY <1>4, <1>5, <3>1, <3>2
  <2>3. ASSUME NEW i \in DOMAIN e.records, is_terminal(e.records[i])
        PROVE  \E k \in 1 .. (n - x) : e.terminal[k] = i
    <3>1. PICK m \in 1 .. n : o.terminal[m] = i
      BY <1>4, <2>3 DEF TerminalListOK, n
    <3>2. m > x
      BY <1>1, <1>4, <3>1 DEF Oldest
    <3> QED
      <4>1. m - x \in 1 .. (n - x) /\ x + (m - x) = m
        BY <1>1, <3>2
      <4>2. e.terminal[m - x] = i
        BY <1>5, <3>1, <4>1
      <4> QED
        BY <4>1, <4>2
  <2> QED
    BY <1>1, <1>5, <2>1, <2>2, <2>3 DEF TerminalIndexOK
<1> QED
  BY <1>6, <1>7, <1>10, <1>11, <1>12 DEF IndexOK, e

-----------------------------------------------------------------------------
(* Filing one record.                                                       *)

(* An outbox about to file id: consistent, except that enqueue_in_queue has *)
(* already given a new id its queue.                                        *)
FilingOK(o, id) ==
    /\ OutboxType(o)
    /\ ActiveIndexOK(o)
    /\ PendingIndexOK(o)
    /\ DOMAIN o.queue_by_id = o.active \/ (id \notin DOMAIN o.records /\ DOMAIN o.queue_by_id = o.active \cup {id})
    /\ \A q \in Queues :
          o.pending_by_queue[q] = KeysOf(o, {i \in InState(o, "Pending") : o.queue_by_id[i] = q})
    /\ RetryIndexOK(o)
    /\ TerminalIndexOK(o)

(* Filing a record under a new state that keeps its event, and a terminal   *)
(* state, keeps every index exact.                                          *)
LEMMA RefiledOK ==
    ASSUME NEW o, NEW id \in Ids, NEW r \in EventRecords, FilingOK(o, id),
           id \in DOMAIN o.records => KeepsRecord(o.records[id], r),
           id \notin DOMAIN o.records => ~ is_terminal(r) /\ id \in DOMAIN o.queue_by_id
    PROVE  LET m == refiled(o, id, r)
           IN  /\ OutboxType(m)
               /\ ActiveIndexOK(m)
               /\ PendingIndexOK(m)
               /\ QueueIndexOK(m)
               /\ RetryIndexOK(m)
               /\ TerminalListOK(m)
<1> DEFINE m == refiled(o, id, r)
           key == <<r.time, id>>
<1>0. key \in Keys /\ key[1] = r.time /\ key[2] = id /\ r.retry_at \in Instants
  BY DEF Keys, EventRecords
<1>1. /\ DOMAIN m = OutboxFields
      /\ m.records = Put(o.records, id, r)
      /\ m.pending = (o.pending \ {key}) \cup (IF r.state = "Pending" THEN {key} ELSE {})
      /\ m.pending_by_queue = [q \in Queues |->
              IF id \in DOMAIN o.queue_by_id /\ o.queue_by_id[id] = q
              THEN (o.pending_by_queue[q] \ {key}) \cup (IF r.state = "Pending" THEN {key} ELSE {})
              ELSE o.pending_by_queue[q]]
      /\ m.queue_by_id = IF is_terminal(r) THEN Remove(o.queue_by_id, id) ELSE o.queue_by_id
      /\ m.retrying = cleared_retrying(o, id)
              \cup (IF r.state = "RetryWaiting" THEN {<<r.retry_at, id>>} ELSE {})
      /\ m.retry_at_by_id = IF r.state = "RetryWaiting"
              THEN Put(o.retry_at_by_id, id, r.retry_at) ELSE Remove(o.retry_at_by_id, id)
      /\ m.active = IF is_terminal(r) THEN o.active \ {id} ELSE o.active \cup {id}
      /\ m.terminal = IF is_terminal(r) /\ id \in o.active
                      THEN Append(o.terminal, id) ELSE o.terminal
      /\ m.evicted = o.evicted
  BY DEF refiled, OutboxFields
<1> HIDE DEF m, key
<1>2. /\ DOMAIN m.records = DOMAIN o.records \cup {id}
      /\ m.records[id] = r
      /\ \A i \in DOMAIN o.records \ {id} : m.records[i] = o.records[i]
  BY <1>1 DEF Put
<1>3. id \in o.active <=> id \in DOMAIN o.records /\ ~ is_terminal(o.records[id])
  BY DEF FilingOK, ActiveIndexOK
<1>4. ~ is_terminal(r) => id \in DOMAIN o.queue_by_id
  BY <1>3 DEF FilingOK, KeepsRecord
<1>5. \A i \in DOMAIN m.queue_by_id : i \in DOMAIN o.queue_by_id /\ m.queue_by_id[i] = o.queue_by_id[i]
  BY <1>1 DEF Remove, RestrictTo
<1>6. ActiveIndexOK(m)
  BY <1>1, <1>2 DEF FilingOK, ActiveIndexOK
<1>7. InState(m, "Pending") = IF r.state = "Pending" THEN InState(o, "Pending") \cup {id}
                              ELSE InState(o, "Pending") \ {id}
  BY <1>2 DEF InState
<1>8. InState(m, "RetryWaiting") = IF r.state = "RetryWaiting"
                                   THEN InState(o, "RetryWaiting") \cup {id}
                                   ELSE InState(o, "RetryWaiting") \ {id}
  BY <1>2 DEF InState
<1>9. id \in DOMAIN o.records => o.records[id].time = r.time
  BY DEF KeepsRecord
<1>10. PendingIndexOK(m)
  <2>1. ASSUME NEW k \in Keys, k[2] # id
        PROVE  k \in o.pending <=> k[2] \in InState(m, "Pending") /\ k[1] = m.records[k[2]].time
    BY <1>2, <1>7, <2>1 DEF FilingOK, PendingIndexOK, KeysOf, InState
  <2>2. ASSUME NEW k \in Keys, k[2] = id, k \in o.pending
        PROVE  k = key
    BY <1>9, <2>2 DEF FilingOK, PendingIndexOK, KeysOf, InState, key, Keys
  <2>3. ASSUME NEW k \in Keys
        PROVE  k \in m.pending <=> k[2] \in InState(m, "Pending") /\ k[1] = m.records[k[2]].time
    BY <1>0, <1>1, <1>2, <1>7, <2>1, <2>2, <2>3 DEF key, Keys
  <2>4. m.pending \subseteq Keys
    BY <1>0, <1>1 DEF FilingOK, OutboxType
  <2> QED
    BY <2>3, <2>4 DEF PendingIndexOK, KeysOf
<1>11. QueueIndexOK(m)
  <2>1. DOMAIN m.queue_by_id = m.active
    BY <1>1, <1>3, <1>4 DEF FilingOK, Remove, RestrictTo
  <2>2. ASSUME NEW q \in Queues, NEW k \in Keys, k[2] # id
        PROVE  k \in m.pending_by_queue[q]
                 <=> /\ k[2] \in InState(m, "Pending")
                     /\ m.queue_by_id[k[2]] = q
                     /\ k[1] = m.records[k[2]].time
    <3>1. k \in m.pending_by_queue[q] <=> k \in o.pending_by_queue[q]
      BY <1>0, <1>1, <2>2
    <3>2. k[2] \in InState(m, "Pending") <=> k[2] \in InState(o, "Pending")
      BY <1>7, <2>2
    <3>3. k[2] \in InState(m, "Pending") => k[2] \in m.active
      BY <1>6 DEF ActiveIndexOK, InState, is_terminal, TerminalStates
    <3>4. k[2] \in InState(m, "Pending") => m.queue_by_id[k[2]] = o.queue_by_id[k[2]]
      BY <1>5, <2>1, <3>3
    <3>5. k[2] \in InState(o, "Pending") => m.records[k[2]] = o.records[k[2]]
      BY <1>2, <2>2 DEF InState
    <3> QED
      BY <3>1, <3>2, <3>4, <3>5 DEF FilingOK, KeysOf
  <2>3. ASSUME NEW q \in Queues, NEW k \in Keys, k[2] = id
        PROVE  k \in m.pending_by_queue[q]
                 <=> /\ k[2] \in InState(m, "Pending")
                     /\ m.queue_by_id[k[2]] = q
                     /\ k[1] = m.records[k[2]].time
    <3>1. k \in o.pending_by_queue[q] => /\ k = key
                                          /\ id \in DOMAIN o.queue_by_id
                                          /\ o.queue_by_id[id] = q
      <4>1. k \in o.pending_by_queue[q] => /\ id \in InState(o, "Pending")
                                            /\ o.queue_by_id[id] = q
                                            /\ k[1] = o.records[id].time
        BY <2>3 DEF FilingOK, KeysOf
      <4>2. id \in InState(o, "Pending") => id \in o.active /\ id \in DOMAIN o.records
        BY <1>3 DEF InState, is_terminal, TerminalStates
      <4>3. id \in o.active => id \in DOMAIN o.queue_by_id
        BY DEF FilingOK
      <4> QED
        BY <1>9, <2>3, <4>1, <4>2, <4>3 DEF key, Keys
    <3>2. k \in m.pending_by_queue[q]
            <=> k = key /\ r.state = "Pending" /\ id \in DOMAIN o.queue_by_id /\ o.queue_by_id[id] = q
      BY <1>1, <3>1
    <3>3. k = key <=> k[1] = r.time
      BY <1>0, <2>3 DEF Keys, key
    <3>4. id \in InState(m, "Pending") <=> r.state = "Pending"
      BY <1>2 DEF InState
    <3>5. r.state = "Pending" => id \in DOMAIN o.queue_by_id /\ m.queue_by_id = o.queue_by_id
      BY <1>1, <1>4 DEF is_terminal, TerminalStates
    <3> QED
      BY <1>2, <2>3, <3>2, <3>3, <3>4, <3>5
  <2>4. ASSUME NEW q \in Queues
        PROVE  m.pending_by_queue[q] \subseteq Keys
    BY <1>0, <1>1 DEF FilingOK, OutboxType
  <2>5. ASSUME NEW q \in Queues
        PROVE  m.pending_by_queue[q]
                 = KeysOf(m, {i \in InState(m, "Pending") : m.queue_by_id[i] = q})
    BY <2>2, <2>3, <2>4 DEF KeysOf
  <2> QED
    BY <2>1, <2>5 DEF QueueIndexOK
<1>12. RetryIndexOK(m)
  <2>1. DOMAIN m.retry_at_by_id = InState(m, "RetryWaiting")
    BY <1>1, <1>8 DEF FilingOK, RetryIndexOK, Put, Remove, RestrictTo
  <2>2. ASSUME NEW i \in InState(m, "RetryWaiting")
        PROVE  m.retry_at_by_id[i] = m.records[i].retry_at
    <3>1. CASE i = id
      BY <1>1, <1>2, <1>8, <2>2, <3>1 DEF Put, InState
    <3>2. CASE i # id
      <4>1. i \in InState(o, "RetryWaiting") /\ m.records[i] = o.records[i]
        BY <1>2, <1>8, <2>2, <3>2 DEF InState
      <4>2. m.retry_at_by_id[i] = o.retry_at_by_id[i]
        BY <1>1, <3>2, <4>1 DEF FilingOK, RetryIndexOK, Put, Remove, RestrictTo
      <4> QED
        BY <4>1, <4>2 DEF FilingOK, RetryIndexOK
    <3> QED
      BY <3>1, <3>2
  <2>3. ASSUME NEW k \in Keys
        PROVE  k \in m.retrying
                 <=> k[2] \in InState(m, "RetryWaiting") /\ k[1] = m.records[k[2]].retry_at
    <3>1. CASE k[2] # id
      <4>1. k \in m.retrying <=> k \in o.retrying
        BY <1>1, <3>1 DEF cleared_retrying
      <4>2. k[2] \in InState(o, "RetryWaiting") => m.records[k[2]] = o.records[k[2]]
        BY <1>2, <3>1 DEF InState
      <4> QED
        BY <1>8, <3>1, <4>1, <4>2 DEF FilingOK, RetryIndexOK
    <3>2. CASE k[2] = id
      <4>1. k \notin cleared_retrying(o, id)
        BY <3>2 DEF FilingOK, RetryIndexOK, cleared_retrying, Keys
      <4>2. k = <<r.retry_at, id>> <=> k[1] = r.retry_at
        BY <3>2 DEF Keys
      <4>3. id \in InState(m, "RetryWaiting") <=> r.state = "RetryWaiting"
        BY <1>2 DEF InState
      <4> QED
        BY <1>1, <1>2, <3>2, <4>1, <4>2, <4>3
    <3> QED
      BY <3>1, <3>2
  <2>4. m.retrying \subseteq Keys
    BY <1>0, <1>1 DEF FilingOK, OutboxType, cleared_retrying, Keys
  <2> QED
    BY <2>1, <2>2, <2>3, <2>4 DEF RetryIndexOK
<1>13. TerminalListOK(m)
  <2>1. CASE is_terminal(r) /\ id \in o.active
    <3>1. /\ Len(m.terminal) = Len(o.terminal) + 1
          /\ m.terminal[Len(o.terminal) + 1] = id
          /\ \A k \in 1 .. Len(o.terminal) : m.terminal[k] = o.terminal[k]
      BY <1>1, <2>1 DEF FilingOK, OutboxType
    <3>2. Len(o.terminal) \in Nat
      BY DEF FilingOK, OutboxType
    <3>3. \A k \in 1 .. Len(o.terminal) : o.terminal[k] # id
      BY <1>3, <2>1 DEF FilingOK, TerminalIndexOK
    <3> HIDE DEF FilingOK
    <3>4. {m.terminal[k] : k \in 1 .. Len(m.terminal)}
            = {o.terminal[k] : k \in 1 .. Len(o.terminal)} \cup {id}
      BY <3>1, <3>2
    <3>5. {i \in DOMAIN m.records : is_terminal(m.records[i])}
            = {i \in DOMAIN o.records : is_terminal(o.records[i])} \cup {id}
      BY <1>2, <2>1
    <3>6. \A j, k \in 1 .. Len(m.terminal) : m.terminal[j] = m.terminal[k] => j = k
      BY <3>1, <3>2, <3>3 DEF FilingOK, TerminalIndexOK
    <3> QED
      BY <3>4, <3>5, <3>6 DEF FilingOK, TerminalIndexOK, TerminalListOK
  <2>2. CASE ~ (is_terminal(r) /\ id \in o.active)
    <3>1. m.terminal = o.terminal
      BY <1>1, <2>2
    <3>2. id \in DOMAIN o.records => (is_terminal(r) <=> is_terminal(o.records[id]))
      BY <1>3, <2>2 DEF KeepsRecord
    <3>3. {i \in DOMAIN m.records : is_terminal(m.records[i])}
            = {i \in DOMAIN o.records : is_terminal(o.records[i])}
      BY <1>2, <3>2
    <3> QED
      BY <3>1, <3>3 DEF FilingOK, TerminalIndexOK, TerminalListOK
  <2> QED
    BY <2>1, <2>2
<1>14. OutboxType(m)
  <2>1. IsMap(m.records, Ids, EventRecords)
    BY <1>1 DEF FilingOK, OutboxType, IsMap, Put
  <2>2. IsMap(m.queue_by_id, Ids, Queues)
    BY <1>1 DEF FilingOK, OutboxType, IsMap, Remove, RestrictTo
  <2>3. IsMap(m.retry_at_by_id, Ids, Instants)
    BY <1>0, <1>1 DEF FilingOK, OutboxType, IsMap, Put, Remove, RestrictTo
  <2>4. m.pending \subseteq Keys /\ m.retrying \subseteq Keys
    BY <1>10, <1>12 DEF PendingIndexOK, RetryIndexOK, KeysOf
  <2>5. m.pending_by_queue \in [Queues -> SUBSET Keys]
    BY <1>0, <1>1 DEF FilingOK, OutboxType
  <2>6. m.active \subseteq Ids /\ m.terminal \in Seq(Ids) /\ m.evicted \in Nat
    BY <1>1 DEF FilingOK, OutboxType
  <2> QED
    BY <1>1, <2>1, <2>2, <2>3, <2>4, <2>5, <2>6 DEF OutboxType
<1> QED
  BY <1>6, <1>10, <1>11, <1>12, <1>13, <1>14 DEF m

(* `update`, with any transition of state.rs, keeps the outbox consistent.  *)
LEMMA ReindexOK ==
    ASSUME NEW o, OutboxType(o), IndexOK(o), NEW id \in DOMAIN o.records,
           NEW r, KeepsRecord(o.records[id], r)
    PROVE  OutboxType(reindex(o, id, r)) /\ IndexOK(reindex(o, id, r))
<1>1. id \in Ids /\ r \in EventRecords
  BY DEF OutboxType, IsMap, KeepsRecord
<1>2. FilingOK(o, id)
  BY DEF FilingOK, IndexOK, QueueIndexOK
<1> QED
  BY <1>1, <1>2, RefiledOK, EvictOK DEF reindex

(* `enqueue_in_queue` keeps the outbox consistent.                          *)
LEMMA EnqueueOK ==
    ASSUME NEW o, OutboxType(o), IndexOK(o), NEW id \in Ids, NEW q \in Queues,
           NEW epoch \in Nat, NEW time \in Instants, id \notin DOMAIN o.records
    PROVE  LET p == enqueue_in_queue(o, id, NewRecord(epoch, time), q)
           IN  OutboxType(p) /\ IndexOK(p)
<1> DEFINE r == NewRecord(epoch, time)
           b == [o EXCEPT !.queue_by_id = Put(o.queue_by_id, id, q)]
<1>1. r \in EventRecords /\ ~ is_terminal(r)
  BY InstantAssumption, AttemptAssumption
     DEF NewRecord, EventRecords, EventStates, ActiveStates, TerminalStates, is_terminal,
         Instants, Attempts
<1>2. /\ DOMAIN b = OutboxFields
      /\ b.queue_by_id = Put(o.queue_by_id, id, q)
      /\ b.records = o.records
      /\ b.pending = o.pending
      /\ b.pending_by_queue = o.pending_by_queue
      /\ b.retrying = o.retrying
      /\ b.retry_at_by_id = o.retry_at_by_id
      /\ b.active = o.active
      /\ b.terminal = o.terminal
      /\ b.evicted = o.evicted
  BY DEF OutboxType, OutboxFields
<1> HIDE DEF b, r
<1>3. id \notin o.active
  BY DEF IndexOK, ActiveIndexOK
<1>4. IsMap(b.queue_by_id, Ids, Queues) /\ DOMAIN b.queue_by_id = o.active \cup {id}
  BY <1>2 DEF OutboxType, IsMap, Put, IndexOK, QueueIndexOK
<1>5. OutboxType(b)
  BY <1>2, <1>4 DEF OutboxType
<1>6. ActiveIndexOK(b) /\ PendingIndexOK(b) /\ RetryIndexOK(b) /\ TerminalIndexOK(b)
  BY <1>2 DEF IndexOK, ActiveIndexOK, PendingIndexOK, RetryIndexOK, TerminalIndexOK,
              KeysOf, InState
<1>7. \A i \in DOMAIN o.records : i # id /\ (i \in o.active => b.queue_by_id[i] = o.queue_by_id[i])
  BY <1>2, <1>4 DEF Put
<1>8. ASSUME NEW p \in Queues
      PROVE  b.pending_by_queue[p] = KeysOf(b, {i \in InState(b, "Pending") : b.queue_by_id[i] = p})
  <2>1. InState(b, "Pending") = InState(o, "Pending") /\ InState(o, "Pending") \subseteq o.active
    BY <1>2 DEF InState, IndexOK, ActiveIndexOK, is_terminal, TerminalStates
  <2>2. {i \in InState(b, "Pending") : b.queue_by_id[i] = p}
          = {i \in InState(o, "Pending") : o.queue_by_id[i] = p}
    BY <1>7, <2>1 DEF InState
  <2> QED
    BY <1>2, <2>2 DEF IndexOK, QueueIndexOK, KeysOf
<1>9. FilingOK(b, id)
  BY <1>2, <1>4, <1>5, <1>6, <1>8 DEF FilingOK
<1>10. enqueue_in_queue(o, id, r, q) = evict(refiled(b, id, r))
  BY DEF enqueue_in_queue, reindex, b
<1> QED
  BY <1>1, <1>2, <1>4, <1>9, <1>10, RefiledOK, EvictOK DEF r

-----------------------------------------------------------------------------
(* Discarding the events of older epochs.                                   *)

(* `discard_stale` keeps the outbox consistent, whatever the order.         *)
LEMMA DiscardOK ==
    ASSUME NEW o, OutboxType(o), IndexOK(o), NEW epoch \in Nat,
           NEW order \in IncreasingSeqs(StaleIds(o, epoch)),
           IsFiniteSet(StaleIds(o, epoch))
    PROVE  LET p == discard_stale(o, epoch, order)
           IN  OutboxType(p) /\ IndexOK(p)
<1> DEFINE stale == StaleIds(o, epoch)
           m == all_discarded(o, epoch, order)
           n == Len(o.terminal)
           c == Cardinality(stale)
<1>0. /\ stale \subseteq o.active
      /\ stale \subseteq DOMAIN o.records
      /\ \A i \in stale : ~ is_terminal(o.records[i]) /\ i \in Ids
  BY DEF StaleIds, IndexOK, ActiveIndexOK, OutboxType
<1>1. /\ DOMAIN m = OutboxFields
      /\ m.records = [i \in DOMAIN o.records |-> discard_stale_record(o.records[i], epoch)]
      /\ m.pending = {k \in o.pending : k[2] \notin stale}
      /\ m.pending_by_queue = [q \in Queues |-> {k \in o.pending_by_queue[q] : k[2] \notin stale}]
      /\ m.queue_by_id = RestrictTo(o.queue_by_id, DOMAIN o.queue_by_id \ stale)
      /\ m.retrying = {k \in o.retrying : k[2] \notin stale}
      /\ m.retry_at_by_id = RestrictTo(o.retry_at_by_id, DOMAIN o.retry_at_by_id \ stale)
      /\ m.active = o.active \ stale
      /\ m.terminal = o.terminal \o order
      /\ m.evicted = o.evicted
  BY DEF all_discarded, OutboxFields
<1>2. c \in Nat
  BY FS_CardinalityType
<1>3. /\ order \in [1 .. c -> stale]
      /\ \A i, j \in 1 .. c : i < j => order[i] < order[j]
      /\ \A x \in stale : \E i \in 1 .. c : order[i] = x
  BY DEF IncreasingSeqs
<1> HIDE DEF m, stale, c
<1>4. ASSUME NEW i \in DOMAIN o.records
      PROVE  /\ i \in stale => is_terminal(m.records[i])
             /\ i \notin stale => m.records[i] = o.records[i]
  <2>1. o.records[i] \in EventRecords
    BY DEF OutboxType, IsMap
  <2>2. i \in stale <=> ~ is_terminal(o.records[i]) /\ o.records[i].epoch < epoch
    BY DEF stale, StaleIds, IndexOK, ActiveIndexOK
  <2>3. o.records[i].epoch < epoch <=> ~ (o.records[i].epoch >= epoch)
    BY <2>1 DEF EventRecords
  <2> QED
    <3>1. m.records[i] = discard_stale_record(o.records[i], epoch)
      BY <1>1
    <3>2. CASE i \in stale
      <4>1. discard_stale_record(o.records[i], epoch).state = "DiscardedStaleEpoch"
        BY <2>1, <2>2, <2>3, <3>2 DEF discard_stale_record, EventRecords
      <4> QED
        BY <3>1, <3>2, <4>1 DEF is_terminal, TerminalStates
    <3>3. CASE i \notin stale
      BY <2>2, <2>3, <3>1, <3>3 DEF discard_stale_record
    <3> QED
      BY <3>2, <3>3
<1>5. DOMAIN m.records = DOMAIN o.records
  BY <1>1
<1>6. ActiveIndexOK(m)
  BY <1>0, <1>1, <1>4, <1>5 DEF IndexOK, ActiveIndexOK
<1>7. \A s \in {"Pending", "RetryWaiting"} : InState(m, s) = InState(o, s) \ stale
  BY <1>4, <1>5 DEF InState, is_terminal, TerminalStates
<1>8. PendingIndexOK(m)
  BY <1>1, <1>4, <1>7 DEF IndexOK, PendingIndexOK, KeysOf, InState
<1>9. QueueIndexOK(m)
  <2>1. DOMAIN m.queue_by_id = m.active
    BY <1>1 DEF IndexOK, QueueIndexOK, RestrictTo
  <2>2. \A i \in m.active : m.queue_by_id[i] = o.queue_by_id[i]
    BY <1>1, <2>1 DEF RestrictTo
  <2>3. InState(m, "Pending") \subseteq m.active
    BY <1>6 DEF ActiveIndexOK, InState, is_terminal, TerminalStates
  <2>4. ASSUME NEW q \in Queues, NEW k \in Keys
        PROVE  k \in m.pending_by_queue[q]
                 <=> /\ k[2] \in InState(m, "Pending")
                     /\ m.queue_by_id[k[2]] = q
                     /\ k[1] = m.records[k[2]].time
    <3>1. k \in m.pending_by_queue[q]
            <=> /\ k[2] \in InState(o, "Pending") \ stale
                /\ o.queue_by_id[k[2]] = q
                /\ k[1] = o.records[k[2]].time
      BY <1>1 DEF IndexOK, QueueIndexOK, KeysOf
    <3>2. k[2] \in InState(o, "Pending") \ stale => m.records[k[2]] = o.records[k[2]]
      BY <1>4 DEF InState
    <3> QED
      BY <1>7, <2>2, <2>3, <3>1, <3>2
  <2>5. ASSUME NEW q \in Queues
        PROVE  m.pending_by_queue[q] \subseteq Keys
    BY <1>1 DEF OutboxType
  <2>6. ASSUME NEW q \in Queues
        PROVE  m.pending_by_queue[q]
                 = KeysOf(m, {i \in InState(m, "Pending") : m.queue_by_id[i] = q})
    BY <2>4, <2>5 DEF KeysOf
  <2> QED
    BY <2>1, <2>6 DEF QueueIndexOK
<1>10. RetryIndexOK(m)
  <2>1. DOMAIN m.retry_at_by_id = InState(m, "RetryWaiting")
    BY <1>1, <1>7 DEF IndexOK, RetryIndexOK, RestrictTo
  <2>2. \A i \in InState(m, "RetryWaiting") :
           /\ m.retry_at_by_id[i] = o.retry_at_by_id[i]
           /\ m.records[i] = o.records[i]
           /\ i \in InState(o, "RetryWaiting")
    BY <1>1, <1>4, <1>5, <1>7, <2>1 DEF RestrictTo, InState
  <2>3. ASSUME NEW k \in Keys
        PROVE  k \in m.retrying
                 <=> k[2] \in InState(m, "RetryWaiting") /\ k[1] = m.records[k[2]].retry_at
    BY <1>1, <1>7, <2>2 DEF IndexOK, RetryIndexOK
  <2>4. m.retrying \subseteq Keys
    BY <1>1 DEF OutboxType
  <2> QED
    BY <2>1, <2>2, <2>3, <2>4 DEF IndexOK, RetryIndexOK
<1>11. /\ order \in Seq(Ids)
       /\ Len(order) = c
       /\ m.terminal \in Seq(Ids)
       /\ Len(m.terminal) = n + c
       /\ \A k \in 1 .. n : m.terminal[k] = o.terminal[k]
       /\ \A k \in 1 .. c : m.terminal[n + k] = order[k]
       /\ n \in Nat
  <2>1. order \in Seq(Ids) /\ Len(order) = c
    BY <1>0, <1>2, <1>3
  <2>2. o.terminal \in Seq(Ids)
    BY DEF OutboxType
  <2> QED
    <3>1. n \in Nat /\ n = Len(o.terminal)
      BY <2>2, LenProperties
    <3>2. /\ m.terminal \in Seq(Ids)
          /\ Len(m.terminal) = n + c
          /\ \A k \in 1 .. (n + c) :
                m.terminal[k] = IF k <= n THEN o.terminal[k] ELSE order[k - n]
      <4>1. /\ o.terminal \o order \in Seq(Ids)
            /\ Len(o.terminal \o order) = Len(o.terminal) + Len(order)
            /\ \A k \in 1 .. Len(o.terminal) + Len(order) :
                  (o.terminal \o order)[k] =
                      IF k <= Len(o.terminal) THEN o.terminal[k] ELSE order[k - Len(o.terminal)]
        BY <2>1, <2>2, ConcatProperties, Zenon
      <4> QED
        BY <1>1, <2>1, <4>1, Zenon
    <3>3. \A k \in 1 .. c : n + k \in 1 .. (n + c) /\ ~ (n + k <= n) /\ (n + k) - n = k
      BY <1>2, <3>1
    <3>4. \A k \in 1 .. n : k \in 1 .. (n + c) /\ k <= n
      BY <1>2, <3>1
    <3> QED
      BY <2>1, <3>1, <3>2, <3>3, <3>4
<1>12. TerminalListOK(m)
  <2>1. \A k \in 1 .. n : o.terminal[k] \in DOMAIN o.records /\ is_terminal(o.records[o.terminal[k]])
    BY DEF IndexOK, TerminalIndexOK
  <2>2. \A k \in 1 .. (n + c) :
           \/ k \in 1 .. n /\ m.terminal[k] = o.terminal[k] /\ m.terminal[k] \notin stale
           \/ k - n \in 1 .. c /\ m.terminal[k] = order[k - n] /\ m.terminal[k] \in stale
    <3> SUFFICES ASSUME NEW k \in 1 .. (n + c)
                 PROVE  \/ k \in 1 .. n /\ m.terminal[k] = o.terminal[k] /\ m.terminal[k] \notin stale
                        \/ k - n \in 1 .. c /\ m.terminal[k] = order[k - n] /\ m.terminal[k] \in stale
      OBVIOUS
    <3>1. CASE k <= n
      BY <1>0, <1>2, <1>11, <2>1, <3>1
    <3>2. CASE k > n
      <4>1. k - n \in 1 .. c /\ n + (k - n) = k
        BY <1>2, <1>11, <3>2
      <4> QED
        BY <1>3, <1>11, <4>1
    <3> QED
      BY <1>2, <1>11, <3>1, <3>2
  <2>3. \A j, k \in 1 .. (n + c) : m.terminal[j] = m.terminal[k] => j = k
    <3>1. \A j, k \in 1 .. c : order[j] = order[k] => j = k
      <4> SUFFICES ASSUME NEW j \in 1 .. c, NEW k \in 1 .. c, order[j] = order[k], j # k
                   PROVE  FALSE
        OBVIOUS
      <4>1. order[j] \in Nat /\ order[k] \in Nat
        BY <1>0, <1>3, IdsAssumption
      <4>2. order[j] < order[k] \/ order[k] < order[j]
        BY <1>2, <1>3
      <4> QED
        BY <4>1, <4>2
    <3>2. \A j, k \in 1 .. n : o.terminal[j] = o.terminal[k] => j = k
      BY DEF IndexOK, TerminalIndexOK
    <3> QED
      <4> SUFFICES ASSUME NEW j \in 1 .. (n + c), NEW k \in 1 .. (n + c),
                          m.terminal[j] = m.terminal[k]
                   PROVE  j = k
        OBVIOUS
      <4>1. CASE m.terminal[j] \in stale
        <5>1. /\ j - n \in 1 .. c /\ m.terminal[j] = order[j - n]
              /\ k - n \in 1 .. c /\ m.terminal[k] = order[k - n]
          BY <2>2, <4>1
        <5>2. j - n = k - n
          BY <3>1, <5>1
        <5> QED
          BY <1>2, <1>11, <5>2
      <4>2. CASE m.terminal[j] \notin stale
        <5>1. /\ j \in 1 .. n /\ m.terminal[j] = o.terminal[j]
              /\ k \in 1 .. n /\ m.terminal[k] = o.terminal[k]
          BY <2>2, <4>2
        <5> QED
          BY <3>2, <5>1
      <4> QED
        BY <4>1, <4>2
  <2>4. \A k \in 1 .. (n + c) : m.terminal[k] \in DOMAIN m.records
                                /\ is_terminal(m.records[m.terminal[k]])
    BY <1>0, <1>4, <1>5, <2>1, <2>2
  <2>5. ASSUME NEW i \in DOMAIN m.records, is_terminal(m.records[i])
        PROVE  \E k \in 1 .. (n + c) : m.terminal[k] = i
    <3>1. CASE i \in stale
      <4>1. PICK k \in 1 .. c : order[k] = i
        BY <1>3, <3>1
      <4> QED
        BY <1>2, <1>11, <4>1, n + k \in 1 .. (n + c)
    <3>2. CASE i \notin stale
      <4>1. PICK k \in 1 .. n : o.terminal[k] = i
        BY <1>4, <1>5, <2>5, <3>2 DEF IndexOK, TerminalIndexOK
      <4> QED
        BY <1>2, <1>11, <4>1, k \in 1 .. (n + c)
    <3> QED
      BY <3>1, <3>2
  <2> QED
    <3>1. {m.terminal[k] : k \in 1 .. (n + c)}
            = {i \in DOMAIN m.records : is_terminal(m.records[i])}
      BY <2>4, <2>5
    <3> QED
      BY <1>11, <2>3, <3>1 DEF TerminalListOK
<1>13. OutboxType(m)
  <2>1. IsMap(m.records, Ids, EventRecords)
    <3>1. ASSUME NEW i \in DOMAIN o.records
          PROVE  discard_stale_record(o.records[i], epoch) \in EventRecords
      <4>1. o.records[i] \in EventRecords
        BY DEF OutboxType, IsMap
      <4>2. 0 \in Instants
        BY InstantAssumption DEF Instants
      <4> QED
        BY <4>1, <4>2
           DEF discard_stale_record, EventRecords, EventStates, ActiveStates, TerminalStates
    <3> QED
      BY <1>1, <3>1 DEF OutboxType, IsMap
  <2>2. IsMap(m.queue_by_id, Ids, Queues) /\ IsMap(m.retry_at_by_id, Ids, Instants)
    BY <1>1 DEF OutboxType, IsMap, RestrictTo
  <2> QED
    BY <1>1, <1>11, <2>1, <2>2 DEF OutboxType
<1> QED
  BY <1>6, <1>8, <1>9, <1>10, <1>12, <1>13, EvictOK DEF discard_stale, m

-----------------------------------------------------------------------------
(* What a call leaves of the records.                                       *)

\* From o to p no terminal record changes; it stays or is gone.
KeepsTerminal(o, p) ==
    \A id \in DOMAIN o.records :
        is_terminal(o.records[id]) => id \notin DOMAIN p.records \/ p.records[id] = o.records[id]

(* Eviction removes records and changes none.                               *)
LEMMA EvictKeepsTerminal ==
    ASSUME NEW o, NEW m, DOMAIN m = OutboxFields, KeepsTerminal(o, m)
    PROVE  KeepsTerminal(o, evict(m))
<1>1. evict(m).records = RestrictTo(m.records, DOMAIN m.records \ Oldest(m, Excess(m)))
  BY DEF evict, OutboxFields
<1>2. \A i \in DOMAIN evict(m).records : i \in DOMAIN m.records /\ evict(m).records[i] = m.records[i]
  BY <1>1 DEF RestrictTo
<1> QED
  BY <1>2 DEF KeepsTerminal

(* An update by a transition changes no terminal record.                    *)
LEMMA ReindexKeepsTerminal ==
    ASSUME NEW o, NEW id, NEW r, id \in DOMAIN o.records => KeepsRecord(o.records[id], r)
    PROVE  KeepsTerminal(o, reindex(o, id, r))
<1>1. DOMAIN refiled(o, id, r) = OutboxFields /\ refiled(o, id, r).records = Put(o.records, id, r)
  BY DEF refiled, OutboxFields
<1>2. KeepsTerminal(o, refiled(o, id, r))
  BY <1>1 DEF KeepsTerminal, KeepsRecord, Put
<1> QED
  BY <1>1, <1>2, EvictKeepsTerminal DEF reindex

(* What is left of the records after an update: those that were there, with *)
(* the new one in the place of the old.                                     *)
LEMMA ReindexedRecords ==
    ASSUME NEW o, NEW id, NEW r, NEW i \in DOMAIN reindex(o, id, r).records
    PROVE  /\ i = id => reindex(o, id, r).records[i] = r
           /\ i # id => i \in DOMAIN o.records /\ reindex(o, id, r).records[i] = o.records[i]
<1> DEFINE m == refiled(o, id, r)
<1>1. DOMAIN m = OutboxFields /\ m.records = Put(o.records, id, r)
  BY DEF refiled, OutboxFields
<1> HIDE DEF m
<1>2. evict(m).records = RestrictTo(m.records, DOMAIN m.records \ Oldest(m, Excess(m)))
  BY <1>1 DEF evict, OutboxFields
<1>3. i \in DOMAIN m.records /\ evict(m).records[i] = m.records[i]
  BY <1>2 DEF RestrictTo, reindex, m
<1> QED
  BY <1>1, <1>3 DEF Put, reindex, m

(* What an update does to the indexes that the runtime reads.               *)
LEMMA ReindexedIndexes ==
    ASSUME NEW o, NEW id, NEW r
    PROVE  /\ is_terminal(r) => /\ reindex(o, id, r).active = o.active \ {id}
                                /\ reindex(o, id, r).queue_by_id = Remove(o.queue_by_id, id)
           /\ ~ is_terminal(r) => /\ reindex(o, id, r).active = o.active \cup {id}
                                  /\ reindex(o, id, r).queue_by_id = o.queue_by_id
           /\ r.state # "Pending" => reindex(o, id, r).pending = o.pending \ {<<r.time, id>>}
<1> DEFINE m == refiled(o, id, r)
<1>1. /\ DOMAIN m = OutboxFields
      /\ m.active = IF is_terminal(r) THEN o.active \ {id} ELSE o.active \cup {id}
      /\ m.queue_by_id = IF is_terminal(r) THEN Remove(o.queue_by_id, id) ELSE o.queue_by_id
      /\ m.pending = (o.pending \ {<<r.time, id>>})
                     \cup (IF r.state = "Pending" THEN {<<r.time, id>>} ELSE {})
  BY DEF refiled, OutboxFields
<1> HIDE DEF m
<1>2. /\ evict(m).active = m.active
      /\ evict(m).queue_by_id = m.queue_by_id
      /\ evict(m).pending = m.pending
  BY <1>1 DEF evict, OutboxFields
<1> QED
  BY <1>1, <1>2 DEF reindex, m

(* An update that retires nothing evicts nothing.                           *)
LEMMA ReindexEvictsNothing ==
    ASSUME NEW o, OutboxType(o), TerminalIndexOK(o), NEW id, NEW r, ~ is_terminal(r)
    PROVE  /\ DOMAIN reindex(o, id, r).records = DOMAIN o.records \cup {id}
           /\ \A i \in DOMAIN o.records \cup {id} :
                 reindex(o, id, r).records[i] = IF i = id THEN r ELSE o.records[i]
<1> DEFINE m == refiled(o, id, r)
<1>1. DOMAIN m = OutboxFields /\ m.records = Put(o.records, id, r) /\ m.terminal = o.terminal
  BY DEF refiled, OutboxFields
<1> HIDE DEF m
<1>2. Excess(m) = 0
  BY <1>1, RetentionAssumption, LenProperties DEF Excess, TerminalIndexOK, OutboxType
<1>3. evict(m).records = RestrictTo(m.records, DOMAIN m.records \ Oldest(m, 0))
  BY <1>1, <1>2 DEF evict, OutboxFields
<1>4. Oldest(m, 0) = {}
  BY DEF Oldest
<1>5. /\ DOMAIN evict(m).records = DOMAIN m.records
      /\ \A i \in DOMAIN m.records : evict(m).records[i] = m.records[i]
  BY <1>3, <1>4 DEF RestrictTo
<1> QED
  BY <1>1, <1>5 DEF reindex, m, Put

(* What an enqueue adds to a consistent outbox.                             *)
LEMMA EnqueuedOne ==
    ASSUME NEW o, OutboxType(o), IndexOK(o), NEW id \in Ids, NEW q \in Queues,
           NEW epoch \in Nat, NEW time \in Instants, id \notin DOMAIN o.records
    PROVE  LET p == enqueue_in_queue(o, id, NewRecord(epoch, time), q)
           IN  /\ DOMAIN p.records = DOMAIN o.records \cup {id}
               /\ \A i \in DOMAIN o.records : p.records[i] = o.records[i]
               /\ p.records[id] = NewRecord(epoch, time)
               /\ p.active = o.active \cup {id}
               /\ p.queue_by_id = Put(o.queue_by_id, id, q)
<1> DEFINE r == NewRecord(epoch, time)
           b == [o EXCEPT !.queue_by_id = Put(o.queue_by_id, id, q)]
<1>1. ~ is_terminal(r)
  BY DEF NewRecord, TerminalStates, is_terminal
<1>2. /\ DOMAIN b = OutboxFields
      /\ b.queue_by_id = Put(o.queue_by_id, id, q)
      /\ b.records = o.records
      /\ b.pending = o.pending
      /\ b.pending_by_queue = o.pending_by_queue
      /\ b.retrying = o.retrying
      /\ b.retry_at_by_id = o.retry_at_by_id
      /\ b.active = o.active
      /\ b.terminal = o.terminal
      /\ b.evicted = o.evicted
  BY DEF OutboxType, OutboxFields
<1>3. enqueue_in_queue(o, id, r, q) = reindex(b, id, r)
  BY DEF enqueue_in_queue
<1> HIDE DEF b, r
<1>4. IsMap(b.queue_by_id, Ids, Queues)
  BY <1>2 DEF OutboxType, IsMap, Put
<1>5. OutboxType(b) /\ TerminalIndexOK(b)
  BY <1>2, <1>4 DEF OutboxType, IndexOK, TerminalIndexOK
<1>6. /\ reindex(b, id, r).active = o.active \cup {id}
      /\ reindex(b, id, r).queue_by_id = Put(o.queue_by_id, id, q)
  BY <1>1, <1>2, ReindexedIndexes
<1>7. /\ DOMAIN reindex(b, id, r).records = DOMAIN o.records \cup {id}
      /\ \A i \in DOMAIN o.records \cup {id} :
            reindex(b, id, r).records[i] = IF i = id THEN r ELSE o.records[i]
  BY <1>1, <1>2, <1>5, ReindexEvictsNothing
<1> QED
  BY <1>3, <1>6, <1>7 DEF r

(* What discarding the records of older epochs leaves.                      *)
LEMMA DiscardedRecords ==
    ASSUME NEW o, NEW epoch, NEW order
    PROVE  LET p == discard_stale(o, epoch, order)
           IN  /\ p.active = o.active \ StaleIds(o, epoch)
               /\ \A i \in DOMAIN p.records :
                     /\ i \in DOMAIN o.records
                     /\ p.records[i] = discard_stale_record(o.records[i], epoch)
<1> DEFINE m == all_discarded(o, epoch, order)
<1>1. /\ DOMAIN m = OutboxFields
      /\ m.active = o.active \ StaleIds(o, epoch)
      /\ m.records = [i \in DOMAIN o.records |-> discard_stale_record(o.records[i], epoch)]
  BY DEF all_discarded, OutboxFields
<1> HIDE DEF m
<1>2. /\ evict(m).active = m.active
      /\ evict(m).records = RestrictTo(m.records, DOMAIN m.records \ Oldest(m, Excess(m)))
  BY <1>1 DEF evict, OutboxFields
<1> QED
  BY <1>1, <1>2 DEF RestrictTo, discard_stale, m

(* The outbox that a session starts with is consistent.                     *)
LEMMA EmptyOutboxOK == OutboxType(EmptyOutbox) /\ IndexOK(EmptyOutbox)
<1> DEFINE o == EmptyOutbox
<1>1. /\ DOMAIN o = OutboxFields
      /\ o.records = EmptyMap
      /\ o.pending = {}
      /\ o.pending_by_queue = [q \in Queues |-> {}]
      /\ o.queue_by_id = EmptyMap
      /\ o.retrying = {}
      /\ o.retry_at_by_id = EmptyMap
      /\ o.active = {}
      /\ o.terminal = <<>>
      /\ o.evicted = 0
  BY DEF EmptyOutbox, OutboxFields
<1> HIDE DEF o
<1>2. DOMAIN EmptyMap = {} /\ \A R : EmptyMap \in [{} -> R]
  BY DEF EmptyMap
<1>3. o.terminal \in Seq(Ids) /\ Len(o.terminal) = 0
  BY <1>1
<1>4. OutboxType(o)
  BY <1>1, <1>2, <1>3 DEF OutboxType, IsMap
<1>5. ActiveIndexOK(o) /\ InState(o, "Pending") = {} /\ InState(o, "RetryWaiting") = {}
  BY <1>1, <1>2 DEF ActiveIndexOK, InState
<1>6. PendingIndexOK(o) /\ QueueIndexOK(o) /\ RetryIndexOK(o)
  BY <1>1, <1>2, <1>5 DEF PendingIndexOK, QueueIndexOK, RetryIndexOK, KeysOf
<1>7. TerminalIndexOK(o)
  BY <1>1, <1>2, <1>3, RetentionAssumption DEF TerminalIndexOK
<1> QED
  BY <1>4, <1>5, <1>6, <1>7 DEF IndexOK, o
==============================================================================
