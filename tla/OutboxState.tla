----------------------------- MODULE OutboxState -----------------------------
(***************************************************************************)
(* The event container of crates/fireemu-core-events/src/outbox.rs: the     *)
(* records of a session and the seven indexes dispatch, the retry sweep and *)
(* the idle fence read instead of scanning the records.  The operators are  *)
(* the methods of Outbox as functions of its state, so that module Outbox   *)
(* can call them in any order and FunctionsRuntime can compose them inside  *)
(* one critical section.                                                    *)
(***************************************************************************)
EXTENDS Integers, Sequences, FiniteSets, EventRecord

CONSTANTS Ids,                \* event ids, naturals: their order breaks ties
          Queues,             \* dispatch queues (function names)
          TerminalRetention   \* terminal records kept

ASSUME IdsAssumption == Ids \subseteq Nat /\ IsFiniteSet(Ids)
ASSUME RetentionAssumption == TerminalRetention \in Nat \ {0}

EmptyMap == [i \in {} |-> i]

RestrictTo(f, S) == [x \in DOMAIN f \cap S |-> f[x]]

EmptyOutbox ==
    [records          |-> EmptyMap,
     pending          |-> {},
     pending_by_queue |-> [q \in Queues |-> {}],
     queue_by_id      |-> EmptyMap,
     retrying         |-> {},
     retry_at_by_id   |-> EmptyMap,
     active           |-> {},
     terminal         |-> <<>>,
     evicted          |-> 0]

\* A pending or retrying key: an instant, then the event id.
Keys == Instants \X Ids

KeyBefore(a, b) == a[1] < b[1] \/ (a[1] = b[1] /\ a[2] < b[2])

\* How many terminal records are beyond the retention window.
Excess(o) == IF Len(o.terminal) > TerminalRetention
             THEN Len(o.terminal) - TerminalRetention ELSE 0

\* The n records that became terminal first.
Oldest(o, n) == {o.terminal[i] : i \in 1 .. n}

\* Drops the oldest terminal records beyond the retention window.
evict(o) ==
    [o EXCEPT !.terminal = SubSeq(o.terminal, Excess(o) + 1, Len(o.terminal)),
              !.records  = RestrictTo(o.records, DOMAIN o.records \ Oldest(o, Excess(o))),
              !.evicted  = @ + Excess(o)]

Put(f, x, v) == [y \in DOMAIN f \cup {x} |-> IF y = x THEN v ELSE f[y]]

Remove(f, x) == RestrictTo(f, DOMAIN f \ {x})

\* Mutant of cleared_retrying: a record that leaves RetryWaiting keeps its timer.
kept_retrying(o, id) == o.retrying

\* `retrying` without the timer that retry_at_by_id records for id.
cleared_retrying(o, id) ==
    {k \in o.retrying : id \in DOMAIN o.retry_at_by_id => k # <<o.retry_at_by_id[id], id>>}

(* Stores r as the record of id and moves id to the index its state belongs *)
(* to.  A record enters `terminal` only on the step that takes it out of    *)
(* `active`.                                                                *)
refiled(o, id, r) ==
    LET key       == <<r.time, id>>
        keyed     == IF r.state = "Pending" THEN {key} ELSE {}
        owns(q)   == id \in DOMAIN o.queue_by_id /\ o.queue_by_id[id] = q
        waits     == r.state = "RetryWaiting"
        retires   == is_terminal(r) /\ id \in o.active
    IN  [records          |-> Put(o.records, id, r),
         pending          |-> (o.pending \ {key}) \cup keyed,
         pending_by_queue |-> [q \in Queues |->
                                 IF owns(q) THEN (o.pending_by_queue[q] \ {key}) \cup keyed
                                 ELSE o.pending_by_queue[q]],
         queue_by_id      |-> IF is_terminal(r) THEN Remove(o.queue_by_id, id)
                              ELSE o.queue_by_id,
         retrying         |-> cleared_retrying(o, id)
                              \cup (IF waits THEN {<<r.retry_at, id>>} ELSE {}),
         retry_at_by_id   |-> IF waits THEN Put(o.retry_at_by_id, id, r.retry_at)
                              ELSE Remove(o.retry_at_by_id, id),
         active           |-> IF is_terminal(r) THEN o.active \ {id} ELSE o.active \cup {id},
         terminal         |-> IF retires THEN Append(o.terminal, id) ELSE o.terminal,
         evicted          |-> o.evicted]

\* `update` and `reindex`: files the record, then evicts.
reindex(o, id, r) == evict(refiled(o, id, r))

\* Appends a pending event; a duplicate id is refused and changes nothing.
enqueue_in_queue(o, id, r, queue) ==
    IF id \in DOMAIN o.records THEN o
    ELSE reindex([o EXCEPT !.queue_by_id = Put(@, id, queue)], id, r)

\* Mutant of StaleIds: the current epoch counts as stale.
StaleIds_inclusive(o, epoch) == {i \in o.active : o.records[i].epoch <= epoch}

\* Non-terminal records of an epoch older than the current one.
StaleIds(o, epoch) == {i \in o.active : o.records[i].epoch < epoch}

\* The one increasing enumeration of a finite set of ids.
IncreasingSeqs(S) ==
    {s \in [1 .. Cardinality(S) -> S] :
        /\ \A i, j \in 1 .. Cardinality(S) : i < j => s[i] < s[j]
        /\ \A x \in S : \E i \in 1 .. Cardinality(S) : s[i] = x}

(* The loop of `discard_stale` over the active ids in id order, in closed   *)
(* form: `order` enumerates the stale ids, all of them retire in that order *)
(* and evicting after each is evicting once at the end.                     *)
all_discarded(o, epoch, order) ==
    LET stale == StaleIds(o, epoch)
        live(keys) == {k \in keys : k[2] \notin stale}
    IN  [records          |-> [i \in DOMAIN o.records |->
                                 discard_stale_record(o.records[i], epoch)],
         pending          |-> live(o.pending),
         pending_by_queue |-> [q \in Queues |-> live(o.pending_by_queue[q])],
         queue_by_id      |-> RestrictTo(o.queue_by_id, DOMAIN o.queue_by_id \ stale),
         retrying         |-> live(o.retrying),
         retry_at_by_id   |-> RestrictTo(o.retry_at_by_id, DOMAIN o.retry_at_by_id \ stale),
         active           |-> o.active \ stale,
         terminal         |-> o.terminal \o order,
         evicted          |-> o.evicted]

discard_stale(o, epoch, order) == evict(all_discarded(o, epoch, order))

\* Mutant of retries_due: a timer at this very instant is not due.
retries_overdue(o, now) == {k[2] : k \in {k \in o.retrying : k[1] < now}}

\* Retry-waiting events whose timer has elapsed at `now`.
retries_due(o, now) == {k[2] : k \in {k \in o.retrying : k[1] <= now}}

\* The first pending key of each nonempty queue.
dispatchable_queue_heads(o) ==
    {k \in UNION {o.pending_by_queue[q] : q \in Queues} :
        \E q \in Queues : /\ k \in o.pending_by_queue[q]
                          /\ \A l \in o.pending_by_queue[q] \ {k} : KeyBefore(k, l)}

\* What follows `after` in one queue: a set of at most one key.
next_dispatchable_in_queue(o, queue, after) ==
    LET later == {k \in o.pending_by_queue[queue] : KeyBefore(after, k)}
    IN  {k \in later : \A l \in later \ {k} : KeyBefore(k, l)}

has_active(o) == o.active # {}

-----------------------------------------------------------------------------
(* What every state of the container satisfies. *)

IsMap(f, D, R) == DOMAIN f \subseteq D /\ f \in [DOMAIN f -> R]

OutboxFields == {"records", "pending", "pending_by_queue", "queue_by_id", "retrying",
                 "retry_at_by_id", "active", "terminal", "evicted"}

OutboxType(o) ==
    /\ DOMAIN o = OutboxFields
    /\ IsMap(o.records, Ids, EventRecords)
    /\ o.pending \in SUBSET Keys
    /\ o.pending_by_queue \in [Queues -> SUBSET Keys]
    /\ IsMap(o.queue_by_id, Ids, Queues)
    /\ o.retrying \in SUBSET Keys
    /\ IsMap(o.retry_at_by_id, Ids, Instants)
    /\ o.active \in SUBSET Ids
    /\ o.terminal \in Seq(Ids)
    /\ o.evicted \in Nat

InState(o, s) == {i \in DOMAIN o.records : o.records[i].state = s}

KeysOf(o, S) == {k \in Keys : k[2] \in S /\ k[1] = o.records[k[2]].time}

ActiveIndexOK(o) == o.active = {i \in DOMAIN o.records : ~ is_terminal(o.records[i])}

PendingIndexOK(o) == o.pending = KeysOf(o, InState(o, "Pending"))

QueueIndexOK(o) ==
    /\ DOMAIN o.queue_by_id = o.active
    /\ \A q \in Queues :
          o.pending_by_queue[q] =
              KeysOf(o, {i \in InState(o, "Pending") : o.queue_by_id[i] = q})

RetryIndexOK(o) ==
    /\ DOMAIN o.retry_at_by_id = InState(o, "RetryWaiting")
    /\ \A i \in InState(o, "RetryWaiting") : o.retry_at_by_id[i] = o.records[i].retry_at
    /\ o.retrying = {k \in Keys : /\ k[2] \in InState(o, "RetryWaiting")
                                  /\ k[1] = o.records[k[2]].retry_at}

TerminalIndexOK(o) ==
    /\ Len(o.terminal) <= TerminalRetention
    /\ {o.terminal[k] : k \in 1 .. Len(o.terminal)}
          = {i \in DOMAIN o.records : is_terminal(o.records[i])}
    /\ \A j, k \in 1 .. Len(o.terminal) : o.terminal[j] = o.terminal[k] => j = k

IndexOK(o) ==
    /\ ActiveIndexOK(o)
    /\ PendingIndexOK(o)
    /\ QueueIndexOK(o)
    /\ RetryIndexOK(o)
    /\ TerminalIndexOK(o)
=============================================================================
