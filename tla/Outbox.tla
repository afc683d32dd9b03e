------------------------------- MODULE Outbox -------------------------------
(***************************************************************************)
(* The outbox on its own: any caller, any order of calls.                   *)
(***************************************************************************)
EXTENDS OutboxState

CONSTANTS Policy,        \* the retry policy the caller passes to `fail`
          MaxEpoch,      \* bound: session epochs that occur
          MaxEvictions   \* bound: enqueues stop once this many were evicted

ASSUME PolicyAssumption == IsRetryPolicy(Policy)
\* A product of naturals, which the provers cannot see for a power of two.
ASSUME BackoffAssumption == \A a \in Attempts : backoff_for_attempt(Policy, a) \in Nat
ASSUME OutboxBoundsAssumption == MaxEpoch \in Nat /\ MaxEvictions \in Nat

VARIABLES outbox,     \* the Outbox
          failures    \* history: failed attempts of each record since it was enqueued

vars == <<outbox, failures>>

Init == outbox = EmptyOutbox /\ failures = [i \in Ids |-> 0]

Enqueue(id, queue, epoch, time) ==
    /\ id \notin DOMAIN outbox.records
    /\ outbox.evicted < MaxEvictions
    /\ outbox' = enqueue_in_queue(outbox, id, NewRecord(epoch, time), queue)
    /\ failures' = [failures EXCEPT ![id] = 0]

\* `update` with a closure that turns the record of id into r.
Update(id, r) == outbox' = reindex(outbox, id, r)

Record(id) == outbox.records[id]

Lease(id) == Update(id, lease(Record(id))) /\ UNCHANGED failures

Start(id) == Update(id, start(Record(id))) /\ UNCHANGED failures

Succeed(id) == Update(id, succeed(Record(id))) /\ UNCHANGED failures

Fail(id, now) ==
    /\ Update(id, fail(Record(id), Policy, now))
    /\ failures' = [failures EXCEPT ![id] =
                       IF fail(Record(id), Policy, now) # Record(id) THEN @ + 1 ELSE @]

Interrupt(id) == Update(id, interrupt(Record(id))) /\ UNCHANGED failures

RetryDue(id, now) == Update(id, retry_due(Record(id), now)) /\ UNCHANGED failures

Cancel(id) == Update(id, cancel(Record(id))) /\ UNCHANGED failures

DiscardStale(epoch) ==
    /\ \E order \in IncreasingSeqs(StaleIds(outbox, epoch)) :
          outbox' = discard_stale(outbox, epoch, order)
    /\ UNCHANGED failures

Next ==
    \/ \E id \in Ids, q \in Queues, e \in 0 .. MaxEpoch, t \in Instants : Enqueue(id, q, e, t)
    \/ \E id \in DOMAIN outbox.records :
          \/ Lease(id)
          \/ Start(id)
          \/ Succeed(id)
          \/ \E now \in Instants : Fail(id, now)
          \/ Interrupt(id)
          \/ \E now \in Instants : RetryDue(id, now)
          \/ Cancel(id)
    \/ \E epoch \in 0 .. MaxEpoch : DiscardStale(epoch)

Spec == Init /\ [][Next]_vars

-----------------------------------------------------------------------------
(* What the component promises.                                             *)

\* Every component of the outbox and of the history has its type.
TypeOK == OutboxType(outbox) /\ failures \in [Ids -> Nat]

(* After any sequence of calls every index lists exactly the records whose  *)
(* state it stands for: nothing pending is invisible to dispatch, no timer  *)
(* of a record that left RetryWaiting survives, no record is retired twice, *)
(* at most `TerminalRetention` terminal records are kept, and the `expect`  *)
(* of `reindex` (an active record has a queue) never fails.                 *)
IndexesAgree == IndexOK(outbox)

(* INV-EVENT-001: a terminal record never changes again, it can only leave. *)
TerminalNeverRegresses ==
    [][\A id \in DOMAIN outbox.records :
          is_terminal(outbox.records[id]) =>
             \/ id \notin DOMAIN outbox'.records
             \/ outbox'.records[id] = outbox.records[id]]_vars

(* The retry budget counts failed attempts and only those: interrupted      *)
(* attempts are given back however often they happen, and no record is      *)
(* dead-lettered before its failures have used up the policy's attempts.    *)
RetryBudget ==
    \A id \in DOMAIN outbox.records :
        LET r == outbox.records[id] IN
        /\ r.state \in {"Pending", "Leased", "RetryWaiting"} => r.attempt = failures[id]
        /\ r.state = "Running" => r.attempt = failures[id] + 1
        /\ r.state = "DeadLettered" => failures[id] >= Policy.max_attempts

\* discard_stale as the code runs it, one update after the other: an id that is still there, ...
DiscardNext(p, epoch, id) ==
    IF id \in DOMAIN p.records
    THEN reindex(p, id, discard_stale_record(p.records[id], epoch)) ELSE p

\* ... for every id of the list.
IteratedDiscard(o, epoch, order) ==
    LET after[n \in 0 .. Len(order)] ==
            IF n = 0 THEN o ELSE DiscardNext(after[n - 1], epoch, order[n])
    IN  after[Len(order)]

(* The closed form of `discard_stale` and the loop of updates over all the  *)
(* active ids (the ones that are not stale included) give the same outbox.  *)
DiscardIsTheLoop ==
    \A epoch \in 0 .. MaxEpoch :
        \A order \in IncreasingSeqs(StaleIds(outbox, epoch)),
            loop \in IncreasingSeqs(outbox.active) :
            discard_stale(outbox, epoch, order) = IteratedDiscard(outbox, epoch, loop)
=============================================================================
