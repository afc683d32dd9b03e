-------------------------- MODULE SubscriptionState --------------------------
(***************************************************************************)
(* The delivery state of one subscription, from                             *)
(* crates/fireemu-core-pubsub/src/subscription.rs: the log of retained      *)
(* messages, the cursor behind which everything is acknowledged and the     *)
(* index from ack id to log position.  The operators are the methods of     *)
(* SubscriptionState as functions of that state; module PubSubDelivery      *)
(* calls them under the locks the adapter holds.                            *)
(*                                                                          *)
(* Positions start at 1.  The byte bound of the retention check is not      *)
(* modelled beside the entry bound: both go through the same reclaim.       *)
(***************************************************************************)
EXTENDS Integers, Sequences, FiniteSets

CONSTANTS Keys,          \* ordering keys
          NoKey,         \* the empty ordering key
          AckDeadline,   \* ack_deadline_seconds, in ticks of the clock
          PushMinimum    \* push_minimum_redelivery_interval

ASSUME DeadlineAssumption == AckDeadline \in Nat \ {0} /\ PushMinimum \in Nat
ASSUME KeyAssumption == NoKey \notin Keys

NoLimit == 0             \* no dead-letter policy

\* SubscriptionConfig, as far as delivery reads it.  limit is the dead-letter policy's
\* max_delivery_attempts, retry the retry policy's <<minimum, maximum>> backoff.
IsConfig(c) ==
    c \in [ordered : BOOLEAN, push : BOOLEAN, separate : BOOLEAN, limit : Nat,
           retain : Nat \ {0}, retry : {<<>>} \cup (Nat \X Nat)]

EmptySub == [entries |-> <<>>, first_unacked |-> 1, outstanding |-> [a \in {} |-> 0]]

Acked(e) == e.state = "Acked"
Positions(s) == s.first_unacked .. Len(s.entries)
Ids(entries) == {entries[i].msg.id : i \in DOMAIN entries}
Unacked(entries) == {i \in DOMAIN entries : ~Acked(entries[i])}
UnackedIds(entries) == {entries[i].msg.id : i \in Unacked(entries)}

\* The positions of a set, in order, and what a log keeps when it retains only those.
InOrder(S) ==
    CHOOSE p \in [1 .. Cardinality(S) -> S] : \A m, n \in DOMAIN p : m < n => p[m] < p[n]
Retain(log, S) == [n \in 1 .. Cardinality(S) |-> log[InOrder(S)[n]]]

Available(msg, at, attempt) ==
    [msg |-> msg, state |-> "Available", at |-> at, ack |-> 0, attempt |-> attempt]
MadeAvailable(e, at) == [e EXCEPT !.state = "Available", !.at = at, !.ack = 0]
MadeAcked(e) == [e EXCEPT !.state = "Acked", !.at = 0, !.ack = 0]

\* The delay before the next attempt: doubled once per attempt made, at most the maximum.
redelivery_backoff(c, attempt) ==
    LET least == c.retry[1]
        most  == c.retry[2]
        doubled == least * 2 ^ (attempt - 1)
    IN  CASE c.retry = <<>> -> IF c.push THEN PushMinimum ELSE 0
          [] c.retry # <<>> /\ (least = 0 \/ most = 0) -> 0
          [] c.retry # <<>> /\ least > 0 /\ most > 0 ->
                IF attempt <= 1 THEN least
                ELSE IF doubled < most THEN doubled ELSE IF least > most THEN least ELSE most

\* The first position at or after `from` that is not acknowledged.
FirstUnacked(entries, from) ==
    LET live == {i \in from .. Len(entries) : ~Acked(entries[i])}
    IN  IF live = {} THEN Len(entries) + 1
        ELSE CHOOSE i \in live : \A j \in live : i <= j

Leased(entries) == {i \in DOMAIN entries : entries[i].state = "Outstanding"}

rebuild_indexes(entries) ==
    [entries       |-> entries,
     first_unacked |-> FirstUnacked(entries, 1),
     outstanding   |-> [a \in {entries[i].ack : i \in Leased(entries)} |->
                          CHOOSE i \in Leased(entries) : entries[i].ack = a]]

advance_first_unacked(s) == [s EXCEPT !.first_unacked = FirstUnacked(s.entries, @)]

Unindex(s, acks) ==
    [s EXCEPT !.outstanding = [a \in DOMAIN @ \ acks |-> @[a]]]

\* Mutant of reclaim_acked_entries: the positions of the leases are kept.
reclaim_without_rebuild(s) ==
    [s EXCEPT !.entries = Retain(@, Unacked(@)), !.first_unacked = 1]

reclaim_acked_entries(s) == rebuild_indexes(Retain(s.entries, Unacked(s.entries)))

AckedCount(s) == Cardinality({i \in DOMAIN s.entries : Acked(s.entries[i])})

\* Whether one more message fits, once the acknowledged entries are reclaimed.
ensure_enqueue_capacity(c, s) == Len(s.entries) - AckedCount(s) + 1 <= c.retain

enqueue(c, s, msg, now) ==
    LET roomy == IF Len(s.entries) >= c.retain /\ AckedCount(s) > 0
                 THEN reclaim_acked_entries(s) ELSE s
    IN  [roomy EXCEPT !.entries = Append(@, Available(msg, now, 0))]

-----------------------------------------------------------------------------
(* Selection: which entries one pull leases and which it reserves for the   *)
(* dead-letter topic.  The code walks the log once, collecting blocked keys *)
(* and emitted keys; here the same choice is stated entry by entry.         *)

Deliverable(e, now) == e.state = "Available" /\ e.at <= now

Exhausted(c, authorized, e) == authorized /\ c.limit # NoLimit /\ e.attempt >= c.limit

Key(s, i) == s.entries[i].msg.key

\* Mutant of Keyed: the ordering key is ignored.
NeverKeyed(c, s, i) == FALSE

\* The entry takes part in ordering.
Keyed(c, s, i) == c.ordered /\ Key(s, i) # NoKey

\* While an unkeyed message is deliverable, a separating pull returns only those.
unkeyed_only(c, s, now, authorized) ==
    /\ c.ordered /\ c.separate
    /\ \E i \in Positions(s) : /\ Key(s, i) = NoKey
                               /\ Deliverable(s.entries[i], now)
                               /\ ~Exhausted(c, authorized, s.entries[i])

Considered(c, s, now, authorized) ==
    {i \in Positions(s) : /\ ~Acked(s.entries[i])
                          /\ unkeyed_only(c, s, now, authorized) => Key(s, i) = NoKey}

\* Mutant of HoldsSuccessors: a redelivery lets its successors go with it.
HoldsUndeliverable(c, s, i, now, authorized) ==
    LET e == s.entries[i]
    IN  ~Deliverable(e, now) \/ Exhausted(c, authorized, e) \/ c.push

\* Mutant of HoldsSuccessors: an entry reserved for the dead-letter topic holds nothing.
HoldsUnlessReserved(c, s, i, now, authorized) ==
    LET e == s.entries[i]
    IN  e.state # "ForwardPending"
        /\ (~Deliverable(e, now) \/ Exhausted(c, authorized, e) \/ c.push \/ e.attempt > 0)

\* Entry i keeps the later entries of its key back.
HoldsSuccessors(c, s, i, now, authorized) ==
    LET e == s.entries[i]
    IN  ~Deliverable(e, now) \/ Exhausted(c, authorized, e) \/ c.push \/ e.attempt > 0

Predecessors(c, s, i, now, authorized) ==
    {j \in Considered(c, s, now, authorized) : j < i /\ Keyed(c, s, i) /\ Key(s, j) = Key(s, i)}

Reached(c, s, now, authorized) ==
    {i \in Considered(c, s, now, authorized) :
        \A j \in Predecessors(c, s, i, now, authorized) : ~HoldsSuccessors(c, s, j, now, authorized)}

Selectable(c, s, now, authorized) ==
    {i \in Reached(c, s, now, authorized) :
        Deliverable(s.entries[i], now) /\ ~Exhausted(c, authorized, s.entries[i])}

Before(S, i) == Cardinality({j \in S : j < i})

selected(c, s, now, authorized, max) ==
    LET able == Selectable(c, s, now, authorized)
    IN  {i \in able : Before(able, i) < max}

\* An exhausted entry waits while a predecessor of its key is emitted by the same pull.
forwarded(c, s, now, authorized, max) ==
    LET able == Selectable(c, s, now, authorized)
    IN  {i \in Reached(c, s, now, authorized) :
            /\ Deliverable(s.entries[i], now) /\ Exhausted(c, authorized, s.entries[i])
            /\ Before(able, i) < max
            /\ Predecessors(c, s, i, now, authorized) \cap able = {}}

\* A pull that may not forward gives the reserved entries back to source delivery.
release_forwards(s, authorized, now) ==
    [s EXCEPT !.entries = [i \in DOMAIN @ |->
        IF ~authorized /\ @[i].state = "ForwardPending" THEN MadeAvailable(@[i], now) ELSE @[i]]]

\* Leases the selected entries under the ack ids next, next + 1, ... and reserves the
\* exhausted ones.
pull_commit(c, s, now, authorized, max, next) ==
    LET take == selected(c, s, now, authorized, max)
        out  == forwarded(c, s, now, authorized, max)
        ackOf(i) == next + Before(take, i)
        leases == [a \in {ackOf(i) : i \in take} |-> CHOOSE i \in take : ackOf(i) = a]
        entries == [i \in DOMAIN s.entries |->
            IF i \in take
            THEN [s.entries[i] EXCEPT !.state = "Outstanding", !.ack = ackOf(i),
                                      !.at = now + AckDeadline, !.attempt = @ + 1]
            ELSE IF i \in out
            THEN [s.entries[i] EXCEPT !.state = "ForwardPending", !.at = 0] ELSE s.entries[i]]
    IN  advance_first_unacked(
            [s EXCEPT !.entries = entries,
                      !.outstanding = [a \in DOMAIN @ \cup DOMAIN leases |->
                                          IF a \in DOMAIN leases THEN leases[a] ELSE @[a]]])

-----------------------------------------------------------------------------
\* Mutant of expire_deadlines: the lease stays in the index.
expire_entries_only(c, s, now) ==
    LET lapsed == {a \in DOMAIN s.outstanding : s.entries[s.outstanding[a]].at <= now}
        hit == {s.outstanding[a] : a \in lapsed}
    IN  [s EXCEPT !.entries = [i \in DOMAIN @ |->
            IF i \in hit THEN MadeAvailable(@[i], now + redelivery_backoff(c, @[i].attempt)) ELSE @[i]]]

expire_deadlines(c, s, now) ==
    LET lapsed == {a \in DOMAIN s.outstanding : s.entries[s.outstanding[a]].at <= now}
        hit == {s.outstanding[a] : a \in lapsed}
    IN  Unindex([s EXCEPT !.entries = [i \in DOMAIN @ |->
            IF i \in hit THEN MadeAvailable(@[i], now + redelivery_backoff(c, @[i].attempt)) ELSE @[i]]],
            lapsed)

acknowledge(s, ack) ==
    IF ack \in DOMAIN s.outstanding
    THEN advance_first_unacked(Unindex([s EXCEPT !.entries[s.outstanding[ack]] = MadeAcked(@)], {ack}))
    ELSE s

\* Zero seconds is a nack.
modify_ack_deadline(c, s, ack, seconds, now) ==
    LET i == s.outstanding[ack]
    IN  IF ack \notin DOMAIN s.outstanding THEN s
        ELSE IF seconds = 0
        THEN Unindex([s EXCEPT !.entries[i] =
                 MadeAvailable(@, now + redelivery_backoff(c, @.attempt))], {ack})
        ELSE [s EXCEPT !.entries[i].at = now + seconds]

pending_forwards(s) == {i \in DOMAIN s.entries : s.entries[i].state = "ForwardPending"}

complete_forward(s, id) ==
    LET at == {i \in pending_forwards(s) : s.entries[i].msg.id = id}
    IN  IF at = {} THEN s
        ELSE advance_first_unacked([s EXCEPT !.entries[CHOOSE i \in at : TRUE] = MadeAcked(@)])

resume_forward(s, id, now) ==
    [s EXCEPT !.entries = [i \in DOMAIN @ |->
        IF i \in pending_forwards(s) /\ @[i].msg.id = id THEN MadeAvailable(@[i], now) ELSE @[i]]]

seek_to_time(s, time, now) ==
    rebuild_indexes([i \in DOMAIN s.entries |->
        IF s.entries[i].msg.time < time THEN MadeAcked(s.entries[i])
        ELSE Available(s.entries[i].msg, now, 0)])

-----------------------------------------------------------------------------
(* Snapshots.  A snapshot holds the retained and the unacknowledged ids and *)
(* the messages themselves, in log order.                                   *)

capture(s, now) ==
    [created  |-> now,
     retained |-> Ids(s.entries),
     unacked  |-> UnackedIds(s.entries),
     messages |-> [i \in DOMAIN s.entries |-> s.entries[i].msg]]

\* A later publication to the topic joins every live snapshot.
retain_snapshot_publication(snap, msg) ==
    [snap EXCEPT !.retained = @ \cup {msg.id}, !.unacked = @ \cup {msg.id},
                 !.messages = Append(@, msg)]

\* The captured messages the log no longer holds.
missing_messages(s, snap) ==
    LET out(m) == m.id \in snap.retained /\ m.id \notin Ids(s.entries)
    IN  Retain(snap.messages, {i \in DOMAIN snap.messages : out(snap.messages[i])})

must_reclaim(c, s, snap) == Len(s.entries) + Len(missing_messages(s, snap)) > c.retain

can_restore(c, s, snap) ==
    must_reclaim(c, s, snap) =>
        Len(s.entries) - AckedCount(s) + Len(missing_messages(s, snap)) <= c.retain

\* Published after the snapshot, and not a member of it.
Later(snap, msg) == msg.id \notin snap.retained /\ msg.time >= snap.created

\* Mutant of Replayed: only the backlog the snapshot recorded.
ReplayedBacklog(snap, msg) == msg.id \in snap.unacked /\ msg.time < snap.created

Replayed(snap, msg) == msg.id \in snap.unacked \/ Later(snap, msg)

insertion_index(entries, snap) ==
    LET after == {i \in DOMAIN entries : Later(snap, entries[i].msg)}
    IN  IF after = {} THEN Len(entries) + 1 ELSE CHOOSE i \in after : \A j \in after : i <= j

seek_to_snapshot(c, s, snap, now) ==
    LET missing == missing_messages(s, snap)
        kept == IF must_reclaim(c, s, snap) THEN reclaim_acked_entries(s).entries ELSE s.entries
        at   == insertion_index(kept, snap)
        all  == SubSeq(kept, 1, at - 1)
                \o [i \in DOMAIN missing |-> Available(missing[i], now, 0)]
                \o SubSeq(kept, at, Len(kept))
    IN  rebuild_indexes([i \in DOMAIN all |->
            IF Replayed(snap, all[i].msg) THEN Available(all[i].msg, now, 0)
            ELSE MadeAcked(all[i])])

-----------------------------------------------------------------------------
(* What the push dispatcher reads.                                          *)

NoInstant == -1

\* Mutant of Heads: every entry counts, whatever its key waits for.
AllUnacked(c, s) == {i \in Positions(s) : ~Acked(s.entries[i])}

\* The entries no earlier entry of the same key stands before.
Heads(c, s) ==
    {i \in Positions(s) : /\ ~Acked(s.entries[i])
                          /\ Keyed(c, s, i) => \A j \in Positions(s) :
                                j < i /\ Key(s, j) = Key(s, i) => Acked(s.entries[j])}

next_available_at(c, s) ==
    LET instants == {s.entries[i].at : i \in {j \in Heads(c, s) : s.entries[j].state = "Available"}}
    IN  IF instants = {} THEN NoInstant ELSE CHOOSE t \in instants : \A u \in instants : t <= u
=============================================================================
